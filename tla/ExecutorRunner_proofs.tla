------------------------- MODULE ExecutorRunner_proofs -------------------------
(***************************************************************************)
(* The transaction runner for any slots, runs and number of attempts: the  *)
(* runner's view of an attempt is never more than the backend's, so slots  *)
(* are leased again only when nothing runs behind them, and callers are    *)
(* told the truth.                                                         *)
(***************************************************************************)
EXTENDS ExecutorRunner, TLAPS

(* Attempts run one after the other, and another one starts only after a    *)
(* rollback.                                                                *)
Past(r) ==
  \A k \in 1..MaxAttempts :
    /\ k < run[r].attempt => txn[r][k] = "rolledback"
    /\ k > run[r].attempt => txn[r][k] = "none"

(* What the runner knows of its attempts is what the backend did.           *)
Knows(r) ==
  /\ run[r].attempt = 0 <=> run[r].slot = None
  /\ run[r].promise = "committed" => Current(r) = "committed"
  /\ run[r].promise \in Causes => Current(r) = "rolledback"
  /\ run[r].ask = "rollback" => run[r].cause \in Causes

Attempts(r) == Past(r) /\ Knows(r)

(* What a caller was told is what the last attempt did.                     *)
Told(r) ==
  /\ run[r].outcome # None => run[r].stage \in {"finishing", "done"}
  /\ run[r].outcome = "success" => Current(r) = "committed"
  /\ run[r].outcome = "domain"  => Current(r) = "rolledback"
  /\ run[r].outcome \in {"success", "domain"} => run[r].slot # None

(* A lease is held by its run, and a slot that is given back in service has *)
(* nothing running behind it.                                               *)
Holds(r) ==
  /\ run[r].stage = "new" => run[r].slot = None
  /\ Leased(r) => run[r].slot # None /\ slot[run[r].slot].lease = r
  /\ "EPIPE" \notin TransportCodes /\ run[r].stage = "done" /\ run[r].slot # None
       => slot[run[r].slot].disabled \/ Current(r) # "active"

Held(s) ==
  /\ slot[s].lease # None => Leased(slot[s].lease) /\ run[slot[s].lease].slot = s
  /\ slot[s].disabled => slot[s].lease = None

RunnerInv ==
  /\ TypeOK
  /\ \A r \in Runs : Attempts(r) /\ Told(r)
  /\ \A r \in Runs : Holds(r)
  /\ \A s \in Slots : Held(s)

Stages == {"awaiting", "settling", "finishing"}

(* At the start no run has a slot.                                          *)
LEMMA RunnerInit == Init => RunnerInv
<1> SUFFICES ASSUME Init PROVE RunnerInv
  OBVIOUS
<1>1. NewRun \in RunState
  BY RunnerAssumption DEF NewRun, RunState
<1>2. TypeOK
  BY <1>1 DEF Init, TypeOK
<1>3. \A r \in Runs : Attempts(r) /\ Told(r) /\ Holds(r)
  BY RunnerAssumption DEF Init, NewRun, Attempts, Past, Knows, Told, Holds, Leased, Causes, Outcomes
<1>4. \A s \in Slots : Held(s)
  BY DEF Init, Held
<1> QED
  BY <1>2, <1>3, <1>4 DEF RunnerInv

(* A run that changes one field within its type keeps the type.             *)
LEMMA RowFields ==
  ASSUME NEW row \in RunState
  PROVE  /\ \A v \in {"new", "awaiting", "settling", "finishing", "done"} :
              [row EXCEPT !.stage = v] \in RunState
         /\ \A v \in Slots \cup {None} : [row EXCEPT !.slot = v] \in RunState
         /\ \A v \in 0..MaxAttempts : [row EXCEPT !.attempt = v] \in RunState
         /\ \A v \in 0..2 : [row EXCEPT !.late = v] \in RunState
         /\ \A v \in BOOLEAN : [row EXCEPT !.expired = v] \in RunState
         /\ \A v \in {"none", "waiting", "closed"} : [row EXCEPT !.closing = v] \in RunState
         /\ \A v \in BOOLEAN : [row EXCEPT !.cleanup = v] \in RunState
         /\ \A v \in {"work", "commit", "rollback"} : [row EXCEPT !.ask = v] \in RunState
         /\ \A v \in Causes \cup {None} : [row EXCEPT !.cause = v] \in RunState
         /\ \A v \in {"checked", "armed", "ended"} : [row EXCEPT !.callback = v] \in RunState
         /\ \A v \in {"pending", "committed"} \cup Causes \cup TransportCodes :
              [row EXCEPT !.promise = v] \in RunState
         /\ \A v \in Outcomes \cup {None} : [row EXCEPT !.outcome = v] \in RunState
<1>1. /\ \A v \in {"new", "awaiting", "settling", "finishing", "done"} :
           [row EXCEPT !.stage = v] \in RunState
      /\ \A v \in Slots \cup {None} : [row EXCEPT !.slot = v] \in RunState
      /\ \A v \in 0..MaxAttempts : [row EXCEPT !.attempt = v] \in RunState
      /\ \A v \in 0..2 : [row EXCEPT !.late = v] \in RunState
  BY DEF RunState
<1>2. /\ \A v \in BOOLEAN : [row EXCEPT !.expired = v] \in RunState
      /\ \A v \in {"none", "waiting", "closed"} : [row EXCEPT !.closing = v] \in RunState
      /\ \A v \in BOOLEAN : [row EXCEPT !.cleanup = v] \in RunState
      /\ \A v \in {"work", "commit", "rollback"} : [row EXCEPT !.ask = v] \in RunState
  BY DEF RunState
<1>3. /\ \A v \in Causes \cup {None} : [row EXCEPT !.cause = v] \in RunState
      /\ \A v \in {"checked", "armed", "ended"} : [row EXCEPT !.callback = v] \in RunState
      /\ \A v \in {"pending", "committed"} \cup Causes \cup TransportCodes :
           [row EXCEPT !.promise = v] \in RunState
      /\ \A v \in Outcomes \cup {None} : [row EXCEPT !.outcome = v] \in RunState
  BY DEF RunState
<1> QED
  BY <1>1, <1>2, <1>3

(* What a run may become within its attempt and with its slot.              *)
Moves(r, row) ==
  /\ row.slot = run[r].slot /\ row.attempt = run[r].attempt
  /\ row.stage \in Stages <=> Leased(r)
  /\ ~Leased(r) => row.stage = run[r].stage \/ row.slot = None
  /\ row.promise = "committed" => Current(r) = "committed"
  /\ row.promise \in Causes => Current(r) = "rolledback"
  /\ row.ask = "rollback" => row.cause \in Causes
  /\ row.outcome # None => row.stage \in {"finishing", "done"}
  /\ row.outcome = "success" => Current(r) = "committed" /\ row.slot # None
  /\ row.outcome = "domain"  => Current(r) = "rolledback" /\ row.slot # None

LEMMA RunMoves ==
  ASSUME RunnerInv, NEW CONSTANT r \in Runs, NEW CONSTANT row \in RunState,
         run' = [run EXCEPT ![r] = row], UNCHANGED <<slot, txn, closed>>, Moves(r, row)
  PROVE  RunnerInv'
<1>1. run'[r] = row /\ \A x \in Runs \ {r} : run'[x] = run[x]
  BY DEF RunnerInv, TypeOK
<1>2. TypeOK'
  BY DEF RunnerInv, TypeOK
<1>3. ASSUME NEW x \in Runs PROVE (Attempts(x) /\ Told(x) /\ Holds(x))'
  <2>1. CASE x = r
    BY <1>1, <2>1 DEF Moves, RunnerInv, Attempts, Past, Knows, Told, Holds, Leased, Current, Stages
  <2>2. CASE x # r
    BY <1>1, <2>2 DEF RunnerInv, Attempts, Past, Knows, Told, Holds, Leased, Current
  <2> QED
    BY <2>1, <2>2
<1>4. ASSUME NEW s \in Slots PROVE Held(s)'
  <2>1. \A x \in Runs : Leased(x)' = Leased(x) /\ run'[x].slot = run[x].slot
    BY <1>1 DEF Moves, Leased, Stages
  <2>2. slot[s].lease # None => slot[s].lease \in Runs
    BY DEF RunnerInv, TypeOK
  <2> QED
    BY <2>1, <2>2 DEF RunnerInv, Held
<1> QED
  BY <1>2, <1>3, <1>4 DEF RunnerInv

LEMMA StartingRow ==
  ASSUME NEW row \in RunState, row.attempt < MaxAttempts, NEW s \in Slots
  PROVE  /\ Starting(row) \in RunState /\ [Starting(row) EXCEPT !.slot = s] \in RunState
         /\ Starting(row).attempt = row.attempt + 1 /\ Starting(row).slot = row.slot
         /\ Starting(row).stage = "awaiting" /\ Starting(row).promise = "pending"
         /\ Starting(row).ask = "work" /\ Starting(row).outcome = row.outcome
<1>1. row.attempt \in Nat /\ MaxAttempts \in Nat
  BY RunnerAssumption DEF RunState
<1>2. row.attempt + 1 \in 0..MaxAttempts
  BY <1>1
<1>3. Starting(row) = [row EXCEPT !.stage = "awaiting", !.attempt = row.attempt + 1, !.ask = "work",
                                  !.cause = None, !.callback = "checked", !.promise = "pending"]
  BY DEF Starting
<1>4. Starting(row) \in RunState
  <2>1. [row EXCEPT !.stage = "awaiting"] \in RunState
    BY RowFields
  <2>2. [row EXCEPT !.stage = "awaiting", !.attempt = row.attempt + 1] \in RunState
    BY <1>2, <2>1, RowFields
  <2>3. [row EXCEPT !.stage = "awaiting", !.attempt = row.attempt + 1, !.ask = "work"] \in RunState
    BY <2>2, RowFields
  <2>4. [row EXCEPT !.stage = "awaiting", !.attempt = row.attempt + 1, !.ask = "work",
                    !.cause = None] \in RunState
    BY <2>3, RowFields
  <2>5. [row EXCEPT !.stage = "awaiting", !.attempt = row.attempt + 1, !.ask = "work",
                    !.cause = None, !.callback = "checked"] \in RunState
    BY <2>4, RowFields
  <2>6. [row EXCEPT !.stage = "awaiting", !.attempt = row.attempt + 1, !.ask = "work",
                    !.cause = None, !.callback = "checked", !.promise = "pending"] \in RunState
    BY <2>5, RowFields
  <2> QED
    BY <1>3, <2>6
<1>5. [Starting(row) EXCEPT !.slot = s] \in RunState
  BY <1>4, RowFields
<1> QED
  BY <1>3, <1>4, <1>5 DEF RunState

(* An attempt starts in the slot of its run.                                *)
LEMMA AttemptStarts ==
  ASSUME RunnerInv, NEW CONSTANT r \in Runs, NEW CONSTANT s \in Slots, NEW CONSTANT row \in RunState,
         run' = [run EXCEPT ![r] = row], Begin(r), UNCHANGED closed,
         slot' = [slot EXCEPT ![s].lease = r], slot[s].lease \in {None, r}, ~slot[s].disabled,
         run[r].stage = "new" \/ (Leased(r) /\ run[r].slot = s),
         run[r].attempt # 0 => Current(r) = "rolledback",
         row.slot = s, row.attempt = run[r].attempt + 1, row.stage = "awaiting",
         row.promise = "pending", row.ask = "work", row.outcome = None
  PROVE  RunnerInv'
<1>0. /\ MaxAttempts \in Nat /\ row.attempt \in 1..MaxAttempts /\ run[r].attempt \in Nat
      /\ None \notin Slots \cup Runs /\ run[r] \in RunState
  BY RunnerAssumption DEF RunState, RunnerInv, TypeOK
<1>1. /\ run'[r] = row /\ \A x \in Runs \ {r} : run'[x] = run[x]
      /\ \A x \in Runs \ {r} : txn'[x] = txn[x]
      /\ \A k \in 1..MaxAttempts :
           txn'[r][k] = IF k = row.attempt THEN "active" ELSE txn[r][k]
      /\ slot'[s].lease = r /\ ~slot'[s].disabled
      /\ \A t \in Slots \ {s} : slot'[t] = slot[t]
  <2>1. run'[r] = row /\ \A x \in Runs \ {r} : run'[x] = run[x]
    BY DEF RunnerInv, TypeOK
  <2>2. /\ \A x \in Runs \ {r} : txn'[x] = txn[x]
        /\ \A k \in 1..MaxAttempts :
             txn'[r][k] = IF k = row.attempt THEN "active" ELSE txn[r][k]
    BY DEF RunnerInv, TypeOK, Begin
  <2>3. /\ slot'[s].lease = r /\ ~slot'[s].disabled
        /\ \A t \in Slots \ {s} : slot'[t] = slot[t]
    BY DEF RunnerInv, TypeOK
  <2> QED
    BY <2>1, <2>2, <2>3
<1>2. TypeOK'
  <2>1. run' \in [Runs -> RunState]
    BY DEF RunnerInv, TypeOK
  <2>2. slot' \in [Slots -> [lease : Runs \cup {None}, disabled : BOOLEAN]]
    BY DEF RunnerInv, TypeOK
  <2>3. txn' \in [Runs -> [1..MaxAttempts -> {"none", "active", "committed", "rolledback"}]]
    BY <1>0 DEF RunnerInv, TypeOK, Begin
  <2> QED
    BY <2>1, <2>2, <2>3 DEF RunnerInv, TypeOK
<1>3. \A x \in Runs \ {r} : run[x].slot = s => ~Leased(x)
  BY <1>0 DEF RunnerInv, Holds
<1>4. (Attempts(r) /\ Told(r) /\ Holds(r))'
  <2>1. Attempts(r)'
    <3>1. Past(r)'
      BY <1>0, <1>1 DEF RunnerInv, Attempts, Past, Knows, Current
    <3>2. Knows(r)'
      BY <1>0, <1>1 DEF Knows, Causes
    <3> QED
      BY <3>1, <3>2 DEF Attempts
  <2>2. Told(r)' /\ Holds(r)'
    BY <1>0, <1>1, RunnerAssumption DEF Told, Holds, Leased, Outcomes
  <2> QED
    BY <2>1, <2>2
<1>5. ASSUME NEW x \in Runs \ {r} PROVE (Attempts(x) /\ Told(x) /\ Holds(x))'
  <2>1. Attempts(x)' /\ Told(x)'
    BY <1>1 DEF RunnerInv, Attempts, Past, Knows, Told, Current
  <2>2. Holds(x)'
    <3>1. run[x].slot # None => run[x].slot \in Slots
      BY DEF RunnerInv, TypeOK, RunState
    <3>2. Leased(x) => run[x].slot # s
      BY <1>3
    <3>3. "EPIPE" \notin TransportCodes /\ run[x].stage = "done" /\ run[x].slot = s => Current(x) # "active"
      BY <1>0 DEF RunnerInv, Holds
    <3> QED
      BY <1>1, <3>1, <3>2, <3>3 DEF RunnerInv, Holds, Leased, Current
  <2> QED
    BY <2>1, <2>2
<1>6. ASSUME NEW t \in Slots PROVE Held(t)'
  <2>1. CASE t = s
    BY <1>1, <2>1 DEF Held, Leased
  <2>2. CASE t # s
    <3>1. slot[t].lease # None => slot[t].lease \in Runs
      BY DEF RunnerInv, TypeOK
    <3>2. slot[t].lease # r
      BY <1>0, <2>2 DEF RunnerInv, Held, Leased
    <3> QED
      BY <1>1, <2>2, <3>1, <3>2 DEF RunnerInv, Held, Leased
  <2> QED
    BY <2>1, <2>2
<1> QED
  BY <1>2, <1>4, <1>5, <1>6 DEF RunnerInv

(* A lease ends: the slot is out of service unless the last promise tells   *)
(* that the backend is done.                                                *)
LEMMA Released == ASSUME RunnerInv, NEW CONSTANT r \in Runs, Release(r) PROVE RunnerInv'
<1> DEFINE s == run[r].slot
<1>0. /\ run[r] \in RunState /\ Leased(r) /\ s \in Slots /\ slot[s].lease = r /\ r # None
      /\ run[r].attempt \in 1..MaxAttempts
  <2>1. Leased(r) /\ run[r] \in RunState
    BY DEF RunnerInv, TypeOK, Release, Leased
  <2>2. s # None /\ slot[s].lease = r /\ (run[r].attempt = 0 <=> s = None)
    BY <2>1 DEF RunnerInv, Holds, Attempts, Knows
  <2> QED
    BY <2>1, <2>2, RunnerAssumption DEF RunState
<1>1. /\ run'[r] = [run[r] EXCEPT !.stage = "done"]
      /\ \A x \in Runs \ {r} : run'[x] = run[x]
      /\ slot'[s] = [lease |-> None, disabled |-> Disables(run[r])]
      /\ \A t \in Slots \ {s} : slot'[t] = slot[t]
      /\ txn' = txn
  BY <1>0 DEF RunnerInv, TypeOK, Release
<1>2. TypeOK'
  <2>1. [run[r] EXCEPT !.stage = "done"] \in RunState
    BY <1>0 DEF RunState
  <2>2. Disables(run[r]) \in BOOLEAN
    BY <1>0 DEF Disables, RunState
  <2> QED
    BY <1>0, <2>1, <2>2 DEF RunnerInv, TypeOK, Release
<1>3. "EPIPE" \notin TransportCodes => Disables(run[r]) \/ Current(r) # "active"
  <2>1. "EPIPE" \notin TransportCodes /\ Acknowledges(run[r].promise)
          => run[r].promise \in {"committed"} \cup Causes
    BY <1>0, RunnerAssumption DEF RunState, Acknowledges, Causes
  <2> QED
    BY <2>1 DEF Disables, RunnerInv, Attempts, Knows
<1>4. ASSUME NEW x \in Runs PROVE (Attempts(x) /\ Told(x) /\ Holds(x))'
  <2>1. CASE x = r
    BY <1>0, <1>1, <1>3, <2>1
    DEF RunnerInv, Attempts, Past, Knows, Told, Holds, Leased, Current, RunState
  <2>2. CASE x # r
    <3>1. Attempts(x)' /\ Told(x)'
      BY <1>1, <2>2 DEF RunnerInv, Attempts, Past, Knows, Told, Current
    <3>2. run[x].slot # None => run[x].slot \in Slots
      BY DEF RunnerInv, TypeOK, RunState
    <3>3. Leased(x) => run[x].slot # s
      BY <1>0, <2>2 DEF RunnerInv, Holds
    <3>4. run[x].slot = s => ~slot[s].disabled
      BY <1>0 DEF RunnerInv, Held
    <3>5. Holds(x)'
      BY <1>1, <2>2, <3>2, <3>3, <3>4 DEF RunnerInv, Holds, Leased, Current
    <3> QED
      BY <3>1, <3>5
  <2> QED
    BY <2>1, <2>2
<1>5. ASSUME NEW t \in Slots PROVE Held(t)'
  <2>1. CASE t = s
    BY <1>0, <1>1, <2>1 DEF Held
  <2>2. CASE t # s
    <3>1. slot[t].lease # None => slot[t].lease \in Runs /\ slot[t].lease # r
      BY <1>0, <2>2 DEF RunnerInv, TypeOK, Held
    <3> QED
      BY <1>1, <2>2, <3>1 DEF RunnerInv, Held, Leased
  <2> QED
    BY <2>1, <2>2
<1> QED
  BY <1>2, <1>4, <1>5 DEF RunnerInv

(* The backend ends a transaction that was active: no promise is about it.  *)
LEMMA Ended ==
  ASSUME RunnerInv, NEW CONSTANT r \in Runs, NEW CONSTANT k \in 1..MaxAttempts, BackendEnds(r, k)
  PROVE  RunnerInv'
<1>0. run[r].attempt \in Nat /\ MaxAttempts \in Nat
  BY RunnerAssumption DEF RunnerInv, TypeOK, RunState
<1>1. /\ txn[r][k] = "active" /\ txn'[r][k] \in {"rolledback", "committed"}
      /\ \A x \in Runs \ {r} : txn'[x] = txn[x]
      /\ \A j \in 1..MaxAttempts : j # k => txn'[r][j] = txn[r][j]
      /\ run' = run /\ slot' = slot
  <2>1. run' = run /\ slot' = slot /\ txn[r][k] = "active"
    BY DEF BackendEnds
  <2>2. CASE txn' = [txn EXCEPT ![r][k] = "rolledback"]
    BY <2>1, <2>2 DEF RunnerInv, TypeOK
  <2>3. CASE txn' = [txn EXCEPT ![r][k] = "committed"]
    BY <2>1, <2>3 DEF RunnerInv, TypeOK
  <2> QED
    BY <2>2, <2>3 DEF BackendEnds
<1>2. TypeOK'
  <2>1. txn' = [txn EXCEPT ![r][k] = "rolledback"] \/ txn' = [txn EXCEPT ![r][k] = "committed"]
    BY DEF BackendEnds
  <2>2. [txn[r] EXCEPT ![k] = "rolledback"] \in [1..MaxAttempts -> {"none", "active", "committed", "rolledback"}]
    BY DEF RunnerInv, TypeOK
  <2>3. [txn[r] EXCEPT ![k] = "committed"] \in [1..MaxAttempts -> {"none", "active", "committed", "rolledback"}]
    BY DEF RunnerInv, TypeOK
  <2>4. txn' \in [Runs -> [1..MaxAttempts -> {"none", "active", "committed", "rolledback"}]]
    BY <2>1, <2>2, <2>3 DEF RunnerInv, TypeOK
  <2> QED
    BY <2>4 DEF RunnerInv, TypeOK, BackendEnds
<1>3. k = run[r].attempt
  BY <1>0, <1>1 DEF RunnerInv, Attempts, Past
<1>4. ASSUME NEW x \in Runs PROVE (Attempts(x) /\ Told(x) /\ Holds(x))'
  <2>1. CASE x = r
    <3>1. Past(x)'
      BY <1>0, <1>1, <1>3, <2>1 DEF RunnerInv, Attempts, Past
    <3> QED
      BY <1>0, <1>1, <1>3, <2>1, <3>1
      DEF RunnerInv, Attempts, Knows, Told, Holds, Leased, Current
  <2>2. CASE x # r
    BY <1>1, <2>2 DEF RunnerInv, Attempts, Past, Knows, Told, Holds, Leased, Current
  <2> QED
    BY <2>1, <2>2
<1>5. ASSUME NEW t \in Slots PROVE Held(t)'
  BY <1>1 DEF RunnerInv, Held, Leased
<1> QED
  BY <1>2, <1>4, <1>5 DEF RunnerInv

(* Every step of the runner, the callback, the driver and the backend.      *)
LEMMA RunnerStep == RunnerInv /\ [Next]_vars => RunnerInv'
<1> SUFFICES ASSUME RunnerInv, [Next]_vars PROVE RunnerInv'
  OBVIOUS
<1>0. ASSUME NEW r \in Runs
      PROVE  /\ run[r] \in RunState /\ Attempts(r) /\ Told(r) /\ Holds(r)
             /\ Leased(r) => run[r].slot \in Slots /\ run[r].attempt # 0
             /\ run[r].stage = "new" => run[r].attempt = 0
  <2>1. run[r] \in RunState /\ Attempts(r) /\ Told(r) /\ Holds(r)
    BY DEF RunnerInv, TypeOK
  <2> QED
    BY <2>1 DEF RunState, Attempts, Knows, Holds
<1>1. ASSUME NEW r \in Runs, NEW s \in Slots, Lease(r, s) PROVE RunnerInv'
  <2> DEFINE row == [Starting(run[r]) EXCEPT !.slot = s]
  <2>1. run[r].attempt = 0 /\ run[r] \in RunState /\ run[r].outcome = None
    BY <1>0, <1>1 DEF Lease, Told
  <2>2. row \in RunState
    BY <2>1, RunnerAssumption, StartingRow
  <2>3. row.slot = s /\ row.attempt = run[r].attempt + 1 /\ row.stage = "awaiting"
        /\ row.promise = "pending" /\ row.ask = "work" /\ row.outcome = None
    BY <2>1 DEF Starting, RunState
  <2> QED
    BY <1>1, <2>1, <2>2, <2>3, AttemptStarts DEF Lease, Available
<1>2. ASSUME NEW r \in Runs, Retry(r) PROVE RunnerInv'
  <2> DEFINE row == Starting(run[r])
             s == run[r].slot
  <2>1. /\ Leased(r) /\ run[r] \in RunState /\ s \in Slots /\ run[r].attempt < MaxAttempts
        /\ run[r].outcome = None /\ Current(r) = "rolledback"
    BY <1>0, <1>2 DEF Retry, CallbackSettled, Retriable, Leased, Told, Attempts, Knows, Causes
  <2>2. slot[s].lease = r /\ ~slot[s].disabled
    BY <1>0, <2>1, RunnerAssumption DEF RunnerInv, Holds, Held
  <2>3. row \in RunState
    BY <2>1, StartingRow
  <2>4. row.slot = s /\ row.attempt = run[r].attempt + 1 /\ row.stage = "awaiting"
        /\ row.promise = "pending" /\ row.ask = "work" /\ row.outcome = None
    BY <2>1 DEF Starting, RunState
  <2>5. slot' = [slot EXCEPT ![s].lease = r]
    BY <2>1, <2>2, <1>2 DEF Retry, RunnerInv, TypeOK
  <2> QED
    BY <1>2, <2>1, <2>2, <2>3, <2>4, <2>5, AttemptStarts DEF Retry
<1>3. ASSUME NEW r \in Runs, Capacity(r) PROVE RunnerInv'
  <2> DEFINE row == [run[r] EXCEPT !.stage = "done", !.outcome = "capacity"]
  <2>1. run' = [run EXCEPT ![r] = row]
    BY <1>3 DEF Capacity, RunnerInv, TypeOK
  <2>3. row \in RunState
    <3>1. [run[r] EXCEPT !.stage = "done"] \in RunState
      BY <1>0, RowFields
    <3> QED
      BY <3>1, RowFields DEF Outcomes
  <2>2. Moves(r, row)
    BY <1>0, <1>3, RunnerAssumption
    DEF Moves, Capacity, Holds, Attempts, Knows, Leased, Stages, RunState
  <2> QED
    BY <1>3, <2>1, <2>2, <2>3, RunMoves DEF Capacity
<1>4. ASSUME NEW r \in Runs, PassDeadline(r) PROVE RunnerInv'
  <2> DEFINE row == [run[r] EXCEPT !.late = @ + 1]
  <2>0. run[r].late + 1 \in 0..2
    BY <1>0, <1>4 DEF PassDeadline, RunState
  <2>1. run' = [run EXCEPT ![r] = row]
    BY <1>4 DEF PassDeadline, RunnerInv, TypeOK
  <2>3. row \in RunState
    BY <1>0, <2>0, RowFields
  <2>2. Moves(r, row)
    BY <1>0, <1>4 DEF Moves, PassDeadline, Attempts, Knows, Told, Leased, Stages, Causes, RunState
  <2> QED
    BY <1>4, <2>1, <2>2, <2>3, RunMoves DEF PassDeadline
<1>5. ASSUME NEW r \in Runs, Expire(r) PROVE RunnerInv'
  <2> DEFINE row == [run[r] EXCEPT !.expired = TRUE, !.closing = "waiting"]
  <2>1. run' = [run EXCEPT ![r] = row]
    BY <1>5 DEF Expire, RunnerInv, TypeOK
  <2>3. row \in RunState
    <3>1. [run[r] EXCEPT !.expired = TRUE] \in RunState
      BY <1>0, RowFields
    <3> QED
      BY <3>1, RowFields
  <2>2. Moves(r, row)
    BY <1>0, <1>5 DEF Moves, Expire, Attempts, Knows, Told, Leased, Stages, Causes, RunState
  <2> QED
    BY <1>5, <2>1, <2>2, <2>3, RunMoves DEF Expire
<1>6. ASSUME NEW r \in Runs, Caught(r) PROVE RunnerInv'
  <2> DEFINE row == [run[r] EXCEPT !.stage = "settling"]
  <2>1. run' = [run EXCEPT ![r] = row]
    BY <1>6 DEF Caught, RunnerInv, TypeOK
  <2>3. row \in RunState
    BY <1>0, RowFields
  <2>2. Moves(r, row)
    BY <1>0, <1>6 DEF Moves, Caught, Attempts, Knows, Told, Leased, Stages, Causes, RunState
  <2> QED
    BY <1>6, <2>1, <2>2, <2>3, RunMoves DEF Caught
<1>7. ASSUME NEW r \in Runs, Check(r) PROVE RunnerInv'
  <2> DEFINE row == [run[r] EXCEPT !.callback = "armed"]
  <2>1. run' = [run EXCEPT ![r] = row]
    BY <1>7 DEF Check, RunnerInv, TypeOK
  <2>3. row \in RunState
    BY <1>0, RowFields
  <2>2. Moves(r, row)
    BY <1>0, <1>7 DEF Moves, Check, Attempts, Knows, Told, Leased, Stages, Causes, RunState
  <2> QED
    BY <1>7, <2>1, <2>2, <2>3, RunMoves DEF Check
<1>8. ASSUME NEW r \in Runs, Send(r) PROVE RunnerInv'
  <2> DEFINE row == [run[r] EXCEPT !.callback = "checked"]
  <2>1. run' = [run EXCEPT ![r] = row]
    BY <1>8 DEF Send, RunnerInv, TypeOK
  <2>3. row \in RunState
    BY <1>0, RowFields
  <2>2. Moves(r, row)
    BY <1>0, <1>8 DEF Moves, Send, Attempts, Knows, Told, Leased, Stages, Causes, RunState
  <2> QED
    BY <1>8, <2>1, <2>2, <2>3, RunMoves DEF Send
<1>9. ASSUME NEW r \in Runs, CallbackReturns(r) PROVE RunnerInv'
  <2> DEFINE row == [run[r] EXCEPT !.callback = "ended", !.ask = "commit"]
  <2>1. run' = [run EXCEPT ![r] = row]
    BY <1>9 DEF CallbackReturns, RunnerInv, TypeOK
  <2>3. row \in RunState
    <3>1. [run[r] EXCEPT !.callback = "ended"] \in RunState
      BY <1>0, RowFields
    <3> QED
      BY <3>1, RowFields
  <2>2. Moves(r, row)
    BY <1>0, <1>9 DEF Moves, CallbackReturns, Attempts, Knows, Told, Leased, Stages, Causes, RunState
  <2> QED
    BY <1>9, <2>1, <2>2, <2>3, RunMoves DEF CallbackReturns
<1>10. ASSUME NEW r \in Runs, RaceLost(r) PROVE RunnerInv'
  <2> DEFINE row == [run[r] EXCEPT !.ask = "rollback", !.cause = "deadline"]
  <2>1. run' = [run EXCEPT ![r] = row]
    BY <1>10 DEF RaceLost, RunnerInv, TypeOK
  <2>3. row \in RunState
    <3>1. [run[r] EXCEPT !.ask = "rollback"] \in RunState
      BY <1>0, RowFields
    <3> QED
      BY <3>1, RowFields DEF Causes
  <2>2. Moves(r, row)
    BY <1>0, <1>10 DEF Moves, RaceLost, Attempts, Knows, Told, Leased, Stages, Causes, RunState
  <2> QED
    BY <1>10, <2>1, <2>2, <2>3, RunMoves DEF RaceLost
<1>11. ASSUME NEW r \in Runs, CloseExpired(r) PROVE RunnerInv'
  <2>0. PICK promise \in Rejected(run[r]) : run' = [run EXCEPT ![r] = [run[r] EXCEPT !.closing = "closed", !.promise = promise,
                                        !.cleanup = Acknowledges(run[r].promise)]]
    BY <1>0, <1>11 DEF CloseExpired, RunnerInv, TypeOK
  <2> DEFINE row == [run[r] EXCEPT !.closing = "closed", !.promise = promise,
                                        !.cleanup = Acknowledges(run[r].promise)]
  <2>1. row \in RunState
    <3>1. /\ Acknowledges(run[r].promise) \in BOOLEAN
          /\ promise \in {"pending", "committed"} \cup Causes \cup TransportCodes
      BY <1>0, <2>0 DEF Rejected, Acknowledges, RunState
    <3>2. [run[r] EXCEPT !.closing = "closed"] \in RunState
      BY <1>0, RowFields
    <3>3. [run[r] EXCEPT !.closing = "closed", !.promise = promise] \in RunState
      BY <3>1, <3>2, RowFields
    <3> QED
      BY <3>1, <3>3, RowFields
  <2>2. Moves(r, row)
    BY <1>0, <1>11, <2>0, RunnerAssumption
    DEF Moves, CloseExpired, Attempts, Knows, Told, Leased, Stages, Causes, RunState, Rejected, Acknowledges
  <2> QED
    BY <1>11, <2>0, <2>1, <2>2, RunMoves DEF CloseExpired
<1>12. ASSUME NEW r \in Runs, LoseConnection(r) PROVE RunnerInv'
  <2>0. PICK code \in TransportCodes : run' = [run EXCEPT ![r] = [run[r] EXCEPT !.promise = code]]
    BY <1>0, <1>12 DEF LoseConnection, RunnerInv, TypeOK
  <2> DEFINE row == [run[r] EXCEPT !.promise = code]
  <2>1. row \in RunState
    BY <1>0, <1>12, <2>0, RunnerAssumption DEF LoseConnection, RunState, Causes, Outcomes
  <2>2. Moves(r, row)
    BY <1>0, <1>12, <2>0, RunnerAssumption
    DEF Moves, LoseConnection, Attempts, Knows, Told, Leased, Stages, Causes, RunState
  <2> QED
    BY <1>12, <2>0, <2>1, <2>2, RunMoves DEF LoseConnection
<1>13. ASSUME NEW r \in Runs, CallbackFails(r) PROVE RunnerInv'
  <2> DEFINE row(ask, why) == [run[r] EXCEPT !.callback = "ended", !.ask = ask, !.cause = why]
  <2>1. PICK ask \in {"commit", "rollback"}, why \in Causes \cup {None} :
          /\ run' = [run EXCEPT ![r] = row(ask, why)]
          /\ ask = "rollback" => why \in Causes
    <3>1. PICK cause \in Causes :
            run' = [run EXCEPT ![r] = row(IF run[r].ask = "work" THEN "rollback" ELSE run[r].ask,
                                          IF run[r].ask = "work" THEN cause ELSE run[r].cause)]
      BY <1>0, <1>13 DEF CallbackFails, RunnerInv, TypeOK
    <3>2. CASE run[r].ask = "work"
      BY <3>1, <3>2
    <3>3. CASE run[r].ask # "work"
      BY <1>0, <3>1, <3>3 DEF RunState, Attempts, Knows
    <3> QED
      BY <3>2, <3>3
  <2>2. row(ask, why) \in RunState
    <3>1. [run[r] EXCEPT !.callback = "ended"] \in RunState
      BY <1>0, RowFields
    <3>2. [run[r] EXCEPT !.callback = "ended", !.ask = ask] \in RunState
      BY <3>1, RowFields
    <3> QED
      BY <3>2, RowFields
  <2>3. Moves(r, row(ask, why))
    BY <1>0, <1>13, <2>1 DEF Moves, CallbackFails, Attempts, Knows, Told, Leased, Stages, RunState
  <2> QED
    BY <1>13, <2>1, <2>2, <2>3, RunMoves DEF CallbackFails
<1>14. ASSUME NEW r \in Runs, Committed(r) PROVE RunnerInv'
  <2>a. PICK outcome \in Outcomes :
          /\ run' = [run EXCEPT ![r].stage = "finishing", ![r].outcome = outcome]
          /\ outcome = "success" => run[r].promise = "committed"
          /\ outcome = "domain" => run[r].promise = "domain"
    BY <1>14 DEF Committed, Finishing, Outcomes
  <2>0. run' = [run EXCEPT ![r] = [run[r] EXCEPT !.stage = "finishing", !.outcome = outcome]]
    BY <2>a DEF RunnerInv, TypeOK
  <2> DEFINE row == [run[r] EXCEPT !.stage = "finishing", !.outcome = outcome]
  <2>1. row \in RunState
    <3>1. [run[r] EXCEPT !.stage = "finishing"] \in RunState
      BY <1>0, RowFields
    <3> QED
      BY <3>1, RowFields
  <2>2. Moves(r, row)
    BY <1>0, <1>14, <2>a, <2>0, RunnerAssumption
    DEF Moves, Committed, Attempts, Knows, Told, Leased, Stages, Causes, RunState
  <2> QED
    BY <1>14, <2>a, <2>0, <2>1, <2>2, RunMoves DEF Committed
<1>15. ASSUME NEW r \in Runs, GiveUp(r) PROVE RunnerInv'
  <2>a. PICK outcome \in Outcomes :
          /\ run' = [run EXCEPT ![r].stage = "finishing", ![r].outcome = outcome]
          /\ outcome = "success" => run[r].promise = "committed"
          /\ outcome = "domain" => run[r].promise = "domain"
    BY <1>15 DEF GiveUp, Finishing, Outcomes
  <2>0. run' = [run EXCEPT ![r] = [run[r] EXCEPT !.stage = "finishing", !.outcome = outcome]]
    BY <2>a DEF RunnerInv, TypeOK
  <2> DEFINE row == [run[r] EXCEPT !.stage = "finishing", !.outcome = outcome]
  <2>1. row \in RunState
    <3>1. [run[r] EXCEPT !.stage = "finishing"] \in RunState
      BY <1>0, RowFields
    <3> QED
      BY <3>1, RowFields
  <2>2. Moves(r, row)
    BY <1>0, <1>15, <2>a, <2>0, RunnerAssumption
    DEF Moves, GiveUp, Attempts, Knows, Told, Leased, Stages, Causes, RunState, CallbackSettled
  <2> QED
    BY <1>15, <2>a, <2>0, <2>1, <2>2, RunMoves DEF GiveUp
<1>16. ASSUME NEW r \in Runs, Answer(r) PROVE RunnerInv'
  <2>0. PICK promise \in {"committed"} \cup Causes :
          /\ run' = [run EXCEPT ![r] = [run[r] EXCEPT !.promise = promise]]
          /\ promise = "committed" => Current(r) = "committed"
          /\ promise # "committed" => Current(r) = "rolledback"
    BY <1>0, <1>16 DEF Answer, Attempts, Knows, Causes, RunnerInv, TypeOK
  <2> DEFINE row == [run[r] EXCEPT !.promise = promise]
  <2>1. row \in RunState
    BY <1>0, <2>0 DEF RunState
  <2>2. Moves(r, row)
    BY <1>0, <1>16, <2>0
    DEF Moves, Answer, Attempts, Knows, Told, Leased, Stages, Causes, RunState
  <2> QED
    BY <1>16, <2>0, <2>1, <2>2, RunMoves DEF Answer
<1>17. ASSUME Close \/ UNCHANGED vars PROVE RunnerInv'
  <2>1. UNCHANGED <<slot, run, txn>> /\ closed' \in BOOLEAN
    BY <1>17 DEF Close, vars, RunnerInv, TypeOK
  <2> QED
    BY <2>1 DEF RunnerInv, TypeOK, Attempts, Past, Knows, Told, Holds, Held, Leased, Current
<1> QED
  BY <1>1, <1>2, <1>3, <1>4, <1>5, <1>6, <1>7, <1>8, <1>9, <1>10, <1>11, <1>12, <1>13, <1>14, <1>15, <1>16, <1>17, Released, Ended
  DEF Next, Proceed

(* The state of the runner, the callback and the backend has its type.      *)
THEOREM RunnerTyping == Spec => []TypeOK
<1>1. RunnerInv => TypeOK
  BY DEF RunnerInv
<1> QED
  BY RunnerInit, RunnerStep, <1>1, PTL DEF Spec

(* A caller who is told of a success has one commit, one who is told of a   *)
(* domain answer has none and will have none, and no command is committed   *)
(* by two attempts, whatever the network does to the runner's answers.      *)
THEOREM TruthTold == Spec => []AnswersTrue
<1>1. RunnerInv => AnswersTrue
  <2> SUFFICES ASSUME RunnerInv, NEW r \in Runs
               PROVE  /\ \A j, k \in {i \in 1..MaxAttempts : txn[r][i] = "committed"} : j = k
                      /\ run[r].outcome = "success" =>
                           {i \in 1..MaxAttempts : txn[r][i] = "committed"} # {}
                      /\ run[r].outcome = "domain" =>
                           \A i \in 1..MaxAttempts : txn[r][i] \notin {"committed", "active"}
    BY DEF AnswersTrue
  <2>1. run[r].attempt \in 0..MaxAttempts /\ MaxAttempts \in Nat /\ Past(r) /\ Knows(r) /\ Told(r)
    BY RunnerAssumption DEF RunnerInv, TypeOK, RunState, Attempts
  <2>2. \A j \in 1..MaxAttempts : txn[r][j] \in {"committed", "active"} => j = run[r].attempt
    BY <2>1 DEF Past
  <2>3. run[r].outcome = "success" => run[r].attempt \in 1..MaxAttempts /\ Current(r) = "committed"
    BY <2>1 DEF Knows, Told
  <2>4. run[r].outcome = "domain" => Current(r) = "rolledback"
    BY <2>1 DEF Told
  <2> QED
    BY <2>2, <2>3, <2>4 DEF Current
<1> QED
  BY RunnerInit, RunnerStep, <1>1, PTL DEF Spec

(* Where the driver reports a lost connection by codes the runner tells     *)
(* from an SQLSTATE, a transaction that may still run is the current one of *)
(* the run that holds its slot, or the slot is out of service.  With EPIPE  *)
(* among the codes the run RunnerBrokenPipe refutes it.                     *)
THEOREM Quiet ==
  ASSUME "EPIPE" \notin TransportCodes
  PROVE  Spec => []QuietBesideCurrent
<1>1. RunnerInv => QuietBesideCurrent
  <2> SUFFICES ASSUME RunnerInv, NEW r \in Runs, NEW k \in 1..MaxAttempts, txn[r][k] = "active"
               PROVE  \/ slot[run[r].slot].disabled
                      \/ slot[run[r].slot].lease = r /\ run[r].attempt = k
    BY DEF QuietBesideCurrent
  <2>1. run[r] \in RunState /\ MaxAttempts \in Nat /\ Past(r) /\ Knows(r) /\ Holds(r)
    BY RunnerAssumption DEF RunnerInv, TypeOK, Attempts
  <2>2. run[r].attempt = k
    BY <2>1 DEF Past, RunState
  <2>3. run[r].slot # None /\ Current(r) = "active"
    BY <2>1, <2>2 DEF Knows, Current
  <2> QED
    BY <2>1, <2>2, <2>3 DEF Holds, Leased, RunState
<1> QED
  BY RunnerInit, RunnerStep, <1>1, PTL DEF Spec
================================================================================
