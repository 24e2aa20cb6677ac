---------------------------- MODULE ExecutorRunner ----------------------------
(***************************************************************************)
(* The transaction runner of the financial executor: requests lease a slot *)
(* (a pool of one connection), run at most three attempts of a serializable*)
(* transaction under a hard deadline, and give the slot back only when the *)
(* outcome of the last attempt is known.                                   *)
(*                                                                         *)
(* Three parties move independently: the run (one thread of JavaScript),   *)
(* the lifecycle callback it started, and the PostgreSQL backend, which    *)
(* may still be running after the connection to it is gone.                *)
(***************************************************************************)
EXTENDS Naturals

CONSTANTS
  Slots, Runs,
  MaxAttempts,     \* 3 in the code
  TransportCodes,  \* how the driver reports a connection that is gone
  None

VARIABLES
  slot,    \* the slots of the pool
  run,     \* the local state of each call of run()
  txn,     \* run -> attempt -> what its transaction is to the backend
  closed   \* close() was called

vars == <<slot, run, txn, closed>>

------------------------------------------------------------------------------
\* domain: a typed error of the callback, or SQLSTATE P0001.
Causes   == {"serialization", "domain", "deadline", "database"}
Outcomes == {"success", "deadline", "unauthorized", "domain", "database", "capacity"}

ASSUME RunnerAssumption ==
  /\ MaxAttempts \in Nat \ {0}
  /\ TransportCodes # {}
  /\ TransportCodes \cap (Causes \cup {"pending", "committed"}) = {}
  /\ None \notin Slots \cup Runs \cup Causes \cup Outcomes

\* late: 0 before the execution deadline, 1 after it, 2 after the deadline.
RunState ==
  [stage : {"new", "awaiting", "settling", "finishing", "done"},
   slot : Slots \cup {None}, attempt : 0..MaxAttempts, late : 0..2, expired : BOOLEAN,
   closing : {"none", "waiting", "closed"}, cleanup : BOOLEAN,
   ask : {"work", "commit", "rollback"}, cause : Causes \cup {None},
   callback : {"checked", "armed", "ended"},
   promise : {"pending", "committed"} \cup Causes \cup TransportCodes,
   outcome : Outcomes \cup {None}]

TypeOK ==
  /\ slot \in [Slots -> [lease : Runs \cup {None}, disabled : BOOLEAN]]
  /\ run \in [Runs -> RunState]
  /\ txn \in [Runs -> [1..MaxAttempts -> {"none", "active", "committed", "rolledback"}]]
  /\ closed \in BOOLEAN

NewRun == [stage |-> "new", slot |-> None, attempt |-> 0, late |-> 0, expired |-> FALSE,
           closing |-> "none", cleanup |-> FALSE, ask |-> "work", cause |-> None,
           callback |-> "checked", promise |-> "pending", outcome |-> None]

Current(r) == txn[r][run[r].attempt]
Leased(r)  == run[r].stage \in {"awaiting", "settling", "finishing"}

\* state.active: the handle of the callback still is a capability.
Active(r) == run[r].ask = "work" /\ ~run[r].expired

(* Fault: every rejection is taken for an acknowledged rollback.            *)
AcknowledgesAny(promise) == promise # "pending"

(* A commit, a typed error, or a code of five capitals and digits that is   *)
(* not of class 08.                                                         *)
Acknowledges(promise) == promise \in {"committed", "EPIPE"} \cup Causes

------------------------------------------------------------------------------
(* run().                                                                  *)

(* One attempt: BEGIN and the callback start together.                      *)
Starting(row) ==
  [row EXCEPT !.stage = "awaiting", !.attempt = @ + 1, !.ask = "work", !.cause = None,
              !.callback = "checked", !.promise = "pending"]

Begin(r) == txn' = [txn EXCEPT ![r][run[r].attempt + 1] = "active"]

Available(s) == ~closed /\ slot[s].lease = None /\ ~slot[s].disabled

Lease(r, s) ==
  /\ run[r].stage = "new" /\ Available(s)
  /\ slot' = [slot EXCEPT ![s].lease = r]
  /\ run' = [run EXCEPT ![r] = [Starting(@) EXCEPT !.slot = s]]
  /\ Begin(r)
  /\ UNCHANGED closed

Capacity(r) ==
  /\ run[r].stage = "new" /\ \A s \in Slots : ~Available(s)
  /\ run' = [run EXCEPT ![r].stage = "done", ![r].outcome = "capacity"]
  /\ UNCHANGED <<slot, txn, closed>>

PassDeadline(r) ==
  /\ Leased(r) /\ run[r].late < 2
  /\ run' = [run EXCEPT ![r].late = @ + 1]
  /\ UNCHANGED <<slot, txn, closed>>

(* hardTimer: cancel what is pending and close the pool behind it.          *)
Expire(r) ==
  /\ run[r].stage \in {"awaiting", "settling"}
  /\ run[r].late > 0 /\ ~run[r].expired
  /\ run' = [run EXCEPT ![r].expired = TRUE, ![r].closing = "waiting"]
  /\ UNCHANGED <<slot, txn, closed>>

(* Fault: the pool is closed without its connection being cut.              *)
KeepsWaiting(row) == {row.promise}

(* closeDatabase: what is still pending is rejected locally.                *)
Rejected(row) == IF row.promise = "pending" THEN TransportCodes ELSE {row.promise}

(* The original rejection settles, or the request's deadline comes first.   *)
CloseExpired(r) ==
  /\ run[r].closing = "waiting"
  /\ run[r].promise # "pending" \/ run[r].late = 2
  /\ \E promise \in Rejected(run[r]) :
       run' = [run EXCEPT ![r].closing = "closed", ![r].promise = promise,
                          ![r].cleanup = Acknowledges(run[r].promise)]
  /\ UNCHANGED <<slot, txn, closed>>

Finishing(r, outcome) ==
  run' = [run EXCEPT ![r].stage = "finishing", ![r].outcome = outcome]

(* The transaction committed; the answer may come too late, or the verified *)
(* token may have expired meanwhile.                                        *)
Committed(r) ==
  /\ run[r].stage = "awaiting" /\ run[r].promise = "committed"
  /\ IF run[r].expired \/ run[r].late = 2 THEN Finishing(r, "deadline")
     ELSE \E outcome \in {"success", "unauthorized"} : Finishing(r, outcome)
  /\ UNCHANGED <<slot, txn, closed>>

Caught(r) ==
  /\ run[r].stage = "awaiting" /\ run[r].promise \notin {"pending", "committed"}
  /\ run' = [run EXCEPT ![r].stage = "settling"]
  /\ UNCHANGED <<slot, txn, closed>>

(* Fault: an attempt whose fate is unknown is retried too.                  *)
RetriableAny(row) ==
  row.promise \in {"serialization"} \cup TransportCodes /\ row.attempt < MaxAttempts

Retriable(row) == row.promise = "serialization" /\ row.attempt < MaxAttempts

(* A stalled callback is given up at the deadline.                          *)
CallbackSettled(r) ==
  run[r].stage = "settling" /\ (run[r].callback = "ended" \/ run[r].late = 2)

Retry(r) ==
  /\ CallbackSettled(r)
  /\ ~run[r].expired /\ run[r].late = 0 /\ Retriable(run[r])
  /\ run' = [run EXCEPT ![r] = Starting(@)]
  /\ Begin(r)
  /\ UNCHANGED <<slot, closed>>

GiveUp(r) ==
  /\ CallbackSettled(r)
  /\ IF run[r].expired \/ run[r].promise = "deadline" THEN Finishing(r, "deadline")
     ELSE IF run[r].promise = "domain"
       THEN \E outcome \in {"domain"} \cup (IF run[r].late = 2 THEN {"deadline"} ELSE {}) :
              Finishing(r, outcome)
     ELSE IF run[r].late = 2 \/ (Retriable(run[r]) /\ run[r].late > 0) THEN Finishing(r, "deadline")
     ELSE IF Retriable(run[r]) THEN Finishing(r, "unauthorized")
     ELSE Finishing(r, "database")
  /\ UNCHANGED <<slot, txn, closed>>

(* The finally block; uncertain: the last attempt was not acknowledged.     *)
Disables(row) == ~Acknowledges(row.promise) \/ (row.expired /\ ~row.cleanup)

Release(r) ==
  /\ run[r].stage = "finishing" /\ run[r].closing # "waiting"
  /\ run' = [run EXCEPT ![r].stage = "done"]
  /\ slot' = [slot EXCEPT ![run[r].slot] =
                [lease |-> None, disabled |-> Disables(run[r])]]
  /\ UNCHANGED <<txn, closed>>

Close ==
  /\ ~closed /\ closed' = TRUE
  /\ UNCHANGED <<slot, run, txn>>

------------------------------------------------------------------------------
(* The callback and the driver.                                            *)

(* callCalculatorRoutine: stateOf passes, then armStatement is awaited.     *)
Check(r) ==
  /\ run[r].stage = "awaiting" /\ run[r].callback = "checked" /\ Active(r)
  /\ run' = [run EXCEPT ![r].callback = "armed"]
  /\ UNCHANGED <<slot, txn, closed>>

(* ... and the routine is sent; its answer is checked again.                *)
Send(r) ==
  /\ run[r].callback = "armed"
  /\ run' = [run EXCEPT ![r].callback = "checked"]
  /\ UNCHANGED <<slot, txn, closed>>

(* An error, or a handle that is no longer active.                          *)
CallbackFails(r) ==
  /\ Leased(r) /\ run[r].callback # "ended"
  /\ \E cause \in Causes :
       run' = [run EXCEPT ![r].callback = "ended",
                 ![r].ask   = IF @ = "work" THEN "rollback" ELSE @,
                 ![r].cause = IF run[r].ask = "work" THEN cause ELSE @]
  /\ UNCHANGED <<slot, txn, closed>>

CallbackReturns(r) ==
  /\ run[r].stage = "awaiting" /\ run[r].callback = "checked" /\ Active(r)
  /\ Current(r) = "active"
  /\ run' = [run EXCEPT ![r].callback = "ended", ![r].ask = "commit"]
  /\ UNCHANGED <<slot, txn, closed>>

(* The race with the execution deadline; the callback runs on.              *)
RaceLost(r) ==
  /\ run[r].stage = "awaiting" /\ run[r].ask = "work" /\ run[r].late > 0
  /\ run' = [run EXCEPT ![r].ask = "rollback", ![r].cause = "deadline"]
  /\ UNCHANGED <<slot, txn, closed>>

(* COMMIT or ROLLBACK is answered.                                          *)
Answer(r) ==
  /\ run[r].stage = "awaiting" /\ run[r].promise = "pending"
  /\ \/ /\ run[r].ask = "commit" /\ Current(r) = "committed"
        /\ run' = [run EXCEPT ![r].promise = "committed"]
     \/ /\ run[r].ask = "commit" /\ Current(r) = "rolledback"
        /\ run' = [run EXCEPT ![r].promise = "serialization"]
     \/ /\ run[r].ask = "rollback" /\ Current(r) = "rolledback"
        /\ run' = [run EXCEPT ![r].promise = run[r].cause]
  /\ UNCHANGED <<slot, txn, closed>>

LoseConnection(r) ==
  /\ run[r].stage = "awaiting" /\ run[r].promise = "pending"
  /\ \E code \in TransportCodes : run' = [run EXCEPT ![r].promise = code]
  /\ UNCHANGED <<slot, txn, closed>>

(* PostgreSQL: COMMIT arrives, perhaps after the connection is gone; or the *)
(* transaction ends by ROLLBACK, a conflict, a timeout or a dead backend.   *)
BackendEnds(r, k) ==
  /\ txn[r][k] = "active"
  /\ \/ txn' = [txn EXCEPT ![r][k] = "rolledback"]
     \/ /\ run[r].attempt = k /\ run[r].ask = "commit"
        /\ txn' = [txn EXCEPT ![r][k] = "committed"]
  /\ UNCHANGED <<slot, run, closed>>

------------------------------------------------------------------------------
Init ==
  /\ slot = [s \in Slots |-> [lease |-> None, disabled |-> FALSE]]
  /\ run = [r \in Runs |-> NewRun]
  /\ txn = [r \in Runs |-> [k \in 1..MaxAttempts |-> "none"]]
  /\ closed = FALSE

(* What the event loop does next for a run: its timers and its promises.    *)
Proceed(r) ==
  \/ CloseExpired(r)
  \/ Committed(r)
  \/ Caught(r)
  \/ Retry(r)
  \/ GiveUp(r)
  \/ Release(r)

Next ==
  \/ \E r \in Runs, s \in Slots : Lease(r, s)
  \/ \E r \in Runs : Capacity(r)
  \/ \E r \in Runs : PassDeadline(r)
  \/ \E r \in Runs : Expire(r)
  \/ \E r \in Runs : Proceed(r)
  \/ \E r \in Runs : Check(r)
  \/ \E r \in Runs : Send(r)
  \/ \E r \in Runs : CallbackFails(r)
  \/ \E r \in Runs : CallbackReturns(r)
  \/ \E r \in Runs : RaceLost(r)
  \/ \E r \in Runs : Answer(r)
  \/ \E r \in Runs : LoseConnection(r)
  \/ \E r \in Runs, k \in 1..MaxAttempts : BackendEnds(r, k)
  \/ Close

Spec == Init /\ [][Next]_vars

(* Clocks advance, timers fire and settled promises are resumed.  Nothing   *)
(* is assumed of the backend, the network or the callback.                  *)
FairSpec ==
  /\ Spec
  /\ \A r \in Runs : WF_vars(PassDeadline(r)) /\ WF_vars(Expire(r)) /\ WF_vars(Proceed(r))

------------------------------------------------------------------------------
(* Properties.                                                             *)

(* "Preserve the capacity reservation ... rather than accumulate new        *)
(* sessions alongside an uncertain old backend": a transaction the backend  *)
(* may still be running belongs to the attempt its slot now waits for, or   *)
(* its slot is out of service.                                              *)
QuietBesideCurrent ==
  \A r \in Runs, k \in 1..MaxAttempts :
    txn[r][k] = "active" =>
      LET s == slot[run[r].slot] IN
      s.disabled \/ (s.lease = r /\ run[r].attempt = k)

(* What a caller is told: success means one commit, an answer of the        *)
(* database routine (stale confirmation, conflict) that nothing was or will *)
(* be committed; and retries never commit a command twice.                  *)
AnswersTrue ==
  \A r \in Runs :
    LET Having(s) == {k \in 1..MaxAttempts : txn[r][k] = s} IN
    /\ \A j, k \in Having("committed") : j = k
    /\ run[r].outcome = "success" => Having("committed") # {}
    /\ run[r].outcome = "domain"  => Having("committed") = {} /\ Having("active") = {}

(* Every leased slot is given back, even if the backend never answers, the  *)
(* connection hangs and the callback stalls.                                *)
LeasesEnd == \A s \in Slots : slot[s].lease # None ~> slot[s].lease = None

(* "Late callbacks cannot obtain a SQL capability": a routine is sent only  *)
(* while the handle is active.                                              *)
LateCallbacksSilent ==
  [][\A r \in Runs :
       run[r].callback = "armed" /\ run'[r].callback = "checked" => Active(r)]_vars
==============================================================================
