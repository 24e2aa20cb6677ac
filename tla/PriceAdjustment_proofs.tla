------------------------ MODULE PriceAdjustment_proofs ------------------------
(***************************************************************************)
(* The price book under any number of proposals, calls and edits by hand:  *)
(* transitions are closed, an applied price is in force, a rollback        *)
(* restores what was in force, and corrections compound only over two live *)
(* adjustments of one target.                                              *)
(***************************************************************************)
EXTENDS PriceAdjustment, TLAPS

(* The rows a code may have: entered by a person or written by an           *)
(* adjustment of that code.                                                 *)
RowsOf(t) == Manual \cup Written(t)

(* What a call under way has read.                                          *)
CallSound(k) ==
  /\ k.op = "propose" => k.on \in Targets
  /\ k.op \in {"approve", "reject", "target", "apply"}
       => k.on \in Adjustments /\ adj[k.on].status # "none"
  /\ k.op \in {"target", "apply"} => adj[k.on].target \notin Zones
  /\ k.op \in {"target", "apply"} /\ adj[k.on].target \in Codes
       => k.seen \in RowsOf(adj[k.on].target) \ {k.on}

Known == {k \in CallState : CallSound(k)}

(* A proposal names its target, and a written one has its snapshot.         *)
RowSound(a) ==
  /\ adj[a].status # "none" => adj[a].target \in Targets
  /\ adj[a].status \in {"applied", "rolled_back"} =>
       /\ adj[a].target \in Codes => adj[a].previousPricing \in RowsOf(adj[a].target) \ {a}
       /\ adj[a].target \in Zones => adj[a].previousFactor \in Nat

Sound ==
  /\ call \in [Calls -> Known]
  /\ \A a \in Adjustments : RowSound(a)
  /\ \A t \in Codes : book[t] \subseteq RowsOf(t)

(* One applied adjustment of a target that has an index.                    *)
OneApplied ==
  \A a, b \in Adjustments :
    /\ adj[a].status = "applied" /\ adj[b].status = "applied"
    /\ adj[a].target = adj[b].target /\ adj[a].target \notin Trades
    => a = b

(* What an applied adjustment left of what was in force before.             *)
Kept(a) ==
  adj[a].status = "applied" =>
    /\ adj[a].target \in Codes /\ before[a] # None =>
         /\ a \notin before[a]
         /\ book[adj[a].target] = (before[a] \ {adj[a].previousPricing}) \cup {a}
    /\ adj[a].target \in Zones =>
         \E f \in Nat : before[a] = {f} /\ adj[a].previousFactor = Round2(f)

PriceInv == PriceTypeOK /\ Sound /\ OneApplied /\ \A a \in Adjustments : Kept(a)

------------------------------------------------------------------------------
(* A floor of two decimals is a floor.                                      *)
LEMMA Round2Type == \A f \in Nat : Round2(f) \in Nat
BY DEF Round2

(* Adjustment a moves on to row: forward in its life, at the same target.   *)
MovesTo(a, row) ==
  /\ adj' = [adj EXCEPT ![a] = row]
  /\ row \in Adjustment /\ row.status # "none" /\ row.target \in Targets
  /\ adj[a].status # "none" => row.target = adj[a].target
  /\ adj[a].status \in {"applied", "rolled_back"} => row.status \in {"applied", "rolled_back"}

(* Rows of the price book stay accounted for when an adjustment moves on,   *)
(* and so does what calls and other adjustments know of them.               *)
LEMMA MoveKeeps ==
  ASSUME PriceTypeOK, NEW a \in Adjustments, NEW CONSTANT row, MovesTo(a, row)
  PROVE  /\ adj' \in [Adjustments -> Adjustment] /\ adj'[a] = row
         /\ \A b \in Adjustments \ {a} : adj'[b] = adj[b]
         /\ \A t \in Codes : RowsOf(t) \subseteq RowsOf(t)'
         /\ Known \subseteq Known'
         /\ \A b \in Adjustments \ {a} : RowSound(b) => RowSound(b)'
<1>1. /\ adj' \in [Adjustments -> Adjustment] /\ adj'[a] = row
      /\ \A b \in Adjustments \ {a} : adj'[b] = adj[b]
  BY DEF PriceTypeOK, MovesTo
<1>2. \A b \in Adjustments :
        adj[b].status # "none" => adj'[b].status # "none" /\ adj'[b].target = adj[b].target
  BY <1>1 DEF MovesTo
<1>3. \A t \in Codes : RowsOf(t) \subseteq RowsOf(t)'
  BY <1>1, <1>2 DEF MovesTo, RowsOf, Written
<1>4. Known \subseteq Known'
  <2> SUFFICES ASSUME NEW k \in CallState, CallSound(k) PROVE CallSound(k)'
    BY DEF Known
  <2> QED
    BY <1>2, <1>3 DEF CallSound, RowsOf
<1>5. \A b \in Adjustments \ {a} : RowSound(b) => RowSound(b)'
  BY <1>1, <1>3 DEF RowSound
<1> QED
  BY <1>1, <1>3, <1>4, <1>5

(* A call that only reads disturbs nothing.                                 *)
LEMMA ReadKeeps ==
  ASSUME PriceInv, NEW c \in Calls, NEW CONSTANT k \in Known,
         call' = [call EXCEPT ![c] = k], UNCHANGED <<adj, book, factor, before>>
  PROVE  PriceInv'
<1>1. Known' = Known /\ \A a \in Adjustments : RowSound(a)' = RowSound(a)
  BY DEF Known, CallSound, RowSound, RowsOf, Written
<1>2. PriceTypeOK'
  BY DEF PriceInv, PriceTypeOK, Known
<1>3. Sound'
  BY <1>1 DEF PriceInv, Sound, RowsOf, Written
<1>4. OneApplied' /\ \A a \in Adjustments : Kept(a)'
  BY DEF PriceInv, OneApplied, Kept
<1> QED
  BY <1>2, <1>3, <1>4 DEF PriceInv

(* An ended call knows nothing.                                             *)
LEMMA IdleKnown == Idle \in Known
BY DEF Idle, CallState, CallSound, Known

(* A proposal or a decision changes a row that is not applied into one that *)
(* is not.                                                                  *)
LEMMA DecisionKeeps ==
  ASSUME PriceInv, NEW c \in Calls, NEW a \in Adjustments, NEW CONSTANT row, MovesTo(a, row),
         adj[a].status \notin {"applied", "rolled_back"},
         row.status \notin {"applied", "rolled_back"},
         call' = [call EXCEPT ![c] = Idle], UNCHANGED <<book, factor, before>>
  PROVE  PriceInv'
<1>1. /\ adj' \in [Adjustments -> Adjustment] /\ adj'[a] = row
      /\ \A b \in Adjustments \ {a} : adj'[b] = adj[b]
      /\ \A t \in Codes : RowsOf(t) \subseteq RowsOf(t)'
      /\ Known \subseteq Known'
      /\ \A b \in Adjustments \ {a} : RowSound(b) => RowSound(b)'
  BY MoveKeeps DEF PriceInv
<1>2. PriceTypeOK'
  BY <1>1, IdleKnown DEF PriceInv, PriceTypeOK, Known
<1>3. RowSound(a)'
  BY <1>1 DEF MovesTo, RowSound
<1>4. call' \in [Calls -> Known']
  BY <1>1, IdleKnown DEF PriceInv, Sound
<1>5. Sound'
  BY <1>1, <1>3, <1>4 DEF PriceInv, Sound
<1>6. OneApplied' /\ \A b \in Adjustments : Kept(b)'
  BY <1>1 DEF PriceInv, OneApplied, Kept
<1> QED
  BY <1>2, <1>5, <1>6 DEF PriceInv

------------------------------------------------------------------------------
(* Any rows and floors a person entered will do at the start.               *)
LEMMA PriceInit == Init => PriceInv
<1> SUFFICES ASSUME Init PROVE PriceInv
  OBVIOUS
<1>1. NewAdjustment \in Adjustment /\ Idle \in Known
  BY IdleKnown DEF NewAdjustment, Adjustment
<1>2. book \in [Codes -> SUBSET Manual]
  <2>1. \A b \in {{}} \cup {{row} : row \in Manual} : b \in SUBSET Manual
    OBVIOUS
  <2> QED
    BY <2>1 DEF Init
<1>3. factor \in [Zones -> Nat]
  BY AdjustmentAssumption DEF Init
<1>4. PriceTypeOK
  BY <1>1, <1>2, <1>3 DEF Init, PriceTypeOK, Known, Rows
<1>5. Sound
  BY <1>1, <1>2 DEF Init, Sound, RowSound, RowsOf, NewAdjustment
<1>6. OneApplied /\ \A a \in Adjustments : Kept(a)
  BY DEF Init, OneApplied, Kept, NewAdjustment
<1> QED
  BY <1>4, <1>5, <1>6 DEF PriceInv

(* An apply keeps the row that was read for the rollback.  What was in      *)
(* force holds no row of this adjustment, which is not written yet, and no  *)
(* other adjustment of the code is applied.                                 *)
LEMMA ApplyKeeps == ASSUME PriceInv, NEW c \in Calls, Apply(c) PROVE PriceInv'
<1>1. /\ PriceTypeOK /\ Sound /\ OneApplied /\ \A b \in Adjustments : Kept(b)
      /\ call[c] \in CallState /\ CallSound(call[c])
      /\ call[c].op = "apply"
  BY DEF PriceInv, Sound, Known, Apply
<1>2. PICK a, t, seen, row :
        /\ a = call[c].on /\ t = adj[a].target /\ seen = call[c].seen
        /\ row = [adj[a] EXCEPT !.status = "applied", !.previousPricing = seen]
  OBVIOUS
<1>3. /\ a \in Adjustments /\ adj[a] \in Adjustment /\ t \in Targets \ Zones
      /\ seen \in Rows \cup {None}
      /\ t \in Codes => seen \in RowsOf(t) \ {a}
      /\ adj[a].target = t /\ adj[a].status = "approved" /\ UniqueIndex(a)
  BY <1>1, <1>2 DEF Apply, CallSound, PriceTypeOK, Sound, RowSound, CallState
<1>4. /\ row \in Adjustment /\ row.status = "applied" /\ row.target = t
      /\ row.previousPricing = seen /\ adj' = [adj EXCEPT ![a] = row]
      /\ call' = [call EXCEPT ![c] = Idle] /\ factor' = factor
      /\ t \in Codes => /\ book' = [book EXCEPT ![t] = (@ \ {seen}) \cup {a}]
                        /\ before' = [before EXCEPT ![a] = book[t]]
      /\ t \notin Codes => book' = book /\ before' = before
  <2>1. row \in Adjustment
    BY <1>2, <1>3 DEF Adjustment, Statuses
  <2>2. row.status = "applied" /\ row.target = t /\ row.previousPricing = seen
    BY <1>2, <1>3 DEF Adjustment
  <2>3. /\ adj' = [adj EXCEPT ![a] = row]
        /\ call' = [call EXCEPT ![c] = Idle] /\ factor' = factor
    BY <1>2 DEF Apply, End
  <2>4. /\ t \in Codes => /\ book' = [book EXCEPT ![t] = (@ \ {seen}) \cup {a}]
                          /\ before' = [before EXCEPT ![a] = book[t]]
        /\ t \notin Codes => book' = book /\ before' = before
    BY <1>2 DEF Apply
  <2> QED
    BY <2>1, <2>2, <2>3, <2>4, Zenon
<1>5. t \in Codes => a \notin book[t]
  BY <1>1, <1>3, AdjustmentAssumption DEF Sound, RowsOf, Written
<1>6. MovesTo(a, row)
  BY <1>3, <1>4 DEF MovesTo
<1>7. /\ adj' \in [Adjustments -> Adjustment] /\ adj'[a] = row
      /\ \A b \in Adjustments \ {a} : adj'[b] = adj[b]
      /\ \A u \in Codes : RowsOf(u) \subseteq RowsOf(u)'
      /\ Known \subseteq Known'
      /\ \A b \in Adjustments \ {a} : RowSound(b) => RowSound(b)'
  BY <1>1, <1>3, <1>6, MoveKeeps
<1>8. t \in Codes => a \in RowsOf(t)'
  BY <1>3, <1>4, <1>7 DEF RowsOf, Written
<1>9. PriceTypeOK'
  <2>1. book' \in [Codes -> SUBSET Rows]
    BY <1>1, <1>3, <1>4 DEF PriceTypeOK, Rows
  <2>2. before' \in [Adjustments -> (SUBSET (Rows \cup Nat)) \cup {None}]
    BY <1>1, <1>3, <1>4 DEF PriceTypeOK
  <2> QED
    BY <1>1, <1>4, <1>7, <2>1, <2>2, IdleKnown DEF PriceTypeOK, Known
<1>10. Sound'
  <2>1. call' \in [Calls -> Known']
    BY <1>1, <1>4, <1>7, IdleKnown DEF Sound
  <2>2. RowSound(a)'
    BY <1>3, <1>4, <1>7 DEF RowSound, Targets
  <2>3. \A u \in Codes : book'[u] \subseteq RowsOf(u)'
    BY <1>1, <1>4, <1>7, <1>8 DEF Sound, PriceTypeOK
  <2> QED
    BY <1>1, <1>7, <2>1, <2>2, <2>3 DEF Sound
<1>11. OneApplied'
  BY <1>1, <1>3, <1>4, <1>7 DEF OneApplied, UniqueIndex
<1>12. Kept(a)'
  BY <1>1, <1>3, <1>4, <1>5, <1>7 DEF Kept, PriceTypeOK
<1>13. ASSUME NEW b \in Adjustments \ {a} PROVE Kept(b)'
  <2>1. adj[b].status = "applied" /\ adj[b].target \in Codes
          => adj[b].target # t
    BY <1>1, <1>3, AdjustmentAssumption DEF UniqueIndex
  <2>2. Kept(b)
    BY <1>1, <1>13
  <2>3. adj'[b] = adj[b] /\ before'[b] = before[b]
    BY <1>1, <1>4, <1>7, <1>13 DEF PriceTypeOK
  <2>4. adj[b].status = "applied" /\ adj[b].target \in Codes
          => book'[adj[b].target] = book[adj[b].target]
    BY <1>1, <1>4, <2>1 DEF PriceTypeOK
  <2> QED
    BY <2>2, <2>3, <2>4 DEF Kept
<1> QED
  BY <1>9, <1>10, <1>11, <1>12, <1>13 DEF PriceInv

(* A rollback of an adjustment: no other one of its code is applied.        *)
LEMMA RollBackKeeps == ASSUME PriceInv, NEW a \in Adjustments, RollBack(a) PROVE PriceInv'
<1>1. /\ PriceTypeOK /\ Sound /\ OneApplied /\ \A b \in Adjustments : Kept(b)
      /\ RowSound(a)
  BY DEF PriceInv, Sound
<1>2. PICK t, seen, row :
        /\ t = adj[a].target /\ seen = adj[a].previousPricing
        /\ row = [adj[a] EXCEPT !.status = "rolled_back"]
  OBVIOUS
<1>3. /\ adj[a] \in Adjustment /\ adj[a].status = "applied" /\ t \in Targets \ Zones
      /\ adj[a].target = t
      /\ t \in Codes => seen \in RowsOf(t)
  BY <1>1, <1>2 DEF RollBack, PriceTypeOK, RowSound
<1>4. /\ row \in Adjustment /\ row.status = "rolled_back" /\ row.target = t
      /\ row.previousPricing = seen /\ row.previousFactor = adj[a].previousFactor
      /\ adj' = [adj EXCEPT ![a] = row]
      /\ UNCHANGED <<factor, call, before>>
      /\ t \in Codes => book' = [book EXCEPT ![t] = (@ \ {a}) \cup {seen}]
      /\ t \notin Codes => book' = book
  BY <1>1, <1>2, <1>3 DEF RollBack, Restored, Adjustment, Statuses
<1>5. MovesTo(a, row)
  BY <1>3, <1>4 DEF MovesTo
<1>6. /\ adj' \in [Adjustments -> Adjustment] /\ adj'[a] = row
      /\ \A b \in Adjustments \ {a} : adj'[b] = adj[b]
      /\ \A u \in Codes : RowsOf(u) \subseteq RowsOf(u)'
      /\ Known \subseteq Known'
      /\ \A b \in Adjustments \ {a} : RowSound(b) => RowSound(b)'
  BY <1>1, <1>5, MoveKeeps
<1>7. PriceTypeOK'
  <2>1. book' \in [Codes -> SUBSET Rows]
    BY <1>1, <1>3, <1>4 DEF PriceTypeOK, Rows, RowsOf, Written
  <2> QED
    BY <1>1, <1>4, <1>6, <2>1 DEF PriceTypeOK
<1>8. Sound'
  <2>1. call' \in [Calls -> Known']
    BY <1>1, <1>4, <1>6 DEF Sound
  <2>2. RowSound(a)'
    BY <1>1, <1>2, <1>3, <1>4, <1>6 DEF RowSound
  <2>3. \A u \in Codes : book'[u] \subseteq RowsOf(u)'
    BY <1>1, <1>3, <1>4, <1>6 DEF Sound, PriceTypeOK
  <2> QED
    BY <1>1, <1>6, <2>1, <2>2, <2>3 DEF Sound
<1>9. OneApplied'
  BY <1>1, <1>4, <1>6 DEF OneApplied
<1>10. Kept(a)'
  BY <1>4, <1>6 DEF Kept
<1>11. ASSUME NEW b \in Adjustments \ {a} PROVE Kept(b)'
  <2>1. adj[b].status = "applied" /\ adj[b].target \in Codes => adj[b].target # t
    BY <1>1, <1>3, AdjustmentAssumption DEF OneApplied
  <2>2. adj'[b] = adj[b] /\ before'[b] = before[b] /\ Kept(b)
    BY <1>1, <1>4, <1>6
  <2>3. adj[b].status = "applied" /\ adj[b].target \in Codes
          => book'[adj[b].target] = book[adj[b].target]
    BY <1>1, <1>4, <2>1 DEF PriceTypeOK
  <2> QED
    BY <2>2, <2>3 DEF Kept
<1> QED
  BY <1>7, <1>8, <1>9, <1>10, <1>11 DEF PriceInv

(* An adjustment of a floor keeps the floor it found, rounded, and its      *)
(* rollback leaves nothing to keep.  The price book rests.                  *)
LEMMA FloorKeeps ==
  ASSUME PriceInv, NEW a \in Adjustments, ApplyGeo(a) \/ RollBackGeo(a) PROVE PriceInv'
<1>1. /\ PriceTypeOK /\ Sound /\ OneApplied /\ \A b \in Adjustments : Kept(b)
      /\ RowSound(a)
  BY DEF PriceInv, Sound
<1>2. PICK z, row :
        /\ z = adj[a].target
        /\ row = IF adj[a].status = "approved"
                 THEN [adj[a] EXCEPT !.status = "applied", !.previousFactor = Round2(factor[z])]
                 ELSE [adj[a] EXCEPT !.status = "rolled_back"]
  OBVIOUS
<1>3. /\ adj[a] \in Adjustment /\ z \in Zones /\ z \in Targets /\ z \notin Codes
      /\ (adj[a].status = "approved" /\ UniqueIndex(a)) \/ adj[a].status = "applied"
      /\ factor[z] \in Nat /\ Round2(factor[z]) \in Nat
      /\ UNCHANGED <<book, call>> /\ adj' = [adj EXCEPT ![a] = row]
  BY <1>1, <1>2, Round2Type, AdjustmentAssumption
     DEF ApplyGeo, RollBackGeo, PriceTypeOK, Targets
<1>4. /\ row \in Adjustment /\ row.target = z
      /\ adj[a].status = "approved" => row.status = "applied" /\ row.previousFactor = Round2(factor[z])
      /\ adj[a].status = "applied" => row.status = "rolled_back" /\ row.previousFactor = adj[a].previousFactor
  BY <1>2, <1>3 DEF Adjustment, Statuses
<1>5. \/ adj[a].status = "approved" /\ before' = [before EXCEPT ![a] = {factor[z]}]
      \/ adj[a].status = "applied" /\ before' = before
  BY <1>2 DEF ApplyGeo, RollBackGeo
<1>6. factor' \in [Zones -> Nat]
  <2>1. CASE ApplyGeo(a)
    <3>1. PICK f \in Floors : factor' = [factor EXCEPT ![z] = Round2(f)]
      BY <1>2, <2>1 DEF ApplyGeo
    <3> QED
      BY <1>1, <3>1, Round2Type, AdjustmentAssumption DEF PriceTypeOK
  <2>2. CASE RollBackGeo(a)
    BY <1>1, <2>2 DEF RollBackGeo, PriceTypeOK, RowSound
  <2> QED
    BY <2>1, <2>2
<1>7. MovesTo(a, row)
  BY <1>2, <1>3, <1>4 DEF MovesTo
<1>8. /\ adj' \in [Adjustments -> Adjustment] /\ adj'[a] = row
      /\ \A b \in Adjustments \ {a} : adj'[b] = adj[b]
      /\ \A u \in Codes : RowsOf(u) \subseteq RowsOf(u)'
      /\ Known \subseteq Known'
      /\ \A b \in Adjustments \ {a} : RowSound(b) => RowSound(b)'
  BY <1>1, <1>7, MoveKeeps
<1>9. PriceTypeOK'
  BY <1>1, <1>3, <1>5, <1>6, <1>8 DEF PriceTypeOK
<1>10. Sound'
  <2>1. RowSound(a)'
    BY <1>1, <1>2, <1>3, <1>4, <1>8 DEF RowSound
  <2> QED
    BY <1>1, <1>3, <1>8, <2>1 DEF Sound
<1>11. OneApplied'
  BY <1>1, <1>2, <1>3, <1>4, <1>8 DEF OneApplied, UniqueIndex
<1>12. Kept(a)'
  BY <1>1, <1>3, <1>4, <1>5, <1>8 DEF Kept, PriceTypeOK
<1>13. \A b \in Adjustments \ {a} : Kept(b)'
  BY <1>1, <1>3, <1>5, <1>8 DEF Kept, PriceTypeOK
<1> QED
  BY <1>9, <1>10, <1>11, <1>12, <1>13 DEF PriceInv

(* An edit by hand ends what is said of the code's adjustments, and no more.*)
LEMMA EditKeeps ==
  ASSUME PriceInv, NEW t \in Codes, NEW row \in Rows, EditPrice(t, row) PROVE PriceInv'
<1>1. /\ PriceTypeOK /\ Sound /\ OneApplied /\ \A b \in Adjustments : Kept(b)
      /\ UNCHANGED <<adj, factor, call>> /\ row \in RowsOf(t)
      /\ \/ book' = [book EXCEPT ![t] = @ \cup {row}]
         \/ book' = [book EXCEPT ![t] = @ \ {row}]
      /\ before' = [b \in Adjustments |-> IF adj[b].target = t THEN None ELSE before[b]]
  BY DEF PriceInv, EditPrice, Disturb, RowsOf
<1>2. PriceTypeOK'
  BY <1>1 DEF PriceTypeOK
<1>3. Sound'
  <2>1. Known' = Known /\ (\A u \in Codes : RowsOf(u)' = RowsOf(u))
                       /\ \A b \in Adjustments : RowSound(b)' = RowSound(b)
    BY <1>1 DEF Known, CallSound, RowSound, RowsOf, Written
  <2> QED
    BY <1>1, <2>1 DEF Sound, PriceTypeOK
<1>4. OneApplied'
  BY <1>1 DEF OneApplied
<1>5. ASSUME NEW b \in Adjustments PROVE Kept(b)'
  <2>1. CASE adj[b].target = t
    BY <1>1, <2>1, AdjustmentAssumption DEF Kept
  <2>2. CASE adj[b].target # t
    BY <1>1, <2>2 DEF Kept, PriceTypeOK
  <2> QED
    BY <2>1, <2>2
<1> QED
  BY <1>2, <1>3, <1>4, <1>5 DEF PriceInv

(* Only the floors change when a zone is edited.                            *)
LEMMA ZoneKeeps == ASSUME PriceInv, NEW z \in Zones, EditZone(z) PROVE PriceInv'
<1>1. PICK f \in Floors : factor' = [factor EXCEPT ![z] = f]
  BY DEF EditZone
<1>2. PriceTypeOK'
  BY <1>1, AdjustmentAssumption DEF PriceInv, PriceTypeOK, EditZone
<1>3. Sound' /\ OneApplied' /\ \A b \in Adjustments : Kept(b)'
  <2>1. UNCHANGED <<adj, book, call, before>>
    BY DEF EditZone
  <2>2. Known' = Known /\ (\A u \in Codes : RowsOf(u)' = RowsOf(u))
                       /\ \A b \in Adjustments : RowSound(b)' = RowSound(b)
    BY <2>1 DEF Known, CallSound, RowSound, RowsOf, Written
  <2> QED
    BY <2>1, <2>2 DEF PriceInv, Sound, OneApplied, Kept
<1> QED
  BY <1>2, <1>3 DEF PriceInv

------------------------------------------------------------------------------
(* One case per action.                                                     *)
LEMMA PriceStep == PriceInv /\ [Next]_vars => PriceInv'
<1> SUFFICES ASSUME PriceInv, [Next]_vars PROVE PriceInv'
  OBVIOUS
<1>0. PriceTypeOK /\ Sound
  BY DEF PriceInv
<1>1. ASSUME NEW c \in Calls, NEW t \in Targets, CheckFree(c, t) PROVE PriceInv'
  <2>1. PICK k : k = [op |-> "propose", on |-> t, seen |-> None]
    OBVIOUS
  <2>2. k \in Known
    BY <2>1 DEF Known, CallState, CallSound
  <2> QED
    BY <1>1, <2>1, <2>2, ReadKeeps DEF CheckFree, Begin
<1>2. ASSUME NEW c \in Calls, NEW a \in Adjustments,
             ReadForApproval(c, a) \/ ReadForRejection(c, a) PROVE PriceInv'
  <2>1. PICK k : /\ k = [op |-> "approve", on |-> a, seen |-> None] \/ k = [op |-> "reject", on |-> a, seen |-> None]
                 /\ call' = [call EXCEPT ![c] = k]
    BY <1>2 DEF ReadForApproval, ReadForRejection, Begin
  <2>2. adj[a].status # "none" /\ UNCHANGED <<adj, book, factor, before>>
    BY <1>2 DEF ReadForApproval, ReadForRejection
  <2>3. k \in Known
    BY <2>1, <2>2 DEF Known, CallState, CallSound
  <2> QED
    BY <2>1, <2>2, <2>3, ReadKeeps
<1>3. ASSUME NEW c \in Calls, NEW a \in Adjustments, ReadTarget(c, a) PROVE PriceInv'
  <2>1. PICK row \in IF adj[a].target \in Codes THEN PriceOf(adj[a].target) ELSE {None} :
          call' = [call EXCEPT ![c] = [op |-> "target", on |-> a, seen |-> row]]
    BY <1>3 DEF ReadTarget
  <2>2. /\ adj[a].status = "approved" /\ adj[a].target \notin Zones
        /\ UNCHANGED <<adj, book, factor, before>>
    BY <1>3 DEF ReadTarget
  <2>3. /\ adj[a].target \in Codes => row \in RowsOf(adj[a].target) \ {a}
        /\ row \in Rows \cup {None}
    BY <1>0, <2>1, <2>2, AdjustmentAssumption DEF PriceOf, Sound, RowsOf, Written, PriceTypeOK
  <2>4. PICK k : k = [op |-> "target", on |-> a, seen |-> row]
    OBVIOUS
  <2>5. k \in Known
    BY <2>2, <2>3, <2>4 DEF Known, CallState, CallSound
  <2> QED
    BY <2>1, <2>2, <2>4, <2>5, ReadKeeps
<1>4. ASSUME NEW c \in Calls, CheckLive(c) PROVE PriceInv'
  <2>1. PICK k : k = [call[c] EXCEPT !.op = "apply"]
    OBVIOUS
  <2>2. /\ call[c] \in Known /\ call[c].op = "target"
        /\ call' = [call EXCEPT ![c] = k] /\ UNCHANGED <<adj, book, factor, before>>
    BY <1>0, <1>4, <2>1 DEF CheckLive, Sound
  <2>3. k \in Known
    BY <2>1, <2>2 DEF Known, CallState, CallSound
  <2> QED
    BY <2>2, <2>3, ReadKeeps
<1>5. ASSUME NEW c \in Calls, NEW a \in Adjustments, Propose(c, a) PROVE PriceInv'
  <2>1. PICK row : row = [adj[a] EXCEPT !.status = "proposed", !.target = call[c].on]
    OBVIOUS
  <2>2. /\ adj[a] \in Adjustment /\ adj[a].status = "none" /\ call[c].on \in Targets
        /\ adj' = [adj EXCEPT ![a] = row] /\ call' = [call EXCEPT ![c] = Idle]
        /\ UNCHANGED <<book, factor, before>>
    BY <1>0, <1>5, <2>1 DEF Propose, End, Sound, Known, CallSound, PriceTypeOK
  <2>3. row \in Adjustment /\ row.status = "proposed" /\ row.target \in Targets
    BY <2>1, <2>2 DEF Adjustment, Statuses
  <2>4. MovesTo(a, row)
    BY <2>2, <2>3 DEF MovesTo
  <2> QED
    BY <2>2, <2>3, <2>4, DecisionKeeps
<1>6. ASSUME NEW c \in Calls, Approve(c) \/ Reject(c) PROVE PriceInv'
  <2>1. PICK a, status, row :
          /\ a = call[c].on /\ status \in {"approved", "rejected"}
          /\ TriggerAllows(adj[a].status, status) /\ row = [adj[a] EXCEPT !.status = status]
          /\ call[c].op \in {"approve", "reject"}
          /\ adj' = [adj EXCEPT ![a].status = status]
    BY <1>6 DEF Approve, Reject, Decide
  <2>2. /\ a \in Adjustments /\ adj[a] \in Adjustment /\ adj[a].status # "none"
        /\ adj' = [adj EXCEPT ![a] = row] /\ adj[a].target \in Targets
        /\ call' = [call EXCEPT ![c] = Idle] /\ UNCHANGED <<book, factor, before>>
    BY <1>0, <1>6, <2>1
       DEF Approve, Reject, Decide, End, Sound, Known, CallSound, RowSound, PriceTypeOK
  <2>3. row \in Adjustment /\ row.status = status /\ row.target = adj[a].target
    BY <2>1, <2>2 DEF Adjustment, Statuses
  <2>4. adj[a].status \notin {"applied", "rolled_back"}
    BY <2>1 DEF TriggerAllows, Terminal
  <2>5. MovesTo(a, row)
    BY <2>1, <2>2, <2>3, <2>4 DEF MovesTo
  <2> QED
    BY <2>1, <2>2, <2>3, <2>4, <2>5, DecisionKeeps
<1>7. ASSUME NEW c \in Calls, Abandon(c) PROVE PriceInv'
  BY <1>7, IdleKnown, ReadKeeps DEF Abandon, End
<1>8. CASE UNCHANGED vars
  <2>1. /\ Known' = Known /\ \A a \in Adjustments : RowSound(a)' = RowSound(a)
        /\ \A t \in Codes : RowsOf(t)' = RowsOf(t)
    BY <1>8 DEF vars, Known, CallSound, RowSound, RowsOf, Written
  <2> QED
    BY <1>8, <2>1 DEF vars, PriceInv, PriceTypeOK, Sound, OneApplied, Kept
<1> QED
  BY <1>1, <1>2, <1>3, <1>4, <1>5, <1>6, <1>7, <1>8, ApplyKeeps, RollBackKeeps, FloorKeeps,
     EditKeeps, ZoneKeeps DEF Next

LEMMA PriceAlways == Spec => []PriceInv
BY PriceInit, PriceStep, PTL DEF Spec

(* Every variable keeps its type, for any proposals, calls and edits.       *)
THEOREM PriceTyping == Spec => []PriceTypeOK
<1>1. PriceInv => PriceTypeOK
  BY DEF PriceInv
<1> QED
  BY <1>1, PriceAlways, PTL

(* An applied price is in force and the one it replaced is not, whatever    *)
(* other proposals are approved, applied and rolled back.                   *)
THEOREM InForce == Spec => []AppliedInForce
<1>1. PriceInv => AppliedInForce
  <2> SUFFICES ASSUME PriceInv, NEW a \in Adjustments, adj[a].status = "applied",
                      adj[a].target \in Codes, before[a] # None
               PROVE  a \in book[adj[a].target] /\ adj[a].previousPricing \notin book[adj[a].target]
    BY DEF AppliedInForce
  <2>1. Kept(a) /\ RowSound(a)
    BY DEF PriceInv, Sound
  <2> QED
    BY <2>1 DEF Kept, RowSound
<1> QED
  BY <1>1, PriceAlways, PTL

(* The status of an adjustment moves only along the declared transitions:   *)
(* what was read before an approval or a rejection may be stale, and the    *)
(* row trigger refuses exactly the writes that would matter.                *)
THEOREM Closed == Spec => TransitionsClosed
<1> DEFINE A == \A a \in Adjustments :
                  adj'[a].status # adj[a].status => <<adj[a].status, adj'[a].status>> \in Transitions
<1>1. PriceInv /\ [Next]_vars => [A]_vars
  <2> SUFFICES ASSUME PriceInv, Next, NEW a \in Adjustments, adj'[a].status # adj[a].status
               PROVE  <<adj[a].status, adj'[a].status>> \in Transitions
    BY DEF vars
  <2>0. PriceTypeOK /\ Sound
    BY DEF PriceInv
  <2>1. ASSUME NEW c \in Calls, NEW b \in Adjustments, Propose(c, b)
        PROVE  <<adj[a].status, adj'[a].status>> \in Transitions
    BY <2>0, <2>1 DEF Propose, PriceTypeOK, Adjustment, Transitions
  <2>2. ASSUME NEW c \in Calls, Approve(c) \/ Reject(c)
        PROVE  <<adj[a].status, adj'[a].status>> \in Transitions
    <3>1. PICK b, status :
            /\ b = call[c].on /\ status \in {"approved", "rejected"}
            /\ TriggerAllows(adj[b].status, status)
            /\ call[c].op = IF status = "approved" THEN "approve" ELSE "reject"
            /\ adj' = [adj EXCEPT ![b].status = status]
      BY <2>2 DEF Approve, Reject, Decide
    <3>2. b = a /\ adj'[a].status = status /\ adj[a].status \in Statuses
      BY <2>0, <3>1 DEF PriceTypeOK, Adjustment, Sound, Known, CallSound
    <3> QED
      BY <3>1, <3>2 DEF TriggerAllows, Terminal, Statuses, Transitions
  <2>3. ASSUME NEW c \in Calls, Apply(c) PROVE <<adj[a].status, adj'[a].status>> \in Transitions
    BY <2>0, <2>3 DEF Apply, PriceTypeOK, Adjustment, Transitions
  <2>4. ASSUME NEW b \in Adjustments, RollBack(b) \/ ApplyGeo(b) \/ RollBackGeo(b)
        PROVE  <<adj[a].status, adj'[a].status>> \in Transitions
    BY <2>0, <2>4 DEF RollBack, ApplyGeo, RollBackGeo, PriceTypeOK, Adjustment, Transitions
  <2> QED
    BY <2>1, <2>2, <2>3, <2>4
       DEF Next, CheckFree, ReadForApproval, ReadForRejection, ReadTarget, CheckLive, EditPrice,
           EditZone, Abandon
<1> QED
  BY <1>1, PriceAlways, PTL DEF Spec, TransitionsClosed

(* A rollback puts back what was in force at the apply: the rows of a code, *)
(* if nobody edited them by hand and the snapshot was in force; a floor of  *)
(* at most two decimals.  Floors of more decimals are not restored.         *)
THEOREM Restores == Spec => RollbackRestores
<1> DEFINE A == \A a \in Adjustments :
       adj[a].status = "applied" /\ adj'[a].status = "rolled_back" =>
         LET t == adj[a].target IN
         /\ t \in Codes /\ before[a] # None /\ adj[a].previousPricing \in before[a]
              => book'[t] = before[a]
         /\ t \in Zones => \A f \in before[a] : Round2(f) = f => factor'[t] = f
<1>1. PriceInv /\ [Next]_vars => [A]_vars
  <2> SUFFICES ASSUME PriceInv, Next, NEW a \in Adjustments,
                      adj[a].status = "applied", adj'[a].status = "rolled_back", NEW t,
                      t = adj[a].target
               PROVE  /\ t \in Codes /\ before[a] # None /\ adj[a].previousPricing \in before[a]
                           => book'[t] = before[a]
                      /\ t \in Zones => \A f \in before[a] : Round2(f) = f => factor'[t] = f
    BY DEF vars
  <2>0. PriceTypeOK /\ Sound /\ Kept(a)
    BY DEF PriceInv
  <2>1. RollBack(a) \/ RollBackGeo(a)
    <3>1. ASSUME NEW c \in Calls, NEW b \in Adjustments, Propose(c, b) PROVE FALSE
      BY <2>0, <3>1 DEF Propose, PriceTypeOK, Adjustment
    <3>2. ASSUME NEW c \in Calls, Approve(c) \/ Reject(c) PROVE FALSE
      BY <2>0, <3>2 DEF Approve, Reject, Decide, PriceTypeOK, Adjustment
    <3>3. ASSUME NEW c \in Calls, Apply(c) PROVE FALSE
      BY <2>0, <3>3 DEF Apply, PriceTypeOK, Adjustment
    <3>4. ASSUME NEW b \in Adjustments, ApplyGeo(b) PROVE FALSE
      BY <2>0, <3>4 DEF ApplyGeo, PriceTypeOK, Adjustment
    <3>5. ASSUME NEW b \in Adjustments, RollBack(b) \/ RollBackGeo(b) PROVE b = a
      BY <2>0, <3>5 DEF RollBack, RollBackGeo, PriceTypeOK, Adjustment
    <3> QED
      BY <3>1, <3>2, <3>3, <3>4, <3>5
         DEF Next, CheckFree, ReadForApproval, ReadForRejection, ReadTarget, CheckLive, EditPrice,
             EditZone, Abandon
  <2>2. CASE RollBack(a)
    <3>1. t \notin Zones /\ (t \in Codes => book'[t] = (book[t] \ {a}) \cup {adj[a].previousPricing})
      BY <2>0, <2>2 DEF RollBack, Restored, PriceTypeOK
    <3> DEFINE p == adj[a].previousPricing
    <3>2. ASSUME t \in Codes, before[a] # None, p \in before[a] PROVE book'[t] = before[a]
      <4>1. a \notin before[a] /\ book[t] = (before[a] \ {p}) \cup {a}
        BY <2>0, <3>2 DEF Kept
      <4>2. book'[t] = (book[t] \ {a}) \cup {p}
        BY <3>1, <3>2
      <4> HIDE DEF p
      <4> QED
        BY <3>2, <4>1, <4>2
    <3> QED
      BY <3>1, <3>2
  <2>3. CASE RollBackGeo(a)
    <3>1. t \in Zones /\ t \notin Codes /\ factor'[t] = adj[a].previousFactor
      BY <2>0, <2>3, AdjustmentAssumption DEF RollBackGeo, PriceTypeOK
    <3>2. PICK f \in Nat : before[a] = {f} /\ adj[a].previousFactor = Round2(f)
      BY <2>0, <3>1 DEF Kept
    <3> QED
      BY <3>1, <3>2
  <2> QED
    BY <2>1, <2>2, <2>3
<1> QED
  BY <1>1, PriceAlways, PTL DEF Spec, RollbackRestores
------------------------------------------------------------------------------
(* What one live adjustment of each target is good for, and where it holds. *)

(* In a code that nobody edits by hand the rows of adjustments in force are *)
(* those of applied ones, and nobody replaces one of them.                  *)
OwnRows(t) == book[t] \cap Adjustments \subseteq {a \in Adjustments : adj[a].status = "applied"}

ReadManual(k) ==
  k.op \in {"target", "apply"} /\ adj[k.on].target \in Codes \ Editable
    => k.seen \notin Adjustments

Manually ==
  /\ \A t \in Codes \ Editable : OwnRows(t)
  /\ \A c \in Calls : ReadManual(call[c])
  /\ Uncompounded

(* Steps that leave the book alone, write no price and read none.           *)
LEMMA ManualFrame ==
  ASSUME PriceInv, Manually, UNCHANGED book,
         \A a \in Adjustments :
           /\ adj[a].status # "none" => adj'[a].target = adj[a].target
           /\ adj[a].status = "applied" => adj'[a].status = "applied"
           /\ adj'[a].status = "applied" /\ adj'[a].target \in Codes => adj'[a] = adj[a],
         \A c \in Calls : \/ call'[c].op \notin {"target", "apply"}
                          \/ /\ call[c].op \in {"target", "apply"}
                             /\ call'[c].on = call[c].on /\ call'[c].seen = call[c].seen
  PROVE  Manually'
<1>1. \A t \in Codes \ Editable : OwnRows(t)'
  BY DEF Manually, OwnRows
<1>2. ASSUME NEW c \in Calls, call'[c].op \in {"target", "apply"},
             adj'[call'[c].on].target \in Codes \ Editable
      PROVE  call'[c].seen \notin Adjustments
  <2>1. call[c].on \in Adjustments /\ adj[call[c].on].status # "none" /\ ReadManual(call[c])
    BY <1>2 DEF PriceInv, Sound, Known, CallSound, Manually
  <2> QED
    BY <1>2, <2>1 DEF ReadManual
<1>3. Uncompounded'
  BY DEF Manually, Uncompounded
<1> QED
  BY <1>1, <1>2, <1>3 DEF Manually, ReadManual

(* The target that is read holds no row of an adjustment: the applied one   *)
(* would be a second live one.                                              *)
LEMMA ManualRead ==
  ASSUME PriceInv, OneLive, Manually, NEW c \in Calls, NEW a \in Adjustments, ReadTarget(c, a)
  PROVE  Manually'
<1>1. PICK row \in IF adj[a].target \in Codes THEN PriceOf(adj[a].target) ELSE {None} :
        call' = [call EXCEPT ![c] = [op |-> "target", on |-> a, seen |-> row]]
  BY DEF ReadTarget
<1>2. PriceTypeOK /\ Sound /\ adj[a].status = "approved" /\ UNCHANGED <<adj, book, factor, before>>
  BY DEF PriceInv, ReadTarget
<1>3. ASSUME adj[a].target \in Codes \ Editable PROVE row \notin Adjustments
  <2> SUFFICES ASSUME row \in Adjustments PROVE FALSE
    OBVIOUS
  <2>1. row \in book[adj[a].target] /\ adj[row].status = "applied"
    BY <1>1, <1>3 DEF PriceOf, Manually, OwnRows
  <2>2. adj[row].target = adj[a].target
    BY <1>2, <1>3, <2>1, AdjustmentAssumption DEF Sound, RowsOf, Written
  <2> QED
    BY <1>2, <2>1, <2>2 DEF OneLive, IsLive, Live
<1>4. ASSUME NEW d \in Calls PROVE ReadManual(call[d])'
  <2>1. CASE d = c
    BY <1>1, <1>2, <1>3, <2>1 DEF PriceTypeOK, ReadManual
  <2>2. CASE d # c
    BY <1>1, <1>2, <2>2 DEF PriceTypeOK, Manually, ReadManual
  <2> QED
    BY <2>1, <2>2
<1> QED
  BY <1>2, <1>4 DEF Manually, OwnRows, Uncompounded

(* An apply puts its own row in force, which is then one of an applied one. *)
LEMMA ManualApply == ASSUME PriceInv, Manually, NEW c \in Calls, Apply(c) PROVE Manually'
<1>1. PriceTypeOK /\ Sound /\ CallSound(call[c]) /\ ReadManual(call[c])
  BY DEF PriceInv, Sound, Known, Manually
<1>2. PICK a, t : a = call[c].on /\ t = adj[a].target
  OBVIOUS
<1>3. /\ a \in Adjustments /\ adj[a].status = "approved" /\ call[c].op = "apply"
      /\ adj' = [adj EXCEPT ![a].status = "applied", ![a].previousPricing = call[c].seen]
      /\ book' = IF t \in Codes THEN [book EXCEPT ![t] = (@ \ {call[c].seen}) \cup {a}] ELSE book
      /\ call' = [call EXCEPT ![c] = Idle]
  BY <1>1, <1>2 DEF Apply, End, CallSound
<1>4. /\ adj'[a].status = "applied" /\ adj'[a].target = t
      /\ adj'[a].previousPricing = call[c].seen
      /\ \A b \in Adjustments \ {a} : adj'[b] = adj[b]
  BY <1>1, <1>2, <1>3 DEF PriceTypeOK, Adjustment
<1>5. ASSUME NEW u \in Codes \ Editable PROVE OwnRows(u)'
  <2>1. OwnRows(u)
    BY DEF Manually
  <2>2. book'[u] \subseteq book[u] \cup {a}
    BY <1>1, <1>3 DEF PriceTypeOK
  <2> QED
    BY <1>3, <1>4, <2>1, <2>2 DEF OwnRows
<1>6. ASSUME NEW d \in Calls PROVE ReadManual(call[d])'
  <2>1. CASE d = c
    BY <1>1, <1>3, <2>1 DEF PriceTypeOK, ReadManual, Idle
  <2>2. CASE d # c
    <3>0. call'[d] = call[d]
      BY <1>1, <1>3, <2>2 DEF PriceTypeOK
    <3>1. ReadManual(call[d]) /\ (call[d].op \in {"target", "apply"} => call[d].on \in Adjustments)
      BY <1>1 DEF Sound, Known, CallSound, Manually
    <3>2. \A b \in Adjustments : adj'[b].target = adj[b].target
      BY <1>2, <1>4
    <3> QED
      BY <3>0, <3>1, <3>2 DEF ReadManual
  <2> QED
    BY <2>1, <2>2
<1>7. Uncompounded'
  <2>1. t \in Codes \ Editable => call[c].seen \notin Adjustments
    BY <1>1, <1>2, <1>3 DEF ReadManual
  <2> QED
    BY <1>4, <2>1 DEF Uncompounded, Manually
<1> QED
  BY <1>5, <1>6, <1>7 DEF Manually

(* A rollback retires its row and puts back one that a person entered.      *)
LEMMA ManualRollBack == ASSUME PriceInv, Manually, NEW a \in Adjustments, RollBack(a) PROVE Manually'
<1>1. PriceTypeOK /\ Sound /\ Uncompounded
  BY DEF PriceInv, Manually
<1>2. /\ adj[a].status = "applied" /\ UNCHANGED call
      /\ adj'[a].status = "rolled_back" /\ adj'[a].target = adj[a].target
      /\ \A b \in Adjustments \ {a} : adj'[b] = adj[b]
  BY <1>1 DEF RollBack, PriceTypeOK, Adjustment
<1>3. ASSUME NEW t \in Codes \ Editable PROVE OwnRows(t)'
  <2>1. OwnRows(t) /\ \A u \in Codes : book[u] \subseteq RowsOf(u)
    BY <1>1 DEF Manually, Sound
  <2>2. CASE adj[a].target = t
    <3>1. book'[t] = (book[t] \ {a}) \cup {adj[a].previousPricing}
      BY <1>1, <2>2 DEF RollBack, Restored, PriceTypeOK
    <3>2. adj[a].previousPricing \notin Adjustments
      BY <1>1, <1>2, <2>2 DEF Uncompounded
    <3> QED
      BY <1>2, <2>1, <3>1, <3>2 DEF OwnRows
  <2>3. CASE adj[a].target # t
    <3>1. book'[t] = book[t]
      BY <1>1, <2>3 DEF RollBack, PriceTypeOK
    <3>2. a \notin book[t]
      BY <2>1, <2>3, AdjustmentAssumption DEF RowsOf, Written
    <3> QED
      BY <1>2, <2>1, <3>1, <3>2 DEF OwnRows
  <2> QED
    BY <2>2, <2>3
<1>4. ASSUME NEW c \in Calls PROVE ReadManual(call[c])'
  <2>1. ReadManual(call[c]) /\ (call[c].op \in {"target", "apply"} => call[c].on \in Adjustments)
    BY <1>1 DEF Sound, Known, CallSound, Manually
  <2> QED
    BY <1>2, <2>1 DEF ReadManual
<1>5. Uncompounded'
  BY <1>1, <1>2 DEF Uncompounded
<1> QED
  BY <1>3, <1>4, <1>5 DEF Manually

(* An edit by hand is of a code that is edited by hand.                     *)
LEMMA ManualEdit ==
  ASSUME PriceInv, Manually, NEW t \in Editable \cap Codes, NEW row, EditPrice(t, row)
  PROVE  Manually'
<1>1. /\ UNCHANGED <<adj, call>>
      /\ \A u \in Codes \ Editable : book'[u] = book[u]
  BY DEF PriceInv, PriceTypeOK, EditPrice
<1> QED
  BY <1>1 DEF Manually, OwnRows, ReadManual, Uncompounded

(* As long as every target has one live adjustment, prices that nobody      *)
(* edits by hand stay uncompounded.                                         *)
LEMMA ManualStep ==
  PriceInv /\ OneLive /\ Manually /\ [Next]_vars => Manually'
<1> SUFFICES ASSUME PriceInv, OneLive, Manually, [Next]_vars PROVE Manually'
  OBVIOUS
<1>0. PriceTypeOK /\ Sound
  BY DEF PriceInv
<1>1. ASSUME NEW c \in Calls, NEW k, call' = [call EXCEPT ![c] = k],
             k.op \notin {"target", "apply"}, UNCHANGED <<adj, book>>
      PROVE  Manually'
  BY <1>0, <1>1, ManualFrame DEF PriceTypeOK
<1>2. ASSUME NEW c \in Calls,
             \/ \E t \in Targets : CheckFree(c, t)
             \/ \E a \in Adjustments : ReadForApproval(c, a) \/ ReadForRejection(c, a)
             \/ Abandon(c)
      PROVE  Manually'
  BY <1>1, <1>2 DEF CheckFree, ReadForApproval, ReadForRejection, Abandon, Begin, End, Idle
<1>3. ASSUME NEW c \in Calls, CheckLive(c) PROVE Manually'
  <2>1. /\ call[c].op = "target" /\ UNCHANGED <<adj, book>>
        /\ call'[c].on = call[c].on /\ call'[c].seen = call[c].seen
        /\ \A d \in Calls \ {c} : call'[d] = call[d]
    BY <1>0, <1>3 DEF CheckLive, PriceTypeOK, CallState
  <2> QED
    BY <2>1, ManualFrame
<1>4. ASSUME NEW c \in Calls,
             (\E a \in Adjustments : Propose(c, a)) \/ Approve(c) \/ Reject(c)
      PROVE  Manually'
  <2>1. UNCHANGED book /\ call' = [call EXCEPT ![c] = Idle]
    BY <1>4 DEF Propose, Approve, Reject, Decide, End
  <2>2. ASSUME NEW b \in Adjustments
        PROVE  /\ adj[b].status # "none" => adj'[b].target = adj[b].target
               /\ adj[b].status = "applied" => adj'[b].status = "applied"
               /\ adj'[b].status = "applied" => adj'[b] = adj[b]
    <3>1. CASE \E a \in Adjustments : Propose(c, a)
      BY <1>0, <3>1 DEF Propose, PriceTypeOK, Adjustment
    <3>2. ASSUME NEW status \in {"approved", "rejected"}, TriggerAllows(adj[call[c].on].status, status),
                 adj' = [adj EXCEPT ![call[c].on].status = status]
          PROVE  <2>2!2
      BY <1>0, <3>2 DEF TriggerAllows, PriceTypeOK, Adjustment
    <3> QED
      BY <1>4, <3>1, <3>2 DEF Approve, Reject, Decide
  <2>3. \A d \in Calls : call'[d].op \in {"target", "apply"} => call'[d] = call[d]
    BY <1>0, <2>1 DEF PriceTypeOK, Idle
  <2> QED
    BY <2>1, <2>2, <2>3, ManualFrame
<1>5. ASSUME NEW a \in Adjustments, ApplyGeo(a) \/ RollBackGeo(a) PROVE Manually'
  <2>1. UNCHANGED <<book, call>> /\ adj[a].target \in Zones
        /\ adj[a].status \in {"approved", "applied"}
    BY <1>5 DEF ApplyGeo, RollBackGeo
  <2>2. adj'[a].target = adj[a].target /\ \A b \in Adjustments \ {a} : adj'[b] = adj[b]
    BY <1>0, <1>5 DEF ApplyGeo, RollBackGeo, PriceTypeOK, Adjustment
  <2>3. adj'[a].target \notin Codes
    BY <2>1, <2>2, AdjustmentAssumption
  <2>4. \A t \in Codes \ Editable : OwnRows(t)'
    <3>1. \A t \in Codes : a \notin book[t]
      BY <1>0, <2>2, <2>3, AdjustmentAssumption DEF Sound, RowsOf, Written
    <3> QED
      BY <2>1, <2>2, <3>1 DEF Manually, OwnRows
  <2>5. ASSUME NEW c \in Calls PROVE ReadManual(call[c])'
    <3>1. ReadManual(call[c]) /\ (call[c].op \in {"target", "apply"} => call[c].on \in Adjustments)
      BY <1>0 DEF Sound, Known, CallSound, Manually
    <3> QED
      BY <2>1, <2>2, <3>1 DEF ReadManual
  <2>6. Uncompounded'
    BY <2>2, <2>3 DEF Manually, Uncompounded
  <2> QED
    BY <2>4, <2>5, <2>6 DEF Manually
<1>6. ASSUME NEW z \in Zones, EditZone(z) PROVE Manually'
  BY <1>6 DEF EditZone, Manually, OwnRows, ReadManual, Uncompounded
<1>7. CASE UNCHANGED vars
  BY <1>7 DEF vars, Manually, OwnRows, ReadManual, Uncompounded
<1> QED
  BY <1>2, <1>3, <1>4, <1>5, <1>6, <1>7, ManualRead, ManualApply, ManualRollBack, ManualEdit
     DEF Next

(* A call that is about to propose found no live adjustment of its target.  *)
Unclaimed(c) == call[c].op = "propose" => \A a \in Adjustments : ~IsLive(a, call[c].on)

(* Steps after which the live adjustments were live before, of the same     *)
(* target, and no call is about to propose that was not.                    *)
LEMMA LiveFrame ==
  ASSUME OneLive, \A c \in Calls : Unclaimed(c),
         \A a \in Adjustments : adj'[a].status \in Live => adj[a].status \in Live /\ adj'[a].target = adj[a].target,
         \A c \in Calls : call'[c].op = "propose" => call'[c] = call[c]
  PROVE  OneLive' /\ \A c \in Calls : Unclaimed(c)'
BY DEF OneLive, Unclaimed, IsLive

(* One call at a time: nothing comes between the check and the insert, and  *)
(* no later step makes an adjustment live again.                            *)
LEMMA OneLiveStep ==
  ASSUME \A c, d \in Calls : c = d
  PROVE  PriceInv /\ OneLive /\ (\A c \in Calls : Unclaimed(c)) /\ [Next]_vars
           => OneLive' /\ \A c \in Calls : Unclaimed(c)'
<1> SUFFICES ASSUME PriceInv, OneLive, \A c \in Calls : Unclaimed(c), [Next]_vars
             PROVE  OneLive' /\ \A c \in Calls : Unclaimed(c)'
  OBVIOUS
<1>0. PriceTypeOK /\ Sound
  BY DEF PriceInv
<1>1. ASSUME NEW c \in Calls, NEW t \in Targets, CheckFree(c, t)
      PROVE  OneLive' /\ \A d \in Calls : Unclaimed(d)'
  <2>1. UNCHANGED adj /\ \A a \in Adjustments : ~IsLive(a, t)
    BY <1>1 DEF CheckFree
  <2>2. call'[c].on = t /\ \A d \in Calls : d = c
    BY <1>0, <1>1 DEF CheckFree, Begin, PriceTypeOK
  <2> QED
    BY <2>1, <2>2 DEF OneLive, Unclaimed, IsLive
<1>2. ASSUME NEW c \in Calls, NEW a \in Adjustments, Propose(c, a)
      PROVE  OneLive' /\ \A d \in Calls : Unclaimed(d)'
  <2>1. /\ \A b \in Adjustments : ~IsLive(b, call[c].on)
        /\ adj'[a].target = call[c].on /\ \A b \in Adjustments \ {a} : adj'[b] = adj[b]
    BY <1>0, <1>2 DEF Propose, Unclaimed, PriceTypeOK, Adjustment
  <2>2. \A d \in Calls : call'[d].op # "propose"
    BY <1>0, <1>2 DEF Propose, End, Idle, PriceTypeOK
  <2> QED
    BY <2>1, <2>2 DEF OneLive, Unclaimed, IsLive
<1>3. ASSUME NEW c \in Calls, Approve(c) \/ Reject(c)
      PROVE  OneLive' /\ \A d \in Calls : Unclaimed(d)'
  <2>1. PICK status \in {"approved", "rejected"} :
          /\ TriggerAllows(adj[call[c].on].status, status)
          /\ adj' = [adj EXCEPT ![call[c].on].status = status]
          /\ call[c].op \in {"approve", "reject"} /\ call' = [call EXCEPT ![c] = Idle]
    BY <1>3 DEF Approve, Reject, Decide, End
  <2>2. adj[call[c].on].status # "none" /\ call[c].on \in Adjustments
    BY <1>0, <2>1 DEF Sound, Known, CallSound
  <2>3. ASSUME NEW a \in Adjustments, adj'[a].status \in Live
        PROVE  adj[a].status \in Live /\ adj'[a].target = adj[a].target
    BY <1>0, <2>1, <2>2, <2>3 DEF TriggerAllows, Live, Terminal, Statuses, PriceTypeOK, Adjustment
  <2>4. \A d \in Calls : call'[d].op = "propose" => call'[d] = call[d]
    BY <1>0, <2>1 DEF PriceTypeOK, Idle
  <2> QED
    BY <2>3, <2>4, LiveFrame
<1>4. ASSUME NEW a \in Adjustments, RollBack(a) \/ ApplyGeo(a) \/ RollBackGeo(a)
      PROVE  OneLive' /\ \A d \in Calls : Unclaimed(d)'
  <2>1. /\ adj[a].status \in Live /\ adj'[a].target = adj[a].target
        /\ \A b \in Adjustments \ {a} : adj'[b] = adj[b]
    BY <1>0, <1>4 DEF RollBack, ApplyGeo, RollBackGeo, Live, PriceTypeOK, Adjustment
  <2>2. UNCHANGED call
    BY <1>4 DEF RollBack, ApplyGeo, RollBackGeo
  <2> QED
    BY <2>1, <2>2, LiveFrame
<1>5. ASSUME NEW c \in Calls, Apply(c) PROVE OneLive' /\ \A d \in Calls : Unclaimed(d)'
  <2>1. PICK a : a = call[c].on
    OBVIOUS
  <2>2. /\ a \in Adjustments /\ adj[a] \in Adjustment /\ adj[a].status = "approved"
        /\ adj' = [adj EXCEPT ![a].status = "applied", ![a].previousPricing = call[c].seen]
        /\ call' = [call EXCEPT ![c] = Idle]
    BY <1>0, <1>5, <2>1 DEF Apply, End, Sound, Known, CallSound, PriceTypeOK
  <2>3. /\ adj[a].status \in Live /\ adj'[a].target = adj[a].target
        /\ \A b \in Adjustments \ {a} : adj'[b] = adj[b]
    BY <1>0, <2>2 DEF Live, PriceTypeOK, Adjustment
  <2>4. \A d \in Calls : call'[d].op = "propose" => call'[d] = call[d]
    BY <1>0, <2>2 DEF Idle, PriceTypeOK
  <2> QED
    BY <2>3, <2>4, LiveFrame
<1>6. ASSUME UNCHANGED adj, \A d \in Calls : call'[d].op = "propose" => call'[d] = call[d]
      PROVE  OneLive' /\ \A d \in Calls : Unclaimed(d)'
  BY <1>6, LiveFrame
<1>7. ASSUME NEW c \in Calls,
             \/ \E a \in Adjustments :
                  ReadForApproval(c, a) \/ ReadForRejection(c, a) \/ ReadTarget(c, a)
             \/ CheckLive(c) \/ Abandon(c)
      PROVE  OneLive' /\ \A d \in Calls : Unclaimed(d)'
  <2>1. UNCHANGED adj /\ \E k : call' = [call EXCEPT ![c] = k] /\ k.op # "propose"
    BY <1>0, <1>7 DEF ReadForApproval, ReadForRejection, ReadTarget, CheckLive, Abandon, Begin,
                      End, Idle, PriceTypeOK, CallState
  <2> QED
    BY <1>0, <1>6, <2>1 DEF PriceTypeOK
<1>8. CASE UNCHANGED vars
  BY <1>6, <1>8 DEF vars
<1>9. ASSUME UNCHANGED <<adj, call>> PROVE OneLive' /\ \A d \in Calls : Unclaimed(d)'
  BY <1>6, <1>9
<1> QED
  BY <1>1, <1>2, <1>3, <1>4, <1>5, <1>7, <1>8, <1>9 DEF Next, EditPrice, EditZone

(* Where calls do not overlap, a target has one live adjustment, however    *)
(* rollbacks and edits by hand come between the steps of a call.            *)
THEOREM LiveOnce ==
  ASSUME \A c, d \in Calls : c = d
  PROVE  Spec => []OneLive
<1> DEFINE Free == \A c \in Calls : Unclaimed(c)
<1>1. Init => OneLive /\ Free
  BY DEF Init, OneLive, Unclaimed, NewAdjustment, Idle, Live, IsLive
<1>2. PriceInv /\ OneLive /\ Free /\ [Next]_vars => OneLive' /\ Free'
  BY OneLiveStep
<1> HIDE DEF Free
<1> QED
  BY <1>1, <1>2, PriceAlways, PTL DEF Spec

(* Corrections compound only over two live adjustments of one target: as    *)
(* long as there are none, and however many calls and rollbacks overlap,    *)
(* the price that a correction replaces is not that of a correction.        *)
THEOREM UnlessTwice == Spec /\ []OneLive => []Uncompounded
<1>1. Init => Manually
  <2> SUFFICES ASSUME Init PROVE Manually
    OBVIOUS
  <2>1. \A t \in Codes : book[t] \cap Adjustments = {}
    <3>1. \A r \in {{}} \cup {{row} : row \in Manual} : r \cap Adjustments = {}
      BY AdjustmentAssumption
    <3> QED
      BY <3>1 DEF Init
  <2> QED
    BY <2>1 DEF Init, Manually, OwnRows, ReadManual, Uncompounded, NewAdjustment, Idle
<1>2. PriceInv /\ OneLive /\ Manually /\ [Next]_vars => Manually'
  BY ManualStep
<1>3. Manually => Uncompounded
  BY DEF Manually
<1> QED
  BY <1>1, <1>2, <1>3, PriceAlways, PTL DEF Spec

(* The same of the calls alone: one at a time, they do not compound.        *)
THEOREM Sequential ==
  ASSUME \A c, d \in Calls : c = d
  PROVE  Spec => []Uncompounded
BY LiveOnce, UnlessTwice, PTL
===============================================================================
