---------------------------- MODULE PriceAdjustment ----------------------------
(***************************************************************************)
(* Corrections of the price book: a proposal is approved by a person,      *)
(* applied to the prices of a cost code or the floor of a zone, and rolled *)
(* back from the snapshot taken when it was applied.                       *)
(*                                                                         *)
(* Calls read, await and write.  What a call writes in one transaction is  *)
(* one step; what it read before is kept in its local state.               *)
(***************************************************************************)
EXTENDS Naturals

CONSTANTS
  Codes, Zones, Assemblies, Trades,   \* what an adjustment may target
  Manual,        \* price rows that a person enters, of each code
  Floors,        \* profit floors a person sets, in thousandths of a percent
  Adjustments, Calls,
  Editable,      \* the targets that are edited by hand as well
  None

VARIABLES
  adj,      \* price_adjustments
  book,     \* code -> its active rows of cost_code_pricing_history
  factor,   \* zone -> min_profit_shield_pct
  call,     \* calls under way
  before    \* history: what was in force when an adjustment was applied;
            \* None once the target was edited by hand

vars == <<adj, book, factor, call, before>>

------------------------------------------------------------------------------
Targets == Codes \cup Zones \cup Assemblies \cup Trades

\* An adjustment is applied once, so it names the row it writes.
Rows == Manual \cup Adjustments

ASSUME AdjustmentAssumption ==
  /\ Floors \subseteq Nat
  /\ Editable \subseteq Codes \cup Zones
  /\ Codes \cap (Zones \cup Assemblies \cup Trades) = {}
  /\ Zones \cap (Assemblies \cup Trades) = {}
  /\ Manual \cap Adjustments = {}
  /\ None \notin Targets \cup Rows \cup Nat

Statuses == {"proposed", "approved", "applied", "rejected", "rolled_back"}
Live     == {"proposed", "approved", "applied"}
Terminal == {"rejected", "rolled_back"}

\* previousPricing, previousFactor: the rollback snapshot.
Adjustment ==
  [status : Statuses \cup {"none"}, target : Targets \cup {None},
   previousPricing : Rows \cup {None}, previousFactor : Nat \cup {None}]

CallState ==
  [op : {"idle", "propose", "approve", "reject", "target", "apply"},
   on : Targets \cup Adjustments \cup {None}, seen : Rows \cup {None}]

PriceTypeOK ==
  /\ adj \in [Adjustments -> Adjustment]
  /\ book \in [Codes -> SUBSET Rows]
  /\ factor \in [Zones -> Nat]
  /\ call \in [Calls -> CallState]
  /\ before \in [Adjustments -> (SUBSET (Rows \cup Nat)) \cup {None}]

NewAdjustment ==
  [status |-> "none", target |-> None, previousPricing |-> None, previousFactor |-> None]

Idle == [op |-> "idle", on |-> None, seen |-> None]

Begin(c, op, on) == call' = [call EXCEPT ![c] = [op |-> op, on |-> on, seen |-> None]]
End(c)           == call' = [call EXCEPT ![c] = Idle]

(* Two decimals of a percent.                                              *)
Round2(f) == ((f + 5) \div 10) * 10

------------------------------------------------------------------------------
(* Guards.                                                                 *)

(* Fault: the row trigger is not installed.                                 *)
NoTrigger(from, to) == TRUE

(* structr_guard_price_adjustment_transition.                               *)
TriggerAllows(from, to) ==
  \/ from = to
  \/ /\ to = "applied" => from = "approved"
     /\ from = "applied" => to = "rolled_back"
     /\ from \notin Terminal

(* Fault: rows carry no index.                                              *)
NoIndex(a) == TRUE

(* The unique indexes of applied adjustments; trades have none.             *)
UniqueIndex(a) ==
  adj[a].target \notin Trades =>
    \A b \in Adjustments \ {a} :
      adj[b].target = adj[a].target => adj[b].status # "applied"

IsLive(a, t) == adj[a].target = t /\ adj[a].status \in Live

(* hasLiveAdjustment, then the lookup of applied ones, which but for cost   *)
(* codes ranges over the whole tenant.  Two reads, of which the call passes *)
(* if and only if it would have passed at the moment of one of them.        *)
Vetoed(a) ==
  \E b, d \in Adjustments \ {a} :
    /\ IsLive(b, adj[a].target)
    /\ adj[d].status = "applied"
    /\ adj[a].target \in Codes => adj[d].target = adj[a].target

------------------------------------------------------------------------------
(* proposeAdjustment: the check, then the insert.                           *)
CheckFree(c, t) ==
  /\ call[c].op = "idle"
  /\ \A a \in Adjustments : ~IsLive(a, t)
  /\ Begin(c, "propose", t)
  /\ UNCHANGED <<adj, book, factor, before>>

Propose(c, a) ==
  /\ call[c].op = "propose" /\ adj[a].status = "none"
  /\ adj' = [adj EXCEPT ![a].status = "proposed", ![a].target = call[c].on]
  /\ End(c)
  /\ UNCHANGED <<book, factor, before>>

(* approveAdjustment, rejectAdjustment: the status is read, and the row     *)
(* written by its id alone.                                                 *)
ReadForApproval(c, a) ==
  /\ call[c].op = "idle" /\ adj[a].status = "proposed"
  /\ Begin(c, "approve", a)
  /\ UNCHANGED <<adj, book, factor, before>>

ReadForRejection(c, a) ==
  /\ call[c].op = "idle" /\ adj[a].status \in {"proposed", "approved"}
  /\ Begin(c, "reject", a)
  /\ UNCHANGED <<adj, book, factor, before>>

Decide(c, op, status) ==
  /\ call[c].op = op
  /\ TriggerAllows(adj[call[c].on].status, status)
  /\ adj' = [adj EXCEPT ![call[c].on].status = status]
  /\ End(c)
  /\ UNCHANGED <<book, factor, before>>

Approve(c) == Decide(c, "approve", "approved")
Reject(c)  == Decide(c, "reject", "rejected")

------------------------------------------------------------------------------
(* applyAdjustment and rollbackAdjustment of a code, assembly or trade.     *)

(* The newest active row.  The insert of a price computed from none fails   *)
(* on a column that is not null.                                            *)
PriceOf(t) == book[t]

(* loadForTransition and loadTargetState: the status is checked again at    *)
(* the end, and never returns to approved, so that it is read together with *)
(* the price.                                                               *)
ReadTarget(c, a) ==
  /\ call[c].op = "idle" /\ adj[a].status = "approved" /\ adj[a].target \notin Zones
  /\ \E row \in IF adj[a].target \in Codes THEN PriceOf(adj[a].target) ELSE {None} :
       call' = [call EXCEPT ![c] = [op |-> "target", on |-> a, seen |-> row]]
  /\ UNCHANGED <<adj, book, factor, before>>

CheckLive(c) ==
  /\ call[c].op = "target" /\ ~Vetoed(call[c].on)
  /\ call' = [call EXCEPT ![c].op = "apply"]
  /\ UNCHANGED <<adj, book, factor, before>>

(* The transaction: it retires the row that was read, inserts the new one,  *)
(* and finds the adjustment as it was observed.                             *)
Apply(c) ==
  LET a == call[c].on
      t == adj[a].target
  IN
  /\ call[c].op = "apply" /\ adj[a].status = "approved" /\ UniqueIndex(a)
  /\ adj' = [adj EXCEPT ![a].status = "applied", ![a].previousPricing = call[c].seen]
  /\ IF t \in Codes
     THEN /\ book' = [book EXCEPT ![t] = (@ \ {call[c].seen}) \cup {a}]
          /\ before' = [before EXCEPT ![a] = book[t]]
     ELSE UNCHANGED <<book, before>>
  /\ End(c)
  /\ UNCHANGED factor

(* Fault: the row of the adjustment is not retired.                         *)
RestoredBeside(a) == book[adj[a].target] \cup {adj[a].previousPricing}

(* The applied row is retired and the previous one active again.            *)
Restored(a) == (book[adj[a].target] \ {a}) \cup {adj[a].previousPricing}

(* The snapshot is fixed while the adjustment is applied, and the           *)
(* transaction finds it as it was observed: one step.                       *)
RollBack(a) ==
  /\ adj[a].status = "applied" /\ adj[a].target \notin Zones
  /\ adj' = [adj EXCEPT ![a].status = "rolled_back"]
  /\ book' = IF adj[a].target \in Codes
             THEN [book EXCEPT ![adj[a].target] = Restored(a)] ELSE book
  /\ UNCHANGED <<factor, call, before>>

------------------------------------------------------------------------------
(* applyGeoAdjustment and rollbackGeoAdjustment lock the adjustment and the *)
(* zone and reread both.                                                    *)
ApplyGeo(a) ==
  LET z == adj[a].target IN
  /\ adj[a].status = "approved" /\ z \in Zones
  /\ ~Vetoed(a) /\ UniqueIndex(a)
  /\ adj' = [adj EXCEPT ![a].status = "applied", ![a].previousFactor = Round2(factor[z])]
  /\ \E f \in Floors : factor' = [factor EXCEPT ![z] = Round2(f)]
  /\ before' = [before EXCEPT ![a] = {factor[z]}]
  /\ UNCHANGED <<book, call>>

RollBackGeo(a) ==
  /\ adj[a].status = "applied" /\ adj[a].target \in Zones
  /\ adj' = [adj EXCEPT ![a].status = "rolled_back"]
  /\ factor' = [factor EXCEPT ![adj[a].target] = adj[a].previousFactor]
  /\ UNCHANGED <<book, call, before>>

------------------------------------------------------------------------------
(* The price book and the zones are edited by hand beside this.             *)

Written(t) == {a \in Adjustments : adj[a].target = t /\ adj[a].status \in {"applied", "rolled_back"}}

Disturb(t) ==
  before' = [a \in Adjustments |-> IF adj[a].target = t THEN None ELSE before[a]]

(* A price is entered, or a row made active or inactive.                    *)
EditPrice(t, row) ==
  /\ row \in Manual \cup Written(t)
  /\ \/ book' = [book EXCEPT ![t] = @ \cup {row}]
     \/ book' = [book EXCEPT ![t] = @ \ {row}]
  /\ Disturb(t)
  /\ UNCHANGED <<adj, factor, call>>

(* The rollback of a floor overwrites what was set meanwhile.               *)
EditZone(z) ==
  /\ \E f \in Floors : factor' = [factor EXCEPT ![z] = f]
  /\ UNCHANGED <<adj, book, call, before>>

(* A call is refused, fails or ends with its process.                       *)
Abandon(c) ==
  /\ call[c].op # "idle" /\ End(c)
  /\ UNCHANGED <<adj, book, factor, before>>

------------------------------------------------------------------------------
Init ==
  /\ adj = [a \in Adjustments |-> NewAdjustment]
  /\ book \in [Codes -> {{}} \cup {{row} : row \in Manual}]
  /\ factor \in [Zones -> Floors]
  /\ call = [c \in Calls |-> Idle]
  /\ before = [a \in Adjustments |-> None]

Next ==
  \/ \E c \in Calls, t \in Targets : CheckFree(c, t)
  \/ \E c \in Calls, a \in Adjustments : Propose(c, a)
  \/ \E c \in Calls, a \in Adjustments : ReadForApproval(c, a)
  \/ \E c \in Calls, a \in Adjustments : ReadForRejection(c, a)
  \/ \E c \in Calls : Approve(c)
  \/ \E c \in Calls : Reject(c)
  \/ \E c \in Calls, a \in Adjustments : ReadTarget(c, a)
  \/ \E c \in Calls : CheckLive(c)
  \/ \E c \in Calls : Apply(c)
  \/ \E a \in Adjustments : RollBack(a)
  \/ \E a \in Adjustments : ApplyGeo(a)
  \/ \E a \in Adjustments : RollBackGeo(a)
  \/ \E t \in Editable \cap Codes, row \in Rows : EditPrice(t, row)
  \/ \E z \in Editable \cap Zones : EditZone(z)
  \/ \E c \in Calls : Abandon(c)

Spec == Init /\ [][Next]_vars

------------------------------------------------------------------------------
(* Properties.                                                             *)

(* PA-003: "closed transitions; a terminal one does not reopen", although   *)
(* approvals and rejections write by id what they decided on an earlier     *)
(* reading.                                                                 *)
Transitions ==
  {<<"none", "proposed">>, <<"proposed", "approved">>, <<"proposed", "rejected">>,
   <<"approved", "rejected">>, <<"approved", "applied">>, <<"applied", "rolled_back">>}

TransitionsClosed ==
  [][\A a \in Adjustments :
       adj'[a].status # adj[a].status => <<adj[a].status, adj'[a].status>> \in Transitions]_vars

(* While an adjustment is applied its price is in force and the price it    *)
(* replaced is not, unless the code was edited by hand.                     *)
AppliedInForce ==
  \A a \in Adjustments :
    adj[a].status = "applied" /\ adj[a].target \in Codes /\ before[a] # None =>
      /\ a \in book[adj[a].target]
      /\ adj[a].previousPricing \notin book[adj[a].target]

(* As far as PA-004, "a rollback snapshot capable of exact restoration", is *)
(* kept: a rollback puts back in force what was in force when the           *)
(* adjustment was applied - the rows of a cost code, unless it was edited   *)
(* by hand or the adjustment was computed from a price no longer in force;  *)
(* the floor of a zone, whatever was set meanwhile, if it had at most the   *)
(* two decimals that the snapshot keeps.                                    *)
RollbackRestores ==
  [][\A a \in Adjustments :
       adj[a].status = "applied" /\ adj'[a].status = "rolled_back" =>
         LET t == adj[a].target IN
         /\ t \in Codes /\ before[a] # None /\ adj[a].previousPricing \in before[a]
              => book'[t] = before[a]
         /\ t \in Zones => \A f \in before[a] : Round2(f) = f => factor'[t] = f]_vars

(* A target has one live adjustment: what proposeAdjustment asks for before *)
(* it inserts, and what two proposals at the same time break.               *)
OneLive ==
  \A a, b \in Adjustments :
    adj[a].status \in Live /\ IsLive(b, adj[a].target) => a = b

(* "So two corrections cannot compound into a move nobody approved": where  *)
(* nobody edits by hand, the price an applied adjustment replaced is not    *)
(* the price of another adjustment.                                         *)
Uncompounded ==
  \A a \in Adjustments :
    adj[a].status = "applied" /\ adj[a].target \in Codes \ Editable =>
      adj[a].previousPricing \notin Adjustments
================================================================================
