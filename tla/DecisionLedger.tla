---------------------------- MODULE DecisionLedger ----------------------------
(***************************************************************************)
(* What the decision cycle of an estimate promises: a draft is decided at  *)
(* most once, on the content it holds at that moment, by one approver; the *)
(* decision may be withdrawn once; from the decision on neither its terms  *)
(* nor the content of the draft change.                                    *)
(***************************************************************************)
CONSTANTS Drafts, Contents, Actors, None

VARIABLES
  live,      \* the content a draft holds, None before it is created
  decision,  \* "none", "active" or "revoked"
  terms      \* what was decided and by whom, None before

vars == <<live, decision, terms>>

Init ==
  /\ live \in [Drafts -> Contents \cup {None}]
  /\ decision = [d \in Drafts |-> "none"]
  /\ terms = [d \in Drafts |-> None]

(* A draft is created or edited.                                            *)
Edit(d) ==
  /\ decision[d] = "none"
  /\ \E c \in Contents : live' = [live EXCEPT ![d] = c]
  /\ UNCHANGED <<decision, terms>>

Decide(d) ==
  /\ decision[d] = "none"
  /\ live[d] # None
  /\ decision' = [decision EXCEPT ![d] = "active"]
  /\ \E a \in Actors : terms' = [terms EXCEPT ![d] = [content |-> live[d], by |-> a]]
  /\ UNCHANGED live

Withdraw(d) ==
  /\ decision[d] = "active"
  /\ decision' = [decision EXCEPT ![d] = "revoked"]
  /\ UNCHANGED <<live, terms>>

Next == \E d \in Drafts : Edit(d) \/ Decide(d) \/ Withdraw(d)

Spec == Init /\ [][Next]_vars
==============================================================================
