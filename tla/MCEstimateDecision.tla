-------------------------- MODULE MCEstimateDecision --------------------------
(* Small instances of EstimateDecision for TLC.                             *)
EXTENDS EstimateDecision, TLC

CONSTANTS
  lean, strict,       \* a content below the floor of the strict policy
  d1, d3,             \* the row that exists at the start, the last of a chain
  plain, n1, relaxed, \* the content, notes and policy of chains
  q1, q2              \* request ids, of which edits use the first

FloorPasses == (Contents \X Policies) \ {<<lean, strict>>}

(* Bound: two families of histories, told apart by the content of the first *)
(* row.  Chains of three drafts under two request ids keep one content, one *)
(* note, one policy and the members, and their rows are drafts, archived,   *)
(* approved or decided.  Edits of two drafts change all of these under one  *)
(* request id; nobody loses access under the strict policy.                 *)
Chains == draft[d1].content = plain

Sent(q) == \E k \in acks : k.command.request = q

\* Request ids are interchangeable: the first one used is q1.
ChainsStayPlain ==
  /\ policy' = relaxed /\ authorized' = Actors
  /\ Sent(q2)' => Sent(q1)'
  /\ \A d \in Drafts : /\ draft'[d].content \in {plain, None} /\ draft'[d].notes \in {n1, None}
                       /\ draft'[d].status \notin {"sent_to_estimate", "converted", "rejected"}

EditsStayFew ==
  /\ draft'[d3] = draft[d3]
  /\ \A d \in Drafts : draft'[d].content # plain
  /\ ~Sent(q2)'
  /\ authorized' = Actors \/ policy' = relaxed

Families == IF Chains THEN ChainsStayPlain ELSE EditsStayFew
==============================================================================
