---------------------------- MODULE MCEstimateExport ----------------------------
(* Small instances of EstimateExport for TLC.                               *)
EXTENDS EstimateExport, TLC

CONSTANTS
  b1, b2, b3,  \* deployed renderers
  n1, d2       \* the notes of races, the row of a version

AllPass == Contents \X Policies

\* b2 declares the version of b1, b3 another one.
DeclaredVersions == [b \in Builds |-> IF b = b3 THEN 2 ELSE 1]

(* Bound: two families of histories.  Two calls race beside deployments and *)
(* a version of the draft while the notes stay the same; edits of the notes *)
(* are followed by one call at a time of one build.                         *)
NotesUnedited ==
  \A d \in Drafts : /\ draft[d].notes \in {n1, None}
                    /\ \A s \in SnapshotsOf(d) : s.notes = n1

OneCallAtATime ==
  /\ build = b1 /\ ~Exists(d2)
  /\ \A k, other \in Calls : k = other \/ Idle(k) \/ Idle(other)

EditedOrRaced == NotesUnedited \/ OneCallAtATime

\* Calls are interchangeable.
Interchangeable == Permutations(Calls)
===============================================================================
