----------------------- MODULE EstimateDecision_proofs -----------------------
(***************************************************************************)
(* The decision cycle for any drafts, actors, requests, contents and       *)
(* policies: its types, the records that the strict reader accepts, the    *)
(* refinement of DecisionLedger, and what acknowledged commands may rely   *)
(* on - the version chains, the one command of a request, the approved     *)
(* content, and the row trigger that never has to refuse a write.          *)
(***************************************************************************)
EXTENDS EstimateDecision, FiniteSetTheorems, TLAPS

(* One column of a well-typed row is set to a value of its type.            *)
LEMMA RowUpdates ==
  ASSUME NEW row \in DraftRow
  PROVE  /\ \A s \in Statuses : [row EXCEPT !.status = s] \in DraftRow
         /\ \A a \in Actors \cup {None} : [row EXCEPT !.approvedBy = a] \in DraftRow
         /\ \A b \in BOOLEAN : [row EXCEPT !.locked = b] \in DraftRow
         /\ \A c \in Contents : [row EXCEPT !.content = c] \in DraftRow
         /\ \A n \in Notes : [row EXCEPT !.notes = n] \in DraftRow
         /\ \A v \in Nat : [row EXCEPT !.version = v] \in DraftRow
         /\ \A src \in Sources : [row EXCEPT !.source = src] \in DraftRow
         /\ \A a \in Actors : [row EXCEPT !.createdBy = a] \in DraftRow
         /\ \A d \in Drafts : [row EXCEPT !.supersedesId = d] \in DraftRow
         /\ \A c \in VersionCommand : [row EXCEPT !.versionHash = c] \in DraftRow
<1> HIDE DEF Statuses, Sources, VersionCommand
<1>1. \A s \in Statuses : [row EXCEPT !.status = s] \in DraftRow
  BY DEF DraftRow
<1>2. \A a \in Actors \cup {None} : [row EXCEPT !.approvedBy = a] \in DraftRow
  BY DEF DraftRow
<1>3. \A b \in BOOLEAN : [row EXCEPT !.locked = b] \in DraftRow
  BY DEF DraftRow
<1>4. \A c \in Contents : [row EXCEPT !.content = c] \in DraftRow
  BY DEF DraftRow
<1>5. \A n \in Notes : [row EXCEPT !.notes = n] \in DraftRow
  BY DEF DraftRow
<1>6. \A v \in Nat : [row EXCEPT !.version = v] \in DraftRow
  BY DEF DraftRow
<1>7. \A src \in Sources : [row EXCEPT !.source = src] \in DraftRow
  BY DEF DraftRow
<1>8. \A a \in Actors : [row EXCEPT !.createdBy = a] \in DraftRow
  BY DEF DraftRow
<1>9. \A d \in Drafts : [row EXCEPT !.supersedesId = d] \in DraftRow
  BY DEF DraftRow
<1>10. \A c \in VersionCommand : [row EXCEPT !.versionHash = c] \in DraftRow
  BY DEF DraftRow
<1> QED
  BY <1>1, <1>2, <1>3, <1>4, <1>5, <1>6, <1>7, <1>8, <1>9, <1>10, Zenon

(* A new row is well typed.                                                 *)
LEMMA NewRowType ==
  ASSUME NEW src \in Sources, NEW a \in Actors, NEW c \in Contents, NEW n \in Notes
  PROVE  NewRow(src, a, c, n) \in DraftRow
<1> DEFINE drafted   == [AbsentRow EXCEPT !.status = "draft"]
           written   == [drafted EXCEPT !.content = c]
           annotated == [written EXCEPT !.notes = n]
           numbered  == [annotated EXCEPT !.version = 1]
           sourced   == [numbered EXCEPT !.source = src]
<1>1. AbsentRow \in DraftRow
  BY DEF AbsentRow, DraftRow, Statuses
<1>2. drafted \in DraftRow
  BY <1>1, RowUpdates DEF Statuses, GenericStatuses
<1>3. written \in DraftRow
  BY <1>2, RowUpdates, Zenon
<1>4. annotated \in DraftRow
  BY <1>3, RowUpdates, Zenon
<1>5. numbered \in DraftRow
  BY <1>4, RowUpdates
<1>6. sourced \in DraftRow
  BY <1>5, RowUpdates, Zenon
<1>7. [sourced EXCEPT !.createdBy = a] \in DraftRow
  BY <1>6, RowUpdates, Zenon
<1>8. NewRow(src, a, c, n) = [sourced EXCEPT !.createdBy = a]
  BY Zenon DEF NewRow
<1> QED
  BY <1>7, <1>8

(* Every variable keeps its type.                                           *)
LEMMA TypeInit == Init => TypeOK
<1> USE DecisionAssumption
<1> SUFFICES ASSUME Init PROVE TypeOK
  OBVIOUS
<1>1. NewRootRows \subseteq DraftRow
  BY NewRowType DEF NewRootRows, Sources, CalculatedSources
<1>2. ASSUME NEW row \in NewRootRows, NEW lock \in BOOLEAN
      PROVE  LegacyApproved(row, lock) \in DraftRow
  <2> DEFINE stamped == [row EXCEPT !.status = "approved"]
             named   == [stamped EXCEPT !.approvedBy = row.createdBy]
  <2>1. row \in DraftRow /\ row.createdBy \in Actors \cup {None}
    BY <1>1 DEF DraftRow
  <2>2. stamped \in DraftRow
    BY <2>1, RowUpdates DEF Statuses
  <2>3. named \in DraftRow
    BY <2>1, <2>2, RowUpdates
  <2>4. [named EXCEPT !.locked = lock] \in DraftRow
    BY <2>3, RowUpdates
  <2>5. LegacyApproved(row, lock) = [named EXCEPT !.locked = lock]
    BY DEF LegacyApproved
  <2> QED
    BY <2>4, <2>5
<1>3. RootRows \subseteq DraftRow
  BY <1>1, <1>2 DEF RootRows
<1>4. AbsentRow \in DraftRow
  BY DEF AbsentRow, DraftRow, Statuses
<1> QED
  BY <1>3, <1>4 DEF Init, TypeOK

(* ... and stays so with the stamp of an approval                           *)
LEMMA ApprovedRowType ==
  ASSUME NEW row \in DraftRow, NEW a \in Actors
  PROVE  [row EXCEPT !.status = "internally_approved", !.approvedBy = a, !.locked = TRUE]
           \in DraftRow
<1> DEFINE decided == [row EXCEPT !.status = "internally_approved"]
           stamped == [decided EXCEPT !.approvedBy = a]
<1>1. decided \in DraftRow
  BY RowUpdates DEF Statuses, DecidedStatuses
<1>2. stamped \in DraftRow
  BY <1>1, RowUpdates
<1>3. [stamped EXCEPT !.locked = TRUE] \in DraftRow
  BY <1>2, RowUpdates
<1> QED
  BY <1>3

(* ... or as a version of another row.                                      *)
LEMMA VersionRowType ==
  ASSUME NEW row \in DraftRow, NEW v \in Nat, NEW d \in Drafts, NEW c \in VersionCommand
  PROVE  [row EXCEPT !.version = v + 1, !.supersedesId = d, !.versionHash = c] \in DraftRow
<1> DEFINE numbered == [row EXCEPT !.version = v + 1]
           linked   == [numbered EXCEPT !.supersedesId = d]
<1>1. v + 1 \in Nat
  OBVIOUS
<1>2. numbered \in DraftRow
  BY <1>1, RowUpdates, Zenon
<1>3. linked \in DraftRow
  BY <1>2, RowUpdates, Zenon
<1>4. [linked EXCEPT !.versionHash = c] \in DraftRow
  BY <1>3, RowUpdates, Zenon
<1> QED
  BY <1>4

(* Each action keeps the types.                                             *)
LEMMA TypeStep == TypeOK /\ [Next]_vars => TypeOK'
<1> SUFFICES ASSUME TypeOK, [Next]_vars PROVE TypeOK'
  OBVIOUS
<1>1. CASE UNCHANGED vars
  BY <1>1 DEF TypeOK, vars, ledger
<1>2. ASSUME NEW d \in Drafts, NEW a \in Actors, NEW c \in Contents, NEW n \in Notes,
             CreateDraft(d, a, c, n)
      PROVE  TypeOK'
  <2>1. NewRow("assembly_calculator", a, c, n) \in DraftRow
    BY NewRowType DEF Sources, CalculatedSources
  <2> QED
    BY <1>2, <2>1 DEF CreateDraft, TypeOK, ledger
<1>3. ASSUME NEW d \in Drafts, NEW a \in Actors, NEW s \in GenericStatuses,
             ChangeStatus(d, a, s)
      PROVE  TypeOK'
  <2>1. [draft[d] EXCEPT !.status = s] \in DraftRow
    BY DEF TypeOK, DraftRow, Statuses
  <2> QED
    BY <1>3, <2>1 DEF ChangeStatus, TypeOK, ledger
<1>4. ASSUME NEW d \in Drafts, NEW a \in Actors, NEW n \in Notes, UpdateNotes(d, a, n)
      PROVE  TypeOK'
  <2>1. [draft[d] EXCEPT !.notes = n] \in DraftRow
    BY DEF TypeOK, DraftRow
  <2> QED
    BY <1>4, <2>1 DEF UpdateNotes, TypeOK, ledger
<1>5. ASSUME NEW d \in Drafts, NEW a \in Actors, NEW c \in Contents, ApplyDiscount(d, a, c)
      PROVE  TypeOK'
  <2>1. [draft[d] EXCEPT !.content = c] \in DraftRow
    BY DEF TypeOK, DraftRow
  <2> QED
    BY <1>5, <2>1 DEF ApplyDiscount, TypeOK, ledger
<1>6. ASSUME NEW d \in Drafts, NEW a \in Actors, RejectDraft(d, a)
      PROVE  TypeOK'
  <2>1. [draft[d] EXCEPT !.status = "rejected"] \in DraftRow
    BY DEF TypeOK, DraftRow, Statuses, GenericStatuses
  <2> QED
    BY <1>6, <2>1 DEF RejectDraft, TypeOK, ledger
<1>7. ASSUME NEW c \in ApproveCommand, Approve(c)
      PROVE  TypeOK'
  <2> DEFINE d == c.draft
  <2>0. d \in Drafts /\ c.actor \in Actors /\ c.request \in Requests /\ c.content \in Contents
        /\ c.notes \in Notes /\ c.policy \in Policies
    BY DEF ApproveCommand
  <2>1. [draft[d] EXCEPT !.status = "internally_approved", !.approvedBy = c.actor,
                         !.locked = TRUE] \in DraftRow
    BY <2>0, ApprovedRowType DEF TypeOK
  <2>2. [draft |-> d, version |-> draft[d].version, content |-> c.content,
         notes |-> c.notes, policy |-> c.policy, capturedBy |-> c.actor] \in SnapshotRow
    BY <2>0 DEF TypeOK, DraftRow, SnapshotRow
  <2>3. [draft |-> d, request |-> c.request, approvedBy |-> c.actor, requestHash |-> c]
          \in ApprovalRow
    BY <2>0 DEF ApprovalRow
  <2>4. [op |-> "approve", command |-> c, result |-> c.request, replayed |-> FALSE] \in Ack
    BY <2>0 DEF Ack
  <2>5. draft' \in [Drafts -> DraftRow]
    BY <1>7, <2>1 DEF Approve, TypeOK
  <2> QED
    BY <1>7, <2>2, <2>3, <2>4, <2>5 DEF Approve, TypeOK
<1>8. ASSUME NEW c \in ApproveCommand, ReplayApprove(c)
      PROVE  TypeOK'
  <2>1. PICK answer \in Requests :
          acks' = acks \cup
            {[op |-> "approve", command |-> c, result |-> answer, replayed |-> TRUE]}
    BY <1>8 DEF ReplayApprove
  <2>2. [op |-> "approve", command |-> c, result |-> answer, replayed |-> TRUE] \in Ack
    BY DEF Ack
  <2> QED
    BY <1>8, <2>1, <2>2 DEF ReplayApprove, TypeOK, ledger
<1>9. ASSUME NEW c \in RevokeCommand, Revoke(c)
      PROVE  TypeOK'
  <2> DEFINE d == c.draft
  <2>0. d \in Drafts /\ c.actor \in Actors /\ c.request \in Requests /\ c.approval \in Requests
    BY DEF RevokeCommand
  <2>1. [draft[d] EXCEPT !.status = "internal_approval_revoked"] \in DraftRow
    BY <2>0 DEF TypeOK, DraftRow, Statuses, DecidedStatuses
  <2>2. [draft |-> d, request |-> c.request, revokedBy |-> c.actor,
         approval |-> c.approval, requestHash |-> c] \in RevocationRow
    BY <2>0 DEF RevocationRow
  <2>3. [op |-> "revoke", command |-> c, result |-> c.request, replayed |-> FALSE] \in Ack
    BY <2>0 DEF Ack
  <2>4. draft' \in [Drafts -> DraftRow]
    BY <1>9, <2>1 DEF Revoke, Withdrawn, TypeOK
  <2> QED
    BY <1>9, <2>2, <2>3, <2>4 DEF Revoke, TypeOK
<1>10. ASSUME NEW c \in RevokeCommand, ReplayRevoke(c)
       PROVE  TypeOK'
  <2>1. PICK answer \in Requests :
          acks' = acks \cup
            {[op |-> "revoke", command |-> c, result |-> answer, replayed |-> TRUE]}
    BY <1>10 DEF ReplayRevoke
  <2>2. [op |-> "revoke", command |-> c, result |-> answer, replayed |-> TRUE] \in Ack
    BY DEF Ack
  <2> QED
    BY <1>10, <2>1, <2>2 DEF ReplayRevoke, TypeOK, ledger
<1>11. ASSUME NEW c \in VersionCommand, NEW child \in Drafts, CreateVersion(c, child)
       PROVE  TypeOK'
  <2>0. c.draft \in Drafts /\ c.actor \in Actors /\ c.content \in Contents /\ c.notes \in Notes
    BY DEF VersionCommand
  <2>1. PICK v \in {draft[x].version : x \in Drafts} :
          draft' = [draft EXCEPT
            ![child] = [NewRow("version", c.actor, c.content, c.notes) EXCEPT
                          !.version = v + 1, !.supersedesId = c.draft, !.versionHash = c],
            ![c.draft].supersededBy = child]
    BY <1>11 DEF CreateVersion
  <2>2. v \in Nat
    BY DEF TypeOK, DraftRow
  <2>3. NewRow("version", c.actor, c.content, c.notes) \in DraftRow
    BY <2>0, NewRowType DEF Sources, CalculatedSources
  <2>4. [NewRow("version", c.actor, c.content, c.notes) EXCEPT
          !.version = v + 1, !.supersedesId = c.draft, !.versionHash = c] \in DraftRow
    BY <2>0, <2>2, <2>3, VersionRowType
  <2>5. \A row \in DraftRow : [row EXCEPT !.supersededBy = child] \in DraftRow
    BY DEF DraftRow
  <2>6. draft' \in [Drafts -> DraftRow]
    BY <2>0, <2>1, <2>4, <2>5 DEF TypeOK
  <2>7. [op |-> "version", command |-> c, result |-> child, replayed |-> FALSE] \in Ack
    BY DEF Ack
  <2> QED
    BY <1>11, <2>6, <2>7 DEF CreateVersion, TypeOK, ledger
<1>12. ASSUME NEW c \in VersionCommand, NEW child \in Drafts, ReplayVersion(c, child)
       PROVE  TypeOK'
  <2>1. [op |-> "version", command |-> c, result |-> child, replayed |-> TRUE] \in Ack
    BY DEF Ack
  <2> QED
    BY <1>12, <2>1 DEF ReplayVersion, TypeOK, ledger
<1>13. ASSUME NEW p \in Policies, ChangePolicy(p)
       PROVE  TypeOK'
  BY <1>13 DEF ChangePolicy, TypeOK, ledger
<1>14. ASSUME NEW a \in Actors, ChangeMembership(a)
       PROVE  TypeOK'
  BY <1>14 DEF ChangeMembership, TypeOK, ledger
<1> QED
  BY <1>1, <1>2, <1>3, <1>4, <1>5, <1>6, <1>7, <1>8, <1>9, <1>10, <1>11, <1>12, <1>13,
     <1>14 DEF Next

(* Every variable of the cycle keeps its type.                              *)
THEOREM Typing == Spec => []TypeOK
<1>1. Init => TypeOK
  BY TypeInit
<1>2. TypeOK /\ [Next]_vars => TypeOK'
  BY TypeStep
<1> QED
  BY <1>1, <1>2, PTL DEF Spec

------------------------------------------------------------------------------
(* The strict reader.                                                       *)

(* Undecided rows have no evidence, decided ones coherent evidence: what    *)
(* makes ReadRecord answer without an integrity error, for absent rows too. *)
Readable(d) ==
  \/ NoEvidence(d) /\ draft[d].status \notin DecidedStatuses
  \/ CoherentEvidence(d)
AllReadable == \A d \in Drafts : Readable(d)

(* No existing row disappears or changes its place in the derivation.       *)
KeepsOrigins ==
  \A x \in Drafts : Exists(x) => /\ Exists(x)'
                                 /\ draft'[x].source = draft[x].source
                                 /\ draft'[x].supersedesId = draft[x].supersedesId

(* A lineage survives every step that keeps the rows' origins.              *)
LEMMA LineageKept ==
  ASSUME KeepsOrigins, NEW CONSTANT d \in Drafts, NEW CONSTANT sources, LineageFrom(d, sources)
  PROVE  LineageFrom(d, sources)'
<1>1. PICK S \in SUBSET Drafts :
        /\ AncestorClosed(S, d) /\ Cardinality(S) <= MaxLineage
        /\ \A x \in S : SoundOrigin(x, sources)
  BY DEF LineageFrom
<1>2. AncestorClosed(S, d)'
  BY <1>1 DEF AncestorClosed, SoundOrigin, KeepsOrigins
<1>3. \A x \in S : SoundOrigin(x, sources)'
  BY <1>1 DEF SoundOrigin, KeepsOrigins
<1> QED
  BY <1>1, <1>2, <1>3 DEF LineageFrom

(* The rows of a lineage exist.                                             *)
LEMMA LineageExists ==
  ASSUME NEW d \in Drafts, NEW sources, LineageFrom(d, sources)
  PROVE  Exists(d)
BY DEF LineageFrom, AncestorClosed, SoundOrigin

(* What the record of d is read from stays as it was.                       *)
KeepsRecord(d) ==
  /\ SnapshotsOf(d)' = SnapshotsOf(d)
  /\ ApprovalsOf(d)' = ApprovalsOf(d)
  /\ RevocationsOf(d)' = RevocationsOf(d)
  /\ draft'[d].status = draft[d].status
  /\ draft'[d].content = draft[d].content
  /\ draft'[d].version = draft[d].version
  /\ draft'[d].approvedBy = draft[d].approvedBy
  /\ draft'[d].locked = draft[d].locked

(* A row whose record and lineage are kept stays readable.                  *)
LEMMA ReadableKept ==
  ASSUME KeepsOrigins, NEW CONSTANT d \in Drafts, Readable(d), KeepsRecord(d)
  PROVE  Readable(d)'
<1>1. CASE NoEvidence(d) /\ draft[d].status \notin DecidedStatuses
  BY <1>1 DEF Readable, NoEvidence, KeepsRecord
<1>2. CASE CoherentEvidence(d)
  <2>1. CalculatedLineage(d)'
    BY <1>2, LineageKept DEF CoherentEvidence, CalculatedLineage
  <2>2. ASSUME NEW s \in SnapshotsOf(d), NEW a \in ApprovalsOf(d)
        PROVE  CoherentPair(d, s, a)'
    BY <1>2, <2>2 DEF CoherentEvidence, CoherentPair, KeepsRecord
  <2>3. CoherentEvidence(d)'
    BY <1>2, <2>1, <2>2 DEF CoherentEvidence, CoherentRevocation, KeepsRecord
  <2> QED
    BY <2>3 DEF Readable
<1> QED
  BY <1>1, <1>2 DEF Readable

(* A row written by a generic edit or a creation has no evidence.           *)
LEMMA ReadableUndecided ==
  ASSUME NEW CONSTANT d \in Drafts, NoEvidence(d), UNCHANGED ledger,
         draft'[d].status \notin DecidedStatuses
  PROVE  Readable(d)'
BY DEF Readable, NoEvidence, SnapshotsOf, ApprovalsOf, RevocationsOf, ledger

(* An undecided readable row has no evidence.                               *)
LEMMA UndecidedHasNoEvidence ==
  ASSUME NEW d \in Drafts, Readable(d),
         SnapshotsOf(d) = {} \/ ~Exists(d)
  PROVE  NoEvidence(d)
<1>1. ~CoherentEvidence(d)
  BY LineageExists DEF CoherentEvidence, CalculatedLineage
<1> QED
  BY <1>1 DEF Readable

(* The evidence of a row depends on the record only.                        *)
LEMMA UnchangedRecords ==
  ASSUME UNCHANGED ledger
  PROVE  \A x : /\ SnapshotsOf(x)' = SnapshotsOf(x)
                /\ ApprovalsOf(x)' = ApprovalsOf(x)
                /\ RevocationsOf(x)' = RevocationsOf(x)
BY DEF SnapshotsOf, ApprovalsOf, RevocationsOf, ledger

(* An edit of one row that has no evidence.                                 *)
LEMMA ReadableEdit ==
  ASSUME TypeOK, AllReadable, UNCHANGED ledger,
         NEW CONSTANT d \in Drafts, NEW row,
         draft' = [draft EXCEPT ![d] = row],
         NoEvidence(d), row.status \notin DecidedStatuses \cup {"absent"},
         Exists(d) => row.source = draft[d].source /\ row.supersedesId = draft[d].supersedesId
  PROVE  AllReadable'
<1>1. KeepsOrigins
  BY DEF KeepsOrigins, Exists, TypeOK
<1>2. ASSUME NEW CONSTANT x \in Drafts, x # d PROVE Readable(x)'
  <2>1. KeepsRecord(x)
    BY <1>2, UnchangedRecords DEF KeepsRecord, TypeOK
  <2> QED
    BY <1>1, <2>1, ReadableKept DEF AllReadable
<1>3. Readable(d)'
  BY ReadableUndecided DEF TypeOK
<1> QED
  BY <1>2, <1>3 DEF AllReadable

(* At the start nothing is decided.                                         *)
LEMMA ReadableInit == Init => AllReadable
<1> SUFFICES ASSUME Init, NEW d \in Drafts PROVE Readable(d)
  BY DEF AllReadable
<1>1. NoEvidence(d)
  BY DEF Init, NoEvidence, SnapshotsOf, ApprovalsOf, RevocationsOf
<1>2. \A row \in NewRootRows : row.status = "draft"
  <2>1. \A src, a, c, n : NewRow(src, a, c, n).status = "draft"
    BY DEF NewRow, AbsentRow
  <2> QED
    BY <2>1 DEF NewRootRows
<1>3. \A row \in NewRootRows, lock \in BOOLEAN :
        LegacyApproved(row, lock).status \in {"approved", row.status}
  BY DEF LegacyApproved
<1>4. \A row \in RootRows : row.status \in {"draft", "approved"}
  BY <1>2, <1>3 DEF RootRows
<1>5. draft[d].status \in {"draft", "approved", "absent"}
  BY <1>4 DEF Init, AbsentRow
<1> QED
  BY <1>1, <1>5 DEF Readable, DecidedStatuses

(* An approval leaves one coherent snapshot and approval.                   *)
LEMMA ReadableApprove ==
  ASSUME TypeOK, AllReadable, NEW CONSTANT c \in ApproveCommand, Approve(c)
  PROVE  AllReadable'
<1> DEFINE d == c.draft
<1> DEFINE snap == [draft |-> d, version |-> draft[d].version, content |-> c.content,
                    notes |-> c.notes, policy |-> c.policy, capturedBy |-> c.actor]
<1> DEFINE app == [draft |-> d, request |-> c.request, approvedBy |-> c.actor,
                   requestHash |-> c]
<1>0. d \in Drafts
  BY DEF ApproveCommand
<1>1. /\ draft' = [draft EXCEPT ![d].status = "internally_approved",
                               ![d].approvedBy = c.actor, ![d].locked = TRUE]
      /\ snapshots' = snapshots \cup {snap}
      /\ approvals' = approvals \cup {app}
      /\ revocations' = revocations
      /\ ReadRecord(d) = "none"
      /\ CalculatedLineage(d) /\ ReviewMatches(c) /\ <<c.content, c.policy>> \in Passes
  BY DEF Approve
<1>2. NoEvidence(d)
  BY <1>1 DEF ReadRecord
<1>3. KeepsOrigins
  BY <1>0, <1>1 DEF KeepsOrigins, Exists, TypeOK, DraftRow
<1>4. ASSUME NEW CONSTANT x \in Drafts, x # d PROVE Readable(x)'
  <2>1. KeepsRecord(x)
    BY <1>0, <1>1, <1>4 DEF KeepsRecord, SnapshotsOf, ApprovalsOf, RevocationsOf, TypeOK
  <2> QED
    BY <1>3, <2>1, ReadableKept DEF AllReadable
<1>5. Readable(d)'
  <2>1. /\ SnapshotsOf(d)' = {snap}
        /\ ApprovalsOf(d)' = {app}
        /\ RevocationsOf(d)' = {}
    BY <1>1, <1>2 DEF NoEvidence, SnapshotsOf, ApprovalsOf, RevocationsOf
  <2>2. CalculatedLineage(d)'
    BY <1>0, <1>1, <1>3, LineageKept DEF CalculatedLineage
  <2>3. /\ draft'[d].status = "internally_approved"
        /\ draft'[d].approvedBy = c.actor
        /\ draft'[d].locked
        /\ draft'[d].content = draft[d].content
        /\ draft'[d].version = draft[d].version
    BY <1>0, <1>1 DEF TypeOK, DraftRow
  <2>4. c = [draft |-> d, request |-> app.request, actor |-> app.approvedBy,
             content |-> snap.content, notes |-> snap.notes, policy |-> snap.policy]
    BY DEF ApproveCommand
  <2>5. CoherentPair(d, snap, app)'
    BY <1>1, <2>1, <2>3, <2>4 DEF CoherentPair, ReviewMatches
  <2>6. CoherentEvidence(d)'
    <3>1. snap' = snap /\ app' = app
      BY <2>3
    <3> HIDE DEF snap, app
    <3> QED
      BY <2>1, <2>2, <2>5, <3>1 DEF CoherentEvidence, Unique
  <2> QED
    BY <2>6 DEF Readable
<1> QED
  BY <1>4, <1>5 DEF AllReadable

(* A revocation names the decision it withdraws.                            *)
LEMMA ReadableRevoke ==
  ASSUME TypeOK, AllReadable, NEW CONSTANT c \in RevokeCommand, Revoke(c)
  PROVE  AllReadable'
<1> DEFINE d == c.draft
<1> DEFINE rev == [draft |-> d, request |-> c.request, revokedBy |-> c.actor,
                   approval |-> c.approval, requestHash |-> c]
<1>0. d \in Drafts
  BY DEF RevokeCommand
<1>1. /\ draft' = [draft EXCEPT ![d].status = "internal_approval_revoked"]
      /\ revocations' = revocations \cup {rev}
      /\ UNCHANGED <<snapshots, approvals>>
      /\ ReadRecord(d) = "active" /\ NamesDecision(c)
  BY DEF Revoke, Withdrawn
<1>2. CoherentEvidence(d) /\ RevocationsOf(d) = {}
  BY <1>1 DEF ReadRecord
<1>3. KeepsOrigins
  BY <1>0, <1>1 DEF KeepsOrigins, Exists, TypeOK, DraftRow
<1>4. ASSUME NEW CONSTANT x \in Drafts, x # d PROVE Readable(x)'
  <2>1. KeepsRecord(x)
    BY <1>0, <1>1, <1>4 DEF KeepsRecord, SnapshotsOf, ApprovalsOf, RevocationsOf, TypeOK
  <2> QED
    BY <1>3, <2>1, ReadableKept DEF AllReadable
<1>5. Readable(d)'
  <2>1. /\ SnapshotsOf(d)' = SnapshotsOf(d)
        /\ ApprovalsOf(d)' = ApprovalsOf(d)
        /\ RevocationsOf(d)' = {rev}
    BY <1>1, <1>2 DEF SnapshotsOf, ApprovalsOf, RevocationsOf
  <2>2. CalculatedLineage(d)'
    BY <1>0, <1>2, <1>3, LineageKept DEF CalculatedLineage, CoherentEvidence
  <2>3. /\ draft'[d].status = "internal_approval_revoked"
        /\ draft'[d].approvedBy = draft[d].approvedBy
        /\ draft'[d].locked = draft[d].locked
        /\ draft'[d].content = draft[d].content
        /\ draft'[d].version = draft[d].version
    BY <1>0, <1>1 DEF TypeOK, DraftRow
  <2>4. ASSUME NEW s \in SnapshotsOf(d), NEW a \in ApprovalsOf(d)
        PROVE  CoherentPair(d, s, a)' /\ CoherentRevocation(d, s, a, rev)'
    <3>1. CoherentPair(d, s, a)'
      BY <1>2, <2>1, <2>3, <2>4 DEF CoherentEvidence, CoherentPair
    <3>2. /\ c.approval = a.request
          /\ c.content = s.content /\ c.notes = s.notes
      BY <1>1, <1>2, <2>4 DEF NamesDecision, CoherentEvidence, Unique
    <3>3. c = [draft |-> d, request |-> c.request, actor |-> c.actor,
               approval |-> a.request, content |-> s.content, notes |-> s.notes]
      BY <3>2 DEF RevokeCommand
    <3>4. CoherentRevocation(d, s, a, rev)'
      BY <3>2, <3>3 DEF CoherentRevocation
    <3> QED
      BY <3>1, <3>4
  <2>5. CoherentEvidence(d)'
    BY <1>2, <2>1, <2>2, <2>4 DEF CoherentEvidence, Unique
  <2> QED
    BY <2>5 DEF Readable
<1> QED
  BY <1>4, <1>5 DEF AllReadable

(* A version leaves the record of its source as it is.                      *)
LEMMA ReadableVersion ==
  ASSUME TypeOK, AllReadable, NEW CONSTANT c \in VersionCommand, NEW CONSTANT child \in Drafts,
         CreateVersion(c, child)
  PROVE  AllReadable'
<1> DEFINE d == c.draft
<1>0. d \in Drafts
  BY DEF VersionCommand
<1>1. PICK v \in {draft[x].version : x \in Drafts} :
        draft' = [draft EXCEPT
            ![child] = [NewRow("version", c.actor, c.content, c.notes) EXCEPT
                          !.version = v + 1, !.supersedesId = d, !.versionHash = c],
            ![d].supersededBy = child]
  BY DEF CreateVersion
<1>2. UNCHANGED ledger /\ ~Exists(child) /\ Exists(d) /\ d # child
  BY DEF CreateVersion, Locks
<1>3. draft'[child].status = "draft"
  BY <1>0, <1>1, <1>2 DEF TypeOK, NewRow, AbsentRow
<1>4. \A x \in Drafts \ {child} : /\ draft'[x].status = draft[x].status
                                 /\ draft'[x].content = draft[x].content
                                 /\ draft'[x].version = draft[x].version
                                 /\ draft'[x].approvedBy = draft[x].approvedBy
                                 /\ draft'[x].locked = draft[x].locked
                                 /\ draft'[x].source = draft[x].source
                                 /\ draft'[x].supersedesId = draft[x].supersedesId
  BY <1>0, <1>1, <1>2 DEF TypeOK, DraftRow
<1>5. KeepsOrigins
  BY <1>2, <1>4 DEF KeepsOrigins, Exists
<1>6. ASSUME NEW CONSTANT x \in Drafts, x # child PROVE Readable(x)'
  <2>1. KeepsRecord(x)
    BY <1>2, <1>4, <1>6, UnchangedRecords DEF KeepsRecord
  <2> QED
    BY <1>5, <2>1, ReadableKept DEF AllReadable
<1>7. Readable(child)'
  <2>1. NoEvidence(child)
    BY <1>2, UndecidedHasNoEvidence DEF AllReadable
  <2> QED
    BY <1>2, <1>3, <2>1, ReadableUndecided DEF DecidedStatuses
<1> QED
  BY <1>6, <1>7 DEF AllReadable

(* Each action keeps every record readable.                                 *)
LEMMA ReadableStep == TypeOK /\ AllReadable /\ [Next]_vars => AllReadable'
<1> SUFFICES ASSUME TypeOK, AllReadable, [Next]_vars PROVE AllReadable'
  OBVIOUS
<1>1. ASSUME UNCHANGED <<draft, ledger>> PROVE AllReadable'
  <2>1. KeepsOrigins /\ \A x \in Drafts : KeepsRecord(x)
    BY <1>1, UnchangedRecords DEF KeepsOrigins, KeepsRecord, Exists, ledger
  <2> QED
    BY <2>1, ReadableKept DEF AllReadable
<1>2. ASSUME NEW d \in Drafts, NEW a \in Actors, NEW c \in Contents, NEW n \in Notes,
             CreateDraft(d, a, c, n)
      PROVE  AllReadable'
  <2>1. NoEvidence(d)
    BY <1>2, UndecidedHasNoEvidence DEF CreateDraft, AllReadable
  <2>2. NewRow("assembly_calculator", a, c, n).status = "draft"
    BY DEF NewRow, AbsentRow
  <2> QED
    BY <1>2, <2>1, <2>2, ReadableEdit DEF CreateDraft, DecidedStatuses
<1>3. ASSUME NEW d \in Drafts, NEW s \in GenericStatuses, Undecided(d), UNCHANGED ledger,
             draft' = [draft EXCEPT ![d].status = s]
      PROVE  AllReadable'
  <2>1. NoEvidence(d)
    BY <1>3, UndecidedHasNoEvidence DEF Undecided, AllReadable
  <2>2. /\ [draft[d] EXCEPT !.status = s].status = s
        /\ [draft[d] EXCEPT !.status = s].source = draft[d].source
        /\ [draft[d] EXCEPT !.status = s].supersedesId = draft[d].supersedesId
    BY DEF TypeOK, DraftRow
  <2>3. s \notin DecidedStatuses \cup {"absent"}
    BY DEF GenericStatuses, DecidedStatuses
  <2> QED
    BY <1>3, <2>1, <2>2, <2>3, ReadableEdit
<1>4. ASSUME NEW d \in Drafts, NEW a \in Actors, NEW s \in GenericStatuses,
             ChangeStatus(d, a, s)
      PROVE  AllReadable'
  BY <1>3, <1>4 DEF ChangeStatus
<1>5. ASSUME NEW d \in Drafts, NEW a \in Actors, RejectDraft(d, a)
      PROVE  AllReadable'
  BY <1>3, <1>5 DEF RejectDraft, GenericStatuses
<1>6. ASSUME NEW d \in Drafts, NEW a \in Actors, NEW n \in Notes, UpdateNotes(d, a, n)
      PROVE  AllReadable'
  <2>1. \A x \in Drafts : /\ draft'[x].status = draft[x].status
                          /\ draft'[x].content = draft[x].content
                          /\ draft'[x].version = draft[x].version
                          /\ draft'[x].approvedBy = draft[x].approvedBy
                          /\ draft'[x].locked = draft[x].locked
                          /\ draft'[x].source = draft[x].source
                          /\ draft'[x].supersedesId = draft[x].supersedesId
    BY <1>6 DEF UpdateNotes, TypeOK, DraftRow
  <2>2. KeepsOrigins /\ \A x \in Drafts : KeepsRecord(x)
    BY <1>6, <2>1, UnchangedRecords DEF UpdateNotes, KeepsOrigins, KeepsRecord, Exists
  <2> QED
    BY <2>2, ReadableKept DEF AllReadable
<1>7. ASSUME NEW d \in Drafts, NEW a \in Actors, NEW c \in Contents, ApplyDiscount(d, a, c)
      PROVE  AllReadable'
  <2>1. NoEvidence(d)
    BY <1>7, UndecidedHasNoEvidence DEF ApplyDiscount, Discountable, Undecided, AllReadable
  <2>2. /\ [draft[d] EXCEPT !.content = c].status = "draft"
        /\ [draft[d] EXCEPT !.content = c].source = draft[d].source
        /\ [draft[d] EXCEPT !.content = c].supersedesId = draft[d].supersedesId
    BY <1>7 DEF ApplyDiscount, Discountable, TypeOK, DraftRow
  <2> QED
    BY <1>7, <2>1, <2>2, ReadableEdit DEF ApplyDiscount, DecidedStatuses
<1>8. ASSUME NEW c \in ApproveCommand, Approve(c) PROVE AllReadable'
  BY <1>8, ReadableApprove
<1>9. ASSUME NEW c \in RevokeCommand, Revoke(c) PROVE AllReadable'
  BY <1>9, ReadableRevoke
<1>10. ASSUME NEW c \in VersionCommand, NEW child \in Drafts, CreateVersion(c, child)
       PROVE  AllReadable'
  BY <1>10, ReadableVersion
<1>11. ASSUME NEW c \in ApproveCommand, ReplayApprove(c) PROVE AllReadable'
  BY <1>1, <1>11 DEF ReplayApprove
<1>12. ASSUME NEW c \in RevokeCommand, ReplayRevoke(c) PROVE AllReadable'
  BY <1>1, <1>12 DEF ReplayRevoke
<1>13. ASSUME NEW c \in VersionCommand, NEW child \in Drafts, ReplayVersion(c, child)
       PROVE  AllReadable'
  BY <1>1, <1>13 DEF ReplayVersion
<1>14. ASSUME NEW p \in Policies, ChangePolicy(p) PROVE AllReadable'
  BY <1>1, <1>14 DEF ChangePolicy
<1>15. ASSUME NEW a \in Actors, ChangeMembership(a) PROVE AllReadable'
  BY <1>1, <1>15 DEF ChangeMembership
<1>16. CASE UNCHANGED vars
  BY <1>1, <1>16 DEF vars, ledger
<1> QED
  BY <1>2, <1>4, <1>5, <1>6, <1>7, <1>8, <1>9, <1>10, <1>11, <1>12, <1>13, <1>14, <1>15,
     <1>16 DEF Next

(* Readable rows are read without an integrity error.                       *)
LEMMA ReadableReads == AllReadable => RecordsAlwaysReadable
BY DEF AllReadable, Readable, RecordsAlwaysReadable, ReadRecord, CoherentEvidence, NoEvidence

(* No history of edits, decisions and versions leaves a draft whose record  *)
(* readInternalApprovalRecord refuses with an integrity error.              *)
THEOREM StrictReader == Spec => []RecordsAlwaysReadable
<1>1. Init => TypeOK /\ AllReadable
  BY TypeInit, ReadableInit
<1>2. TypeOK /\ AllReadable /\ [Next]_vars => (TypeOK /\ AllReadable)'
  BY TypeStep, ReadableStep
<1> QED
  BY <1>1, <1>2, ReadableReads, PTL DEF Spec

------------------------------------------------------------------------------
(* The decision cycle implements DecisionLedger: its initial states are    *)
(* initial states of the ledger, and a step of it edits, decides or        *)
(* withdraws one draft, or leaves the ledger as it is.                     *)

(* What the ledger says of the draft x stays.                               *)
SameEntry(x) ==
  /\ draft'[x].content = draft[x].content
  /\ ApprovalsOf(x)' = ApprovalsOf(x)
  /\ (RevocationsOf(x) # {})' <=> (RevocationsOf(x) # {})

(* The entry of such a draft is the same.                                   *)
LEMMA EntryKept ==
  ASSUME NEW CONSTANT x \in Drafts, SameEntry(x)
  PROVE  /\ LedgerState(x)' = LedgerState(x)
         /\ LedgerTerms(ApprovalsOf(x))' = LedgerTerms(ApprovalsOf(x))
<1>1. LedgerState(x)' = LedgerState(x)
  BY DEF SameEntry, LedgerState
<1>2. LedgerTerms(ApprovalsOf(x))' = LedgerTerms(ApprovalsOf(x))
  BY DEF SameEntry, LedgerTerms
<1> QED
  BY <1>1, <1>2

(* A step that touches no entry is a stutter of the ledger.                 *)
LEMMA LedgerStutters ==
  ASSUME \A x \in Drafts : SameEntry(x)
  PROVE  UNCHANGED Ledger!vars
<1>1. \A x \in Drafts : /\ LedgerState(x)' = LedgerState(x)
                        /\ LedgerTerms(ApprovalsOf(x))' = LedgerTerms(ApprovalsOf(x))
  BY EntryKept
<1> QED
  BY <1>1 DEF Ledger!vars, SameEntry

(* Initial states are initial states of the ledger.                         *)
LEMMA LedgerInit == Init => Ledger!Init
<1> SUFFICES ASSUME Init PROVE Ledger!Init
  OBVIOUS
<1>1. TypeOK
  BY TypeInit
<1>2. \A x \in Drafts : /\ draft[x].content \in Contents \cup {None}
                        /\ LedgerState(x) = "none" /\ LedgerTerms(ApprovalsOf(x)) = None
  BY <1>1 DEF Init, TypeOK, DraftRow, LedgerState, LedgerTerms, ApprovalsOf, RevocationsOf
<1> QED
  BY <1>2 DEF Ledger!Init

(* The content of one undecided draft changes.                              *)
LEMMA LedgerEdit ==
  ASSUME TypeOK, AllReadable, NEW CONSTANT d \in Drafts, NEW CONSTANT c \in Contents,
         NoEvidence(d), UNCHANGED ledger, draft'[d].content = c,
         \A x \in Drafts \ {d} : draft'[x].content = draft[x].content
  PROVE  Ledger!Next
<1>1. \A x \in Drafts : /\ LedgerState(x)' = LedgerState(x)
                        /\ LedgerTerms(ApprovalsOf(x))' = LedgerTerms(ApprovalsOf(x))
  <2>1. \A x \in Drafts : ApprovalsOf(x)' = ApprovalsOf(x) /\ RevocationsOf(x)' = RevocationsOf(x)
    BY DEF ledger, ApprovalsOf, RevocationsOf
  <2> QED
    BY <2>1 DEF LedgerState, LedgerTerms
<1>2. LedgerState(d) = "none"
  BY DEF NoEvidence, LedgerState
<1>3. Ledger!Edit(d)
  BY <1>1, <1>2 DEF Ledger!Edit
<1> QED
  BY <1>3 DEF Ledger!Next

(* An approval decides its draft on the content the draft holds.            *)
LEMMA LedgerDecide ==
  ASSUME TypeOK, AllReadable, NEW CONSTANT c \in ApproveCommand, Approve(c)
  PROVE  Ledger!Next
<1> DEFINE d   == c.draft
           new == [draft |-> d, request |-> c.request, approvedBy |-> c.actor,
                   requestHash |-> c]
<1>0. d \in Drafts /\ c.content \in Contents /\ c.actor \in Actors /\ c.content # None
  BY DecisionAssumption DEF ApproveCommand
<1>1. /\ approvals' = approvals \cup {new} /\ revocations' = revocations
      /\ draft' = [draft EXCEPT ![d].status = "internally_approved",
                                ![d].approvedBy = c.actor, ![d].locked = TRUE]
      /\ draft[d].content = c.content
      /\ NoEvidence(d)
  BY DEF Approve, ReadRecord, ReviewMatches
<1>2. /\ ApprovalsOf(d)' = {new} /\ RevocationsOf(d)' = {}
      /\ ApprovalsOf(d) = {} /\ RevocationsOf(d) = {}
  BY <1>1 DEF NoEvidence, ApprovalsOf, RevocationsOf
<1>3. \A x \in Drafts \ {d} : ApprovalsOf(x)' = ApprovalsOf(x) /\ RevocationsOf(x)' = RevocationsOf(x)
  BY <1>1 DEF ApprovalsOf, RevocationsOf
<1>4. \A x \in Drafts : draft'[x].content = draft[x].content
  BY <1>0, <1>1 DEF TypeOK, DraftRow
<1>5. \A x \in Drafts \ {d} : /\ LedgerState(x)' = LedgerState(x)
                              /\ LedgerTerms(ApprovalsOf(x))' = LedgerTerms(ApprovalsOf(x))
  BY <1>3 DEF LedgerState, LedgerTerms
<1>6. LedgerState(d) = "none" /\ LedgerState(d)' = "active"
  BY <1>2 DEF LedgerState
<1>7. LedgerTerms(ApprovalsOf(d))' = [content |-> draft[d].content, by |-> c.actor]
  <2>1. (CHOOSE a \in {new} : TRUE) = new
    OBVIOUS
  <2>2. LedgerTerms({new}) = [content |-> c.content, by |-> c.actor]
    BY <2>1 DEF LedgerTerms
  <2>3. LedgerTerms(ApprovalsOf(d))' = LedgerTerms({new})
    BY <1>2 DEF LedgerTerms
  <2> QED
    BY <1>1, <2>2, <2>3
<1> HIDE DEF new, d
<1>8. Ledger!Decide(d)
  BY <1>0, <1>1, <1>4, <1>5, <1>6, <1>7 DEF Ledger!Decide
<1> QED
  BY <1>0, <1>8 DEF Ledger!Next

(* A revocation withdraws an active decision and keeps its terms.           *)
LEMMA LedgerWithdraw ==
  ASSUME TypeOK, AllReadable, NEW CONSTANT c \in RevokeCommand, Revoke(c)
  PROVE  Ledger!Next
<1> DEFINE d   == c.draft
           new == [draft |-> d, request |-> c.request, revokedBy |-> c.actor,
                   approval |-> c.approval, requestHash |-> c]
<1>0. d \in Drafts
  BY DEF RevokeCommand
<1>1. /\ revocations' = revocations \cup {new} /\ approvals' = approvals
      /\ draft' = [draft EXCEPT ![d] = Withdrawn(draft[d])]
      /\ CoherentEvidence(d) /\ RevocationsOf(d) = {}
  BY DEF Revoke, ReadRecord
<1>2. ApprovalsOf(d) # {} /\ new \in RevocationsOf(d)'
  BY <1>1 DEF CoherentEvidence, RevocationsOf
<1>3. \A x \in Drafts : ApprovalsOf(x)' = ApprovalsOf(x)
  BY <1>1 DEF ApprovalsOf
<1>4. \A x \in Drafts \ {d} : RevocationsOf(x)' = RevocationsOf(x)
  BY <1>1 DEF RevocationsOf
<1>5. \A x \in Drafts : draft'[x].content = draft[x].content
  BY <1>0, <1>1 DEF TypeOK, DraftRow, Withdrawn
<1>6. \A x \in Drafts : LedgerTerms(ApprovalsOf(x))' = LedgerTerms(ApprovalsOf(x))
  BY <1>3 DEF LedgerTerms
<1>7. \A x \in Drafts \ {d} : LedgerState(x)' = LedgerState(x)
  BY <1>3, <1>4 DEF LedgerState
<1>8. LedgerState(d) = "active" /\ LedgerState(d)' = "revoked"
  BY <1>1, <1>2 DEF LedgerState
<1> HIDE DEF new, d
<1>9. Ledger!Withdraw(d)
  BY <1>0, <1>5, <1>6, <1>7, <1>8 DEF Ledger!Withdraw
<1> QED
  BY <1>0, <1>9 DEF Ledger!Next

(* Each action is an action of the ledger or leaves it alone.               *)
LEMMA LedgerStep ==
  TypeOK /\ AllReadable /\ [Next]_vars => [Ledger!Next]_(Ledger!vars)
<1> SUFFICES ASSUME TypeOK, AllReadable, [Next]_vars PROVE [Ledger!Next]_(Ledger!vars)
  OBVIOUS
<1>1. ASSUME UNCHANGED ledger, \A x \in Drafts : draft'[x].content = draft[x].content
      PROVE  UNCHANGED Ledger!vars
  BY <1>1, LedgerStutters DEF SameEntry, ledger, ApprovalsOf, RevocationsOf
<1>2. ASSUME NEW CONSTANT d \in Drafts, NEW a \in Actors, NEW CONSTANT c \in Contents,
             NEW n \in Notes, CreateDraft(d, a, c, n)
      PROVE  Ledger!Next
  <2>1. NoEvidence(d)
    BY <1>2, UndecidedHasNoEvidence DEF CreateDraft, AllReadable
  <2>2. draft'[d].content = c /\ \A x \in Drafts \ {d} : draft'[x].content = draft[x].content
    BY <1>2 DEF CreateDraft, TypeOK, NewRow, AbsentRow
  <2> QED
    BY <1>2, <2>1, <2>2, LedgerEdit DEF CreateDraft
<1>3. ASSUME NEW d \in Drafts, NEW a \in Actors, NEW s \in GenericStatuses,
             ChangeStatus(d, a, s)
      PROVE  UNCHANGED Ledger!vars
  BY <1>1, <1>3 DEF ChangeStatus, TypeOK, DraftRow
<1>4. ASSUME NEW d \in Drafts, NEW a \in Actors, NEW n \in Notes, UpdateNotes(d, a, n)
      PROVE  UNCHANGED Ledger!vars
  BY <1>1, <1>4 DEF UpdateNotes, TypeOK, DraftRow
<1>5. ASSUME NEW CONSTANT d \in Drafts, NEW a \in Actors, NEW CONSTANT c \in Contents,
             ApplyDiscount(d, a, c)
      PROVE  Ledger!Next
  <2>1. NoEvidence(d)
    BY <1>5, UndecidedHasNoEvidence DEF ApplyDiscount, Discountable, Undecided, AllReadable
  <2>2. draft'[d].content = c /\ \A x \in Drafts \ {d} : draft'[x].content = draft[x].content
    BY <1>5 DEF ApplyDiscount, TypeOK, DraftRow
  <2> QED
    BY <1>5, <2>1, <2>2, LedgerEdit DEF ApplyDiscount
<1>6. ASSUME NEW d \in Drafts, NEW a \in Actors, RejectDraft(d, a)
      PROVE  UNCHANGED Ledger!vars
  BY <1>1, <1>6 DEF RejectDraft, TypeOK, DraftRow
<1>7. ASSUME NEW CONSTANT c \in VersionCommand, NEW CONSTANT child \in Drafts,
             CreateVersion(c, child)
      PROVE  Ledger!Next
  <2>0. c.draft \in Drafts /\ c.content \in Contents
    BY DEF VersionCommand
  <2>1. PICK v \in {draft[x].version : x \in Drafts} :
          draft' = [draft EXCEPT
            ![child] = [NewRow("version", c.actor, c.content, c.notes) EXCEPT
                          !.version = v + 1, !.supersedesId = c.draft, !.versionHash = c],
            ![c.draft].supersededBy = child]
    BY <1>7 DEF CreateVersion
  <2>2. ~Exists(child) /\ c.draft # child /\ UNCHANGED ledger
    BY <1>7 DEF CreateVersion, Locks
  <2>3. NoEvidence(child)
    BY <2>2, UndecidedHasNoEvidence DEF AllReadable
  <2>4. draft'[child].content = c.content
    BY <2>0, <2>1, <2>2 DEF TypeOK, NewRow, AbsentRow
  <2>5. \A x \in Drafts \ {child} : draft'[x].content = draft[x].content
    BY <2>0, <2>1, <2>2 DEF TypeOK, DraftRow
  <2> QED
    BY <2>0, <2>2, <2>3, <2>4, <2>5, LedgerEdit
<1>8. ASSUME NEW CONSTANT c \in ApproveCommand, Approve(c) PROVE Ledger!Next
  BY <1>8, LedgerDecide
<1>9. ASSUME NEW CONSTANT c \in RevokeCommand, Revoke(c) PROVE Ledger!Next
  BY <1>9, LedgerWithdraw
<1>10. ASSUME NEW c \in ApproveCommand, ReplayApprove(c) PROVE UNCHANGED Ledger!vars
  BY <1>1, <1>10 DEF ReplayApprove
<1>11. ASSUME NEW c \in RevokeCommand, ReplayRevoke(c) PROVE UNCHANGED Ledger!vars
  BY <1>1, <1>11 DEF ReplayRevoke
<1>12. ASSUME NEW c \in VersionCommand, NEW child \in Drafts, ReplayVersion(c, child)
       PROVE  UNCHANGED Ledger!vars
  BY <1>1, <1>12 DEF ReplayVersion
<1>13. ASSUME NEW p \in Policies, ChangePolicy(p) PROVE UNCHANGED Ledger!vars
  BY <1>1, <1>13 DEF ChangePolicy
<1>14. ASSUME NEW a \in Actors, ChangeMembership(a) PROVE UNCHANGED Ledger!vars
  BY <1>1, <1>14 DEF ChangeMembership
<1>15. CASE UNCHANGED vars
  BY <1>1, <1>15 DEF vars, ledger
<1> QED
  BY <1>2, <1>3, <1>4, <1>5, <1>6, <1>7, <1>8, <1>9, <1>10, <1>11, <1>12, <1>13, <1>14,
     <1>15 DEF Next

(* Whatever clients send in whatever order, a draft is decided once, on     *)
(* what it holds, and the decision and its content stay.                    *)
THEOREM Refinement == Spec => ImplementsLedger
<1>1. Init => TypeOK /\ AllReadable /\ Ledger!Init
  BY TypeInit, ReadableInit, LedgerInit
<1>2. TypeOK /\ AllReadable /\ [Next]_vars
        => (TypeOK /\ AllReadable)' /\ [Ledger!Next]_(Ledger!vars)
  BY TypeStep, ReadableStep, LedgerStep
<1> QED
  BY <1>1, <1>2, PTL DEF Spec, ImplementsLedger, Ledger!Spec


------------------------------------------------------------------------------
(* The chains of versions.                                                 *)

(* A row that does not exist has no place in a chain.                       *)
AbsentClean ==
  \A x \in Drafts : ~Exists(x) =>
    draft[x].versionHash = None /\ draft[x].supersededBy = None

ChainInv == AbsentClean /\ VersionChainCoherent

(* The step leaves the columns that make the chains as they are.            *)
KeepsChain ==
  \A x \in Drafts :
    /\ draft'[x].status = "absent" <=> draft[x].status = "absent"
    /\ draft'[x].versionHash = draft[x].versionHash
    /\ draft'[x].supersededBy = draft[x].supersededBy
    /\ draft'[x].supersedesId = draft[x].supersedesId
    /\ draft'[x].version = draft[x].version

(* The rows of a chain are drafts, so the fields below are of existing rows.*)
LEMMA ChainRefs ==
  ASSUME TypeOK, NEW x \in Drafts
  PROVE  /\ draft[x].supersedesId \in Drafts \cup {None}
         /\ draft[x].supersededBy \in Drafts \cup {None}
         /\ draft[x].versionHash \in VersionCommand \cup {None}
         /\ draft[x].version \in Nat
BY DEF TypeOK, DraftRow

(* A step that keeps those columns keeps the chains.                        *)
LEMMA ChainKept ==
  ASSUME TypeOK, ChainInv, KeepsChain
  PROVE  ChainInv'
<1>1. AbsentClean'
  BY DEF ChainInv, AbsentClean, KeepsChain, Exists
<1>3. ASSUME NEW CONSTANT x \in Drafts, draft[x].versionHash # None
      PROVE  /\ draft'[x].supersedesId # None
             /\ Exists(draft[x].supersedesId)'
             /\ draft'[draft[x].supersedesId].supersededBy = x
             /\ draft'[draft[x].supersedesId].version < draft'[x].version
             /\ \A y \in VersionsWith(draft[x].versionHash.request)' : y = x
  <2>1. /\ draft[x].supersedesId # None /\ Exists(draft[x].supersedesId)
        /\ draft[draft[x].supersedesId].supersededBy = x
        /\ draft[draft[x].supersedesId].version < draft[x].version
        /\ \A y \in VersionsWith(draft[x].versionHash.request) : y = x
    BY <1>3 DEF ChainInv, VersionChainCoherent
  <2>2. draft[x].supersedesId \in Drafts
    BY <2>1, ChainRefs
  <2>3. Exists(draft[x].supersedesId)'
    BY <2>1, <2>2 DEF KeepsChain, Exists
  <2>4. \A y \in VersionsWith(draft[x].versionHash.request)' : y = x
    BY <2>1 DEF KeepsChain, VersionsWith
  <2> QED
    BY <2>1, <2>2, <2>3, <2>4 DEF KeepsChain
<1>4. ASSUME NEW CONSTANT x \in Drafts, draft[x].supersededBy # None
      PROVE  /\ draft'[draft[x].supersededBy].versionHash # None
             /\ draft'[draft[x].supersededBy].supersedesId = x
  <2>1. draft[x].supersededBy \in Drafts
    BY <1>4, ChainRefs
  <2> QED
    BY <1>4, <2>1 DEF ChainInv, VersionChainCoherent, KeepsChain
<1>5. VersionChainCoherent'
  BY <1>3, <1>4 DEF VersionChainCoherent, KeepsChain, Exists
<1> QED
  BY <1>1, <1>5 DEF ChainInv

(* At the start no row is a version or has one.                             *)
LEMMA FirstRowsClean ==
  ASSUME Init, NEW x \in Drafts
  PROVE  draft[x].versionHash = None /\ draft[x].supersededBy = None
<1>1. \A row \in NewRootRows : row.versionHash = None /\ row.supersededBy = None
  <2>1. \A src, a, c, n : /\ NewRow(src, a, c, n).versionHash = None
                         /\ NewRow(src, a, c, n).supersededBy = None
    BY DEF NewRow, AbsentRow
  <2> QED
    BY <2>1 DEF NewRootRows
<1>2. \A row \in RootRows : row.versionHash = None /\ row.supersededBy = None
  <2>1. NewRootRows \subseteq DraftRow
    BY NewRowType DEF NewRootRows, Sources, CalculatedSources
  <2>2. \A row \in DraftRow, lock \in BOOLEAN :
          /\ LegacyApproved(row, lock).versionHash = row.versionHash
          /\ LegacyApproved(row, lock).supersededBy = row.supersededBy
    BY DEF LegacyApproved, DraftRow
  <2> QED
    BY <1>1, <2>1, <2>2 DEF RootRows
<1> QED
  BY <1>2 DEF Init, AbsentRow

LEMMA ChainInit == Init => ChainInv
BY FirstRowsClean DEF ChainInv, AbsentClean, VersionChainCoherent

(* A new version takes the free end of its chain, with the largest number.  *)
LEMMA ChainVersion ==
  ASSUME TypeOK, ChainInv, NEW CONSTANT c \in VersionCommand, NEW CONSTANT child \in Drafts,
         CreateVersion(c, child)
  PROVE  ChainInv'
<1> DEFINE d == c.draft
<1>0. d \in Drafts /\ c # None
  BY DecisionAssumption DEF VersionCommand
<1>1. PICK v \in {draft[x].version : x \in Drafts} :
        /\ MaximumVersion(v)
        /\ draft' = [draft EXCEPT
            ![child] = [NewRow("version", c.actor, c.content, c.notes) EXCEPT
                          !.version = v + 1, !.supersedesId = d, !.versionHash = c],
            ![d].supersededBy = child]
  BY DEF CreateVersion
<1>2. /\ ~Exists(child) /\ Exists(d) /\ d # child /\ child # None
      /\ draft[d].supersededBy = None
      /\ VersionsWith(c.request) = {}
      /\ v \in Nat /\ draft[d].version <= v
  BY <1>0, <1>1, ChainRefs, DecisionAssumption
     DEF CreateVersion, Locks, CopySource, Newest, MaximumVersion
<1>3. /\ draft'[child].status = "draft"
      /\ draft'[child].version = v + 1
      /\ draft'[child].supersedesId = d
      /\ draft'[child].versionHash = c
      /\ draft'[child].supersededBy = None
  BY <1>0, <1>1, <1>2 DEF TypeOK, NewRow, AbsentRow
<1>4. /\ draft'[d].supersededBy = child
      /\ \A x \in Drafts \ {child} : /\ draft'[x].status = draft[x].status
                                     /\ draft'[x].version = draft[x].version
                                     /\ draft'[x].supersedesId = draft[x].supersedesId
                                     /\ draft'[x].versionHash = draft[x].versionHash
                                     /\ x # d => draft'[x].supersededBy = draft[x].supersededBy
  BY <1>0, <1>1, <1>2 DEF TypeOK, DraftRow
<1>5. AbsentClean'
  BY <1>2, <1>3, <1>4 DEF ChainInv, AbsentClean, Exists
<1>6. ASSUME NEW CONSTANT x \in Drafts, draft'[x].versionHash # None
      PROVE  /\ draft'[x].supersedesId # None
             /\ Exists(draft[x].supersedesId)'
             /\ draft'[draft'[x].supersedesId].supersededBy = x
             /\ draft'[draft'[x].supersedesId].version < draft'[x].version
             /\ \A y \in VersionsWith(draft[x].versionHash.request)' : y = x
  <2>1. CASE x = child
    <3>1. \A y \in VersionsWith(draft[child].versionHash.request)' : y = child
      BY <1>2, <1>3, <1>4 DEF VersionsWith
    <3>2. draft'[child].supersedesId = d /\ d # None
      BY <1>0, <1>3, DecisionAssumption
    <3>3. Exists(draft[child].supersedesId)'
      BY <1>0, <1>2, <1>4, <3>2 DEF Exists
    <3>4. draft'[d].supersededBy = child /\ draft'[d].version < draft'[child].version
      BY <1>0, <1>2, <1>3, <1>4, ChainRefs
    <3> QED
      BY <2>1, <3>1, <3>2, <3>3, <3>4
  <2>2. CASE x # child
    <3> DEFINE s == draft[x].supersedesId
    <3>1. /\ s # None /\ Exists(s) /\ draft[s].supersededBy = x
          /\ draft[s].version < draft[x].version
          /\ \A y \in VersionsWith(draft[x].versionHash.request) : y = x
      BY <1>4, <1>6, <2>2 DEF ChainInv, VersionChainCoherent
    <3>2. s \in Drafts /\ s # child /\ s # d
      BY <1>2, <1>6, <2>2, <3>1, ChainRefs, DecisionAssumption
    <3>3. draft[x].versionHash.request # c.request
      BY <1>2, <1>4, <1>6, <2>2 DEF VersionsWith
    <3>4. \A y \in VersionsWith(draft[x].versionHash.request)' : y = x
      BY <1>3, <1>4, <2>2, <3>1, <3>3 DEF VersionsWith
    <3> QED
      BY <1>4, <2>2, <3>1, <3>2, <3>4 DEF Exists
  <2> QED
    BY <2>1, <2>2
<1>7. ASSUME NEW CONSTANT x \in Drafts, draft'[x].supersededBy # None
      PROVE  /\ draft'[draft'[x].supersededBy].versionHash # None
             /\ draft'[draft'[x].supersededBy].supersedesId = x
  <2>1. CASE x = d
    BY <1>0, <1>3, <1>4, <2>1
  <2>2. CASE x # d
    <3>1. x # child
      BY <1>3, <1>7
    <3>2. draft[x].supersededBy # None
      BY <1>4, <1>7, <2>2, <3>1
    <3>3. draft[x].supersededBy \in Drafts \ {child}
      BY <1>2, <3>2, ChainRefs DEF ChainInv, AbsentClean, VersionChainCoherent
    <3> QED
      BY <1>4, <2>2, <3>1, <3>2, <3>3 DEF ChainInv, VersionChainCoherent
  <2> QED
    BY <2>1, <2>2
<1>8. VersionChainCoherent'
  BY <1>6, <1>7 DEF VersionChainCoherent, Exists
<1> QED
  BY <1>5, <1>8 DEF ChainInv

(* Each action keeps the chains coherent.                                   *)
LEMMA ChainStep == TypeOK /\ ChainInv /\ [Next]_vars => ChainInv'
<1> SUFFICES ASSUME TypeOK, ChainInv, [Next]_vars PROVE ChainInv'
  OBVIOUS
<1>1. ASSUME UNCHANGED draft PROVE ChainInv'
  BY <1>1, ChainKept DEF KeepsChain
<1>2. ASSUME NEW d \in Drafts, NEW a \in Actors, NEW c \in Contents, NEW n \in Notes,
             CreateDraft(d, a, c, n)
      PROVE  ChainInv'
  <2>1. /\ draft'[d].versionHash = None /\ draft'[d].supersededBy = None
        /\ draft'[d].status = "draft"
        /\ \A x \in Drafts \ {d} : draft'[x] = draft[x]
    BY <1>2 DEF CreateDraft, TypeOK, NewRow, AbsentRow
  <2>2. draft[d].versionHash = None /\ draft[d].supersededBy = None /\ ~Exists(d)
    BY <1>2 DEF CreateDraft, ChainInv, AbsentClean
  <2>3. AbsentClean'
    BY <2>1 DEF AbsentClean, ChainInv, Exists
  <2>4. \A x \in Drafts : draft[x].versionHash # None => draft[x].supersedesId \in Drafts \ {d}
    BY <2>2, ChainRefs DEF ChainInv, VersionChainCoherent
  <2>5. \A x \in Drafts : draft[x].supersededBy # None => draft[x].supersededBy \in Drafts \ {d}
    BY <2>2, ChainRefs DEF ChainInv, VersionChainCoherent
  <2>6. ASSUME NEW CONSTANT x \in Drafts, draft'[x].versionHash # None
        PROVE  /\ draft'[x].supersedesId # None /\ Exists(draft[x].supersedesId)'
               /\ draft'[draft'[x].supersedesId].supersededBy = x
               /\ draft'[draft'[x].supersedesId].version < draft'[x].version
               /\ \A y \in VersionsWith(draft[x].versionHash.request)' : y = x
    <3>1. x # d /\ draft'[x] = draft[x]
      BY <2>1, <2>6
    <3>2. /\ draft[x].supersedesId # None /\ Exists(draft[x].supersedesId)
          /\ draft[draft[x].supersedesId].supersededBy = x
          /\ draft[draft[x].supersedesId].version < draft[x].version
          /\ \A y \in VersionsWith(draft[x].versionHash.request) : y = x
      BY <2>6, <3>1 DEF ChainInv, VersionChainCoherent
    <3>3. draft'[draft[x].supersedesId] = draft[draft[x].supersedesId]
      BY <2>1, <2>4, <2>6, <3>1
    <3>4. \A y \in VersionsWith(draft[x].versionHash.request)' : y = x
      BY <2>1, <3>1, <3>2 DEF VersionsWith
    <3> QED
      BY <3>1, <3>2, <3>3, <3>4 DEF Exists
  <2>7. ASSUME NEW CONSTANT x \in Drafts, draft'[x].supersededBy # None
        PROVE  /\ draft'[draft'[x].supersededBy].versionHash # None
               /\ draft'[draft'[x].supersededBy].supersedesId = x
    <3>1. x # d /\ draft'[x] = draft[x]
      BY <2>1, <2>7
    <3> QED
      BY <2>1, <2>5, <2>7, <3>1 DEF ChainInv, VersionChainCoherent
  <2> QED
    BY <2>3, <2>6, <2>7 DEF ChainInv, VersionChainCoherent
<1>3. ASSUME NEW d \in Drafts, NEW a \in Actors, NEW s \in GenericStatuses,
             ChangeStatus(d, a, s)
      PROVE  ChainInv'
  <2>1. s # "absent" /\ Exists(d)
    BY <1>3 DEF GenericStatuses, ChangeStatus, Locks
  <2>2. KeepsChain
    BY <1>3, <2>1 DEF ChangeStatus, KeepsChain, Exists, TypeOK, DraftRow
  <2> QED
    BY <2>2, ChainKept
<1>4. ASSUME NEW d \in Drafts, NEW a \in Actors, NEW n \in Notes, UpdateNotes(d, a, n)
      PROVE  ChainInv'
  <2>1. KeepsChain
    BY <1>4 DEF UpdateNotes, KeepsChain, TypeOK, DraftRow
  <2> QED
    BY <2>1, ChainKept
<1>5. ASSUME NEW d \in Drafts, NEW a \in Actors, NEW c \in Contents, ApplyDiscount(d, a, c)
      PROVE  ChainInv'
  <2>1. KeepsChain
    BY <1>5 DEF ApplyDiscount, KeepsChain, TypeOK, DraftRow
  <2> QED
    BY <2>1, ChainKept
<1>6. ASSUME NEW d \in Drafts, NEW a \in Actors, RejectDraft(d, a)
      PROVE  ChainInv'
  <2>1. KeepsChain
    BY <1>6 DEF RejectDraft, Locks, KeepsChain, Exists, TypeOK, DraftRow
  <2> QED
    BY <2>1, ChainKept
<1>7. ASSUME NEW c \in ApproveCommand, Approve(c) PROVE ChainInv'
  <2>1. c.draft \in Drafts /\ Exists(c.draft)
    BY <1>7 DEF Approve, Locks, ApproveCommand
  <2>2. draft' = [draft EXCEPT ![c.draft].status = "internally_approved",
                               ![c.draft].approvedBy = c.actor, ![c.draft].locked = TRUE]
    BY <1>7 DEF Approve
  <2>3. KeepsChain
    BY <2>1, <2>2 DEF KeepsChain, Exists, TypeOK, DraftRow
  <2> QED
    BY <2>3, ChainKept
<1>8. ASSUME NEW c \in RevokeCommand, Revoke(c) PROVE ChainInv'
  <2>1. c.draft \in Drafts /\ Exists(c.draft)
    BY <1>8 DEF Revoke, Locks, RevokeCommand
  <2>2. draft' = [draft EXCEPT ![c.draft] = Withdrawn(draft[c.draft])]
    BY <1>8 DEF Revoke
  <2>3. KeepsChain
    BY <2>1, <2>2 DEF Withdrawn, KeepsChain, Exists, TypeOK, DraftRow
  <2> QED
    BY <2>3, ChainKept
<1>9. ASSUME NEW c \in VersionCommand, NEW child \in Drafts, CreateVersion(c, child)
      PROVE  ChainInv'
  BY <1>9, ChainVersion
<1>10. ASSUME NEW c \in ApproveCommand, ReplayApprove(c) PROVE ChainInv'
  BY <1>1, <1>10 DEF ReplayApprove
<1>11. ASSUME NEW c \in RevokeCommand, ReplayRevoke(c) PROVE ChainInv'
  BY <1>1, <1>11 DEF ReplayRevoke
<1>12. ASSUME NEW c \in VersionCommand, NEW child \in Drafts, ReplayVersion(c, child)
       PROVE  ChainInv'
  BY <1>1, <1>12 DEF ReplayVersion
<1>13. ASSUME NEW p \in Policies, ChangePolicy(p) PROVE ChainInv'
  BY <1>1, <1>13 DEF ChangePolicy
<1>14. ASSUME NEW a \in Actors, ChangeMembership(a) PROVE ChainInv'
  BY <1>1, <1>14 DEF ChangeMembership
<1>15. CASE UNCHANGED vars
  BY <1>1, <1>15 DEF vars
<1> QED
  BY <1>2, <1>3, <1>4, <1>5, <1>6, <1>7, <1>8, <1>9, <1>10, <1>11, <1>12, <1>13, <1>14,
     <1>15 DEF Next

(* The version part of internal_approval_check_final_v1 holds for chains of *)
(* any length and any number of requests.                                   *)
THEOREM Chains == Spec => []VersionChainCoherent
<1>1. Init => TypeOK /\ ChainInv
  BY TypeInit, ChainInit
<1>2. TypeOK /\ ChainInv /\ [Next]_vars => (TypeOK /\ ChainInv)'
  BY TypeStep, ChainStep
<1>3. ChainInv => VersionChainCoherent
  BY DEF ChainInv
<1> QED
  BY <1>1, <1>2, <1>3, PTL DEF Spec

------------------------------------------------------------------------------
(* The answers sent to clients.                                            *)

(* A request id names at most one approval and at most one revocation.      *)
RequestsUnique ==
  /\ \A a, b \in approvals : a.request = b.request => a = b
  /\ \A a, b \in revocations : a.request = b.request => a = b

(* Every successful answer is backed by the row that recorded its command.  *)
Backed(k) ==
  /\ k.op = "approve" => \E a \in approvals :
       /\ a.request = k.result /\ a.request = k.command.request
       /\ a.draft = k.command.draft /\ a.requestHash = k.command
  /\ k.op = "revoke" => \E r \in revocations :
       /\ r.request = k.result /\ r.request = k.command.request
       /\ r.requestHash = k.command
  /\ k.op = "version" => draft[k.result].versionHash = k.command

AnswersBacked == RequestsUnique /\ \A k \in acks : Backed(k)

(* Rows of the record are only added, and the command that made a version   *)
(* is written once.                                                         *)
KeepsBacking ==
  /\ approvals \subseteq approvals' /\ revocations \subseteq revocations'
  /\ \A x \in Drafts : draft[x].versionHash # None
                       => draft'[x].versionHash = draft[x].versionHash

(* An answer stays backed while the record only grows.                      *)
LEMMA BackedKept ==
  ASSUME TypeOK, KeepsBacking, NEW CONSTANT k \in Ack, Backed(k)
  PROVE  Backed(k)'
<1>1. k.op = "version" => k.result \in Drafts /\ k.command \in VersionCommand
  BY DEF Ack
<1>2. k.op = "version" => draft'[k.result].versionHash = k.command
  BY <1>1, DecisionAssumption DEF Backed, KeepsBacking
<1> QED
  BY <1>2 DEF Backed, KeepsBacking

(* A step that leaves the record alone.                                     *)
LEMMA BackedFrame ==
  ASSUME TypeOK, AnswersBacked, UNCHANGED <<approvals, revocations, acks>>,
         \A x \in Drafts : draft[x].versionHash # None
                           => draft'[x].versionHash = draft[x].versionHash
  PROVE  AnswersBacked'
<1>1. KeepsBacking
  BY DEF KeepsBacking
<1>2. ASSUME NEW CONSTANT k \in acks' PROVE Backed(k)'
  BY <1>1, <1>2, BackedKept DEF AnswersBacked, TypeOK
<1> QED
  BY <1>2 DEF AnswersBacked, RequestsUnique

(* Each action keeps the answers backed.                                    *)
LEMMA BackedStep == TypeOK /\ ChainInv /\ AnswersBacked /\ [Next]_vars => AnswersBacked'
<1> SUFFICES ASSUME TypeOK, ChainInv, AnswersBacked, [Next]_vars PROVE AnswersBacked'
  OBVIOUS
<1>0. ASSUME NEW CONSTANT k \in Ack, acks' = acks \cup {k}, KeepsBacking,
             RequestsUnique', Backed(k)'
      PROVE  AnswersBacked'
  <2>1. ASSUME NEW CONSTANT m \in acks' PROVE Backed(m)'
    BY <1>0, <2>1, BackedKept DEF AnswersBacked, TypeOK
  <2> QED
    BY <1>0, <2>1 DEF AnswersBacked
<1>1. ASSUME NEW d \in Drafts, NEW a \in Actors, NEW c \in Contents, NEW n \in Notes,
             CreateDraft(d, a, c, n)
      PROVE  AnswersBacked'
  <2>1. draft[d].versionHash = None
    BY <1>1 DEF CreateDraft, ChainInv, AbsentClean
  <2> QED
    BY <1>1, <2>1, BackedFrame DEF CreateDraft, ledger, TypeOK
<1>2. ASSUME NEW d \in Drafts, NEW a \in Actors, NEW s \in GenericStatuses,
             ChangeStatus(d, a, s)
      PROVE  AnswersBacked'
  BY <1>2, BackedFrame DEF ChangeStatus, ledger, TypeOK, DraftRow
<1>3. ASSUME NEW d \in Drafts, NEW a \in Actors, NEW n \in Notes, UpdateNotes(d, a, n)
      PROVE  AnswersBacked'
  BY <1>3, BackedFrame DEF UpdateNotes, ledger, TypeOK, DraftRow
<1>4. ASSUME NEW d \in Drafts, NEW a \in Actors, NEW c \in Contents, ApplyDiscount(d, a, c)
      PROVE  AnswersBacked'
  BY <1>4, BackedFrame DEF ApplyDiscount, ledger, TypeOK, DraftRow
<1>5. ASSUME NEW d \in Drafts, NEW a \in Actors, RejectDraft(d, a)
      PROVE  AnswersBacked'
  BY <1>5, BackedFrame DEF RejectDraft, ledger, TypeOK, DraftRow
<1>6. ASSUME NEW CONSTANT c \in ApproveCommand, Approve(c) PROVE AnswersBacked'
  <2> DEFINE new == [draft |-> c.draft, request |-> c.request, approvedBy |-> c.actor,
                     requestHash |-> c]
             k   == [op |-> "approve", command |-> c, result |-> c.request,
                     replayed |-> FALSE]
  <2>1. /\ approvals' = approvals \cup {new} /\ revocations' = revocations
        /\ acks' = acks \cup {k} /\ ~ApprovalRequestKnown(c.request)
    BY <1>6 DEF Approve
  <2>2. k \in Ack /\ c.draft \in Drafts
    BY DEF Ack, ApproveCommand
  <2>3. RequestsUnique'
    BY <2>1 DEF AnswersBacked, RequestsUnique, ApprovalRequestKnown
  <2>4. draft' = [draft EXCEPT ![c.draft].status = "internally_approved",
                               ![c.draft].approvedBy = c.actor, ![c.draft].locked = TRUE]
    BY <1>6 DEF Approve
  <2>5. KeepsBacking
    BY <2>1, <2>2, <2>4 DEF KeepsBacking, TypeOK, DraftRow
  <2>6. Backed(k)'
    <3>1. new \in approvals'
      BY <2>1
    <3>2. /\ new.request = k.result /\ new.request = k.command.request
          /\ new.draft = k.command.draft /\ new.requestHash = k.command
          /\ k.op = "approve"
      OBVIOUS
    <3> HIDE DEF new, k
    <3> QED
      BY <3>1, <3>2 DEF Backed
  <2> QED
    BY <1>0, <2>1, <2>2, <2>3, <2>5, <2>6
<1>7. ASSUME NEW CONSTANT c \in ApproveCommand, ReplayApprove(c) PROVE AnswersBacked'
  <2>1. PICK answer \in Requests :
          /\ AnswersApprove(c, answer) /\ UNCHANGED <<draft, approvals, revocations>>
          /\ acks' = acks \cup
               {[op |-> "approve", command |-> c, result |-> answer, replayed |-> TRUE]}
    BY <1>7 DEF ReplayApprove, ledger
  <2>2. \E known \in approvals :
          /\ known.request = c.request /\ known.draft = c.draft /\ known.requestHash = c
          /\ answer = known.request
    BY <2>1 DEF AnswersApprove
  <2> DEFINE k == [op |-> "approve", command |-> c, result |-> answer, replayed |-> TRUE]
  <2>3. k \in Ack
    BY DEF Ack
  <2>4. KeepsBacking /\ RequestsUnique' /\ Backed(k)'
    BY <2>1, <2>2 DEF KeepsBacking, AnswersBacked, RequestsUnique, Backed
  <2> QED
    BY <1>0, <2>1, <2>3, <2>4
<1>8. ASSUME NEW CONSTANT c \in RevokeCommand, Revoke(c) PROVE AnswersBacked'
  <2> DEFINE new == [draft |-> c.draft, request |-> c.request, revokedBy |-> c.actor,
                     approval |-> c.approval, requestHash |-> c]
             k   == [op |-> "revoke", command |-> c, result |-> c.request,
                     replayed |-> FALSE]
  <2>1. /\ revocations' = revocations \cup {new} /\ approvals' = approvals
        /\ acks' = acks \cup {k} /\ \A r \in revocations : r.request # c.request
    BY <1>8 DEF Revoke
  <2>2. k \in Ack /\ c.draft \in Drafts
    BY DEF Ack, RevokeCommand
  <2>3. RequestsUnique'
    BY <2>1 DEF AnswersBacked, RequestsUnique
  <2>4. draft' = [draft EXCEPT ![c.draft] = Withdrawn(draft[c.draft])]
    BY <1>8 DEF Revoke
  <2>5. KeepsBacking
    BY <2>1, <2>2, <2>4 DEF KeepsBacking, Withdrawn, TypeOK, DraftRow
  <2>6. Backed(k)'
    <3>1. new \in revocations'
      BY <2>1
    <3>2. /\ new.request = k.result /\ new.request = k.command.request
          /\ new.requestHash = k.command /\ k.op = "revoke"
      OBVIOUS
    <3> HIDE DEF new, k
    <3> QED
      BY <3>1, <3>2 DEF Backed
  <2> QED
    BY <1>0, <2>1, <2>2, <2>3, <2>5, <2>6
<1>9. ASSUME NEW CONSTANT c \in RevokeCommand, ReplayRevoke(c) PROVE AnswersBacked'
  <2>1. PICK answer \in Requests :
          /\ AnswersRevoke(c, answer) /\ UNCHANGED <<draft, approvals, revocations>>
          /\ acks' = acks \cup
               {[op |-> "revoke", command |-> c, result |-> answer, replayed |-> TRUE]}
    BY <1>9 DEF ReplayRevoke, ledger
  <2>2. \E known \in revocations :
          /\ known.request = c.request /\ known.requestHash = c /\ answer = known.request
    BY <2>1 DEF AnswersRevoke
  <2> DEFINE k == [op |-> "revoke", command |-> c, result |-> answer, replayed |-> TRUE]
  <2>3. k \in Ack
    BY DEF Ack
  <2>4. KeepsBacking /\ RequestsUnique' /\ Backed(k)'
    BY <2>1, <2>2 DEF KeepsBacking, AnswersBacked, RequestsUnique, Backed
  <2> QED
    BY <1>0, <2>1, <2>3, <2>4
<1>10. ASSUME NEW CONSTANT c \in VersionCommand, NEW CONSTANT child \in Drafts,
              CreateVersion(c, child)
       PROVE  AnswersBacked'
  <2> DEFINE k == [op |-> "version", command |-> c, result |-> child, replayed |-> FALSE]
  <2>0. c.draft \in Drafts /\ k \in Ack
    BY DEF VersionCommand, Ack
  <2>1. PICK v \in {draft[x].version : x \in Drafts} :
          draft' = [draft EXCEPT
            ![child] = [NewRow("version", c.actor, c.content, c.notes) EXCEPT
                          !.version = v + 1, !.supersedesId = c.draft, !.versionHash = c],
            ![c.draft].supersededBy = child]
    BY <1>10 DEF CreateVersion
  <2>2. /\ UNCHANGED <<approvals, revocations>> /\ acks' = acks \cup {k}
        /\ draft[child].versionHash = None /\ c.draft # child
    BY <1>10 DEF CreateVersion, ledger, ChainInv, AbsentClean, Locks
  <2>3. draft'[child].versionHash = c
    BY <2>0, <2>1, <2>2 DEF TypeOK, NewRow, AbsentRow
  <2>4. \A x \in Drafts \ {child} : draft'[x].versionHash = draft[x].versionHash
    BY <2>0, <2>1, <2>2 DEF TypeOK, DraftRow
  <2>5. KeepsBacking /\ RequestsUnique' /\ Backed(k)'
    BY <2>2, <2>3, <2>4 DEF KeepsBacking, AnswersBacked, RequestsUnique, Backed
  <2> QED
    BY <1>0, <2>0, <2>2, <2>5
<1>11. ASSUME NEW CONSTANT c \in VersionCommand, NEW CONSTANT child \in Drafts,
              ReplayVersion(c, child)
       PROVE  AnswersBacked'
  <2> DEFINE k == [op |-> "version", command |-> c, result |-> child, replayed |-> TRUE]
  <2>1. /\ UNCHANGED <<draft, approvals, revocations>> /\ acks' = acks \cup {k}
        /\ draft[child].versionHash = c
    BY <1>11 DEF ReplayVersion, AnswersVersion, ReplayIdentity, ledger
  <2>2. k \in Ack
    BY DEF Ack
  <2>3. KeepsBacking /\ RequestsUnique' /\ Backed(k)'
    BY <2>1 DEF KeepsBacking, AnswersBacked, RequestsUnique, Backed
  <2> QED
    BY <1>0, <2>1, <2>2, <2>3
<1>12. ASSUME NEW p \in Policies, ChangePolicy(p) PROVE AnswersBacked'
  BY <1>12, BackedFrame DEF ChangePolicy, ledger
<1>13. ASSUME NEW a \in Actors, ChangeMembership(a) PROVE AnswersBacked'
  BY <1>13, BackedFrame DEF ChangeMembership, ledger
<1>14. CASE UNCHANGED vars
  BY <1>14, BackedFrame DEF vars, ledger
<1> QED
  BY <1>1, <1>2, <1>3, <1>4, <1>5, <1>6, <1>7, <1>8, <1>9, <1>10, <1>11, <1>12, <1>13,
     <1>14 DEF Next

(* At the start nothing was answered.                                       *)
LEMMA BackedInit == Init => AnswersBacked
BY DEF Init, AnswersBacked, RequestsUnique

(* A request id answers one command, for any number of clients, retries and *)
(* later decisions.                                                         *)
THEOREM OneCommand == Spec => []RequestsBindOneCommand
<1>1. Init => TypeOK /\ ChainInv /\ AnswersBacked
  BY TypeInit, ChainInit, BackedInit
<1>2. TypeOK /\ ChainInv /\ AnswersBacked /\ [Next]_vars
        => (TypeOK /\ ChainInv /\ AnswersBacked)'
  BY TypeStep, ChainStep, BackedStep
<1>3. TypeOK /\ ChainInv /\ AnswersBacked => RequestsBindOneCommand
  <2> SUFFICES ASSUME TypeOK, ChainInv, AnswersBacked,
                      NEW k \in acks, NEW m \in acks,
                      k.op = m.op, k.command.request = m.command.request
               PROVE  k.command = m.command /\ k.result = m.result
    BY DEF RequestsBindOneCommand
  <2>1. Backed(k) /\ Backed(m) /\ k \in Ack /\ m \in Ack
    BY DEF AnswersBacked, TypeOK
  <2>2. CASE k.op = "approve"
    BY <2>1, <2>2 DEF Backed, AnswersBacked, RequestsUnique
  <2>3. CASE k.op = "revoke"
    BY <2>1, <2>3 DEF Backed, AnswersBacked, RequestsUnique
  <2>4. CASE k.op = "version"
    <3>1. /\ k.result \in Drafts /\ m.result \in Drafts
          /\ k.command \in VersionCommand /\ m.command \in VersionCommand
      BY <2>1, <2>4 DEF Ack
    <3>2. /\ draft[k.result].versionHash = k.command
          /\ draft[m.result].versionHash = m.command
      BY <2>1, <2>4 DEF Backed
    <3>3. m.result \in VersionsWith(draft[k.result].versionHash.request)
      BY <3>1, <3>2, DecisionAssumption DEF VersionsWith
    <3>4. m.result = k.result
      BY <3>1, <3>2, <3>3, DecisionAssumption DEF ChainInv, VersionChainCoherent
    <3> QED
      BY <3>2, <3>4
  <2>5. k.op \in {"approve", "revoke", "version"}
    BY <2>1 DEF Ack
  <2> QED
    BY <2>2, <2>3, <2>4, <2>5
<1> QED
  BY <1>1, <1>2, <1>3, PTL DEF Spec

(* What an acknowledged approval named stays in its draft, through every    *)
(* later edit, revocation and version.                                      *)
THEOREM ContentStays == Spec => []ApprovedContentStays
<1>1. Init => TypeOK /\ AllReadable /\ ChainInv /\ AnswersBacked
  BY TypeInit, ReadableInit, ChainInit, BackedInit
<1>2. TypeOK /\ AllReadable /\ ChainInv /\ AnswersBacked /\ [Next]_vars
        => (TypeOK /\ AllReadable /\ ChainInv /\ AnswersBacked)'
  BY TypeStep, ReadableStep, ChainStep, BackedStep
<1>3. TypeOK /\ AllReadable /\ AnswersBacked => ApprovedContentStays
  <2> SUFFICES ASSUME TypeOK, AllReadable, AnswersBacked, NEW k \in acks, k.op = "approve"
               PROVE  /\ draft[k.command.draft].content = k.command.content
                      /\ draft[k.command.draft].approvedBy = k.command.actor
                      /\ draft[k.command.draft].status \in DecidedStatuses
    BY DEF ApprovedContentStays
  <2> DEFINE d == k.command.draft
  <2>1. k.command \in ApproveCommand /\ d \in Drafts
    BY DEF TypeOK, Ack, ApproveCommand
  <2>2. PICK a \in approvals : a.draft = d /\ a.requestHash = k.command
    BY DEF AnswersBacked, Backed
  <2>3. a \in ApprovalsOf(d)
    BY <2>2 DEF ApprovalsOf
  <2>4. CoherentEvidence(d)
    BY <2>1, <2>3 DEF AllReadable, Readable, NoEvidence
  <2>5. PICK s \in SnapshotsOf(d) : CoherentPair(d, s, a)
    BY <2>3, <2>4 DEF CoherentEvidence
  <2>6. /\ draft[d].content = s.content /\ draft[d].approvedBy = a.approvedBy
        /\ draft[d].status \in DecidedStatuses
        /\ k.command.content = s.content /\ k.command.actor = a.approvedBy
    BY <2>2, <2>5 DEF CoherentPair, DecidedStatuses
  <2> QED
    BY <2>6
<1> QED
  BY <1>1, <1>2, <1>3, PTL DEF Spec

------------------------------------------------------------------------------
(* The answers that are still given.                                        *)

(* A version was made by the actor and from the draft that its command      *)
(* names, and the lineage walk still accepts it.                            *)
VersionSound(x) ==
  draft[x].versionHash # None =>
    /\ draft[x].createdBy = draft[x].versionHash.actor
    /\ draft[x].source = "version"
    /\ draft[x].supersedesId = draft[x].versionHash.draft
    /\ CalculatedLineage(x)
VersionsSound == \A x \in Drafts : VersionSound(x)

(* Existing rows keep what they descend from, and a row that appears is not *)
(* a version.                                                               *)
KeepsDescent ==
  \A x \in Drafts :
    IF Exists(x)
      THEN /\ Exists(x)'
           /\ draft'[x].versionHash = draft[x].versionHash
           /\ draft'[x].createdBy = draft[x].createdBy
           /\ draft'[x].source = draft[x].source
           /\ draft'[x].supersedesId = draft[x].supersedesId
      ELSE draft'[x].versionHash = None

(* Such a step keeps the versions sound.                                    *)
LEMMA SoundKept ==
  ASSUME VersionsSound, KeepsDescent
  PROVE  VersionsSound'
<1>1. KeepsOrigins
  BY DEF KeepsDescent, KeepsOrigins
<1>2. ASSUME NEW CONSTANT x \in Drafts, draft'[x].versionHash # None
      PROVE  /\ draft'[x].createdBy = draft'[x].versionHash.actor
             /\ draft'[x].source = "version"
             /\ draft'[x].supersedesId = draft'[x].versionHash.draft
             /\ CalculatedLineage(x)'
  <2>1. /\ Exists(x) /\ draft'[x].versionHash = draft[x].versionHash
        /\ draft'[x].createdBy = draft[x].createdBy /\ draft'[x].source = draft[x].source
        /\ draft'[x].supersedesId = draft[x].supersedesId
    BY <1>2 DEF KeepsDescent
  <2>2. VersionSound(x) /\ draft[x].versionHash # None
    BY <1>2, <2>1 DEF VersionsSound
  <2>3. CalculatedLineage(x)'
    BY <1>1, <2>2, LineageKept DEF VersionSound, CalculatedLineage
  <2> QED
    BY <2>1, <2>2, <2>3 DEF VersionSound
<1> QED
  BY <1>2 DEF VersionsSound, VersionSound

(* A step that writes no row.                                               *)
LEMMA SoundFrame ==
  ASSUME ChainInv, VersionsSound, UNCHANGED draft
  PROVE  VersionsSound'
<1>1. KeepsDescent
  BY DEF KeepsDescent, Exists, ChainInv, AbsentClean
<1> QED
  BY <1>1, SoundKept

(* A step that rewrites one row, new or with its descent.                   *)
LEMMA SoundEdit ==
  ASSUME TypeOK, ChainInv, VersionsSound, NEW CONSTANT d \in Drafts, NEW row,
         draft' = [draft EXCEPT ![d] = row],
         IF Exists(d)
           THEN /\ row.status # "absent"
                /\ row.versionHash = draft[d].versionHash
                /\ row.createdBy = draft[d].createdBy
                /\ row.source = draft[d].source
                /\ row.supersedesId = draft[d].supersedesId
           ELSE row.versionHash = None
  PROVE  VersionsSound'
<1>1. draft'[d] = row /\ \A x \in Drafts \ {d} : draft'[x] = draft[x]
  BY DEF TypeOK
<1>2. ASSUME NEW x \in Drafts, ~Exists(x) PROVE draft[x].versionHash = None
  BY <1>2 DEF ChainInv, AbsentClean
<1>3. KeepsDescent
  BY <1>1, <1>2 DEF KeepsDescent, Exists
<1> QED
  BY <1>3, SoundKept

(* The lineage of a new version: what RoomForChild counts, as far as the    *)
(* lineage of its source reaches, and the version itself.                   *)
LEMMA SoundVersion ==
  ASSUME TypeOK, ChainInv, VersionsSound, NEW CONSTANT c \in VersionCommand,
         NEW CONSTANT child \in Drafts, CreateVersion(c, child)
  PROVE  VersionsSound'
<1> DEFINE d == c.draft
<1>0. d \in Drafts /\ d # None
  BY DecisionAssumption DEF VersionCommand
<1>1. PICK v \in {draft[x].version : x \in Drafts} :
        draft' = [draft EXCEPT
            ![child] = [NewRow("version", c.actor, c.content, c.notes) EXCEPT
                          !.version = v + 1, !.supersedesId = d, !.versionHash = c],
            ![d].supersededBy = child]
  BY DEF CreateVersion
<1>2. ~Exists(child) /\ Exists(d) /\ d # child /\ CalculatedLineage(d) /\ RoomForChild(d)
  BY DEF CreateVersion, Locks
<1>3. \A x \in Drafts \ {child} : /\ draft'[x].status = draft[x].status
                                 /\ draft'[x].versionHash = draft[x].versionHash
                                 /\ draft'[x].createdBy = draft[x].createdBy
                                 /\ draft'[x].source = draft[x].source
                                 /\ draft'[x].supersedesId = draft[x].supersedesId
  BY <1>0, <1>1, <1>2 DEF TypeOK, DraftRow
<1>4. /\ draft'[child].status = "draft" /\ draft'[child].versionHash = c
      /\ draft'[child].createdBy = c.actor /\ draft'[child].source = "version"
      /\ draft'[child].supersedesId = d
  BY <1>0, <1>1, <1>2 DEF TypeOK, NewRow, AbsentRow
<1>5. KeepsOrigins
  BY <1>2, <1>3 DEF KeepsOrigins, Exists
<1>6. CalculatedLineage(child)'
  <2>1. PICK R \in SUBSET Drafts : AncestorClosed(R, d) /\ Cardinality(R) < MaxLineage
    BY <1>2 DEF RoomForChild
  <2>2. PICK S \in SUBSET Drafts :
          AncestorClosed(S, d) /\ \A x \in S : SoundOrigin(x, CalculatedSources)
    BY <1>2 DEF CalculatedLineage, LineageFrom
  <2> DEFINE T == R \cap S
             U == T \cup {child}
  <2>3. IsFiniteSet(T) /\ Cardinality(T) <= Cardinality(R)
    <3>1. IsFiniteSet(R) /\ T \subseteq R
      BY <2>1 DEF AncestorClosed
    <3> HIDE DEF T
    <3> QED
      BY <3>1, FS_Subset
  <2>4. /\ d \in T /\ child \notin T /\ T \subseteq Drafts
        /\ \A x \in T : /\ SoundOrigin(x, CalculatedSources)
                        /\ draft[x].supersedesId # None => draft[x].supersedesId \in T
    BY <1>2, <2>1, <2>2 DEF AncestorClosed, SoundOrigin
  <2> HIDE DEF T
  <2>5. IsFiniteSet(U) /\ Cardinality(U) <= MaxLineage
    <3>1. IsFiniteSet(U) /\ Cardinality(U) = Cardinality(T) + 1
      BY <2>3, <2>4, FS_AddElement
    <3>2. Cardinality(T) \in Nat /\ Cardinality(R) \in Nat /\ MaxLineage \in Nat
      BY <2>1, <2>3, FS_CardinalityType, DecisionAssumption DEF AncestorClosed
    <3> QED
      BY <2>1, <2>3, <3>1, <3>2
  <2>6. \A x \in U : draft'[x].supersedesId # None => draft'[x].supersedesId \in U
    BY <1>3, <1>4, <2>4
  <2>7. \A x \in U : SoundOrigin(x, CalculatedSources)'
    BY <1>0, <1>3, <1>4, <2>4 DEF SoundOrigin, Exists, CalculatedSources
  <2>8. U \in SUBSET Drafts /\ child \in U
    BY <2>4
  <2> HIDE DEF U
  <2>9. AncestorClosed(U, child)'
    BY <2>5, <2>6, <2>8 DEF AncestorClosed
  <2> QED
    BY <2>5, <2>7, <2>8, <2>9 DEF CalculatedLineage, LineageFrom
<1>7. ASSUME NEW CONSTANT x \in Drafts, x # child PROVE VersionSound(x)'
  <2>1. VersionSound(x)
    BY DEF VersionsSound
  <2>2. draft[x].versionHash # None => CalculatedLineage(x)'
    BY <1>5, <2>1, LineageKept DEF VersionSound, CalculatedLineage
  <2> QED
    BY <1>3, <1>7, <2>1, <2>2 DEF VersionSound
<1>8. VersionSound(child)'
  BY <1>4, <1>6 DEF VersionSound
<1> QED
  BY <1>7, <1>8 DEF VersionsSound

(* Each action keeps the versions sound.                                    *)
LEMMA SoundStep == TypeOK /\ ChainInv /\ VersionsSound /\ [Next]_vars => VersionsSound'
<1> SUFFICES ASSUME TypeOK, ChainInv, VersionsSound, [Next]_vars PROVE VersionsSound'
  OBVIOUS
<1>1. ASSUME UNCHANGED draft PROVE VersionsSound'
  BY <1>1, SoundFrame
<1>2. ASSUME NEW d \in Drafts, NEW a \in Actors, NEW c \in Contents, NEW n \in Notes,
             CreateDraft(d, a, c, n)
      PROVE  VersionsSound'
  <2>1. NewRow("assembly_calculator", a, c, n).versionHash = None
    BY DEF NewRow, AbsentRow
  <2> QED
    BY <1>2, <2>1, SoundEdit DEF CreateDraft
<1>3. ASSUME NEW d \in Drafts, NEW s \in GenericStatuses, Exists(d),
             draft' = [draft EXCEPT ![d].status = s]
      PROVE  VersionsSound'
  <2> DEFINE row == [draft[d] EXCEPT !.status = s]
  <2>1. /\ row.status = s /\ row.versionHash = draft[d].versionHash
        /\ row.createdBy = draft[d].createdBy /\ row.source = draft[d].source
        /\ row.supersedesId = draft[d].supersedesId
    BY DEF TypeOK, DraftRow
  <2>2. s # "absent" /\ draft' = [draft EXCEPT ![d] = row]
    BY <1>3 DEF GenericStatuses
  <2> HIDE DEF row
  <2> QED
    BY <1>3, <2>1, <2>2, SoundEdit
<1>4. ASSUME NEW d \in Drafts, NEW a \in Actors, NEW s \in GenericStatuses,
             ChangeStatus(d, a, s)
      PROVE  VersionsSound'
  BY <1>3, <1>4 DEF ChangeStatus, Locks
<1>5. ASSUME NEW d \in Drafts, NEW a \in Actors, RejectDraft(d, a)
      PROVE  VersionsSound'
  BY <1>3, <1>5 DEF RejectDraft, Locks, GenericStatuses
<1>6. ASSUME NEW d \in Drafts, NEW a \in Actors, NEW n \in Notes, UpdateNotes(d, a, n)
      PROVE  VersionsSound'
  <2> DEFINE row == [draft[d] EXCEPT !.notes = n]
  <2>1. /\ row.status = draft[d].status /\ row.versionHash = draft[d].versionHash
        /\ row.createdBy = draft[d].createdBy /\ row.source = draft[d].source
        /\ row.supersedesId = draft[d].supersedesId
    BY DEF TypeOK, DraftRow
  <2>2. Exists(d) /\ draft' = [draft EXCEPT ![d] = row]
    BY <1>6 DEF UpdateNotes, Locks
  <2> HIDE DEF row
  <2> QED
    BY <2>1, <2>2, SoundEdit DEF Exists
<1>7. ASSUME NEW d \in Drafts, NEW a \in Actors, NEW c \in Contents, ApplyDiscount(d, a, c)
      PROVE  VersionsSound'
  <2> DEFINE row == [draft[d] EXCEPT !.content = c]
  <2>1. /\ row.status = draft[d].status /\ row.versionHash = draft[d].versionHash
        /\ row.createdBy = draft[d].createdBy /\ row.source = draft[d].source
        /\ row.supersedesId = draft[d].supersedesId
    BY DEF TypeOK, DraftRow
  <2>2. Exists(d) /\ draft' = [draft EXCEPT ![d] = row]
    BY <1>7 DEF ApplyDiscount, Locks
  <2> HIDE DEF row
  <2> QED
    BY <2>1, <2>2, SoundEdit DEF Exists
<1>8. ASSUME NEW c \in ApproveCommand, Approve(c) PROVE VersionsSound'
  <2> DEFINE d       == c.draft
             decided == [draft[d] EXCEPT !.status = "internally_approved"]
             stamped == [decided EXCEPT !.approvedBy = c.actor]
             row     == [stamped EXCEPT !.locked = TRUE]
  <2>0. d \in Drafts /\ Exists(d)
    BY <1>8 DEF ApproveCommand, Approve, Locks
  <2>1. /\ row.status = "internally_approved" /\ row.versionHash = draft[d].versionHash
        /\ row.createdBy = draft[d].createdBy /\ row.source = draft[d].source
        /\ row.supersedesId = draft[d].supersedesId
    BY <2>0 DEF TypeOK, DraftRow
  <2>2. draft' = [draft EXCEPT ![d] = row]
    BY <1>8, Zenon DEF Approve
  <2> HIDE DEF row, d
  <2> QED
    BY <2>0, <2>1, <2>2, SoundEdit
<1>9. ASSUME NEW c \in RevokeCommand, Revoke(c) PROVE VersionsSound'
  <2> DEFINE d   == c.draft
             row == Withdrawn(draft[d])
  <2>0. d \in Drafts /\ Exists(d)
    BY <1>9 DEF RevokeCommand, Revoke, Locks
  <2>1. /\ row.status = "internal_approval_revoked" /\ row.versionHash = draft[d].versionHash
        /\ row.createdBy = draft[d].createdBy /\ row.source = draft[d].source
        /\ row.supersedesId = draft[d].supersedesId
    BY <2>0 DEF TypeOK, DraftRow, Withdrawn
  <2>2. draft' = [draft EXCEPT ![d] = row]
    BY <1>9 DEF Revoke
  <2> HIDE DEF row, d
  <2> QED
    BY <2>0, <2>1, <2>2, SoundEdit
<1>10. ASSUME NEW c \in VersionCommand, NEW child \in Drafts, CreateVersion(c, child)
       PROVE  VersionsSound'
  BY <1>10, SoundVersion
<1>11. ASSUME NEW c, ReplayApprove(c) \/ ReplayRevoke(c) PROVE VersionsSound'
  BY <1>1, <1>11 DEF ReplayApprove, ReplayRevoke
<1>12. ASSUME NEW c, NEW child, ReplayVersion(c, child) PROVE VersionsSound'
  BY <1>1, <1>12 DEF ReplayVersion
<1>13. ASSUME NEW p, ChangePolicy(p) \/ ChangeMembership(p) PROVE VersionsSound'
  BY <1>1, <1>13 DEF ChangePolicy, ChangeMembership
<1>14. CASE UNCHANGED vars
  BY <1>1, <1>14 DEF vars
<1> QED
  BY <1>2, <1>4, <1>5, <1>6, <1>7, <1>8, <1>9, <1>10, <1>11, <1>12, <1>13, <1>14 DEF Next

(* At the start no row is a version.                                        *)
LEMMA SoundInit == Init => VersionsSound
<1> SUFFICES ASSUME Init, NEW x \in Drafts PROVE draft[x].versionHash = None
  BY DEF VersionsSound, VersionSound
<1> QED
  BY FirstRowsClean

(* A row with evidence is read as a decision in force or withdrawn.         *)
RecordedEvidence(d) ==
  /\ CoherentEvidence(d) /\ CalculatedLineage(d) /\ Exists(d)
  /\ ReadRecord(d) = IF RevocationsOf(d) = {} THEN "active" ELSE "revoked"

LEMMA EvidenceRead ==
  ASSUME AllReadable, NEW d \in Drafts, ~NoEvidence(d)
  PROVE  RecordedEvidence(d)
<1>1. CoherentEvidence(d)
  BY DEF AllReadable, Readable
<1>2. CalculatedLineage(d) /\ Exists(d)
  BY <1>1, LineageExists DEF CoherentEvidence, CalculatedLineage
<1> QED
  BY <1>1, <1>2 DEF RecordedEvidence, ReadRecord

(* The lineage of a version is one of its source too.                       *)
LEMMA LineageOfSource ==
  ASSUME NEW x \in Drafts, draft[x].supersedesId # None, CalculatedLineage(x)
  PROVE  CalculatedLineage(draft[x].supersedesId)
<1>1. PICK S \in SUBSET Drafts :
        /\ AncestorClosed(S, x) /\ Cardinality(S) <= MaxLineage
        /\ \A y \in S : SoundOrigin(y, CalculatedSources)
  BY DEF CalculatedLineage, LineageFrom
<1>2. AncestorClosed(S, draft[x].supersedesId)
  BY <1>1 DEF AncestorClosed
<1> QED
  BY <1>1, <1>2 DEF CalculatedLineage, LineageFrom

(* An acknowledged command that is sent again is answered as it was, at any *)
(* later moment at which its actor is still permitted: the guards of the    *)
(* replay hold for the recorded row, through every later decision, edit and *)
(* version.                                                                 *)
THEOREM Repeatable == Spec => []AnswersRepeatable
<1> DEFINE I == TypeOK /\ AllReadable /\ ChainInv /\ AnswersBacked /\ VersionsSound
<1>1. Init => I
  BY TypeInit, ReadableInit, ChainInit, BackedInit, SoundInit
<1>2. I /\ [Next]_vars => I'
  BY TypeStep, ReadableStep, ChainStep, BackedStep, SoundStep
<1>3. I => AnswersRepeatable
  <2> SUFFICES ASSUME I, NEW k \in acks, k.command.actor \in authorized
               PROVE  \/ k.op = "approve" /\ AnswersApprove(k.command, k.result)
                      \/ k.op = "revoke"  /\ AnswersRevoke(k.command, k.result)
                      \/ k.op = "version" /\ AnswersVersion(k.command, k.result)
    BY DEF AnswersRepeatable
  <2> DEFINE c == k.command
             d == c.draft
  <2>1. k \in Ack /\ Backed(k) /\ d \in Drafts
    BY DEF TypeOK, Ack, AnswersBacked, ApproveCommand, RevokeCommand, VersionCommand
  <2>2. CASE k.op = "approve"
    <3>1. PICK a \in approvals : /\ a.request = k.result /\ a.request = c.request
                                 /\ a.draft = d /\ a.requestHash = c
      BY <2>1, <2>2 DEF Backed
    <3>2. a \in ApprovalsOf(d)
      BY <3>1 DEF ApprovalsOf
    <3>3. RecordedEvidence(d)
      BY <2>1, <3>2, EvidenceRead DEF NoEvidence
    <3>4. PICK s \in SnapshotsOf(d) : CoherentPair(d, s, a)
      BY <3>2, <3>3, Zenon DEF RecordedEvidence, CoherentEvidence
    <3>5. a.approvedBy = c.actor
      BY <3>1, <3>4 DEF CoherentPair
    <3>6. AnswersApprove(c, k.result)
      BY <3>1, <3>2, <3>3, <3>5 DEF AnswersApprove, RecordedEvidence, RecordedStates, Locks
    <3> QED
      BY <2>2, <3>6
  <2>3. CASE k.op = "revoke"
    <3>1. PICK r \in revocations : /\ r.request = k.result /\ r.request = c.request
                                   /\ r.requestHash = c
      BY <2>1, <2>3 DEF Backed
    <3>2. r.draft \in Drafts /\ r \in RevocationsOf(r.draft)
      BY DEF TypeOK, RevocationRow, RevocationsOf
    <3>3. RecordedEvidence(r.draft) /\ ReadRecord(r.draft) = "revoked"
      <4> DEFINE e == r.draft
      <4>1. e \in Drafts /\ RevocationsOf(e) # {}
        BY <3>2
      <4> HIDE DEF e
      <4>2. RecordedEvidence(e)
        BY <4>1, EvidenceRead DEF NoEvidence
      <4>3. ReadRecord(e) = "revoked"
        BY <4>1, <4>2, Zenon DEF RecordedEvidence
      <4> QED
        BY <4>2, <4>3 DEF e
    <3>4. PICK s \in SnapshotsOf(r.draft), a \in ApprovalsOf(r.draft) :
            CoherentRevocation(r.draft, s, a, r)
      BY <3>2, <3>3 DEF RecordedEvidence, CoherentEvidence
    <3>5. /\ r.draft = d /\ r.revokedBy = c.actor
          /\ c.approval = a.request /\ c.content = s.content /\ c.notes = s.notes
      BY <3>1, <3>4 DEF CoherentRevocation
    <3>6. NamesDecision(c)
      BY <3>4, <3>5 DEF NamesDecision
    <3>7. AnswersRevoke(c, k.result)
      BY <3>1, <3>2, <3>3, <3>5, <3>6 DEF AnswersRevoke, RecordedEvidence, Locks
    <3> QED
      BY <2>3, <3>7
  <2>4. CASE k.op = "version"
    <3> DEFINE child == k.result
    <3>1. /\ child \in Drafts /\ c \in VersionCommand /\ c # None
          /\ draft[child].versionHash = c
      BY <2>1, <2>4, DecisionAssumption DEF Backed, Ack
    <3>2. /\ draft[child].createdBy = c.actor /\ draft[child].source = "version"
          /\ draft[child].supersedesId = d /\ CalculatedLineage(child)
      BY <3>1 DEF VersionsSound, VersionSound
    <3>3. /\ Exists(d) /\ draft[d].supersededBy = child
          /\ draft[d].version < draft[child].version
          /\ \A y \in VersionsWith(c.request) : y = child
      BY <3>1, <3>2 DEF ChainInv, VersionChainCoherent
    <3>4. VersionsWith(c.request) = {child}
      BY <3>1, <3>3 DEF VersionsWith
    <3>5. draft[child].version > draft[d].version /\ child # d
      BY <2>1, <3>1, <3>3, ChainRefs
    <3>6. CalculatedLineage(d)
      BY <2>1, <3>1, <3>2, LineageOfSource, DecisionAssumption
    <3>7. ReadRecord(d) # "integrity"
      BY <2>1, <3>3, ReadableReads DEF RecordsAlwaysReadable
    <3>8. AnswersVersion(c, child)
      BY <3>1, <3>2, <3>3, <3>4, <3>5, <3>6, <3>7 DEF AnswersVersion, ReplayIdentity, Locks
    <3> QED
      BY <2>4, <3>8
  <2>5. k.op \in {"approve", "revoke", "version"}
    BY <2>1 DEF Ack
  <2> QED
    BY <2>2, <2>3, <2>4, <2>5
<1> QED
  BY <1>1, <1>2, <1>3, PTL DEF Spec

------------------------------------------------------------------------------
(* The row trigger.                                                        *)

(* The guard accepts what the action on the row d writes.                   *)
Guarded(d) == draft'[d] # draft[d] => RowGuard(draft[d], draft'[d], SnapshotsOf(d) # {})

(* A generic edit of a row that was never decided.                          *)
LEMMA GuardedEdit ==
  ASSUME TypeOK, NEW CONSTANT d \in Drafts, Undecided(d), Exists(d),
         draft'[d] \in DraftRow,
         draft'[d].status \notin DecidedStatuses \cup {"approved"},
         draft'[d].versionHash = draft[d].versionHash,
         draft'[d].supersededBy = draft[d].supersededBy,
         draft'[d].version = draft[d].version,
         draft[d].status = "approved" => draft'[d].content = draft[d].content
  PROVE  Guarded(d)
BY DEF Guarded, RowGuard, Undecided, Exists

(* The trigger compares rows but for their notes, successor and status.     *)
LEMMA StatusForgotten ==
  ASSUME NEW row \in DraftRow, NEW status
  PROVE  [[row EXCEPT !.status = status]
            EXCEPT !.notes = None, !.supersededBy = None, !.status = "draft"]
           = [row EXCEPT !.notes = None, !.supersededBy = None, !.status = "draft"]
BY DEF DraftRow

(* Each action writes rows that the trigger accepts.                        *)
LEMMA TriggerStep ==
  TypeOK /\ [Next]_vars => [\A d \in Drafts : draft'[d] # draft[d]
                              => RowGuard(draft[d], draft'[d], SnapshotsOf(d) # {})]_vars
<1> SUFFICES ASSUME TypeOK, Next PROVE \A x \in Drafts : Guarded(x)
  BY DEF Guarded
<1>0. TypeOK'
  BY TypeStep
<1>1. ASSUME UNCHANGED draft PROVE \A x \in Drafts : Guarded(x)
  BY <1>1 DEF Guarded
<1>2. ASSUME NEW d \in Drafts, NEW a \in Actors, NEW c \in Contents, NEW n \in Notes,
             CreateDraft(d, a, c, n)
      PROVE  \A x \in Drafts : Guarded(x)
  <2>1. draft'[d].status = "draft" /\ draft[d].status = "absent"
    BY <1>2 DEF CreateDraft, TypeOK, NewRow, AbsentRow, Exists
  <2>2. \A x \in Drafts \ {d} : draft'[x] = draft[x]
    BY <1>2 DEF CreateDraft, TypeOK
  <2> QED
    BY <2>1, <2>2 DEF Guarded, RowGuard, DecidedStatuses
<1>3. ASSUME NEW CONSTANT d \in Drafts, NEW CONSTANT a \in Actors,
             NEW CONSTANT s \in GenericStatuses, ChangeStatus(d, a, s)
      PROVE  \A x \in Drafts : Guarded(x)
  <2>1. /\ draft'[d].status = s /\ draft'[d].versionHash = draft[d].versionHash
        /\ draft'[d].supersededBy = draft[d].supersededBy
        /\ draft'[d].version = draft[d].version /\ draft'[d].content = draft[d].content
    BY <1>3 DEF ChangeStatus, TypeOK, DraftRow
  <2>2. draft'[d] \in DraftRow
    BY <1>0 DEF TypeOK
  <2>3. Guarded(d)
    BY <1>3, <2>1, <2>2, GuardedEdit DEF ChangeStatus, Locks
  <2> QED
    BY <1>3, <2>3 DEF ChangeStatus, Guarded, TypeOK
<1>4. ASSUME NEW CONSTANT d \in Drafts, NEW CONSTANT a \in Actors, NEW n \in Notes,
             UpdateNotes(d, a, n)
      PROVE  \A x \in Drafts : Guarded(x)
  <2>1. draft'[d] = [draft[d] EXCEPT !.notes = n] /\ draft[d] \in DraftRow
    BY <1>4 DEF UpdateNotes, TypeOK
  <2>2. [draft'[d] EXCEPT !.notes = None, !.supersededBy = None, !.status = "draft"]
          = [draft[d] EXCEPT !.notes = None, !.supersededBy = None, !.status = "draft"]
    BY <2>1 DEF DraftRow
  <2>3. /\ draft'[d].status = draft[d].status /\ draft'[d].versionHash = draft[d].versionHash
        /\ draft'[d].supersededBy = draft[d].supersededBy
        /\ draft'[d].version = draft[d].version /\ draft'[d].content = draft[d].content
        /\ draft[d].status # "absent"
    BY <1>4, <2>1 DEF DraftRow, UpdateNotes, Locks, Exists
  <2>4. Guarded(d)
    BY <2>2, <2>3 DEF Guarded, RowGuard
  <2> QED
    BY <1>4, <2>4 DEF UpdateNotes, Guarded, TypeOK
<1>5. ASSUME NEW CONSTANT d \in Drafts, NEW CONSTANT a \in Actors,
             NEW CONSTANT c \in Contents, ApplyDiscount(d, a, c)
      PROVE  \A x \in Drafts : Guarded(x)
  <2>1. /\ draft'[d].status = "draft" /\ draft[d].status = "draft"
        /\ draft'[d].versionHash = draft[d].versionHash
        /\ draft'[d].supersededBy = draft[d].supersededBy
        /\ draft'[d].version = draft[d].version
    BY <1>5 DEF ApplyDiscount, Discountable, TypeOK, DraftRow
  <2>2. draft'[d] \in DraftRow
    BY <1>0 DEF TypeOK
  <2>3. Guarded(d)
    BY <1>5, <2>1, <2>2, GuardedEdit DEF ApplyDiscount, Discountable, Locks, DecidedStatuses
  <2> QED
    BY <1>5, <2>3 DEF ApplyDiscount, Guarded, TypeOK
<1>6. ASSUME NEW CONSTANT d \in Drafts, NEW CONSTANT a \in Actors, RejectDraft(d, a)
      PROVE  \A x \in Drafts : Guarded(x)
  <2>1. /\ draft'[d].status = "rejected" /\ draft'[d].versionHash = draft[d].versionHash
        /\ draft'[d].supersededBy = draft[d].supersededBy
        /\ draft'[d].version = draft[d].version /\ draft'[d].content = draft[d].content
    BY <1>6 DEF RejectDraft, TypeOK, DraftRow
  <2>2. draft'[d] \in DraftRow
    BY <1>0 DEF TypeOK
  <2>3. Guarded(d)
    BY <1>6, <2>1, <2>2, GuardedEdit DEF RejectDraft, Locks, DecidedStatuses
  <2> QED
    BY <1>6, <2>3 DEF RejectDraft, Guarded, TypeOK
<1>7. ASSUME NEW CONSTANT c \in ApproveCommand, Approve(c)
      PROVE  \A x \in Drafts : Guarded(x)
  <2> DEFINE d == c.draft
  <2>0. d \in Drafts
    BY DEF ApproveCommand
  <2>1. draft' = [draft EXCEPT ![d].status = "internally_approved",
                               ![d].approvedBy = c.actor, ![d].locked = TRUE]
    BY <1>7 DEF Approve
  <2>2. draft[d].status = "draft" /\ draft[d].supersededBy = None /\ SnapshotsOf(d) = {}
    BY <1>7 DEF Approve, Eligible, Newest, ReadRecord, NoEvidence
  <2>3. /\ draft'[d].status = "internally_approved"
        /\ draft'[d].versionHash = draft[d].versionHash
        /\ draft'[d].content = draft[d].content /\ draft'[d].notes = draft[d].notes
    BY <2>0, <2>1 DEF TypeOK, DraftRow
  <2>4. Guarded(d)
    BY <2>2, <2>3 DEF Guarded, RowGuard, DecidedStatuses
  <2> QED
    BY <2>0, <2>1, <2>4 DEF Guarded, TypeOK
<1>8. ASSUME NEW CONSTANT c \in RevokeCommand, Revoke(c)
      PROVE  \A x \in Drafts : Guarded(x)
  <2> DEFINE d == c.draft
  <2>0. d \in Drafts
    BY DEF RevokeCommand
  <2>1. draft' = [draft EXCEPT ![d] = Withdrawn(draft[d])] /\ draft[d] \in DraftRow
    BY <1>8, <2>0 DEF Revoke, TypeOK
  <2>2. CoherentEvidence(d) /\ RevocationsOf(d) = {}
    BY <1>8 DEF Revoke, ReadRecord
  <2>3. draft[d].status = "internally_approved" /\ SnapshotsOf(d) # {}
    BY <2>2 DEF CoherentEvidence, CoherentPair
  <2>4. draft'[d] = [draft[d] EXCEPT !.status = "internal_approval_revoked"]
    BY <2>0, <2>1 DEF Withdrawn, TypeOK
  <2>5. [draft'[d] EXCEPT !.notes = None, !.supersededBy = None, !.status = "draft"]
          = [draft[d] EXCEPT !.notes = None, !.supersededBy = None, !.status = "draft"]
    <3>1. draft[d] \in DraftRow
      BY <2>1
    <3> HIDE DEF d
    <3> QED
      BY ONLY <2>4, <3>1, StatusForgotten
  <2>6. /\ draft'[d].status = "internal_approval_revoked"
        /\ draft'[d].versionHash = draft[d].versionHash
        /\ draft'[d].supersededBy = draft[d].supersededBy
    BY <2>1, <2>4 DEF DraftRow
  <2>7. Guarded(d)
    BY <2>3, <2>5, <2>6 DEF Guarded, RowGuard
  <2> QED
    BY <2>0, <2>1, <2>7 DEF Guarded, TypeOK
<1>9. ASSUME NEW CONSTANT c \in VersionCommand, NEW CONSTANT child \in Drafts,
             CreateVersion(c, child)
      PROVE  \A x \in Drafts : Guarded(x)
  <2> DEFINE d == c.draft
  <2>0. d \in Drafts
    BY DEF VersionCommand
  <2>1. PICK v \in {draft[x].version : x \in Drafts} :
          draft' = [draft EXCEPT
            ![child] = [NewRow("version", c.actor, c.content, c.notes) EXCEPT
                          !.version = v + 1, !.supersedesId = d, !.versionHash = c],
            ![d].supersededBy = child]
    BY <1>9 DEF CreateVersion
  <2>2. /\ draft[child].status = "absent" /\ draft[d].status # "absent" /\ d # child
        /\ draft[d].supersededBy = None
    BY <1>9 DEF CreateVersion, Locks, Exists, CopySource, Newest
  <2>3. draft'[child].status = "draft"
    BY <2>0, <2>1, <2>2 DEF TypeOK, NewRow, AbsentRow
  <2>4. Guarded(child)
    BY <2>2, <2>3 DEF Guarded, RowGuard, DecidedStatuses
  <2>5. draft'[d] = [draft[d] EXCEPT !.supersededBy = child] /\ draft[d] \in DraftRow
    BY <2>0, <2>1, <2>2 DEF TypeOK
  <2>6. [draft'[d] EXCEPT !.notes = None, !.supersededBy = None, !.status = "draft"]
          = [draft[d] EXCEPT !.notes = None, !.supersededBy = None, !.status = "draft"]
    BY <2>5 DEF DraftRow
  <2>7. /\ draft'[d].status = draft[d].status /\ draft'[d].versionHash = draft[d].versionHash
        /\ draft'[d].version = draft[d].version /\ draft'[d].content = draft[d].content
    BY <2>5 DEF DraftRow
  <2>8. Guarded(d)
    BY <2>2, <2>6, <2>7 DEF Guarded, RowGuard
  <2> QED
    BY <2>0, <2>1, <2>4, <2>8 DEF Guarded, TypeOK
<1>10. ASSUME NEW c \in ApproveCommand, ReplayApprove(c) PROVE \A x \in Drafts : Guarded(x)
  BY <1>1, <1>10 DEF ReplayApprove
<1>11. ASSUME NEW c \in RevokeCommand, ReplayRevoke(c) PROVE \A x \in Drafts : Guarded(x)
  BY <1>1, <1>11 DEF ReplayRevoke
<1>12. ASSUME NEW c \in VersionCommand, NEW child \in Drafts, ReplayVersion(c, child)
       PROVE  \A x \in Drafts : Guarded(x)
  BY <1>1, <1>12 DEF ReplayVersion
<1>13. ASSUME NEW p \in Policies, ChangePolicy(p) PROVE \A x \in Drafts : Guarded(x)
  BY <1>1, <1>13 DEF ChangePolicy
<1>14. ASSUME NEW a \in Actors, ChangeMembership(a) PROVE \A x \in Drafts : Guarded(x)
  BY <1>1, <1>14 DEF ChangeMembership
<1> QED
  BY <1>2, <1>3, <1>4, <1>5, <1>6, <1>7, <1>8, <1>9, <1>10, <1>11, <1>12, <1>13, <1>14
     DEF Next

(* The code never relies on the row trigger of migration 0007: whatever it  *)
(* writes, the trigger accepts.                                             *)
THEOREM Triggers == Spec => TriggersNeverFire
BY TypeInit, TypeStep, TriggerStep, PTL DEF Spec, TriggersNeverFire
==============================================================================
