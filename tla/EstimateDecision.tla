--------------------------- MODULE EstimateDecision ---------------------------
(***************************************************************************)
(* The decision cycle of an estimate: generic edits, internal approval,    *)
(* revocation and versioning of the drafts of one project.                 *)
(*                                                                         *)
(* Every writer runs in one SERIALIZABLE transaction that starts by taking *)
(* the project row FOR UPDATE, so a transaction that commits is one step   *)
(* here; one that is refused, retried away (SQLSTATE 40001 / 40P01) or     *)
(* rolled back by a failed audit leaves the database as it was, which is a *)
(* stuttering step.  Commands are arbitrary: a client may send any         *)
(* command, any number of times, whatever it read before, so a step may    *)
(* carry a stale review, a duplicate or a reordered request.               *)
(*                                                                         *)
(* The triggers of drizzle/0007 are NOT guards of these actions: what they *)
(* refuse is stated as properties that the TypeScript code maintains.  One *)
(* check is theirs alone and is a guard, the lineage bound of a new child. *)
(***************************************************************************)
EXTENDS Naturals, FiniteSets

CONSTANTS
  Drafts,      \* identities of estimate_drafts rows
  Roots,       \* rows that exist at the start: calculated, legacy, imported
  Actors,      \* profiles of the tenant
  Requests,    \* client-chosen request ids
  Contents,    \* lines, financials and pricing context of an estimate
  Notes,       \* the operational notes
  Policies,    \* Profit Shield policy in force (tenant settings, geo zone)
  Passes,      \* the <<content, policy>> pairs whose evaluation passes
  MaxVersion,  \* 2147483647 in the code
  MaxLineage,  \* 1000 in the code
  None

VARIABLES
  draft,        \* estimate_drafts
  snapshots,    \* estimate_internal_approval_snapshots
  approvals,    \* estimate_internal_approvals
  revocations,  \* estimate_internal_approval_revocations
  policy,       \* what buildCurrentReview would evaluate against now
  authorized,   \* actors whose account and project membership are active
  acks          \* successful answers sent to clients so far

ledger == <<snapshots, approvals, revocations>>
vars   == <<draft, snapshots, approvals, revocations, policy, authorized, acks>>

------------------------------------------------------------------------------
DecidedStatuses == {"internally_approved", "internal_approval_revoked"}
GenericStatuses == {"draft", "sent_to_estimate", "converted", "archived",
                    "rejected"}
Statuses == DecidedStatuses \cup GenericStatuses \cup {"approved", "absent"}

\* scope_draft and change_order rows are treated as assembly_calculator ones.
CalculatedSources == {"assembly_calculator", "version"}
Sources == CalculatedSources \cup {"historical", "legacy_bundle"}
SourceKinds == {"current_draft", "recorded_a1"}

(* The hash of a command binds the tenant, project, client, actor and every *)
(* field of the command; the command itself stands for it.  A content hash  *)
(* binds the draft, its version, its content and the reviewed notes.        *)
ApproveCommand == [draft : Drafts, request : Requests, actor : Actors,
                   content : Contents, notes : Notes, policy : Policies]
\* An approval's id is written as the request that made it.
RevokeCommand  == [draft : Drafts, request : Requests, actor : Actors,
                   approval : Requests, content : Contents, notes : Notes]
VersionCommand == [draft : Drafts, request : Requests, actor : Actors,
                   kind : SourceKinds, content : Contents, notes : Notes]

ASSUME DecisionAssumption ==
  /\ Roots \subseteq Drafts
  /\ Passes \subseteq Contents \X Policies
  /\ MaxVersion \in Nat \ {0} /\ MaxLineage \in Nat \ {0}
  /\ None \notin Drafts \cup Actors \cup Contents \cup Notes \cup VersionCommand

DraftRow == [status : Statuses, content : Contents \cup {None},
             notes : Notes \cup {None}, version : Nat,
             source : Sources \cup {None}, createdBy : Actors \cup {None},
             supersededBy : Drafts \cup {None},
             supersedesId : Drafts \cup {None},
             versionHash : VersionCommand \cup {None},
             approvedBy : Actors \cup {None}, locked : BOOLEAN]
SnapshotRow   == [draft : Drafts, version : Nat, content : Contents,
                  notes : Notes, policy : Policies, capturedBy : Actors]
ApprovalRow   == [draft : Drafts, request : Requests, approvedBy : Actors,
                  requestHash : ApproveCommand]
RevocationRow == [draft : Drafts, request : Requests, revokedBy : Actors,
                  approval : Requests, requestHash : RevokeCommand]
Ack == [op : {"approve"}, command : ApproveCommand, result : Requests, replayed : BOOLEAN]
  \cup [op : {"revoke"},  command : RevokeCommand,  result : Requests, replayed : BOOLEAN]
  \cup [op : {"version"}, command : VersionCommand, result : Drafts,   replayed : BOOLEAN]

TypeOK ==
  /\ draft \in [Drafts -> DraftRow]
  /\ snapshots \subseteq SnapshotRow
  /\ approvals \subseteq ApprovalRow
  /\ revocations \subseteq RevocationRow
  /\ policy \in Policies
  /\ authorized \subseteq Actors
  /\ acks \subseteq Ack

------------------------------------------------------------------------------
AbsentRow == [status |-> "absent", content |-> None, notes |-> None,
              version |-> 0, source |-> None, createdBy |-> None,
              supersededBy |-> None, supersedesId |-> None,
              versionHash |-> None, approvedBy |-> None, locked |-> FALSE]

NewRow(src, a, c, n) ==
  [AbsentRow EXCEPT !.status = "draft", !.content = c, !.notes = n,
                    !.version = 1, !.source = src, !.createdBy = a]

NewRootRows ==
  {NewRow(src, a, c, n) : src \in {"assembly_calculator", "historical", "legacy_bundle"},
                          a \in Actors, c \in Contents, n \in Notes}

(* A row from before the dedicated action: it may carry the stamp and the   *)
(* lock of the retired id-only approval, and no decision record.            *)
LegacyApproved(row, lock) ==
  [row EXCEPT !.status = "approved", !.approvedBy = row.createdBy, !.locked = lock]

RootRows ==
  NewRootRows \cup {LegacyApproved(row, lock) :
                      row \in {r \in NewRootRows : r.source # "historical"}, lock \in BOOLEAN}

Exists(d) == draft[d].status # "absent"

(* lockInternalApprovalContext / withEstimateMutation: the draft is found   *)
(* under the project lock and the actor is still an active, permitted one.  *)
Locks(d, a) == Exists(d) /\ a \in authorized

(* A finite set of rows that holds d and every ancestor of its rows.        *)
AncestorClosed(S, d) ==
  /\ IsFiniteSet(S) /\ d \in S
  /\ \A x \in S : draft[x].supersedesId # None => draft[x].supersedesId \in S

SoundOrigin(x, sources) ==
  /\ Exists(x)
  /\ draft[x].source \in sources
  /\ draft[x].source = "version" => draft[x].supersedesId # None

(* The walk over the derivation edges stays within its bound and finds only *)
(* rows of an admissible source.                                            *)
LineageFrom(d, sources) ==
  \E S \in SUBSET Drafts :
    /\ AncestorClosed(S, d) /\ Cardinality(S) <= MaxLineage
    /\ \A x \in S : SoundOrigin(x, sources)
CalculatedLineage(d)    == LineageFrom(d, CalculatedSources)
NonHistoricalLineage(d) == LineageFrom(d, Sources \ {"historical"})

SnapshotsOf(d)   == {s \in snapshots : s.draft = d}
ApprovalsOf(d)   == {a \in approvals : a.draft = d}
RevocationsOf(d) == {r \in revocations : r.draft = d}

------------------------------------------------------------------------------
(* validateInternalApprovalRecordEvidence.                                  *)

Unique(S) == \A x, y \in S : x = y

CoherentPair(d, s, a) ==
  LET row == draft[d] IN
  /\ row.content = s.content /\ row.version = s.version
  /\ <<s.content, s.policy>> \in Passes
  /\ s.capturedBy = a.approvedBy
  /\ row.approvedBy = a.approvedBy /\ row.locked
  /\ row.status = IF RevocationsOf(d) = {} THEN "internally_approved"
                                           ELSE "internal_approval_revoked"
  /\ a.requestHash = [draft |-> d, request |-> a.request, actor |-> a.approvedBy,
                      content |-> s.content, notes |-> s.notes, policy |-> s.policy]

CoherentRevocation(d, s, a, r) ==
  /\ r.approval = a.request
  /\ r.requestHash = [draft |-> d, request |-> r.request, actor |-> r.revokedBy,
                      approval |-> a.request, content |-> s.content, notes |-> s.notes]

NoEvidence(d) ==
  SnapshotsOf(d) = {} /\ ApprovalsOf(d) = {} /\ RevocationsOf(d) = {}

CoherentEvidence(d) ==
  /\ SnapshotsOf(d) # {} /\ Unique(SnapshotsOf(d))
  /\ ApprovalsOf(d) # {} /\ Unique(ApprovalsOf(d))
  /\ Unique(RevocationsOf(d))
  /\ CalculatedLineage(d)
  /\ \A s \in SnapshotsOf(d), a \in ApprovalsOf(d) :
       /\ CoherentPair(d, s, a)
       /\ \A r \in RevocationsOf(d) : CoherentRevocation(d, s, a, r)

ReadRecord(d) ==
  IF NoEvidence(d)
    THEN IF draft[d].status \in DecidedStatuses THEN "integrity" ELSE "none"
    ELSE IF ~CoherentEvidence(d) THEN "integrity"
         ELSE IF RevocationsOf(d) = {} THEN "active" ELSE "revoked"

------------------------------------------------------------------------------
(* Generic edits.                                                          *)

Undecided(d) ==
  /\ SnapshotsOf(d) = {} /\ ApprovalsOf(d) = {}
  /\ draft[d].status \notin DecidedStatuses

StatusTransitions ==
  [s \in Statuses |->
     CASE s = "draft"            -> {"sent_to_estimate", "archived", "approved", "rejected"}
       [] s = "sent_to_estimate" -> {"converted", "archived", "draft", "approved", "rejected"}
       [] s = "converted"        -> {"archived"}
       [] s = "archived"         -> {"draft"}
       [] s = "approved"         -> {"converted", "archived"}
       [] s = "rejected"         -> {"draft", "archived"}
       [] OTHER                  -> {}]

CreateDraft(d, a, c, n) ==
  /\ ~Exists(d)
  /\ a \in authorized
  /\ draft' = [draft EXCEPT ![d] = NewRow("assembly_calculator", a, c, n)]
  /\ UNCHANGED <<ledger, policy, authorized, acks>>

ChangeStatus(d, a, s) ==
  /\ s \notin DecidedStatuses \cup {"approved"}
  /\ Locks(d, a)
  /\ Undecided(d)
  /\ s # "archived" => NonHistoricalLineage(d)
  /\ s \in StatusTransitions[draft[d].status]
  /\ draft' = [draft EXCEPT ![d].status = s]
  /\ UNCHANGED <<ledger, policy, authorized, acks>>

UpdateNotes(d, a, n) ==
  /\ Locks(d, a)
  /\ draft' = [draft EXCEPT ![d].notes = n]
  /\ UNCHANGED <<ledger, policy, authorized, acks>>

(* Fault: neither the status nor the decision is looked at.                 *)
DiscountableAlways(d) == draft[d].supersededBy = None

(* assertEstimateMutable adds nothing to the status test before it.         *)
Discountable(d) ==
  /\ Undecided(d)
  /\ draft[d].status = "draft" /\ ~draft[d].locked
  /\ draft[d].supersededBy = None

ApplyDiscount(d, a, c) ==
  /\ Locks(d, a)
  /\ CalculatedLineage(d)
  /\ Discountable(d)
  /\ draft' = [draft EXCEPT ![d].content = c]
  /\ UNCHANGED <<ledger, policy, authorized, acks>>

RejectDraft(d, a) ==
  /\ Locks(d, a)
  /\ Undecided(d)
  /\ NonHistoricalLineage(d)
  /\ "rejected" \in StatusTransitions[draft[d].status]
  /\ draft' = [draft EXCEPT ![d].status = "rejected"]
  /\ UNCHANGED <<ledger, policy, authorized, acks>>

------------------------------------------------------------------------------
(* recordInternalEstimateApproval.                                         *)

(* Fault: a draft that has a newer version is approved or copied again.     *)
NewestAlways(d) == TRUE

Newest(d) == draft[d].supersededBy = None

Eligible(d) ==
  /\ draft[d].status = "draft"
  /\ Newest(d)
  /\ draft[d].approvedBy = None /\ ~draft[d].locked

(* Fault: the reviewed content is not compared with the current one.        *)
ReviewMatchesAnyContent(c) ==
  /\ draft[c.draft].notes = c.notes
  /\ policy = c.policy

(* buildCurrentReview against what the approver confirmed.                  *)
ReviewMatches(c) ==
  /\ draft[c.draft].content = c.content
  /\ draft[c.draft].notes = c.notes
  /\ policy = c.policy

(* Fault: the request of a withdrawn approval is free again.                *)
ApprovalRequestActive(req) ==
  \E a \in approvals : a.request = req /\ RevocationsOf(a.draft) = {}

ApprovalRequestKnown(req) == \E a \in approvals : a.request = req

Approve(c) ==
  LET d == c.draft IN
  /\ Locks(d, c.actor)
  /\ ~ApprovalRequestKnown(c.request)
  /\ Eligible(d)
  /\ ReviewMatches(c)
  /\ <<c.content, c.policy>> \in Passes
  /\ CalculatedLineage(d)
  /\ ReadRecord(d) = "none"
  /\ draft' = [draft EXCEPT ![d].status = "internally_approved",
                            ![d].approvedBy = c.actor, ![d].locked = TRUE]
  /\ snapshots' = snapshots \cup
       {[draft |-> d, version |-> draft[d].version, content |-> c.content,
         notes |-> c.notes, policy |-> c.policy, capturedBy |-> c.actor]}
  /\ approvals' = approvals \cup
       {[draft |-> d, request |-> c.request, approvedBy |-> c.actor, requestHash |-> c]}
  /\ acks' = acks \cup
       {[op |-> "approve", command |-> c, result |-> c.request, replayed |-> FALSE]}
  /\ UNCHANGED <<revocations, policy, authorized>>

(* Fault: a withdrawn approval is no longer answered.                       *)
ActiveOnly == {"active"}

RecordedStates == {"active", "revoked"}

(* The request was recorded with this very command: the record of the draft *)
(* answers it, whatever was decided since.                                  *)
AnswersApprove(c, answer) ==
  LET d == c.draft IN
  /\ Locks(d, c.actor)
  /\ \E known \in approvals, current \in ApprovalsOf(d) :
       /\ known.request = c.request
       /\ known.draft = d /\ known.approvedBy = c.actor /\ known.requestHash = c
       /\ ReadRecord(d) \in RecordedStates
       /\ current.request = known.request
       /\ CalculatedLineage(d)
       /\ answer = current.request

ReplayApprove(c) ==
  \E answer \in Requests :
    /\ AnswersApprove(c, answer)
    /\ acks' = acks \cup
         {[op |-> "approve", command |-> c, result |-> answer, replayed |-> TRUE]}
    /\ UNCHANGED <<draft, ledger, policy, authorized>>

------------------------------------------------------------------------------
(* revokeInternalEstimateApproval.                                         *)

NamesDecision(c) ==
  \E s \in SnapshotsOf(c.draft), a \in ApprovalsOf(c.draft) :
    /\ c.approval = a.request
    /\ c.content = s.content /\ c.notes = s.notes

(* Fault: the draft keeps its status.                                       *)
WithdrawnInPlace(row) == row

Withdrawn(row) == [row EXCEPT !.status = "internal_approval_revoked"]

Revoke(c) ==
  LET d == c.draft IN
  /\ Locks(d, c.actor)
  /\ \A r \in revocations : r.request # c.request
  /\ NamesDecision(c)
  /\ CalculatedLineage(d)
  /\ ReadRecord(d) = "active"
  /\ draft' = [draft EXCEPT ![d] = Withdrawn(draft[d])]
  /\ revocations' = revocations \cup
       {[draft |-> d, request |-> c.request, revokedBy |-> c.actor,
         approval |-> c.approval, requestHash |-> c]}
  /\ acks' = acks \cup
       {[op |-> "revoke", command |-> c, result |-> c.request, replayed |-> FALSE]}
  /\ UNCHANGED <<snapshots, approvals, policy, authorized>>

AnswersRevoke(c, answer) ==
  LET d == c.draft IN
  /\ Locks(d, c.actor)
  /\ \E known \in revocations, current \in RevocationsOf(d) :
       /\ known.request = c.request
       /\ known.draft = d /\ known.revokedBy = c.actor /\ known.requestHash = c
       /\ current.request = known.request
       /\ NamesDecision(c)
       /\ ReadRecord(d) = "revoked"
       /\ CalculatedLineage(d)
       /\ answer = current.request

ReplayRevoke(c) ==
  \E answer \in Requests :
    /\ AnswersRevoke(c, answer)
    /\ acks' = acks \cup
         {[op |-> "revoke", command |-> c, result |-> answer, replayed |-> TRUE]}
    /\ UNCHANGED <<draft, ledger, policy, authorized>>

------------------------------------------------------------------------------
(* createEstimateVersionV2.                                                *)

VersionsWith(req) == {x \in Drafts : draft[x].versionHash # None
                                     /\ draft[x].versionHash.request = req}

(* newCopyPreview: what the new version would copy, and from where.         *)
CopySource(c) ==
  LET d == c.draft IN
  /\ Newest(d)
  /\ \/ /\ c.kind = "current_draft"
        /\ c.content = draft[d].content /\ c.notes = draft[d].notes
        /\ Eligible(d)
        /\ ReadRecord(d) = "none"
     \/ /\ c.kind = "recorded_a1"
        /\ \E s \in SnapshotsOf(d) : c.content = s.content /\ c.notes = s.notes
        /\ ReadRecord(d) \in RecordedStates

(* Fault: a chain is copied beyond what its readers walk.                   *)
UnboundedChain(d) == TRUE

(* a1_draft_final: at commit the lineage walk accepts the new child too.    *)
RoomForChild(d) ==
  \E S \in SUBSET Drafts : AncestorClosed(S, d) /\ Cardinality(S) < MaxLineage

MaximumVersion(v) ==
  /\ \A x \in Drafts : Exists(x) => draft[x].version <= v
  /\ \E x \in Drafts : Exists(x) /\ draft[x].version = v

CreateVersion(c, child) ==
  LET d == c.draft IN
  /\ ~Exists(child)
  /\ Locks(d, c.actor)
  /\ VersionsWith(c.request) = {}
  /\ CopySource(c)
  /\ CalculatedLineage(d)
  /\ RoomForChild(d)
  /\ \E v \in {draft[x].version : x \in Drafts} :
       /\ MaximumVersion(v) /\ v < MaxVersion
       /\ draft' = [draft EXCEPT
            ![child] = [NewRow("version", c.actor, c.content, c.notes) EXCEPT
                          !.version = v + 1, !.supersedesId = d, !.versionHash = c],
            ![d].supersededBy = child]
  /\ acks' = acks \cup
       {[op |-> "version", command |-> c, result |-> child, replayed |-> FALSE]}
  /\ UNCHANGED <<ledger, policy, authorized>>

(* validateReplayIdentity.                                                  *)
ReplayIdentity(c, child) ==
  LET d == c.draft IN
  /\ draft[child].version > draft[d].version
  /\ draft[child].createdBy = c.actor
  /\ draft[child].source = "version"
  /\ draft[child].supersedesId = d /\ child # d
  /\ draft[d].supersededBy = child
  /\ draft[child].versionHash = c

AnswersVersion(c, child) ==
  LET d == c.draft IN
  /\ Locks(d, c.actor)
  /\ VersionsWith(c.request) = {child}
  /\ ReplayIdentity(c, child)
  /\ CalculatedLineage(d)
  /\ ReadRecord(d) # "integrity"
  /\ CalculatedLineage(child)

ReplayVersion(c, child) ==
  /\ AnswersVersion(c, child)
  /\ acks' = acks \cup
       {[op |-> "version", command |-> c, result |-> child, replayed |-> TRUE]}
  /\ UNCHANGED <<draft, ledger, policy, authorized>>

------------------------------------------------------------------------------
(* What surrounds the cycle.                                               *)

ChangePolicy(p) ==
  /\ policy' = p
  /\ UNCHANGED <<draft, ledger, authorized, acks>>

(* Roles are assigned by the program; whether a profile or a membership is  *)
(* active is administered beside it.                                        *)
ChangeMembership(a) ==
  /\ authorized' = IF a \in authorized THEN authorized \ {a} ELSE authorized \cup {a}
  /\ UNCHANGED <<draft, ledger, policy, acks>>

Init ==
  /\ \E rows \in [Roots -> RootRows] :
       draft = [d \in Drafts |-> IF d \in Roots THEN rows[d] ELSE AbsentRow]
  /\ snapshots = {} /\ approvals = {} /\ revocations = {}
  /\ policy \in Policies
  /\ authorized = Actors
  /\ acks = {}

Next ==
  \/ \E d \in Drafts, a \in Actors, c \in Contents, n \in Notes : CreateDraft(d, a, c, n)
  \/ \E d \in Drafts, a \in Actors, s \in GenericStatuses : ChangeStatus(d, a, s)
  \/ \E d \in Drafts, a \in Actors, n \in Notes : UpdateNotes(d, a, n)
  \/ \E d \in Drafts, a \in Actors, c \in Contents : ApplyDiscount(d, a, c)
  \/ \E d \in Drafts, a \in Actors : RejectDraft(d, a)
  \/ \E c \in ApproveCommand : Approve(c)
  \/ \E c \in ApproveCommand : ReplayApprove(c)
  \/ \E c \in RevokeCommand : Revoke(c)
  \/ \E c \in RevokeCommand : ReplayRevoke(c)
  \/ \E c \in VersionCommand, child \in Drafts : CreateVersion(c, child)
  \/ \E c \in VersionCommand, child \in Drafts : ReplayVersion(c, child)
  \/ \E p \in Policies : ChangePolicy(p)
  \/ \E a \in Actors : ChangeMembership(a)

Spec == Init /\ [][Next]_vars

------------------------------------------------------------------------------
(* Properties.                                                             *)

(* No reachable history of edits, decisions and versions leaves a draft     *)
(* whose decision record the strict reader refuses: readInternalApproval-   *)
(* Record never answers INTERNAL_APPROVAL_INTEGRITY_ERROR.                  *)
RecordsAlwaysReadable == \A d \in Drafts : Exists(d) => ReadRecord(d) # "integrity"

(* The version part of internal_approval_check_final_v1: a version and its  *)
(* source name each other, a row has at most one successor, version numbers *)
(* increase along the chain (so the cycle test of the lineage walk never    *)
(* fires) and a request made at most one version.                           *)
VersionChainCoherent ==
  \A x \in Drafts :
    LET source == draft[x].supersedesId
        child  == draft[x].supersededBy
    IN /\ draft[x].versionHash # None =>
            /\ source # None /\ Exists(source)
            /\ draft[source].supersededBy = x
            /\ draft[source].version < draft[x].version
            /\ \A y \in VersionsWith(draft[x].versionHash.request) : y = x
       /\ child # None =>
            /\ draft[child].versionHash # None
            /\ draft[child].supersedesId = x

(* Two successful answers to the same request id of the same operation are  *)
(* answers to the same command and name the same decision or version.       *)
RequestsBindOneCommand ==
  \A k, m \in acks :
    k.op = m.op /\ k.command.request = m.command.request
      => k.command = m.command /\ k.result = m.result

(* What an approver was told is approved stays what the draft holds: no     *)
(* later edit, revocation or version changes the acknowledged content, and  *)
(* the row keeps a decided status and the approver's stamp.                 *)
ApprovedContentStays ==
  \A k \in acks : k.op = "approve" =>
    LET row == draft[k.command.draft] IN
    /\ row.content = k.command.content
    /\ row.approvedBy = k.command.actor
    /\ row.status \in DecidedStatuses

(* A client that lost an answer and sends the acknowledged command again    *)
(* gets that very answer, as long as its actor is still permitted: no later *)
(* state turns the retry into a conflict or an integrity error.             *)
AnswersRepeatable ==
  \A k \in acks : k.command.actor \in authorized =>
    \/ k.op = "approve" /\ AnswersApprove(k.command, k.result)
    \/ k.op = "revoke"  /\ AnswersRevoke(k.command, k.result)
    \/ k.op = "version" /\ AnswersVersion(k.command, k.result)

(* structr_guard_approved_estimate: the row trigger of migration 0007 never *)
(* has to refuse a write of the application.                                *)
RowGuard(old, new, hasEvidence) ==
  IF old.status = "absent"
    THEN new.status \notin DecidedStatuses \cup {"approved"}
    ELSE /\ new.status = "approved" => old.status = "approved"
         /\ old.versionHash = new.versionHash
         /\ old.supersededBy # None => new.supersededBy = old.supersededBy
         /\ IF hasEvidence \/ old.status \in DecidedStatuses
              THEN /\ [new EXCEPT !.notes = None, !.supersededBy = None, !.status = "draft"]
                        = [old EXCEPT !.notes = None, !.supersededBy = None, !.status = "draft"]
                   /\ \/ new.status = old.status
                      \/ /\ old.status = "internally_approved"
                         /\ new.status = "internal_approval_revoked"
              ELSE new.status \in DecidedStatuses =>
                   /\ old.status = "draft" /\ new.status = "internally_approved"
                   /\ old.supersededBy = None
                   /\ new.content = old.content /\ new.notes = old.notes
         /\ old.status = "approved" => new.content = old.content /\ new.version = old.version

TriggersNeverFire ==
  [][\A d \in Drafts : draft'[d] # draft[d]
       => RowGuard(draft[d], draft'[d], SnapshotsOf(d) # {})]_vars

------------------------------------------------------------------------------
(* What a reader of the record may rely on, as one abstract ledger.         *)

LedgerState(d) ==
  IF RevocationsOf(d) # {} THEN "revoked"
  ELSE IF ApprovalsOf(d) # {} THEN "active" ELSE "none"

LedgerTerms(S) ==
  IF S = {} THEN None
  ELSE LET a == CHOOSE a \in S : TRUE IN [content |-> a.requestHash.content, by |-> a.approvedBy]

Ledger == INSTANCE DecisionLedger WITH
  live     <- [d \in Drafts |-> draft[d].content],
  decision <- [d \in Drafts |-> LedgerState(d)],
  terms    <- [d \in Drafts |-> LedgerTerms(ApprovalsOf(d))]

(* The detailed cycle implements the ledger.                                *)
ImplementsLedger == Ledger!Spec
==============================================================================
