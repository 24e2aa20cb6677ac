---------------------------- MODULE EstimateExport ----------------------------
(***************************************************************************)
(* The export of an approved estimate as a document: preflight attempts,   *)
(* the download of a retained attempt and the attempt that delivers at     *)
(* once, running beside the decision cycle of EstimateDecision.            *)
(*                                                                         *)
(* A call is not one transaction.  It reads the authority of the draft in  *)
(* a first transaction, renders outside any transaction, and records its   *)
(* outcome in a second one; bytes leave the server after that commit.      *)
(* Between the steps of a call the decision may be revoked, superseded or  *)
(* made, the caller may lose the project, another call may deliver the     *)
(* same export, and the process may die.                                   *)
(***************************************************************************)
EXTENDS EstimateDecision

CONSTANTS
  Exports,   \* ids of jobtread_exports rows, one randomUUID() per attempt
  Calls,     \* requests being served at the same time
  Builds,    \* deployed renderers
  Versions,  \* the version each build declares, [Builds -> a set]
  Issues     \* the renderer's list of issues instead of a document

VARIABLES
  exports,  \* jobtread_exports
  calls,    \* what each running call keeps between its transactions
  firsts,   \* export -> audited first deliveries
  handed,   \* documents that reached a client
  build     \* the renderer now deployed

exportVars == <<exports, calls, firsts, handed, build>>
allVars    == <<vars, exportVars>>

------------------------------------------------------------------------------
\* The two codes of a draft without a coherent client are left out with such drafts:
\* a draft takes its client from its project when it is made, and neither changes.
BlockedCodes == {"HISTORICAL_AUTHORITY_NOT_AVAILABLE", "INTERNAL_APPROVAL_CONTENT_UNRESOLVED",
                 "INTERNAL_APPROVAL_LEGACY_RECONCILIATION_REQUIRED", "INTERNAL_APPROVAL_REQUIRED",
                 "INTERNAL_APPROVAL_REVOKED", "ESTIMATE_SUPERSEDED"}
Ready == {"approved_for_download", "downloaded"}

\* The approval, the snapshot and its content hash; the notes are in the snapshot.
Authority == [approval : Requests, content : Contents, notes : Notes]
AuthorityResult == [code : BlockedCodes \cup {"usable"}, authority : Authority \cup {None}]

\* The bytes stand for all they are computed from.
Document == [export : Exports, authority : Authority, build : Builds]

ASSUME ExportAssumption ==
  /\ DOMAIN Versions = Builds
  /\ None \notin Exports \cup Calls \cup Builds \cup {Issues} \cup Authority \cup Document
  /\ Issues \notin Document

\* "blocked_validation" stands for the status of every class of issues the renderer
\* reports, needs_exception_review among them: no property tells them apart.
ExportRow == [status : Ready \cup {"absent", "blocked_authorization", "blocked_validation"},
              draft : Drafts \cup {None}, kind : {None, "preflight", "delivery"},
              requestedBy : Actors \cup {None}, downloadedBy : Actors \cup {None},
              authority : Authority \cup {None}, artifact : Document \cup {None},
              blockReason : BlockedCodes \cup {"issues", None}]

Call == [op : {"none", "preflight", "delivery", "download"},
         stage : {"idle", "prepared", "committed"},
         actor : Actors \cup {None}, draft : Drafts \cup {None}, export : Exports \cup {None},
         seen : AuthorityResult \cup {None}, row : ExportRow \cup {None},
         output : Document \cup {Issues, None}]

ExportTypeOK ==
  /\ exports \in [Exports -> ExportRow]
  /\ calls \in [Calls -> Call]
  /\ firsts \in [Exports -> Nat]
  /\ handed \subseteq [export : Exports, actor : Actors, bytes : Document]
  /\ build \in Builds

NoRow  == [status |-> "absent", draft |-> None, kind |-> None, requestedBy |-> None,
           downloadedBy |-> None, authority |-> None, artifact |-> None, blockReason |-> None]
NoCall == [op |-> "none", stage |-> "idle", actor |-> None, draft |-> None,
           export |-> None, seen |-> None, row |-> None, output |-> None]

Idle(k) == calls[k].stage = "idle"

(* randomUUID(): no row has the id and no other call drew it.               *)
Unused(e) == exports[e].status = "absent" /\ \A k \in Calls : calls[k].export # e

------------------------------------------------------------------------------
(* resolveExportAuthority.                                                 *)

(* Fault: the authority is built from the live row of the draft.            *)
LiveAuthority(d) ==
  LET a == CHOOSE a \in ApprovalsOf(d) : TRUE
  IN [approval |-> a.request, content |-> draft[d].content, notes |-> draft[d].notes]

DecidedAuthority(d) ==
  LET s == CHOOSE s \in SnapshotsOf(d) : TRUE
      a == CHOOSE a \in ApprovalsOf(d) : TRUE
  IN [approval |-> a.request, content |-> s.content, notes |-> s.notes]

Blocked(code, authority) == [code |-> code, authority |-> authority]

CurrentAuthority(d) ==
  LET state == ReadRecord(d) IN
  CASE ~NonHistoricalLineage(d) -> Blocked("HISTORICAL_AUTHORITY_NOT_AVAILABLE", None)
    [] NonHistoricalLineage(d) /\ (~CalculatedLineage(d) \/ state = "integrity") ->
         Blocked("INTERNAL_APPROVAL_CONTENT_UNRESOLVED", None)
    [] CalculatedLineage(d) /\ state = "none" ->
         Blocked(IF draft[d].approvedBy # None THEN "INTERNAL_APPROVAL_LEGACY_RECONCILIATION_REQUIRED"
                                               ELSE "INTERNAL_APPROVAL_REQUIRED", None)
    [] CalculatedLineage(d) /\ state = "revoked" ->
         Blocked("INTERNAL_APPROVAL_REVOKED", DecidedAuthority(d))
    [] CalculatedLineage(d) /\ state = "active" ->
         Blocked(IF draft[d].supersededBy # None THEN "ESTIMATE_SUPERSEDED" ELSE "usable",
                 DecidedAuthority(d))

Usable(result) == result.code = "usable"

(* renderForFormat: the document of this authority by the deployed build,   *)
(* or the issues that made it unrepresentable.                              *)
Renders(e, authority) ==
  {[export |-> e, authority |-> authority, build |-> build], Issues}

(* The same build renders the same bytes; another one that declares the     *)
(* same version may diverge or fail, and one of another version refuses.    *)
Regenerates(row) ==
  IF build = row.artifact.build THEN {row.artifact}
  ELSE IF Versions[build] = Versions[row.artifact.build]
    THEN {[row.artifact EXCEPT !.build = build], Issues} ELSE {Issues}

------------------------------------------------------------------------------
(* createExportAttempt and createAndDeliverExportAttempt.                  *)

PrepareAttempt(k, op, d, a, e) ==
  /\ Idle(k)
  /\ Unused(e)
  /\ Locks(d, a)
  /\ LET seen == CurrentAuthority(d) IN
     \E output \in IF Usable(seen) THEN Renders(e, seen.authority) ELSE {None} :
       calls' = [calls EXCEPT ![k] =
         [NoCall EXCEPT !.op = op, !.stage = "prepared", !.actor = a, !.draft = d,
                        !.export = e, !.seen = seen, !.output = output]]
  /\ UNCHANGED <<vars, exports, firsts, handed, build>>

(* Fault: no claimant for a document delivered at once.                     *)
NoClaimant(call, status) == None

Claimant(call, status) == IF status = "downloaded" THEN call.actor ELSE None

AttemptRow(call, status, reason, authority) ==
  [NoRow EXCEPT !.status = status, !.draft = call.draft, !.kind = call.op,
                !.requestedBy = call.actor, !.authority = authority, !.blockReason = reason,
                !.artifact = IF status \in Ready THEN call.output ELSE None,
                !.downloadedBy = Claimant(call, status)]

(* Fault: only whether there is a usable decision is compared.              *)
AnyDecision(call, now) == TRUE

(* finalizeExportPreparation compares the two readings of the authority.    *)
SameDecision(call, now) == call.seen.authority = now.authority

(* The call is over and no document leaves the server.                      *)
End(k) == calls' = [calls EXCEPT ![k] = NoCall] /\ UNCHANGED handed

(* The second transaction of a call that is being served.                   *)
Finalizing(k, ops) ==
  /\ calls[k].stage = "prepared" /\ calls[k].op \in ops
  /\ Locks(calls[k].draft, calls[k].actor)

(* insertAndAudit: the primary key lets an id be recorded once; a second    *)
(* INSERT fails and the call ends without an outcome, as in Drop.           *)
Inserting(k, ops) ==
  /\ Finalizing(k, ops)
  /\ exports[calls[k].export].status = "absent"

RecordBlocked(k) ==
  LET call == calls[k]
      now  == CurrentAuthority(call.draft)
  IN /\ Inserting(k, {"preflight", "delivery"})
     /\ ~Usable(now) /\ SameDecision(call, now)
     /\ exports' = [exports EXCEPT ![call.export] =
                      AttemptRow(call, "blocked_authorization", now.code, now.authority)]
     /\ End(k)
     /\ UNCHANGED <<vars, firsts, build>>

RecordUnrepresentable(k) ==
  LET call == calls[k]
      now  == CurrentAuthority(call.draft)
  IN /\ Inserting(k, {"preflight", "delivery"})
     /\ Usable(call.seen) /\ Usable(now) /\ SameDecision(call, now)
     /\ call.output = Issues
     /\ exports' = [exports EXCEPT ![call.export] =
                      AttemptRow(call, "blocked_validation", "issues", now.authority)]
     /\ End(k)
     /\ UNCHANGED <<vars, firsts, build>>

RecordReady(k) ==
  LET call == calls[k]
      now  == CurrentAuthority(call.draft)
  IN /\ Inserting(k, {"preflight"})
     /\ Usable(call.seen) /\ Usable(now) /\ SameDecision(call, now)
     /\ call.output # Issues
     /\ exports' = [exports EXCEPT ![call.export] =
                      AttemptRow(call, "approved_for_download", None, now.authority)]
     /\ End(k)
     /\ UNCHANGED <<vars, firsts, build>>

RecordDelivery(k) ==
  LET call == calls[k]
      now  == CurrentAuthority(call.draft)
  IN /\ Inserting(k, {"delivery"})
     /\ Usable(call.seen) /\ Usable(now) /\ SameDecision(call, now)
     /\ call.output # Issues
     /\ exports' = [exports EXCEPT ![call.export] =
                      AttemptRow(call, "downloaded", None, now.authority)]
     /\ firsts' = [firsts EXCEPT ![call.export] = @ + 1]
     /\ calls' = [calls EXCEPT ![k].stage = "committed"]
     /\ UNCHANGED <<vars, handed, build>>

------------------------------------------------------------------------------
(* downloadExportAttempt.                                                  *)

(* retainedManifestEvidenceValid.                                           *)
EvidenceValid(row, e) ==
  /\ row.artifact # None /\ row.artifact.export = e
  /\ row.authority # None /\ row.artifact.authority = row.authority
  /\ row.blockReason = None
  /\ (row.status = "downloaded") <=> (row.downloadedBy # None)

(* sameRetainedEvidence leaves out what a first delivery may change.        *)
Evidence(row) == [row EXCEPT !.status = "absent", !.downloadedBy = None]

(* Fault: the row's own decision is enough, revoked or not.                 *)
DeliverableOnce(result, row) == result.authority = row.authority

(* currentDownloadEligibility.                                              *)
Deliverable(result, row) == Usable(result) /\ result.authority = row.authority

PrepareDownload(k, e, a) ==
  LET row  == exports[e]
      seen == CurrentAuthority(row.draft)
  IN /\ Idle(k)
     /\ row.status \in Ready
     /\ Locks(row.draft, a)
     /\ \E output \in IF Deliverable(seen, row) /\ EvidenceValid(row, e)
                        THEN Regenerates(row) ELSE {None} :
          calls' = [calls EXCEPT ![k] =
            [NoCall EXCEPT !.op = "download", !.stage = "prepared", !.actor = a,
                           !.draft = row.draft, !.export = e, !.seen = seen,
                           !.row = row, !.output = output]]
     /\ UNCHANGED <<vars, exports, firsts, handed, build>>

(* Fault: the regenerated bytes are not compared with the retained hash.    *)
NeverDiverged(call, row) == FALSE

Diverged(call, row) == call.output # row.artifact

(* The reasons of a refusal, tested in this order.                          *)
DownloadOutcome(call) ==
  LET row == exports[call.export]
      now == CurrentAuthority(row.draft)
  IN IF ~ (/\ Deliverable(call.seen, call.row) /\ Deliverable(now, row)
           /\ SameDecision(call, now) /\ Evidence(call.row) = Evidence(row))
       THEN "AUTHORITY_NO_LONGER_CURRENT"
     ELSE IF ~EvidenceValid(call.row, call.export) \/ ~EvidenceValid(row, call.export)
       THEN "RETAINED_EVIDENCE_INVALID"
     ELSE IF call.output \in {None, Issues} THEN "RENDERER_UNAVAILABLE"
     ELSE IF Diverged(call, row) THEN "ARTIFACT_DIVERGED" ELSE "delivered"

RefuseDownload(k) ==
  /\ Finalizing(k, {"download"})
  /\ exports[calls[k].export].status \in Ready
  /\ DownloadOutcome(calls[k]) # "delivered"
  /\ End(k)
  /\ UNCHANGED <<vars, exports, firsts, build>>

(* Fault: the status read before rendering decides.                         *)
FirstWhenPrepared(call) == call.row.status = "approved_for_download"

FirstDelivery(call) == exports[call.export].status = "approved_for_download"

(* Fault: a row that was downloaded becomes a delivery attempt.             *)
MarkedAsAttempt(row, actor) ==
  [row EXCEPT !.status = "downloaded", !.downloadedBy = actor, !.kind = "delivery"]

(* persistDownloadDelivery: the columns a first delivery sets.              *)
MarkDelivered(row, actor) == [row EXCEPT !.status = "downloaded", !.downloadedBy = actor]

(* Only the first delivery writes the row; a redownload is audited only.    *)
DeliverDownload(k) ==
  LET call == calls[k]
  IN /\ Finalizing(k, {"download"})
     /\ exports[call.export].status \in Ready
     /\ DownloadOutcome(call) = "delivered"
     /\ IF FirstDelivery(call)
          THEN /\ exports' = [exports EXCEPT ![call.export] = MarkDelivered(@, call.actor)]
               /\ firsts' = [firsts EXCEPT ![call.export] = @ + 1]
          ELSE UNCHANGED <<exports, firsts>>
     /\ calls' = [calls EXCEPT ![k].stage = "committed"]
     /\ UNCHANGED <<vars, handed, build>>

------------------------------------------------------------------------------
(* The document reaches the client after the commit.                        *)
HandOver(k) ==
  /\ calls[k].stage = "committed"
  /\ handed' = handed \cup {[export |-> calls[k].export, actor |-> calls[k].actor,
                             bytes |-> calls[k].output]}
  /\ calls' = [calls EXCEPT ![k] = NoCall]
  /\ UNCHANGED <<vars, exports, firsts, build>>

(* A conflict between the two readings, a caller who lost the project, a    *)
(* failed audit or commit, a dead process, a lost connection.               *)
Drop(k) ==
  /\ ~Idle(k)
  /\ End(k)
  /\ UNCHANGED <<vars, exports, firsts, build>>

Deploy(b) ==
  /\ build' = b
  /\ UNCHANGED <<vars, exports, calls, firsts, handed>>

ExportInit ==
  /\ Init
  /\ exports = [e \in Exports |-> NoRow]
  /\ calls = [k \in Calls |-> NoCall]
  /\ firsts = [e \in Exports |-> 0]
  /\ handed = {}
  /\ build \in Builds

ExportStep ==
  \/ \E k \in Calls, op \in {"preflight", "delivery"}, d \in Drafts, a \in Actors, e \in Exports :
       PrepareAttempt(k, op, d, a, e)
  \/ \E k \in Calls : RecordBlocked(k)
  \/ \E k \in Calls : RecordUnrepresentable(k)
  \/ \E k \in Calls : RecordReady(k)
  \/ \E k \in Calls : RecordDelivery(k)
  \/ \E k \in Calls, e \in Exports, a \in Actors : PrepareDownload(k, e, a)
  \/ \E k \in Calls : RefuseDownload(k)
  \/ \E k \in Calls : DeliverDownload(k)
  \/ \E k \in Calls : HandOver(k)
  \/ \E k \in Calls : Drop(k)
  \/ \E b \in Builds : Deploy(b)

ExportNext ==
  \/ Next /\ UNCHANGED exportVars
  \/ ExportStep

ExportSpec == ExportInit /\ [][ExportNext]_allVars

------------------------------------------------------------------------------
(* Properties.                                                             *)

(* Bytes are delivered only under the authority of the moment: when the     *)
(* second transaction of a download or of a delivery attempt commits, the   *)
(* very decision the document was rendered from is in force, not revoked    *)
(* and not superseded, the caller still has the project, and the row it     *)
(* leaves behind names that decision and those bytes.                       *)
DeliveredUnderAuthority ==
  [][\A k \in Calls :
       calls'[k].stage = "committed" /\ calls[k].stage # "committed" =>
         LET call == calls[k]
             row  == exports'[call.export]
         IN /\ ReadRecord(row.draft) = "active" /\ draft[row.draft].supersededBy = None
            /\ call.actor \in authorized
            /\ \E a \in ApprovalsOf(row.draft) : a.request = row.authority.approval
            /\ call.output.authority = row.authority
            /\ call.output = row.artifact]_allVars

(* What a client holds is what the archive holds: the bytes of the retained *)
(* row, of the content its approver signed, from a row marked as delivered, *)
(* however many calls, deployments and decisions happened in between.       *)
HandedAsArchived ==
  \A h \in handed :
    LET row == exports[h.export] IN
    /\ row.status = "downloaded" /\ row.artifact = h.bytes
    /\ \E a \in ApprovalsOf(row.draft) :
         /\ a.request = h.bytes.authority.approval
         /\ a.requestHash.content = h.bytes.authority.content

(* A row says downloaded exactly when one first delivery was audited, even  *)
(* if two downloads read it as not yet delivered.                           *)
OneFirstDelivery ==
  \A e \in Exports : firsts[e] = IF exports[e].status = "downloaded" THEN 1 ELSE 0

(* A row that names a decision names the one recorded for its draft, with   *)
(* the content and the notes that were approved, although the notes of an   *)
(* approved draft stay editable; one blocked for lack of authority names a  *)
(* revoked or superseded decision, which no later step brings back.         *)
AttemptsNameTheirDecision ==
  \A e \in Exports :
    LET row == exports[e] IN
    /\ row.authority # None =>
         \E a \in ApprovalsOf(row.draft), s \in SnapshotsOf(row.draft) :
           row.authority = [approval |-> a.request, content |-> s.content, notes |-> s.notes]
    /\ row.status = "blocked_authorization" /\ row.authority # None =>
         RevocationsOf(row.draft) # {} \/ draft[row.draft].supersededBy # None

(* An attempt is recorded against the decision, or the absence of one, that *)
(* it started from: a decision made, or made and withdrawn, while the call  *)
(* was rendering is a conflict and leaves no row.                           *)
AttemptsRecordWhatTheyRead ==
  [][\A k \in Calls, e \in Exports :
       (/\ calls[k].op # "download" /\ calls[k].export = e
        /\ exports[e].status = "absent" /\ exports'[e].status # "absent")
       => exports'[e].authority = calls[k].seen.authority]_allVars

(* What the program writes always passes its own read-time check of the     *)
(* retained evidence, also while a concurrent call delivers the row.        *)
RetainedEvidenceSound ==
  \A e \in Exports : exports[e].status \in Ready => EvidenceValid(exports[e], e)

(* A recorded attempt is evidence: only the projection of its first         *)
(* delivery is ever written after the insert, once and forwards.            *)
AttemptsImmutable ==
  [][\A e \in Exports : exports[e].status # "absent" /\ exports'[e] # exports[e] =>
       /\ Evidence(exports'[e]) = Evidence(exports[e])
       /\ exports[e].status = "approved_for_download"
       /\ exports'[e].status = "downloaded"]_allVars
==============================================================================
