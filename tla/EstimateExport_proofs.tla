------------------------ MODULE EstimateExport_proofs ------------------------
(***************************************************************************)
(* Exports for any drafts, ids, calls, renderers and versions: attempts    *)
(* name the decision they were made under, the archive stays as recorded,  *)
(* and nothing is handed over that it does not hold.                       *)
(***************************************************************************)
EXTENDS EstimateExport, EstimateDecision_proofs

(* The summary names the decision that is recorded for the draft.           *)
Names(d, authority) ==
  \E a \in ApprovalsOf(d), s \in SnapshotsOf(d) :
    authority = [approval |-> a.request, content |-> s.content, notes |-> s.notes]

OutOfForce(d) == RevocationsOf(d) # {} \/ draft[d].supersededBy # None

RowOK(e) ==
  LET row == exports[e] IN
  /\ row.status = "absent" => row.authority = None
  /\ row.status # "absent" => row.draft \in Drafts
  /\ row.authority # None => row.draft \in Drafts /\ Names(row.draft, row.authority)
  /\ row.status = "blocked_authorization" /\ row.authority # None => OutOfForce(row.draft)
  /\ row.status \in Ready => EvidenceValid(row, e)
  /\ firsts[e] = IF row.status = "downloaded" THEN 1 ELSE 0

Attempts == {"preflight", "delivery"}

(* What a call may rely on, from its stage.                                 *)
CallOK(call) ==
  LET row == exports[call.export] IN
  /\ call.stage = "idle" => call.export = None
  /\ call.stage # "idle" =>
       /\ call.op \in Attempts \cup {"download"}
       /\ call.draft \in Drafts /\ call.export \in Exports /\ call.actor \in Actors
  /\ call.stage = "prepared" /\ call.op \in Attempts =>
       /\ row.status = "absent"
       /\ call.output \in Document =>
            call.output.export = call.export /\ call.output.authority = call.seen.authority
       /\ Usable(call.seen) => call.output # None
  /\ call.stage = "prepared" /\ call.op = "download" =>
       row.status \in Ready /\ row.draft = call.draft
  /\ call.stage = "committed" =>
       row.status = "downloaded" /\ row.artifact = call.output

(* No other call has the id that an attempt drew.                           *)
Drawn ==
  \A j, k \in Calls :
    /\ calls[k].stage = "prepared" /\ calls[k].op \in Attempts
    /\ calls[j].export = calls[k].export
    => j = k

HandedOK ==
  \A h \in handed : exports[h.export].status = "downloaded" /\ exports[h.export].artifact = h.bytes

ExportInv ==
  /\ ExportTypeOK
  /\ \A e \in Exports : RowOK(e)
  /\ \A k \in Calls : CallOK(calls[k])
  /\ Drawn
  /\ HandedOK

------------------------------------------------------------------------------
(* The authority of the moment.                                             *)
LEMMA Decided ==
  ASSUME TypeOK, NEW d \in Drafts, ReadRecord(d) \in {"active", "revoked"}
  PROVE  /\ DecidedAuthority(d) \in Authority /\ Names(d, DecidedAuthority(d))
         /\ ReadRecord(d) = "revoked" => RevocationsOf(d) # {}
<1>1. SnapshotsOf(d) # {} /\ ApprovalsOf(d) # {}
  BY DEF ReadRecord, CoherentEvidence
<1> DEFINE s == CHOOSE s \in SnapshotsOf(d) : TRUE
           a == CHOOSE a \in ApprovalsOf(d) : TRUE
<1>2. s \in SnapshotsOf(d) /\ a \in ApprovalsOf(d)
  BY <1>1
<1>3. s \in SnapshotRow /\ a \in ApprovalRow
  BY <1>2 DEF TypeOK, SnapshotsOf, ApprovalsOf
<1>4. DecidedAuthority(d) = [approval |-> a.request, content |-> s.content, notes |-> s.notes]
  BY DEF DecidedAuthority
<1> HIDE DEF s, a
<1>5. DecidedAuthority(d) \in Authority
  BY <1>3, <1>4 DEF Authority, SnapshotRow, ApprovalRow
<1>6. Names(d, DecidedAuthority(d))
  BY <1>2, <1>4 DEF Names
<1>7. ReadRecord(d) = "revoked" => RevocationsOf(d) # {}
  BY DEF ReadRecord
<1> QED
  BY <1>5, <1>6, <1>7

(* A usable answer names the decision in force, a blocked one that names a  *)
(* decision names one that is out of force.                                 *)
SoundAuthority(d, now) ==
  /\ now \in AuthorityResult
  /\ now.authority # None => Names(d, now.authority) /\ (Usable(now) \/ OutOfForce(d))
  /\ Usable(now) => /\ now.authority # None
                    /\ ReadRecord(d) = "active" /\ draft[d].supersededBy = None

LEMMA BlockedUndecided ==
  ASSUME NEW d \in Drafts, NEW code \in BlockedCodes
  PROVE  SoundAuthority(d, Blocked(code, None))
<1>1. [code |-> code, authority |-> None] \in AuthorityResult
  BY DEF AuthorityResult
<1> QED
  BY <1>1 DEF SoundAuthority, Blocked, Usable, BlockedCodes

LEMMA AnsweredDecided ==
  ASSUME TypeOK, NEW d \in Drafts, ReadRecord(d) \in {"active", "revoked"},
         NEW code \in BlockedCodes \cup {"usable"},
         code # "usable" => OutOfForce(d),
         code = "usable" => ReadRecord(d) = "active" /\ draft[d].supersededBy = None
  PROVE  SoundAuthority(d, Blocked(code, DecidedAuthority(d)))
<1>1. DecidedAuthority(d) \in Authority /\ Names(d, DecidedAuthority(d))
  BY Decided
<1>2. [code |-> code, authority |-> DecidedAuthority(d)] \in AuthorityResult
  BY <1>1 DEF AuthorityResult
<1> QED
  BY <1>1, <1>2, ExportAssumption DEF SoundAuthority, Blocked, Usable

LEMMA Authorities ==
  ASSUME TypeOK, NEW d \in Drafts
  PROVE  SoundAuthority(d, CurrentAuthority(d))
<1>1. CalculatedLineage(d) => NonHistoricalLineage(d)
  BY DEF CalculatedLineage, NonHistoricalLineage, LineageFrom, SoundOrigin, Sources, CalculatedSources
<1>2. ReadRecord(d) \in {"none", "integrity", "active", "revoked"}
  BY DEF ReadRecord
<1>3. CASE ~NonHistoricalLineage(d)
  <2>1. CurrentAuthority(d) = Blocked("HISTORICAL_AUTHORITY_NOT_AVAILABLE", None)
    BY <1>1, <1>3 DEF CurrentAuthority
  <2> QED
    BY <2>1, BlockedUndecided DEF BlockedCodes
<1>4. CASE NonHistoricalLineage(d) /\ (~CalculatedLineage(d) \/ ReadRecord(d) = "integrity")
  <2>1. CurrentAuthority(d) = Blocked("INTERNAL_APPROVAL_CONTENT_UNRESOLVED", None)
    BY <1>4 DEF CurrentAuthority
  <2> QED
    BY <2>1, BlockedUndecided DEF BlockedCodes
<1>5. CASE CalculatedLineage(d) /\ ReadRecord(d) = "none"
  <2>1. \E code \in BlockedCodes : CurrentAuthority(d) = Blocked(code, None)
    BY <1>1, <1>5 DEF CurrentAuthority, BlockedCodes
  <2> QED
    BY <2>1, BlockedUndecided
<1>6. CASE CalculatedLineage(d) /\ ReadRecord(d) = "revoked"
  <2>1. CurrentAuthority(d) = Blocked("INTERNAL_APPROVAL_REVOKED", DecidedAuthority(d))
    BY <1>1, <1>6 DEF CurrentAuthority
  <2>2. OutOfForce(d)
    BY <1>6, Decided DEF OutOfForce
  <2> QED
    BY <1>6, <2>1, <2>2, AnsweredDecided DEF BlockedCodes
<1>7. CASE CalculatedLineage(d) /\ ReadRecord(d) = "active" /\ draft[d].supersededBy # None
  <2>1. CurrentAuthority(d) = Blocked("ESTIMATE_SUPERSEDED", DecidedAuthority(d))
    BY <1>1, <1>7 DEF CurrentAuthority
  <2>2. OutOfForce(d)
    BY <1>7 DEF OutOfForce
  <2> QED
    BY <1>7, <2>1, <2>2, AnsweredDecided DEF BlockedCodes
<1>8. CASE CalculatedLineage(d) /\ ReadRecord(d) = "active" /\ draft[d].supersededBy = None
  <2>1. CurrentAuthority(d) = Blocked("usable", DecidedAuthority(d))
    BY <1>1, <1>8 DEF CurrentAuthority
  <2> QED
    BY <1>8, <2>1, AnsweredDecided DEF BlockedCodes
<1> QED
  BY <1>2, <1>3, <1>4, <1>5, <1>6, <1>7, <1>8

------------------------------------------------------------------------------
(* A step of the decision cycle takes back no record, and a superseded      *)
(* draft stays superseded.                                                  *)
DecisionsGrow ==
  /\ snapshots \subseteq snapshots' /\ approvals \subseteq approvals'
  /\ revocations \subseteq revocations'
  /\ \A d \in Drafts : draft[d].supersededBy # None => draft'[d].supersededBy # None

LEMMA RowGrows ==
  ASSUME TypeOK, NEW x \in Drafts, NEW row, draft' = [draft EXCEPT ![x] = row],
         draft[x].supersededBy # None => row.supersededBy # None, UNCHANGED ledger
  PROVE  DecisionsGrow
BY DEF DecisionsGrow, ledger, TypeOK

LEMMA Grown ==
  ASSUME TypeOK, ChainInv, Next
  PROVE  DecisionsGrow
<1>1. ASSUME NEW d \in Drafts, NEW a \in Actors, NEW c \in Contents, NEW n \in Notes,
             CreateDraft(d, a, c, n)
      PROVE  DecisionsGrow
  BY <1>1, RowGrows DEF CreateDraft, ChainInv, AbsentClean
<1>2. ASSUME NEW d \in Drafts, NEW a \in Actors, NEW s \in GenericStatuses, ChangeStatus(d, a, s)
      PROVE  DecisionsGrow
  BY <1>2, RowGrows DEF ChangeStatus, TypeOK, DraftRow
<1>3. ASSUME NEW d \in Drafts, NEW a \in Actors, NEW n \in Notes, UpdateNotes(d, a, n)
      PROVE  DecisionsGrow
  BY <1>3, RowGrows DEF UpdateNotes, TypeOK, DraftRow
<1>4. ASSUME NEW d \in Drafts, NEW a \in Actors, NEW c \in Contents, ApplyDiscount(d, a, c)
      PROVE  DecisionsGrow
  BY <1>4, RowGrows DEF ApplyDiscount, TypeOK, DraftRow
<1>5. ASSUME NEW d \in Drafts, NEW a \in Actors, RejectDraft(d, a)
      PROVE  DecisionsGrow
  BY <1>5, RowGrows DEF RejectDraft, TypeOK, DraftRow
<1>6. ASSUME NEW c \in ApproveCommand, Approve(c)
      PROVE  DecisionsGrow
  BY <1>6 DEF Approve, DecisionsGrow, TypeOK, DraftRow, ApproveCommand
<1>7. ASSUME NEW c \in RevokeCommand, Revoke(c)
      PROVE  DecisionsGrow
  BY <1>7 DEF Revoke, DecisionsGrow, Withdrawn, TypeOK, DraftRow, RevokeCommand
<1>8. ASSUME NEW c \in VersionCommand, NEW child \in Drafts, CreateVersion(c, child)
      PROVE  DecisionsGrow
  <2>1. c.draft \in Drafts /\ child # None /\ draft[child].supersededBy = None
    BY <1>8, DecisionAssumption DEF VersionCommand, CreateVersion, ChainInv, AbsentClean
  <2>2. PICK v : draft' = [draft EXCEPT
            ![child] = [NewRow("version", c.actor, c.content, c.notes) EXCEPT
                          !.version = v + 1, !.supersedesId = c.draft, !.versionHash = c],
            ![c.draft].supersededBy = child]
    BY <1>8 DEF CreateVersion
  <2>3. \A d \in Drafts : draft[d].supersededBy # None => draft'[d].supersededBy # None
    BY <2>1, <2>2 DEF TypeOK, DraftRow
  <2> QED
    BY <1>8, <2>3 DEF DecisionsGrow, CreateVersion, ledger
<1>9. CASE UNCHANGED <<draft, ledger>>
  BY <1>9 DEF DecisionsGrow, ledger
<1> QED
  BY <1>1, <1>2, <1>3, <1>4, <1>5, <1>6, <1>7, <1>8, <1>9
     DEF Next, ReplayApprove, ReplayRevoke, ReplayVersion, ChangePolicy, ChangeMembership

LEMMA NamesGrow ==
  ASSUME DecisionsGrow, NEW CONSTANT d \in Drafts
  PROVE  /\ \A authority : Names(d, authority) => Names(d, authority)'
         /\ OutOfForce(d) => OutOfForce(d)'
<1>1. ApprovalsOf(d) \subseteq ApprovalsOf(d)' /\ SnapshotsOf(d) \subseteq SnapshotsOf(d)'
        /\ RevocationsOf(d) \subseteq RevocationsOf(d)'
  BY DEF DecisionsGrow, ApprovalsOf, SnapshotsOf, RevocationsOf
<1> QED
  BY <1>1 DEF Names, OutOfForce, DecisionsGrow

------------------------------------------------------------------------------
(* The decision cycle beside the exports.                                   *)
LEMMA DecisionStep ==
  ASSUME TypeOK, ChainInv, ExportInv, Next, UNCHANGED exportVars
  PROVE  ExportInv'
<1>1. UNCHANGED exports /\ UNCHANGED calls /\ UNCHANGED firsts /\ UNCHANGED handed /\ UNCHANGED build
  BY DEF exportVars
<1>2. ASSUME NEW e \in Exports PROVE RowOK(e)'
  <2> DEFINE row == exports[e]
  <2>1. RowOK(e) /\ row' = row /\ firsts'[e] = firsts[e]
    BY <1>1 DEF ExportInv
  <2>2. /\ row.status = "absent" => row.authority = None
        /\ row.status # "absent" => row.draft \in Drafts
        /\ row.authority # None => row.draft \in Drafts /\ Names(row.draft, row.authority)
        /\ row.status = "blocked_authorization" /\ row.authority # None => OutOfForce(row.draft)
        /\ row.status \in Ready => EvidenceValid(row, e)
        /\ firsts[e] = IF row.status = "downloaded" THEN 1 ELSE 0
    BY <2>1 DEF RowOK
  <2>3. ASSUME NEW CONSTANT r, r = row, r.draft \in Drafts
        PROVE  /\ Names(r.draft, r.authority) => Names(r.draft, r.authority)'
               /\ OutOfForce(r.draft) => OutOfForce(r.draft)'
    BY <2>3, Grown, NamesGrow
  <2>4. row.draft \in Drafts =>
          /\ Names(row.draft, row.authority) => Names(row.draft, row.authority)'
          /\ OutOfForce(row.draft) => OutOfForce(row.draft)'
    <3>1. PICK r : r = row
      OBVIOUS
    <3> HIDE DEF row
    <3> QED
      BY <2>1, <2>3, <3>1 DEF Names, OutOfForce
  <2> QED
    BY <2>1, <2>2, <2>4 DEF RowOK, EvidenceValid
<1>3. ExportTypeOK' /\ Drawn' /\ HandedOK'
  BY <1>1 DEF ExportInv, ExportTypeOK, Drawn, HandedOK
<1>4. \A k \in Calls : CallOK(calls[k])'
  BY <1>1 DEF ExportInv, CallOK, Usable
<1> QED
  BY <1>2, <1>3, <1>4 DEF ExportInv

(* The rows depend on the decisions, not on the calls.                      *)
LEMMA RowsKept ==
  ASSUME ExportInv, UNCHANGED <<vars, exports, firsts>>
  PROVE  \A e \in Exports : RowOK(e)'
BY DEF ExportInv, RowOK, Names, OutOfForce, EvidenceValid, ApprovalsOf, SnapshotsOf,
   RevocationsOf, vars

(* A call that writes no row.                                               *)
LEMMA CallMoves ==
  ASSUME ExportInv, NEW k \in Calls, NEW c \in Call, calls' = [calls EXCEPT ![k] = c],
         UNCHANGED <<vars, exports, firsts, build>>,
         handed' \subseteq [export : Exports, actor : Actors, bytes : Document], HandedOK',
         CallOK(c),
         \A j \in Calls \ {k} :
           \/ c.stage = "prepared" /\ c.op \in Attempts
           \/ calls[j].stage = "prepared" /\ calls[j].op \in Attempts
           => calls[j].export # c.export
  PROVE  ExportInv'
<1>1. calls' \in [Calls -> Call] /\ calls'[k] = c /\ \A j \in Calls \ {k} : calls'[j] = calls[j]
  BY DEF ExportInv, ExportTypeOK
<1>2. ExportTypeOK'
  BY <1>1 DEF ExportInv, ExportTypeOK
<1>3. \A j \in Calls : CallOK(calls[j])'
  BY <1>1 DEF ExportInv, CallOK, Usable
<1>4. Drawn'
  BY <1>1 DEF ExportInv, Drawn
<1> QED
  BY <1>2, <1>3, <1>4, RowsKept DEF ExportInv

LEMMA NoCallOK ==
  /\ NoCall \in Call /\ CallOK(NoCall)
  /\ NoCall.stage = "idle" /\ NoCall.export = None /\ NoCall.op = "none"
<1>1. /\ NoCall \in Call
      /\ NoCall.stage = "idle" /\ NoCall.export = None /\ NoCall.op = "none"
  BY DEF NoCall, Call
<1> QED
  BY <1>1 DEF CallOK

(* A call that ends, with or without its bytes reaching the client.         *)
LEMMA CallEnds ==
  ASSUME ExportInv, NEW k \in Calls, calls' = [calls EXCEPT ![k] = NoCall],
         UNCHANGED <<vars, exports, firsts, build>>,
         handed' \subseteq [export : Exports, actor : Actors, bytes : Document], HandedOK'
  PROVE  ExportInv'
<1>1. \A j \in Calls : calls[j].stage = "prepared" => calls[j].export # None
  BY ExportAssumption DEF ExportInv, CallOK
<1> QED
  BY <1>1, NoCallOK, CallMoves

LEMMA DropStep ==
  ASSUME ExportInv, NEW k \in Calls, Drop(k) \/ RefuseDownload(k)
  PROVE  ExportInv'
<1>1. /\ calls' = [calls EXCEPT ![k] = NoCall]
      /\ UNCHANGED <<vars, exports, firsts, build>> /\ UNCHANGED handed
  BY DEF Drop, RefuseDownload, End
<1>2. HandedOK' /\ handed' \subseteq [export : Exports, actor : Actors, bytes : Document]
  BY <1>1 DEF ExportInv, HandedOK, ExportTypeOK
<1> QED
  BY <1>1, <1>2, CallEnds

LEMMA HandOverStep ==
  ASSUME ExportInv, NEW k \in Calls, HandOver(k)
  PROVE  ExportInv'
<1> DEFINE call == calls[k]
           h == [export |-> call.export, actor |-> call.actor, bytes |-> call.output]
<1>1. /\ calls' = [calls EXCEPT ![k] = NoCall] /\ handed' = handed \cup {h}
      /\ UNCHANGED <<vars, exports, firsts, build>> /\ call.stage = "committed"
  BY DEF HandOver
<1>2. /\ call.export \in Exports /\ call.actor \in Actors
      /\ exports[call.export].status = "downloaded" /\ exports[call.export].artifact = call.output
  BY <1>1 DEF ExportInv, CallOK
<1>3. call.output \in Document
  BY <1>2 DEF ExportInv, RowOK, EvidenceValid, Ready, ExportTypeOK, ExportRow
<1>4. h \in [export : Exports, actor : Actors, bytes : Document]
  BY <1>2, <1>3
<1>5. exports[h.export].status = "downloaded" /\ exports[h.export].artifact = h.bytes
  BY <1>2
<1> HIDE DEF h
<1>6. HandedOK' /\ handed' \subseteq [export : Exports, actor : Actors, bytes : Document]
  BY <1>1, <1>4, <1>5 DEF ExportInv, HandedOK, ExportTypeOK
<1> QED
  BY <1>1, <1>6, CallEnds

LEMMA PrepareAttemptStep ==
  ASSUME TypeOK, ExportInv, NEW k \in Calls, NEW op \in Attempts, NEW d \in Drafts,
         NEW a \in Actors, NEW e \in Exports, PrepareAttempt(k, op, d, a, e)
  PROVE  ExportInv'
<1> DEFINE seen == CurrentAuthority(d)
<1>1. PICK output \in IF Usable(seen) THEN Renders(e, seen.authority) ELSE {None} :
        calls' = [calls EXCEPT ![k] =
          [NoCall EXCEPT !.op = op, !.stage = "prepared", !.actor = a, !.draft = d,
                         !.export = e, !.seen = seen, !.output = output]]
  BY DEF PrepareAttempt
<1> DEFINE c == [NoCall EXCEPT !.op = op, !.stage = "prepared", !.actor = a, !.draft = d,
                               !.export = e, !.seen = seen, !.output = output]
<1>2. SoundAuthority(d, seen)
  BY Authorities
<1> HIDE DEF seen
<1>3. /\ output \in Document \cup {Issues, None}
      /\ output \in Document => output.export = e /\ output.authority = seen.authority
      /\ Usable(seen) => output # None
  <2>1. CASE Usable(seen)
    <3>1. seen.authority \in Authority /\ build \in Builds
      BY <1>2, <2>1 DEF SoundAuthority, AuthorityResult, ExportInv, ExportTypeOK
    <3>2. output \in {[export |-> e, authority |-> seen.authority, build |-> build], Issues}
      BY <1>1, <2>1 DEF Renders
    <3> QED
      BY <3>1, <3>2, ExportAssumption DEF Document
  <2>2. CASE ~Usable(seen)
    BY <1>1, <2>2, ExportAssumption
  <2> QED
    BY <2>1, <2>2
<1>4. /\ c \in Call /\ c.stage = "prepared" /\ c.op = op /\ c.draft = d /\ c.export = e
      /\ c.actor = a /\ c.seen = seen /\ c.output = output
  BY <1>2, <1>3 DEF Call, NoCall, SoundAuthority, Attempts
<1>5. calls' = [calls EXCEPT ![k] = c]
  BY <1>1
<1> HIDE DEF c
<1>6. /\ exports[e].status = "absent" /\ \A j \in Calls : calls[j].export # e
      /\ UNCHANGED <<vars, exports, firsts, build>> /\ UNCHANGED handed
  BY DEF PrepareAttempt, Unused
<1>7. CallOK(c)
  BY <1>3, <1>4, <1>6 DEF CallOK, Attempts
<1>8. HandedOK' /\ handed' \subseteq [export : Exports, actor : Actors, bytes : Document]
  BY <1>6 DEF ExportInv, HandedOK, ExportTypeOK
<1> QED
  BY <1>4, <1>5, <1>6, <1>7, <1>8, CallMoves

LEMMA PrepareDownloadStep ==
  ASSUME TypeOK, ExportInv, NEW k \in Calls, NEW e \in Exports, NEW a \in Actors,
         PrepareDownload(k, e, a)
  PROVE  ExportInv'
<1> DEFINE row  == exports[e]
           seen == CurrentAuthority(row.draft)
<1>1. PICK output \in IF Deliverable(seen, row) /\ EvidenceValid(row, e)
                        THEN Regenerates(row) ELSE {None} :
        calls' = [calls EXCEPT ![k] =
          [NoCall EXCEPT !.op = "download", !.stage = "prepared", !.actor = a,
                         !.draft = row.draft, !.export = e, !.seen = seen,
                         !.row = row, !.output = output]]
  BY DEF PrepareDownload
<1> DEFINE c == [NoCall EXCEPT !.op = "download", !.stage = "prepared", !.actor = a,
                               !.draft = row.draft, !.export = e, !.seen = seen,
                               !.row = row, !.output = output]
<1>2. row.status \in Ready /\ row.draft \in Drafts /\ row \in ExportRow /\ EvidenceValid(row, e)
  BY DEF PrepareDownload, ExportInv, RowOK, ExportTypeOK, Ready
<1>3. seen \in AuthorityResult
  BY <1>2, Authorities DEF SoundAuthority
<1> HIDE DEF seen
<1>4. output \in Document \cup {Issues, None}
  <2>1. row.artifact \in Document
    BY <1>2 DEF EvidenceValid, ExportRow
  <2>2. build \in Builds
    BY DEF ExportInv, ExportTypeOK
  <2>3. [row.artifact EXCEPT !.build = build] \in Document
    BY <2>1, <2>2 DEF Document
  <2>4. output \in {row.artifact, [row.artifact EXCEPT !.build = build], Issues, None}
    BY <1>1 DEF Regenerates
  <2> HIDE DEF row
  <2> QED
    BY <2>1, <2>3, <2>4
<1>5. /\ c \in Call /\ c.stage = "prepared" /\ c.op = "download" /\ c.draft = row.draft
      /\ c.export = e /\ c.actor = a
  BY <1>2, <1>3, <1>4 DEF Call, NoCall
<1>6. calls' = [calls EXCEPT ![k] = c]
  BY <1>1
<1> HIDE DEF c
<1>7. UNCHANGED <<vars, exports, firsts, build>> /\ UNCHANGED handed
  BY DEF PrepareDownload
<1>8. CallOK(c)
  BY <1>2, <1>5 DEF CallOK, Attempts
<1>9. HandedOK' /\ handed' \subseteq [export : Exports, actor : Actors, bytes : Document]
  BY <1>7 DEF ExportInv, HandedOK, ExportTypeOK
<1>10. ASSUME NEW j \in Calls, calls[j].stage = "prepared", calls[j].op \in Attempts
       PROVE  calls[j].export # e
  BY <1>2, <1>10 DEF ExportInv, CallOK, Ready
<1> QED
  BY <1>5, <1>6, <1>7, <1>8, <1>9, <1>10, CallMoves DEF Attempts

LEMMA DeployStep ==
  ASSUME ExportInv, NEW b \in Builds, Deploy(b)
  PROVE  ExportInv'
<1>1. UNCHANGED <<vars, exports, firsts>> /\ UNCHANGED calls /\ UNCHANGED handed /\ build' = b
  BY DEF Deploy
<1>2. ExportTypeOK' /\ Drawn' /\ HandedOK'
  BY <1>1 DEF ExportInv, ExportTypeOK, Drawn, HandedOK
<1>3. \A k \in Calls : CallOK(calls[k])'
  BY <1>1 DEF ExportInv, CallOK, Usable
<1> QED
  BY <1>1, <1>2, <1>3, RowsKept DEF ExportInv

------------------------------------------------------------------------------
(* What the insert of an attempt's row needs, whatever its outcome is.      *)
LEMMA Recorded ==
  ASSUME ExportInv, NEW k \in Calls, calls[k].stage = "prepared", calls[k].op \in Attempts,
         UNCHANGED <<vars, build>>, UNCHANGED handed,
         NEW row \in ExportRow, NEW c \in Call,
         exports' = [exports EXCEPT ![calls[k].export] = row],
         calls' = [calls EXCEPT ![k] = c],
         firsts' \in [Exports -> Nat],
         firsts'[calls[k].export] = (IF row.status = "downloaded" THEN 1 ELSE 0),
         \A e \in Exports : e # calls[k].export => firsts'[e] = firsts[e],
         row.status # "absent", row.draft = calls[k].draft,
         row.authority # None => Names(row.draft, row.authority),
         row.status = "blocked_authorization" /\ row.authority # None => OutOfForce(row.draft),
         row.status \in Ready => EvidenceValid(row, calls[k].export),
         \/ c = NoCall
         \/ /\ c.stage = "committed" /\ c.export = calls[k].export /\ c.op = calls[k].op
            /\ c.draft = calls[k].draft /\ c.actor = calls[k].actor
            /\ row.status = "downloaded" /\ row.artifact = c.output
  PROVE  ExportInv'
<1> DEFINE id == calls[k].export
<1>1. /\ id \in Exports /\ id # None /\ calls[k].draft \in Drafts /\ calls[k].actor \in Actors
      /\ exports[id].status = "absent"
  BY ExportAssumption DEF ExportInv, CallOK
<1>2. /\ calls' \in [Calls -> Call] /\ calls'[k] = c /\ \A j \in Calls \ {k} : calls'[j] = calls[j]
      /\ exports' \in [Exports -> ExportRow] /\ exports'[id] = row
      /\ \A e \in Exports \ {id} : exports'[e] = exports[e]
  BY <1>1 DEF ExportInv, ExportTypeOK
<1> HIDE DEF id
<1>3. ExportTypeOK'
  BY <1>2 DEF ExportInv, ExportTypeOK
<1>4. ASSUME NEW e \in Exports PROVE RowOK(e)'
  <2>1. \A r : /\ Names(r.draft, r.authority)' <=> Names(r.draft, r.authority)
               /\ OutOfForce(r.draft)' <=> OutOfForce(r.draft)
    BY DEF Names, OutOfForce, ApprovalsOf, SnapshotsOf, RevocationsOf, vars
  <2>2. CASE e = id
    BY <1>1, <1>2, <2>1, <2>2 DEF RowOK, EvidenceValid, id
  <2>3. CASE e # id
    <3>1. exports'[e] = exports[e] /\ firsts'[e] = firsts[e] /\ RowOK(e)
      BY <1>2, <2>3 DEF ExportInv, id
    <3> QED
      BY <2>1, <3>1 DEF RowOK, EvidenceValid
  <2> QED
    BY <2>2, <2>3
<1>5. ASSUME NEW j \in Calls PROVE CallOK(calls[j])'
  <2>1. CASE j = k
    BY <1>1, <1>2, <2>1, NoCallOK DEF CallOK, Attempts, id
  <2>2. CASE j # k
    <3>1. calls'[j] = calls[j] /\ calls[j].export # id /\ CallOK(calls[j])
      BY <1>2, <2>2 DEF ExportInv, Drawn, id
    <3>2. calls[j].stage # "idle" => exports'[calls[j].export] = exports[calls[j].export]
      BY <1>2, <3>1 DEF CallOK
    <3> QED
      BY <3>1, <3>2, ExportAssumption DEF CallOK, Usable, ExportInv, ExportTypeOK, Call
  <2> QED
    BY <2>1, <2>2
<1>6. Drawn'
  <2>1. \A j \in Calls : calls[j].stage = "prepared" /\ calls[j].op \in Attempts =>
          calls[j].export # None /\ (j # k => calls[j].export # id)
    BY ExportAssumption DEF ExportInv, CallOK, Drawn, id
  <2>2. c.stage # "prepared" /\ (c.export = None \/ c.export = id)
    BY NoCallOK DEF id
  <2> QED
    BY <1>2, <2>1, <2>2 DEF ExportInv, Drawn
<1>7. HandedOK'
  BY <1>1, <1>2 DEF ExportInv, HandedOK, ExportTypeOK
<1> QED
  BY <1>3, <1>4, <1>5, <1>6, <1>7 DEF ExportInv

(* The row of an attempt, from the two readings of the authority.           *)
LEMMA AttemptWrites ==
  ASSUME TypeOK, ExportInv, NEW k \in Calls, Finalizing(k, Attempts),
         SameDecision(calls[k], CurrentAuthority(calls[k].draft)),
         NEW status \in Ready \cup {"blocked_authorization", "blocked_validation"},
         NEW reason \in BlockedCodes \cup {"issues", None},
         status \in Ready => /\ reason = None /\ calls[k].output # Issues
                             /\ Usable(calls[k].seen) /\ Usable(CurrentAuthority(calls[k].draft)),
         status = "blocked_authorization" => ~Usable(CurrentAuthority(calls[k].draft)),
         NEW row,
         row = AttemptRow(calls[k], status, reason, CurrentAuthority(calls[k].draft).authority)
  PROVE  /\ row \in ExportRow /\ row.status = status /\ row.draft = calls[k].draft
         /\ row.authority # None => Names(row.draft, row.authority)
         /\ row.status = "blocked_authorization" /\ row.authority # None => OutOfForce(row.draft)
         /\ row.status \in Ready => EvidenceValid(row, calls[k].export)
         /\ status \in Ready => row.artifact = calls[k].output
<1> DEFINE call == calls[k]
           now  == CurrentAuthority(call.draft)
<1>1. /\ call \in Call /\ call.stage = "prepared" /\ call.op \in Attempts
      /\ call.draft \in Drafts /\ call.export \in Exports /\ call.actor \in Actors
      /\ call.output \in Document =>
           call.output.export = call.export /\ call.output.authority = call.seen.authority
      /\ Usable(call.seen) => call.output # None
      /\ call.seen.authority = now.authority
  BY DEF Finalizing, SameDecision, ExportInv, ExportTypeOK, CallOK
<1>2. SoundAuthority(call.draft, now)
  BY <1>1, Authorities
<1> HIDE DEF now
<1>3. status \in Ready => call.output \in Document
  BY <1>1 DEF Call, now
<1>4. now.authority \in Authority \cup {None}
  BY <1>2 DEF SoundAuthority, AuthorityResult
<1> HIDE DEF call
<1>5. row = [NoRow EXCEPT !.status = status, !.draft = call.draft, !.kind = call.op,
                !.requestedBy = call.actor, !.authority = now.authority, !.blockReason = reason,
                !.artifact = IF status \in Ready THEN call.output ELSE None,
                !.downloadedBy = IF status = "downloaded" THEN call.actor ELSE None]
  BY DEF AttemptRow, Claimant, now, call
<1>6. /\ row.status = status /\ row.draft = call.draft /\ row.authority = now.authority
      /\ row.blockReason = reason
      /\ row.artifact = (IF status \in Ready THEN call.output ELSE None)
      /\ row.downloadedBy = (IF status = "downloaded" THEN call.actor ELSE None)
  BY <1>5 DEF NoRow
<1>7. row \in ExportRow
  BY <1>1, <1>3, <1>4, <1>5 DEF NoRow, ExportRow, Attempts, Ready
<1>8. row.authority # None => Names(row.draft, row.authority)
  BY <1>2, <1>6 DEF SoundAuthority
<1>9. row.status = "blocked_authorization" /\ row.authority # None => OutOfForce(row.draft)
  BY <1>2, <1>6 DEF SoundAuthority, now, call
<1>10. row.status \in Ready => EvidenceValid(row, call.export)
  <2> SUFFICES ASSUME status \in Ready PROVE EvidenceValid(row, call.export)
    BY <1>6
  <2>1. row.artifact = call.output /\ row.artifact \in Document /\ row.blockReason = None
    BY <1>3, <1>6
  <2>2. now.authority # None
    BY <1>2 DEF SoundAuthority, now, call
  <2>3. (row.status = "downloaded") <=> (row.downloadedBy # None)
    BY <1>1, <1>6, DecisionAssumption
  <2> QED
    BY <1>1, <1>6, <2>1, <2>2, <2>3, ExportAssumption DEF EvidenceValid
<1>11. status \in Ready => row.artifact = call.output
  BY <1>6
<1> QED
  BY <1>6, <1>7, <1>8, <1>9, <1>10, <1>11 DEF call

LEMMA RecordStep ==
  ASSUME TypeOK, ExportInv, NEW k \in Calls,
         RecordBlocked(k) \/ RecordUnrepresentable(k) \/ RecordReady(k)
  PROVE  ExportInv'
<1> DEFINE call == calls[k]
           now  == CurrentAuthority(call.draft)
<1>1. PICK status \in {"approved_for_download", "blocked_authorization", "blocked_validation"},
           reason \in BlockedCodes \cup {"issues", None} :
        /\ Finalizing(k, Attempts) /\ SameDecision(call, now)
        /\ status \in Ready => /\ reason = None /\ call.output # Issues
                               /\ Usable(call.seen) /\ Usable(now)
        /\ status = "blocked_authorization" => ~Usable(now)
        /\ exports' = [exports EXCEPT ![call.export] =
                         AttemptRow(call, status, reason, now.authority)]
  <2>0. Inserting(k, {"preflight", "delivery"}) \/ Inserting(k, {"preflight"}) =>
          Finalizing(k, Attempts)
    BY DEF Inserting, Finalizing, Attempts
  <2>1. CASE RecordBlocked(k)
    <3>1. call.draft \in Drafts
      BY <2>1 DEF RecordBlocked, Inserting, Finalizing, ExportInv, CallOK
    <3>2. now.code \in BlockedCodes
      BY <2>1, <3>1, Authorities DEF RecordBlocked, SoundAuthority, AuthorityResult, Usable
    <3> QED
      BY <2>0, <2>1, <3>2 DEF RecordBlocked, Ready
  <2>2. CASE RecordUnrepresentable(k)
    BY <2>0, <2>2 DEF RecordUnrepresentable, Ready
  <2>3. CASE RecordReady(k)
    BY <2>0, <2>3 DEF RecordReady
  <2> QED
    BY <2>1, <2>2, <2>3
<1>2. /\ calls' = [calls EXCEPT ![k] = NoCall] /\ UNCHANGED handed
      /\ UNCHANGED <<vars, firsts, build>>
  BY DEF RecordBlocked, RecordUnrepresentable, RecordReady, End
<1> DEFINE row == AttemptRow(call, status, reason, now.authority)
<1>3. /\ row \in ExportRow /\ row.status = status /\ row.draft = call.draft
      /\ row.authority # None => Names(row.draft, row.authority)
      /\ row.status = "blocked_authorization" /\ row.authority # None => OutOfForce(row.draft)
      /\ row.status \in Ready => EvidenceValid(row, call.export)
  BY <1>1, AttemptWrites DEF Ready
<1>4. exports' = [exports EXCEPT ![call.export] = row]
  BY <1>1
<1> HIDE DEF row, now
<1>5. /\ call.stage = "prepared" /\ call.op \in Attempts /\ call.export \in Exports
      /\ exports[call.export].status = "absent"
  BY <1>1 DEF Finalizing, ExportInv, CallOK
<1>6. firsts' \in [Exports -> Nat] /\ firsts'[call.export] = 0
        /\ \A e \in Exports : e # call.export => firsts'[e] = firsts[e]
  BY <1>2, <1>5 DEF ExportInv, ExportTypeOK, RowOK
<1>7. row.status # "absent" /\ row.status # "downloaded"
  BY <1>3
<1> QED
  BY <1>2, <1>3, <1>4, <1>5, <1>6, <1>7, NoCallOK, Recorded

LEMMA RecordDeliveryStep ==
  ASSUME TypeOK, ExportInv, NEW k \in Calls, RecordDelivery(k)
  PROVE  ExportInv'
<1> DEFINE call == calls[k]
           now  == CurrentAuthority(call.draft)
           row  == AttemptRow(call, "downloaded", None, now.authority)
           c    == [call EXCEPT !.stage = "committed"]
<1>1. /\ Finalizing(k, Attempts) /\ SameDecision(call, now)
      /\ call.output # Issues /\ Usable(call.seen) /\ Usable(now)
      /\ exports' = [exports EXCEPT ![call.export] = row]
      /\ firsts' = [firsts EXCEPT ![call.export] = @ + 1]
      /\ calls' = [calls EXCEPT ![k].stage = "committed"]
      /\ UNCHANGED <<vars, build>> /\ UNCHANGED handed
  BY DEF RecordDelivery, Inserting, Finalizing, Attempts
<1>2. /\ row \in ExportRow /\ row.status = "downloaded" /\ row.draft = call.draft
      /\ row.authority # None => Names(row.draft, row.authority)
      /\ row.status \in Ready => EvidenceValid(row, call.export)
      /\ row.artifact = call.output
  BY <1>1, AttemptWrites DEF Ready
<1> HIDE DEF row, now
<1>3. /\ call \in Call /\ call.stage = "prepared" /\ call.op \in Attempts
      /\ call.export \in Exports /\ exports[call.export].status = "absent"
  BY <1>1 DEF Finalizing, ExportInv, CallOK, ExportTypeOK
<1>4. /\ firsts' \in [Exports -> Nat] /\ firsts'[call.export] = 1
      /\ \A e \in Exports : e # call.export => firsts'[e] = firsts[e]
  BY <1>1, <1>3 DEF ExportInv, ExportTypeOK, RowOK
<1>5. calls' = [calls EXCEPT ![k] = c]
  BY <1>1
<1>6. /\ c \in Call /\ c.stage = "committed" /\ c.export = call.export /\ c.op = call.op
      /\ c.draft = call.draft /\ c.actor = call.actor /\ c.output = call.output
  BY <1>3 DEF Call
<1> HIDE DEF c
<1>7. /\ row.status # "absent" /\ row.status # "blocked_authorization"
      /\ firsts'[call.export] = IF row.status = "downloaded" THEN 1 ELSE 0
      /\ UNCHANGED <<vars, build>> /\ UNCHANGED handed
  BY <1>1, <1>2, <1>4
<1>8. exports' = [exports EXCEPT ![calls[k].export] = row]
  BY <1>1
<1> QED
  BY <1>2, <1>3, <1>4, <1>5, <1>6, <1>7, <1>8, Recorded

LEMMA DeliveredOutcome ==
  ASSUME NEW call, DownloadOutcome(call) = "delivered"
  PROVE  /\ Deliverable(CurrentAuthority(exports[call.export].draft), exports[call.export])
         /\ EvidenceValid(exports[call.export], call.export)
         /\ call.output = exports[call.export].artifact
<1> DEFINE row == exports[call.export]
           now == CurrentAuthority(row.draft)
           A == /\ Deliverable(call.seen, call.row) /\ Deliverable(now, row)
                /\ SameDecision(call, now) /\ Evidence(call.row) = Evidence(row)
           B == ~EvidenceValid(call.row, call.export) \/ ~EvidenceValid(row, call.export)
<1>1. DownloadOutcome(call) =
        IF ~A THEN "AUTHORITY_NO_LONGER_CURRENT"
        ELSE IF B THEN "RETAINED_EVIDENCE_INVALID"
        ELSE IF call.output \in {None, Issues} THEN "RENDERER_UNAVAILABLE"
        ELSE IF Diverged(call, row) THEN "ARTIFACT_DIVERGED" ELSE "delivered"
  BY DEF DownloadOutcome
<1> HIDE DEF A, B
<1>2. A /\ ~B /\ ~Diverged(call, row)
  BY <1>1
<1> QED
  BY <1>2 DEF A, B, Diverged

LEMMA DeliverDownloadStep ==
  ASSUME ExportInv, NEW k \in Calls, DeliverDownload(k)
  PROVE  ExportInv'
<1> DEFINE call == calls[k]
           id == call.export
           c == [call EXCEPT !.stage = "committed"]
           row == [exports[id] EXCEPT !.status = "downloaded", !.downloadedBy = call.actor]
<1>1. /\ call \in Call /\ call.stage = "prepared" /\ call.op = "download"
      /\ id \in Exports /\ call.draft \in Drafts /\ call.actor \in Actors
      /\ exports[id].status \in Ready /\ exports[id] \in ExportRow /\ RowOK(id)
  BY DEF DeliverDownload, Finalizing, ExportInv, CallOK, ExportTypeOK
<1>2. EvidenceValid(exports[id], id) /\ call.output = exports[id].artifact
  BY DeliveredOutcome DEF DeliverDownload
<1>3. /\ calls' = [calls EXCEPT ![k] = c] /\ UNCHANGED <<vars, build>> /\ UNCHANGED handed
  BY DEF DeliverDownload
<1>4. /\ c \in Call /\ c.stage = "committed" /\ c.export = id /\ c.op = "download"
      /\ c.draft = call.draft /\ c.actor = call.actor /\ c.output = call.output
  BY <1>1 DEF Call
<1>5. \/ /\ exports[id].status = "approved_for_download"
         /\ exports' = [exports EXCEPT ![id] = row] /\ firsts' = [firsts EXCEPT ![id] = @ + 1]
      \/ exports[id].status = "downloaded" /\ UNCHANGED exports /\ UNCHANGED firsts
  <2>1. CASE exports[id].status = "approved_for_download"
    <3>1. exports' = [exports EXCEPT ![id] = MarkDelivered(@, call.actor)]
            /\ firsts' = [firsts EXCEPT ![id] = @ + 1]
      BY <2>1 DEF DeliverDownload, FirstDelivery
    <3>2. exports' = [exports EXCEPT ![id] = row]
      BY <1>1, <3>1 DEF MarkDelivered, ExportInv, ExportTypeOK
    <3> QED
      BY <2>1, <3>1, <3>2
  <2>2. CASE exports[id].status # "approved_for_download"
    BY <1>1, <2>2 DEF DeliverDownload, FirstDelivery, Ready
  <2> QED
    BY <2>1, <2>2
<1>6. /\ row \in ExportRow /\ row.status = "downloaded" /\ row.downloadedBy = call.actor
      /\ row.draft = exports[id].draft /\ row.authority = exports[id].authority
      /\ row.artifact = exports[id].artifact /\ row.blockReason = exports[id].blockReason
  BY <1>1 DEF ExportRow, Ready
<1> HIDE DEF row, c, id, call
<1>7. /\ exports' \in [Exports -> ExportRow] /\ firsts' \in [Exports -> Nat]
      /\ \A e \in Exports \ {id} : exports'[e] = exports[e] /\ firsts'[e] = firsts[e]
      /\ exports'[id].status = "downloaded" /\ exports'[id].draft = exports[id].draft
      /\ exports'[id].authority = exports[id].authority
      /\ exports'[id].artifact = exports[id].artifact
      /\ exports'[id].blockReason = exports[id].blockReason
      /\ exports'[id].downloadedBy # None /\ firsts'[id] = 1
  <2>1. CASE exports[id].status = "approved_for_download" /\ exports' = [exports EXCEPT ![id] = row]
               /\ firsts' = [firsts EXCEPT ![id] = @ + 1]
    BY <1>1, <1>6, <2>1, DecisionAssumption DEF ExportInv, ExportTypeOK, RowOK
  <2>2. CASE exports[id].status = "downloaded" /\ UNCHANGED exports /\ UNCHANGED firsts
    BY <1>1, <1>2, <2>2 DEF ExportInv, ExportTypeOK, RowOK, EvidenceValid
  <2> QED
    BY <1>5, <2>1, <2>2
<1>8. calls' \in [Calls -> Call] /\ calls'[k] = c /\ \A j \in Calls \ {k} : calls'[j] = calls[j]
  BY <1>3, <1>4 DEF ExportInv, ExportTypeOK
<1>9. ExportTypeOK'
  BY <1>3, <1>7, <1>8 DEF ExportInv, ExportTypeOK
<1>10. ASSUME NEW e \in Exports PROVE RowOK(e)'
  <2>1. \A r : /\ Names(r.draft, r.authority)' <=> Names(r.draft, r.authority)
               /\ OutOfForce(r.draft)' <=> OutOfForce(r.draft)
    BY <1>3 DEF Names, OutOfForce, ApprovalsOf, SnapshotsOf, RevocationsOf, vars
  <2>2. CASE e = id
    BY <1>1, <1>2, <1>7, <2>1, <2>2 DEF RowOK, EvidenceValid, Ready
  <2>3. CASE e # id
    <3>1. exports'[e] = exports[e] /\ firsts'[e] = firsts[e] /\ RowOK(e)
      BY <1>7, <2>3 DEF ExportInv
    <3> QED
      BY <2>1, <3>1 DEF RowOK, EvidenceValid
  <2> QED
    BY <2>2, <2>3
<1>11. ASSUME NEW j \in Calls PROVE CallOK(calls[j])'
  <2>1. CASE j = k
    BY <1>1, <1>2, <1>4, <1>7, <1>8, <2>1 DEF CallOK, Attempts
  <2>2. CASE j # k
    <3>1. calls'[j] = calls[j] /\ CallOK(calls[j])
      BY <1>8, <2>2 DEF ExportInv
    <3>2. CASE calls[j].export = id
      BY <1>1, <1>2, <1>7, <3>1, <3>2 DEF CallOK, Usable, Ready
    <3>3. CASE calls[j].export # id /\ calls[j].stage # "idle"
      <4>1. exports'[calls[j].export] = exports[calls[j].export]
        BY <1>7, <3>1, <3>3 DEF CallOK
      <4> QED
        BY <3>1, <4>1 DEF CallOK, Usable
    <3>4. CASE calls[j].stage = "idle"
      BY <3>1, <3>4 DEF CallOK
    <3> QED
      BY <3>2, <3>3, <3>4
  <2> QED
    BY <2>1, <2>2
<1>12. Drawn'
  <2>1. \A j \in Calls : calls[j].stage = "prepared" /\ calls[j].op \in Attempts =>
          calls[j].export # id /\ calls[j].op # "download"
    BY <1>1 DEF ExportInv, CallOK, Attempts, Ready
  <2> QED
    BY <1>4, <1>8, <2>1 DEF ExportInv, Drawn
<1>13. HandedOK'
  BY <1>1, <1>3, <1>7 DEF ExportInv, HandedOK, ExportTypeOK
<1> QED
  BY <1>9, <1>10, <1>11, <1>12, <1>13 DEF ExportInv

------------------------------------------------------------------------------
(* The inductive invariant: the decisions and the exports together.         *)
WholeInv == TypeOK /\ AllReadable /\ ChainInv /\ ExportInv

LEMMA WholeInit == ExportInit => WholeInv
<1> SUFFICES ASSUME ExportInit PROVE WholeInv
  OBVIOUS
<1>1. TypeOK /\ AllReadable /\ ChainInv
  BY TypeInit, ReadableInit, ChainInit DEF ExportInit
<1>2. NoRow \in ExportRow /\ NoRow.status = "absent" /\ NoRow.authority = None
  BY DEF NoRow, ExportRow, Ready
<1>3. ExportTypeOK
  BY <1>2, NoCallOK DEF ExportInit, ExportTypeOK
<1>4. \A e \in Exports : RowOK(e)
  BY <1>2 DEF ExportInit, RowOK, Ready
<1>5. (\A k \in Calls : CallOK(calls[k])) /\ Drawn /\ HandedOK
  BY NoCallOK DEF ExportInit, Drawn, HandedOK
<1> QED
  BY <1>1, <1>3, <1>4, <1>5 DEF WholeInv, ExportInv

LEMMA WholeStep == WholeInv /\ [ExportNext]_allVars => WholeInv'
<1> SUFFICES ASSUME WholeInv, [ExportNext]_allVars PROVE WholeInv'
  OBVIOUS
<1>1. CASE Next /\ UNCHANGED exportVars
  BY <1>1, TypeStep, ReadableStep, ChainStep, DecisionStep DEF WholeInv
<1>2. CASE ExportStep
  <2>1. ASSUME NEW k \in Calls, NEW op \in Attempts, NEW d \in Drafts, NEW a \in Actors,
               NEW e \in Exports, PrepareAttempt(k, op, d, a, e)
        PROVE  ExportInv' /\ UNCHANGED vars
    BY <2>1, PrepareAttemptStep DEF WholeInv, PrepareAttempt
  <2>2. ASSUME NEW k \in Calls, RecordBlocked(k) \/ RecordUnrepresentable(k) \/ RecordReady(k)
        PROVE  ExportInv' /\ UNCHANGED vars
    BY <2>2, RecordStep DEF WholeInv, RecordBlocked, RecordUnrepresentable, RecordReady
  <2>3. ASSUME NEW k \in Calls, RecordDelivery(k) PROVE ExportInv' /\ UNCHANGED vars
    BY <2>3, RecordDeliveryStep DEF WholeInv, RecordDelivery
  <2>4. ASSUME NEW k \in Calls, NEW e \in Exports, NEW a \in Actors, PrepareDownload(k, e, a)
        PROVE  ExportInv' /\ UNCHANGED vars
    BY <2>4, PrepareDownloadStep DEF WholeInv, PrepareDownload
  <2>5. ASSUME NEW k \in Calls, Drop(k) \/ RefuseDownload(k) PROVE ExportInv' /\ UNCHANGED vars
    BY <2>5, DropStep DEF WholeInv, Drop, RefuseDownload
  <2>6. ASSUME NEW k \in Calls, DeliverDownload(k) PROVE ExportInv' /\ UNCHANGED vars
    BY <2>6, DeliverDownloadStep DEF WholeInv, DeliverDownload
  <2>7. ASSUME NEW k \in Calls, HandOver(k) PROVE ExportInv' /\ UNCHANGED vars
    BY <2>7, HandOverStep DEF WholeInv, HandOver
  <2>8. ASSUME NEW b \in Builds, Deploy(b) PROVE ExportInv' /\ UNCHANGED vars
    BY <2>8, DeployStep DEF WholeInv, Deploy
  <2>9. ExportInv' /\ UNCHANGED vars
    BY <1>2, <2>1, <2>2, <2>3, <2>4, <2>5, <2>6, <2>7, <2>8 DEF ExportStep, Attempts
  <2> QED
    BY <2>9, TypeStep, ReadableStep, ChainStep DEF WholeInv
<1>3. CASE UNCHANGED allVars
  <2>1. UNCHANGED vars /\ UNCHANGED exports /\ UNCHANGED calls /\ UNCHANGED firsts
          /\ UNCHANGED handed /\ UNCHANGED build
    BY <1>3 DEF allVars, exportVars
  <2>2. ExportTypeOK' /\ Drawn' /\ HandedOK' /\ \A k \in Calls : CallOK(calls[k])'
    BY <2>1 DEF WholeInv, ExportInv, ExportTypeOK, Drawn, HandedOK, CallOK, Usable
  <2>3. ExportInv'
    BY <2>1, <2>2, RowsKept DEF WholeInv, ExportInv
  <2> QED
    BY <2>1, <2>3, TypeStep, ReadableStep, ChainStep DEF WholeInv
<1> QED
  BY <1>1, <1>2, <1>3 DEF ExportNext

LEMMA Whole == ExportSpec => []WholeInv
BY WholeInit, WholeStep, PTL DEF ExportSpec

(* Attempts, calls, audited deliveries and documents keep their types.      *)
THEOREM ExportTyping == ExportSpec => []ExportTypeOK
<1>1. WholeInv => ExportTypeOK
  BY DEF WholeInv, ExportInv
<1> QED
  BY <1>1, Whole, PTL

(* A downloaded row and its one audited first delivery go together, for any *)
(* number of concurrent downloads.                                          *)
THEOREM FirstDeliveries == ExportSpec => []OneFirstDelivery
<1>1. WholeInv => OneFirstDelivery
  BY DEF WholeInv, ExportInv, OneFirstDelivery, RowOK
<1> QED
  BY <1>1, Whole, PTL

(* Every row the program writes passes its own check of retained evidence.  *)
THEOREM Evident == ExportSpec => []RetainedEvidenceSound
<1>1. WholeInv => RetainedEvidenceSound
  BY DEF WholeInv, ExportInv, RetainedEvidenceSound, RowOK
<1> QED
  BY <1>1, Whole, PTL

(* A recorded attempt names the decision recorded for its draft, whatever   *)
(* was edited, revoked or versioned since.                                  *)
THEOREM Named == ExportSpec => []AttemptsNameTheirDecision
<1>1. WholeInv => AttemptsNameTheirDecision
  BY DEF WholeInv, ExportInv, AttemptsNameTheirDecision, RowOK, Names, OutOfForce
<1> QED
  BY <1>1, Whole, PTL

(* What a client holds is what the archive holds under the content that was *)
(* approved, for any history of deployments and decisions.                  *)
THEOREM Archived == ExportSpec => []HandedAsArchived
<1>1. WholeInv => HandedAsArchived
  <2> SUFFICES ASSUME WholeInv, NEW h \in handed
               PROVE  LET row == exports[h.export] IN
                      /\ row.status = "downloaded" /\ row.artifact = h.bytes
                      /\ \E a \in ApprovalsOf(row.draft) :
                           /\ a.request = h.bytes.authority.approval
                           /\ a.requestHash.content = h.bytes.authority.content
    BY DEF HandedAsArchived
  <2> DEFINE row == exports[h.export]
  <2>1. /\ h.export \in Exports /\ row.status = "downloaded" /\ row.artifact = h.bytes
    BY DEF WholeInv, ExportInv, ExportTypeOK, HandedOK
  <2>2. RowOK(h.export)
    BY <2>1 DEF WholeInv, ExportInv
  <2>3. row.authority # None /\ row.artifact.authority = row.authority
    BY <2>1, <2>2 DEF RowOK, Ready, EvidenceValid
  <2>4. row.draft \in Drafts /\ Names(row.draft, row.authority)
    BY <2>2, <2>3 DEF RowOK
  <2> HIDE DEF row
  <2>5. PICK a \in ApprovalsOf(row.draft), s \in SnapshotsOf(row.draft) :
          row.authority = [approval |-> a.request, content |-> s.content, notes |-> s.notes]
    BY <2>4 DEF Names
  <2>6. CoherentEvidence(row.draft)
    BY <2>4, <2>5 DEF WholeInv, AllReadable, Readable, NoEvidence
  <2>7. CoherentPair(row.draft, s, a)
    BY <2>5, <2>6 DEF CoherentEvidence
  <2>8. a.requestHash.content = s.content
    BY <2>7 DEF CoherentPair
  <2> QED
    BY <2>1, <2>3, <2>5, <2>8 DEF row
<1> QED
  BY <1>1, Whole, PTL

------------------------------------------------------------------------------
(* The rows an export step writes.                                          *)
Inserted(k, e) ==
  /\ calls[k].stage = "prepared" /\ calls[k].op \in Attempts /\ calls[k].export = e
  /\ exports[e].status = "absent"
  /\ exports'[e].authority = calls[k].seen.authority

Marked(k, e) ==
  /\ exports[e].status = "approved_for_download"
  /\ exports'[e] = [exports[e] EXCEPT !.status = "downloaded", !.downloadedBy = calls[k].actor]

LEMMA InsertWrites ==
  ASSUME ExportInv, NEW k \in Calls, NEW e \in Exports,
         \/ RecordBlocked(k) \/ RecordUnrepresentable(k) \/ RecordReady(k) \/ RecordDelivery(k),
         exports'[e] # exports[e]
  PROVE  Inserted(k, e)
<1> DEFINE call == calls[k]
           now == CurrentAuthority(call.draft)
<1>1. /\ call.stage = "prepared" /\ call.op \in Attempts /\ SameDecision(call, now)
      /\ \E status, reason :
           exports' = [exports EXCEPT ![call.export] =
                         AttemptRow(call, status, reason, now.authority)]
  BY DEF RecordBlocked, RecordUnrepresentable, RecordReady, RecordDelivery, Inserting, Finalizing, Attempts
<1>2. call.export \in Exports /\ exports[call.export].status = "absent"
  BY <1>1 DEF ExportInv, CallOK
<1>3. PICK status, reason :
        exports' = [exports EXCEPT ![call.export] = AttemptRow(call, status, reason, now.authority)]
  BY <1>1
<1> DEFINE row == AttemptRow(call, status, reason, now.authority)
<1>4. row.authority = now.authority
  BY DEF AttemptRow, NoRow
<1>5. exports' = [exports EXCEPT ![call.export] = row]
  BY <1>3
<1> HIDE DEF row, now
<1>6. e = call.export /\ exports'[e] = row
  BY <1>2, <1>5 DEF ExportInv, ExportTypeOK
<1> QED
  BY <1>1, <1>2, <1>4, <1>6 DEF Inserted, SameDecision

LEMMA DeliverWrites ==
  ASSUME ExportInv, NEW k \in Calls, NEW e \in Exports, DeliverDownload(k),
         exports'[e] # exports[e]
  PROVE  Marked(k, e)
<1>1. /\ exports' = [exports EXCEPT ![calls[k].export] = MarkDelivered(@, calls[k].actor)]
      /\ exports[calls[k].export].status = "approved_for_download"
  BY DEF DeliverDownload, FirstDelivery
<1>2. calls[k].export \in Exports
  BY DEF DeliverDownload, Finalizing, ExportInv, CallOK
<1> QED
  BY <1>1, <1>2 DEF ExportInv, ExportTypeOK, MarkDelivered, Marked

LEMMA RowWrites ==
  ASSUME WholeInv, ExportNext, NEW e \in Exports, exports'[e] # exports[e]
  PROVE  \E k \in Calls : Inserted(k, e) \/ Marked(k, e)
<1>1. PICK k \in Calls :
        \/ RecordBlocked(k) \/ RecordUnrepresentable(k) \/ RecordReady(k) \/ RecordDelivery(k)
        \/ DeliverDownload(k)
  BY DEF ExportNext, ExportStep, exportVars, PrepareAttempt, PrepareDownload, RefuseDownload,
         HandOver, Drop, Deploy
<1> QED
  BY <1>1, InsertWrites, DeliverWrites DEF WholeInv

(* A recorded attempt is written again by its first delivery only.          *)
THEOREM Immutable == ExportSpec => AttemptsImmutable
<1>1. WholeInv /\ [ExportNext]_allVars =>
        [\A e \in Exports : exports[e].status # "absent" /\ exports'[e] # exports[e] =>
           /\ Evidence(exports'[e]) = Evidence(exports[e])
           /\ exports[e].status = "approved_for_download"
           /\ exports'[e].status = "downloaded"]_allVars
  <2> SUFFICES ASSUME WholeInv, ExportNext, NEW e \in Exports,
                      exports[e].status # "absent", exports'[e] # exports[e]
               PROVE  /\ Evidence(exports'[e]) = Evidence(exports[e])
                      /\ exports[e].status = "approved_for_download"
                      /\ exports'[e].status = "downloaded"
    OBVIOUS
  <2>1. PICK k \in Calls : Marked(k, e)
    BY RowWrites DEF Inserted
  <2>2. exports[e] \in ExportRow
    BY DEF WholeInv, ExportInv, ExportTypeOK
  <2> QED
    BY <2>1, <2>2 DEF Marked, Evidence, ExportRow
<1> QED
  BY <1>1, Whole, PTL DEF ExportSpec, AttemptsImmutable

(* An attempt is recorded under the decision it started from.               *)
THEOREM RecordedAsRead == ExportSpec => AttemptsRecordWhatTheyRead
<1>1. WholeInv /\ [ExportNext]_allVars =>
        [\A k \in Calls, e \in Exports :
           (/\ calls[k].op # "download" /\ calls[k].export = e
            /\ exports[e].status = "absent" /\ exports'[e].status # "absent")
           => exports'[e].authority = calls[k].seen.authority]_allVars
  <2> SUFFICES ASSUME WholeInv, ExportNext, NEW k \in Calls, NEW e \in Exports,
                      calls[k].export = e, exports[e].status = "absent",
                      exports'[e].status # "absent"
               PROVE  exports'[e].authority = calls[k].seen.authority
    OBVIOUS
  <2>1. PICK j \in Calls : Inserted(j, e)
    BY RowWrites DEF Marked
  <2>2. j = k
    BY <2>1 DEF WholeInv, ExportInv, Drawn, Inserted
  <2> QED
    BY <2>1, <2>2 DEF Inserted
<1> QED
  BY <1>1, Whole, PTL DEF ExportSpec, AttemptsRecordWhatTheyRead

(* The exports only read the decisions: what is proved of the decision      *)
(* cycle holds beside any number of exports.                                *)
THEOREM Beside == ExportSpec => Spec
<1>1. ExportInit => Init
  BY DEF ExportInit
<1>2. [ExportNext]_allVars => [Next]_vars
  BY Zenon DEF ExportNext, ExportStep, allVars, PrepareAttempt, RecordBlocked, RecordUnrepresentable,
         RecordReady, RecordDelivery, PrepareDownload, RefuseDownload, DeliverDownload, HandOver,
         Drop, Deploy
<1> QED
  BY <1>1, <1>2, PTL DEF ExportSpec, Spec

------------------------------------------------------------------------------
(* The steps that commit a delivery.                                        *)
LEMMA Committing ==
  ASSUME ExportInv, ExportNext, NEW k \in Calls,
         calls'[k].stage = "committed", calls[k].stage # "committed"
  PROVE  RecordDelivery(k) \/ DeliverDownload(k)
<1>1. calls \in [Calls -> Call]
  BY DEF ExportInv, ExportTypeOK
<1>2. ASSUME NEW j \in Calls, calls' = [calls EXCEPT ![j] = NoCall] PROVE FALSE
  BY <1>1, <1>2, NoCallOK
<1>3. ASSUME NEW j \in Calls, NEW op \in {"preflight", "delivery"}, NEW d \in Drafts,
             NEW a \in Actors, NEW e \in Exports, PrepareAttempt(j, op, d, a, e)
      PROVE  FALSE
  <2>1. PICK seen, output : calls' = [calls EXCEPT ![j] =
          [NoCall EXCEPT !.op = op, !.stage = "prepared", !.actor = a, !.draft = d,
                         !.export = e, !.seen = seen, !.output = output]]
    BY <1>3 DEF PrepareAttempt
  <2> QED
    BY <1>1, <2>1 DEF NoCall
<1>4. ASSUME NEW j \in Calls, NEW e \in Exports, NEW a \in Actors, PrepareDownload(j, e, a)
      PROVE  FALSE
  <2>1. PICK row, seen, output : calls' = [calls EXCEPT ![j] =
          [NoCall EXCEPT !.op = "download", !.stage = "prepared", !.actor = a,
                         !.draft = row.draft, !.export = e, !.seen = seen,
                         !.row = row, !.output = output]]
    BY <1>4, Zenon DEF PrepareDownload
  <2> QED
    BY <1>1, <2>1 DEF NoCall
<1>5. ASSUME NEW j \in Calls, RecordDelivery(j) \/ DeliverDownload(j) PROVE j = k
  <2>1. calls' = [calls EXCEPT ![j].stage = "committed"]
    BY <1>5 DEF RecordDelivery, DeliverDownload
  <2> QED
    BY <1>1, <2>1
<1>6. ASSUME NEW j \in Calls,
             \/ RecordBlocked(j) \/ RecordUnrepresentable(j) \/ RecordReady(j)
             \/ RefuseDownload(j) \/ HandOver(j) \/ Drop(j)
      PROVE  FALSE
  <2>1. calls' = [calls EXCEPT ![j] = NoCall]
    BY <1>6, Zenon DEF RecordBlocked, RecordUnrepresentable, RecordReady, RefuseDownload, HandOver,
       Drop, End
  <2> QED
    BY <1>2, <2>1
<1>7. ASSUME calls' = calls PROVE FALSE
  BY <1>7
<1> QED
  BY <1>3, <1>4, <1>5, <1>6, <1>7, Zenon DEF ExportNext, ExportStep, exportVars, Deploy

(* Bytes leave under the decision of the moment, for any interleaving of    *)
(* calls, decisions, deployments and losses of access.                      *)
THEOREM Authorized == ExportSpec => DeliveredUnderAuthority
<1> DEFINE Delivered(k) ==
      LET call == calls[k]
          row  == exports'[call.export]
      IN /\ ReadRecord(row.draft) = "active" /\ draft[row.draft].supersededBy = None
         /\ call.actor \in authorized
         /\ \E a \in ApprovalsOf(row.draft) : a.request = row.authority.approval
         /\ call.output.authority = row.authority
         /\ call.output = row.artifact
<1>1. ASSUME WholeInv, ExportNext, NEW k \in Calls,
             calls'[k].stage = "committed", calls[k].stage # "committed"
      PROVE  Delivered(k)
  <2> DEFINE call == calls[k]
             id   == call.export
             old  == exports[id]
             row  == exports'[id]
  <2>1. RecordDelivery(k) \/ DeliverDownload(k)
    BY <1>1, Committing DEF WholeInv
  <2>2. /\ id \in Exports /\ call.actor \in authorized /\ call.draft \in Drafts
        /\ RowOK(id)
    BY <1>1, <2>1 DEF RecordDelivery, DeliverDownload, Inserting, Finalizing, Locks, WholeInv, ExportInv, CallOK
  <2>3. /\ row.draft \in Drafts /\ Usable(CurrentAuthority(row.draft))
        /\ Names(row.draft, row.authority)
        /\ call.output.authority = row.authority /\ call.output = row.artifact
    <3>1. CASE RecordDelivery(k)
      <4> DEFINE now == CurrentAuthority(call.draft)
                 new == AttemptRow(call, "downloaded", None, now.authority)
      <4>1. /\ Finalizing(k, Attempts) /\ SameDecision(call, now)
            /\ call.output # Issues /\ Usable(call.seen) /\ Usable(now)
            /\ exports' = [exports EXCEPT ![id] = new]
        BY <3>1 DEF RecordDelivery, Inserting, Finalizing, Attempts
      <4>2. /\ new.status = "downloaded" /\ new.draft = call.draft
            /\ new.authority # None => Names(new.draft, new.authority)
            /\ new.status \in Ready => EvidenceValid(new, id)
            /\ new.artifact = call.output
        BY <1>1, <4>1, AttemptWrites DEF Ready, WholeInv
      <4> HIDE DEF new, now
      <4>3. row = new
        BY <1>1, <2>2, <4>1 DEF WholeInv, ExportInv, ExportTypeOK
      <4>4. Usable(CurrentAuthority(call.draft))
        BY <4>1 DEF now
      <4>5. EvidenceValid(new, id)
        BY <4>2 DEF Ready
      <4> HIDE DEF row, call
      <4> QED
        BY <2>2, <4>2, <4>3, <4>4, <4>5 DEF EvidenceValid
    <3>2. CASE DeliverDownload(k)
      <4>1. /\ Deliverable(CurrentAuthority(old.draft), old)
            /\ EvidenceValid(old, id) /\ call.output = old.artifact
            /\ old.status \in Ready
        BY <3>2, DeliveredOutcome DEF DeliverDownload
      <4>2. old.draft \in Drafts /\ Names(old.draft, old.authority)
        BY <2>2, <4>1 DEF RowOK, EvidenceValid
      <4>3. row = old \/ Marked(k, id)
        BY <1>1, <2>2, <3>2, DeliverWrites DEF WholeInv
      <4>4. row.draft = old.draft /\ row.authority = old.authority /\ row.artifact = old.artifact
        BY <1>1, <2>2, <4>3 DEF Marked, WholeInv, ExportInv, ExportTypeOK, ExportRow
      <4> HIDE DEF row, old, call
      <4> QED
        BY <4>1, <4>2, <4>4 DEF Deliverable, EvidenceValid
    <3> QED
      BY <2>1, <3>1, <3>2
  <2> HIDE DEF row
  <2>4. ReadRecord(row.draft) = "active" /\ draft[row.draft].supersededBy = None
    BY <1>1, <2>3, Authorities DEF SoundAuthority, WholeInv
  <2>5. \E a \in ApprovalsOf(row.draft) : a.request = row.authority.approval
    BY <2>3 DEF Names
  <2> QED
    BY <2>2, <2>3, <2>4, <2>5 DEF row
<1>2. WholeInv /\ [ExportNext]_allVars =>
        [\A k \in Calls : calls'[k].stage = "committed" /\ calls[k].stage # "committed"
                          => Delivered(k)]_allVars
  <2> HIDE DEF Delivered
  <2> QED
    BY <1>1
<1> QED
  BY <1>2, Whole, PTL DEF ExportSpec, DeliveredUnderAuthority
==============================================================================
