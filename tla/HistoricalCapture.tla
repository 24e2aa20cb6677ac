-------------------------- MODULE HistoricalCapture --------------------------
(***************************************************************************)
(* Capture of estimates made elsewhere: a source document is recorded      *)
(* once, selections of its lines are recorded as imports, and a later      *)
(* selection may revise an earlier one.  Both tables are append-only.      *)
(*                                                                         *)
(* Each capture is one READ COMMITTED transaction.  It takes its project   *)
(* row, then the advisory lock of its request id, then, for a revision,    *)
(* the row it revises; its reads are steps between them and what it writes *)
(* becomes visible in one step.  The locks a call holds follow from where  *)
(* it stands.                                                              *)
(***************************************************************************)
EXTENDS Naturals

CONSTANTS
  Calls,      \* captures that may be under way at once
  Projects,   \* projects of one tenant, each with its client
  Actors,
  Requests,   \* client-chosen request ids
  Contents,   \* what a source document says
  Choices,    \* selected lines, declared totals and reported approval
  Ids,        \* bound: rows of both tables
  Commands,   \* what clients send
  None

VARIABLES
  sources,    \* historical_estimate_sources
  imports,    \* historical_estimate_imports
  members,    \* who may write which project
  calls,      \* the captures under way
  answers     \* successful answers so far

vars == <<sources, imports, members, calls, answers>>

------------------------------------------------------------------------------
(* A request hash binds every submitted field, and neither the actor nor   *)
(* the time; the submission itself stands for it.                          *)
SourceCommand ==
  [op : {"source"}, request : Requests, project : Projects, content : Contents]
SelectionCommand ==
  [op : {"selection"}, request : Requests, project : Projects, source : Ids,
   choice : Choices, prior : Ids \cup {None}, expected : Nat]
Command == SourceCommand \cup SelectionCommand

(* A predecessor and its expected revision are given together: without one *)
(* the expected revision is 0, its default.                                *)
ASSUME CaptureAssumption ==
  /\ Commands \subseteq Command
  /\ \A c \in Commands : c.op = "selection" => (c.prior = None <=> c.expected = 0)
  /\ None \notin Ids \cup Actors \cup Commands

SourceRow == [id : Ids, project : Projects, content : Contents,
              hash : SourceCommand, recordedBy : Actors]
ImportRow == [id : Ids, project : Projects, source : Ids, choice : Choices,
              prior : Ids \cup {None}, revision : Nat \ {0},
              hash : SelectionCommand, recordedBy : Actors]

(* Where a call stands.  From "queued" on it holds its project row and     *)
(* share locks on what its actor's access rests on, from "reading" on its  *)
(* request id, from "comparing" on the row it revises.                     *)
Inside == {"queued", "reading", "chaining", "comparing", "writing"}

Call == [at : {"idle", "entering"} \cup Inside,
         command : Command \cup {None}, actor : Actors \cup {None}, id : Ids \cup {None}]

Idle == [at |-> "idle", command |-> None, actor |-> None, id |-> None]

HistoryTypeOK ==
  /\ sources \subseteq SourceRow
  /\ imports \subseteq ImportRow
  /\ members \subseteq Actors \X Projects
  /\ calls \in [Calls -> Call]
  /\ answers \subseteq [command : Command, result : Ids]

------------------------------------------------------------------------------
(* Locks.                                                                  *)

ProjectHeld(p) ==
  \E k \in Calls : calls[k].at \in Inside /\ calls[k].command.project = p

(* Fault: a lock of the session, which its next transaction still holds.   *)
RequestHeldBySession(op, r) ==
  \/ \E k \in Calls :
       /\ calls[k].at \in Inside \ {"queued"}
       /\ calls[k].command.op = op /\ calls[k].command.request = r
  \/ \E a \in answers : a.command.op = op /\ a.command.request = r

RequestHeld(op, r) ==
  \E k \in Calls :
    /\ calls[k].at \in Inside \ {"queued"}
    /\ calls[k].command.op = op /\ calls[k].command.request = r

ImportHeld(i) ==
  \E k \in Calls :
    /\ calls[k].at \in {"comparing", "writing"}
    /\ calls[k].command.op = "selection" /\ calls[k].command.prior = i

GrantHeld(a, p) ==
  \E k \in Calls :
    calls[k].at \in Inside /\ calls[k].actor = a /\ calls[k].command.project = p

------------------------------------------------------------------------------
(* Steps of a capture.                                                     *)

Go(k, where) == calls' = [calls EXCEPT ![k] = [calls[k] EXCEPT !.at = where]]
Leave(k)     == calls' = [calls EXCEPT ![k] = Idle]

(* The answer, whether or not it arrives.                                  *)
Answer(k, i) ==
  /\ Leave(k)
  /\ answers' = answers \cup {[command |-> calls[k].command, result |-> i]}

Taken == {s.id : s \in sources} \cup {i.id : i \in imports} \cup {calls[k].id : k \in Calls}

(* requireProjectAccessTrpc, before the transaction.  The id the row will  *)
(* have is drawn here.                                                     *)
Begin(k, c, a) ==
  /\ calls[k].at = "idle"
  /\ <<a, c.project>> \in members
  /\ \E i \in Ids \ Taken :
       calls' = [calls EXCEPT ![k] = [at |-> "entering", command |-> c, actor |-> a, id |-> i]]
  /\ UNCHANGED <<sources, imports, members, answers>>

(* The project row is locked and the access is found again.                *)
LockContext(k) ==
  LET call == calls[k] IN
  /\ call.at = "entering"
  /\ ~ProjectHeld(call.command.project)
  /\ IF <<call.actor, call.command.project>> \in members THEN Go(k, "queued") ELSE Leave(k)
  /\ UNCHANGED <<sources, imports, members, answers>>

(* Fault: no lock of the request.                                          *)
OperationUnlocked(k) ==
  /\ calls[k].at = "queued"
  /\ Go(k, "reading")
  /\ UNCHANGED <<sources, imports, members, answers>>

OperationLock(k) ==
  LET c == calls[k].command IN
  /\ calls[k].at = "queued"
  /\ ~RequestHeld(c.op, c.request)
  /\ Go(k, "reading")
  /\ UNCHANGED <<sources, imports, members, answers>>

(* Fault: whatever is submitted under a known request id is answered.      *)
ReplayUnchecked(k, known) == Answer(k, known.id)

(* The row recorded for a request id, if it was recorded for this very     *)
(* submission, answers it; any other submission is a conflict.             *)
Replay(k, known) ==
  IF known.hash = calls[k].command
    THEN Answer(k, known.id)
    ELSE Leave(k) /\ UNCHANGED answers

SameDocument(s, c) == s.project = c.project /\ s.content = c.content

ReadSources(k) ==
  LET c     == calls[k].command
      known == {s \in sources : s.hash.request = c.request}
  IN
  /\ calls[k].at = "reading" /\ c.op = "source"
  /\ \/ \E s \in known : Replay(k, s)
     \/ /\ known = {}
        /\ IF \E s \in sources : SameDocument(s, c) THEN Leave(k) ELSE Go(k, "writing")
        /\ UNCHANGED answers
  /\ UNCHANGED <<sources, imports, members>>

SourceKnown(c) == \E s \in sources : s.id = c.source /\ s.project = c.project

(* The source must be one of the project.  A request recorded before is    *)
(* answered whatever happened to the chain since.                          *)
ReadImports(k) ==
  LET c     == calls[k].command
      known == {i \in imports : i.hash.request = c.request}
  IN
  /\ calls[k].at = "reading" /\ c.op = "selection"
  /\ \/ /\ ~SourceKnown(c)
        /\ Leave(k) /\ UNCHANGED answers
     \/ /\ SourceKnown(c)
        /\ \/ \E i \in known : Replay(k, i)
           \/ /\ known = {}
              /\ Go(k, IF c.prior = None THEN "comparing" ELSE "chaining")
              /\ UNCHANGED answers
  /\ UNCHANGED <<sources, imports, members>>

(* Fault: the expected revision is not compared.                           *)
RevisableUnseen(i, c) ==
  /\ i.project = c.project
  /\ i.source = c.source
  /\ ~\E j \in imports : j.prior = i.id

Revisable(i, c) ==
  /\ i.project = c.project
  /\ i.source = c.source
  /\ i.revision = c.expected
  /\ ~\E j \in imports : j.prior = i.id

LockPrior(k) ==
  LET c == calls[k].command IN
  /\ calls[k].at = "chaining"
  /\ ~ImportHeld(c.prior)
  /\ IF \E i \in imports : i.id = c.prior /\ Revisable(i, c)
       THEN Go(k, "comparing") ELSE Leave(k)
  /\ UNCHANGED <<sources, imports, members, answers>>

(* Fault: the revision is part of the content that is compared.            *)
SameSelectionOfRevision(i, c) ==
  /\ i.project = c.project /\ i.source = c.source /\ i.choice = c.choice
  /\ i.revision = c.expected + 1

SameSelection(i, c) ==
  i.project = c.project /\ i.source = c.source /\ i.choice = c.choice

Compare(k) ==
  LET c == calls[k].command IN
  /\ calls[k].at = "comparing"
  /\ IF \E i \in imports : SameSelection(i, c) THEN Leave(k) ELSE Go(k, "writing")
  /\ UNCHANGED <<sources, imports, members, answers>>

------------------------------------------------------------------------------
(* The unique indexes of both tables.                                      *)

Unique(c) ==
  IF c.op = "source"
    THEN \A s \in sources : s.hash.request # c.request /\ ~SameDocument(s, c)
    ELSE \A i \in imports : /\ i.hash.request # c.request /\ ~SameSelection(i, c)
                            /\ c.prior # None => i.prior # c.prior

WriteSource(k) ==
  LET call == calls[k]
      c    == call.command
  IN
  /\ call.at = "writing" /\ c.op = "source"
  /\ Unique(c)
  /\ sources' = sources \cup
       {[id |-> call.id, project |-> c.project, content |-> c.content, hash |-> c,
         recordedBy |-> call.actor]}
  /\ Answer(k, call.id)
  /\ UNCHANGED <<imports, members>>

(* The draft of the import, of source historical_import and with the       *)
(* version of the revision, is written with it.                            *)
WriteSelection(k) ==
  LET call == calls[k]
      c    == call.command
  IN
  /\ call.at = "writing" /\ c.op = "selection"
  /\ Unique(c)
  /\ imports' = imports \cup
       {[id |-> call.id, project |-> c.project, source |-> c.source, choice |-> c.choice,
         prior |-> c.prior, revision |-> c.expected + 1, hash |-> c,
         recordedBy |-> call.actor]}
  /\ Answer(k, call.id)
  /\ UNCHANGED <<sources, members>>

(* The connection, a statement, an index or the audit fails: everything is  *)
(* undone.                                                                 *)
Abort(k) ==
  /\ calls[k].at # "idle"
  /\ Leave(k)
  /\ UNCHANGED <<sources, imports, members, answers>>

------------------------------------------------------------------------------
(* Access changes beside the captures; what a capture has share-locked     *)
(* waits for it.                                                           *)

Grant(a, p) ==
  /\ members' = members \cup {<<a, p>>}
  /\ UNCHANGED <<sources, imports, calls, answers>>

Revoke(a, p) ==
  /\ ~GrantHeld(a, p)
  /\ members' = members \ {<<a, p>>}
  /\ UNCHANGED <<sources, imports, calls, answers>>

------------------------------------------------------------------------------
Init ==
  /\ sources = {} /\ imports = {} /\ answers = {}
  /\ members = Actors \X Projects
  /\ calls = [k \in Calls |-> Idle]

Step(k) ==
  \/ LockContext(k) \/ OperationLock(k) \/ ReadSources(k) \/ ReadImports(k)
  \/ LockPrior(k) \/ Compare(k) \/ WriteSource(k) \/ WriteSelection(k)

Next ==
  \/ \E k \in Calls, c \in Commands, a \in Actors : Begin(k, c, a)
  \/ \E k \in Calls : Step(k) \/ Abort(k)
  \/ \E a \in Actors, p \in Projects : Grant(a, p) \/ Revoke(a, p)

Spec == Init /\ [][Next]_vars

(* A transaction that can go on does: statements are answered, and a lock  *)
(* is granted in the order it was asked for.                               *)
FairSpec == Spec /\ \A k \in Calls : SF_vars(Step(k))

------------------------------------------------------------------------------
(* Properties.                                                             *)

(* A request id is one submission for good: two successful answers to it,  *)
(* whoever asked and whatever was recorded in between, are answers to the  *)
(* same submission and name the same row.                                  *)
RequestsBindOneCapture ==
  \A a, b \in answers :
    a.command.op = b.command.op /\ a.command.request = b.command.request => a = b

(* Revisions form chains: a revision has a predecessor of the same source  *)
(* and project, the next number, and no sibling - although captures that   *)
(* revise the same row may be under way together.                          *)
RevisionsLinear ==
  \A i \in imports :
    /\ \E s \in sources : s.id = i.source /\ s.project = i.project
    /\ IF i.prior = None THEN i.revision = 1
       ELSE \E p \in imports : /\ p.id = i.prior /\ p.revision + 1 = i.revision
                               /\ p.source = i.source /\ p.project = i.project
    /\ \A j \in imports : i.prior # None /\ j.prior = i.prior => j = i

(* The locks are enough: a capture that found nothing in its way is not    *)
(* refused by a unique index when it writes, so a repeated request gets an *)
(* answer or a conflict and never an internal error.                       *)
IndexesNeverFire ==
  \A k \in Calls : calls[k].at = "writing" => Unique(calls[k].command)

(* "A cached preflight grant cannot survive revocation": a row is recorded *)
(* only by an actor that may write the project at that moment.  What       *)
(* Archive!Capture says of submissions, said of the rows.                  *)
CapturedUnderAuthority ==
  [][\A row \in (sources' \cup imports') \ (sources \cup imports) :
       <<row.recordedBy, row.project>> \in members]_vars

(* Captures, whose reads, locks and writes interleave, are as good as done  *)
(* one after another: when one records a row or answers for an earlier one, *)
(* everything it found in earlier statements holds at that moment.          *)
Record(row) == [id |-> row.id, command |-> row.hash, by |-> row.recordedBy]

Archive == INSTANCE CaptureArchive WITH
  records   <- {Record(row) : row \in sources \cup imports},
  permitted <- members

ImplementsArchive == Archive!Spec

(* No capture waits for ever, although each holds one lock while it asks   *)
(* for the next.                                                           *)
CapturesEnd == \A k \in Calls : calls[k].at # "idle" ~> calls[k].at = "idle"
==============================================================================
