----------------------- MODULE HistoricalCapture_proofs -----------------------
(***************************************************************************)
(* Captures for any calls, projects, actors, requests and commands: the    *)
(* locks keep apart what they should, what a capture read stays true until *)
(* it writes, and so requests, revisions and authority hold.               *)
(***************************************************************************)
EXTENDS HistoricalCapture, TLAPS

Running(k) == calls[k].at # "idle"

(* The request was read as one without a row.                              *)
Unanswered(c) ==
  IF c.op = "source" THEN \A s \in sources : s.hash.request # c.request
                     ELSE \A i \in imports : i.hash.request # c.request

Chained(c) == c.prior # None => \E i \in imports : i.id = c.prior /\ Revisable(i, c)

Novel(c) ==
  IF c.op = "source" THEN \A s \in sources : ~SameDocument(s, c)
                     ELSE \A i \in imports : ~SameSelection(i, c)

(* What a capture has read by the time it stands where it does, is still so.*)
Found(k) ==
  LET c == calls[k].command IN
  /\ calls[k].at \in {"chaining", "comparing"} => c.op = "selection"
  /\ calls[k].at \in {"chaining", "comparing", "writing"} =>
       Unanswered(c) /\ (c.op = "selection" => SourceKnown(c))
  /\ calls[k].at \in {"comparing", "writing"} => (c.op = "selection" => Chained(c))
  /\ calls[k].at = "writing" => Novel(c)

Fresh(k) ==
  /\ \A s \in sources : s.id # calls[k].id
  /\ \A i \in imports : i.id # calls[k].id

Mine(k) ==
  /\ Running(k) => /\ calls[k].command \in Commands
                   /\ calls[k].actor \in Actors
                   /\ calls[k].id \in Ids
                   /\ Fresh(k)
  /\ calls[k].at \in Inside => <<calls[k].actor, calls[k].command.project>> \in members
  /\ Found(k)

(* The locks: two captures never hold one project or one request.          *)
Apart(k, l) ==
  /\ Running(k) /\ Running(l) => calls[k].id # calls[l].id
  /\ calls[k].at \in Inside /\ calls[l].at \in Inside =>
       calls[k].command.project # calls[l].command.project
  /\ calls[k].at \in Inside \ {"queued"} /\ calls[l].at \in Inside \ {"queued"} =>
       calls[k].command.op # calls[l].command.op
         \/ calls[k].command.request # calls[l].command.request

Rows ==
  /\ \A i, j \in imports : i.id = j.id => i = j
  /\ \A s, t \in sources : s.hash.request = t.hash.request => s = t
  /\ \A i, j \in imports : i.hash.request = j.hash.request => i = j
  /\ RevisionsLinear

Backed(a) ==
  IF a.command.op = "source"
    THEN \E s \in sources : s.id = a.result /\ s.hash = a.command
    ELSE \E i \in imports : i.id = a.result /\ i.hash = a.command

CallsInv ==
  /\ \A k \in Calls : Mine(k)
  /\ \A k, l \in Calls : k # l => Apart(k, l)

HistInv == HistoryTypeOK /\ CallsInv /\ Rows /\ \A a \in answers : Backed(a)

------------------------------------------------------------------------------
(* Commands and their kinds.                                               *)
LEMMA Kinds ==
  ASSUME NEW c \in Command
  PROVE  /\ c.op \in {"source", "selection"}
         /\ c.op = "source" => c \in SourceCommand
         /\ c.op = "selection" => c \in SelectionCommand
         /\ c.request \in Requests /\ c.project \in Projects
BY DEF Command, SourceCommand, SelectionCommand

LEMMA Going ==
  ASSUME HistoryTypeOK, NEW k \in Calls, NEW w \in {"idle", "entering"} \cup Inside, Go(k, w)
  PROVE  /\ calls' \in [Calls -> Call]
         /\ calls'[k].at = w
         /\ calls'[k].command = calls[k].command
         /\ calls'[k].actor = calls[k].actor
         /\ calls'[k].id = calls[k].id
         /\ \A l \in Calls \ {k} : calls'[l] = calls[l]
<1>1. calls \in [Calls -> Call] /\ calls[k] \in Call
  BY DEF HistoryTypeOK
<1> DEFINE new == [calls[k] EXCEPT !.at = w]
<1>2. /\ new \in Call /\ new.at = w /\ new.command = calls[k].command
      /\ new.actor = calls[k].actor /\ new.id = calls[k].id
  BY <1>1 DEF Call
<1>3. calls' = [calls EXCEPT ![k] = new]
  BY DEF Go
<1> HIDE DEF new
<1> QED
  BY <1>1, <1>2, <1>3

LEMMA Leaving ==
  ASSUME HistoryTypeOK, NEW k \in Calls, Leave(k)
  PROVE  /\ calls' \in [Calls -> Call]
         /\ calls'[k].at = "idle"
         /\ \A l \in Calls \ {k} : calls'[l] = calls[l]
<1>1. calls \in [Calls -> Call]
  BY DEF HistoryTypeOK
<1>2. Idle \in Call /\ Idle.at = "idle"
  BY DEF Idle, Call
<1> QED
  BY <1>1, <1>2 DEF Leave

(* What one capture does to itself leaves the others as they are.          *)
LEMMA Moved ==
  ASSUME HistInv, NEW k \in Calls, UNCHANGED <<sources, imports, members>>,
         \A l \in Calls \ {k} : calls'[l] = calls[l],
         Mine(k)', \A l \in Calls \ {k} : Apart(k, l)'
  PROVE  CallsInv' /\ Rows'
<1>1. ASSUME NEW l \in Calls PROVE Mine(l)'
  <2>1. CASE l = k
    BY <2>1
  <2>2. CASE l # k
    <3>1. Mine(l) /\ calls'[l] = calls[l]
      BY <2>2 DEF HistInv, CallsInv
    <3> QED
      BY <3>1 DEF Mine, Running, Found, Fresh, Unanswered, SourceKnown, Chained, Revisable,
        Novel, SameDocument, SameSelection
  <2> QED
    BY <2>1, <2>2
<1>2. ASSUME NEW l \in Calls, NEW m \in Calls, l # m PROVE Apart(l, m)'
  <2>1. CASE l = k
    BY <2>1, <1>2
  <2>2. CASE m = k
    <3>1. Apart(m, l)'
      BY <2>2, <1>2
    <3> QED
      BY <3>1 DEF Apart, Running
  <2>3. CASE l # k /\ m # k
    <3>1. Apart(l, m) /\ calls'[l] = calls[l] /\ calls'[m] = calls[m]
      BY <1>2, <2>3 DEF HistInv, CallsInv
    <3> QED
      BY <3>1 DEF Apart, Running
  <2> QED
    BY <2>1, <2>2, <2>3
<1>3. Rows'
  BY DEF HistInv, Rows, RevisionsLinear
<1> QED
  BY <1>1, <1>2, <1>3 DEF CallsInv

(* A capture that ends leaves the locks and the others.                    *)
LEMMA Left ==
  ASSUME HistInv, NEW k \in Calls, Leave(k), UNCHANGED <<sources, imports, members>>
  PROVE  calls' \in [Calls -> Call] /\ CallsInv' /\ Rows'
<1>1. /\ calls' \in [Calls -> Call] /\ calls'[k].at = "idle"
      /\ \A l \in Calls \ {k} : calls'[l] = calls[l]
  BY Leaving DEF HistInv
<1>2. Mine(k)'
  BY <1>1 DEF Mine, Running, Found, Inside
<1>3. ASSUME NEW l \in Calls \ {k} PROVE Apart(k, l)'
  BY <1>1 DEF Apart, Running, Inside
<1> QED
  BY <1>1, <1>2, <1>3, Moved

(* A capture that goes on holds what it asked for and what it found.       *)
LEMMA Gone ==
  ASSUME HistInv, NEW k \in Calls, NEW w \in Inside, Running(k), Go(k, w),
         UNCHANGED <<sources, imports, members>>,
         <<calls[k].actor, calls[k].command.project>> \in members,
         Found(k)',
         calls[k].at \in Inside \/ ~ProjectHeld(calls[k].command.project),
         w = "queued" \/ calls[k].at \in Inside \ {"queued"}
           \/ ~RequestHeld(calls[k].command.op, calls[k].command.request)
  PROVE  calls' \in [Calls -> Call] /\ CallsInv' /\ Rows'
<1>1. /\ calls' \in [Calls -> Call] /\ calls'[k].at = w
      /\ calls'[k].command = calls[k].command
      /\ calls'[k].actor = calls[k].actor /\ calls'[k].id = calls[k].id
      /\ \A l \in Calls \ {k} : calls'[l] = calls[l]
  BY Going DEF HistInv
<1>2. Mine(k)'
  <2>1. Mine(k)
    BY DEF HistInv, CallsInv
  <2> QED
    BY <1>1, <2>1 DEF Mine, Running, Fresh
<1>3. ASSUME NEW l \in Calls \ {k} PROVE Apart(k, l)'
  <2>1. Apart(k, l) /\ calls'[l] = calls[l]
    BY <1>1 DEF HistInv, CallsInv
  <2>2. (Running(k) /\ Running(l))' => calls'[k].id # calls'[l].id
    BY <1>1, <2>1 DEF Apart, Running
  <2>3. calls'[l].at \in Inside => calls'[k].command.project # calls'[l].command.project
    BY <1>1, <2>1 DEF Apart, ProjectHeld
  <2>4. w # "queued" /\ calls'[l].at \in Inside \ {"queued"} =>
          calls'[k].command.op # calls'[l].command.op
            \/ calls'[k].command.request # calls'[l].command.request
    BY <1>1, <2>1 DEF Apart, RequestHeld
  <2> QED
    BY <1>1, <2>2, <2>3, <2>4 DEF Apart
<1> QED
  BY <1>1, <1>2, <1>3, Moved

(* What a step did not touch of the rest.                                  *)
LEMMA Settled ==
  ASSUME HistInv, calls' \in [Calls -> Call], CallsInv', Rows',
         UNCHANGED <<sources, imports, members, answers>>
  PROVE  HistInv'
BY DEF HistInv, HistoryTypeOK, Backed

LEMMA GoneSettled ==
  ASSUME HistInv, NEW k \in Calls, NEW w \in Inside, Running(k), Go(k, w),
         UNCHANGED <<sources, imports, members, answers>>,
         <<calls[k].actor, calls[k].command.project>> \in members,
         Found(k)',
         calls[k].at \in Inside \/ ~ProjectHeld(calls[k].command.project),
         w = "queued" \/ calls[k].at \in Inside \ {"queued"}
           \/ ~RequestHeld(calls[k].command.op, calls[k].command.request)
  PROVE  HistInv'
BY Gone, Settled

LEMMA LeftSettled ==
  ASSUME HistInv, NEW k \in Calls, Leave(k), UNCHANGED <<sources, imports, members, answers>>
  PROVE  HistInv'
BY Left, Settled

(* What is known of a capture under way.                                   *)
LEMMA UnderWay ==
  ASSUME HistInv, NEW k \in Calls, Running(k)
  PROVE  /\ calls[k].command \in Commands /\ calls[k].command \in Command
         /\ calls[k].actor \in Actors /\ calls[k].id \in Ids
         /\ Fresh(k) /\ Found(k)
         /\ calls[k].at \in Inside =>
              <<calls[k].actor, calls[k].command.project>> \in members
BY CaptureAssumption DEF HistInv, CallsInv, Mine

(* An answer from a row that was recorded for the same submission.         *)
LEMMA Answered ==
  ASSUME HistInv, NEW k \in Calls, Running(k), NEW i \in Ids, Answer(k, i),
         UNCHANGED <<sources, imports, members>>,
         Backed([command |-> calls[k].command, result |-> i])
  PROVE  HistInv'
<1> DEFINE new == [command |-> calls[k].command, result |-> i]
<1>1. calls' \in [Calls -> Call] /\ CallsInv' /\ Rows'
  BY Left DEF Answer
<1>2. new \in [command : Command, result : Ids] /\ Backed(new)
  BY UnderWay
<1>3. answers' = answers \cup {new}
  BY DEF Answer
<1> HIDE DEF new
<1>4. HistoryTypeOK'
  BY <1>1, <1>2, <1>3 DEF HistInv, HistoryTypeOK
<1>5. \A a \in answers' : Backed(a)'
  BY <1>2, <1>3 DEF HistInv, Backed
<1> QED
  BY <1>1, <1>4, <1>5 DEF HistInv

------------------------------------------------------------------------------
(* The steps of a capture that write no row.                               *)
LEMMA BeginStep ==
  ASSUME HistInv, NEW k \in Calls, NEW c \in Commands, NEW a \in Actors, Begin(k, c, a)
  PROVE  HistInv'
<1>1. PICK i \in Ids \ Taken :
        calls' = [calls EXCEPT ![k] = [at |-> "entering", command |-> c, actor |-> a, id |-> i]]
  BY DEF Begin
<1> DEFINE new == [at |-> "entering", command |-> c, actor |-> a, id |-> i]
<1>2. /\ new \in Call /\ new.at = "entering" /\ new.command = c
      /\ new.actor = a /\ new.id = i
  BY CaptureAssumption DEF Call
<1>3. calls \in [Calls -> Call] /\ calls' = [calls EXCEPT ![k] = new]
  BY <1>1 DEF HistInv, HistoryTypeOK
<1> HIDE DEF new
<1>4. /\ calls' \in [Calls -> Call] /\ calls'[k] = new
      /\ \A l \in Calls \ {k} : calls'[l] = calls[l]
  BY <1>2, <1>3
<1>5. UNCHANGED <<sources, imports, members, answers>>
  BY DEF Begin
<1>6. Mine(k)'
  BY <1>1, <1>2, <1>4, <1>5 DEF Mine, Running, Found, Fresh, Inside, Taken
<1>7. ASSUME NEW l \in Calls \ {k} PROVE Apart(k, l)'
  BY <1>1, <1>2, <1>4 DEF Apart, Running, Inside, Taken
<1> QED
  BY <1>4, <1>5, <1>6, <1>7, Moved, Settled

LEMMA ContextStep ==
  ASSUME HistInv, NEW k \in Calls, LockContext(k)
  PROVE  HistInv'
<1>1. /\ calls[k].at = "entering" /\ ~ProjectHeld(calls[k].command.project)
      /\ UNCHANGED <<sources, imports, members, answers>>
  BY DEF LockContext
<1>2. CASE <<calls[k].actor, calls[k].command.project>> \in members
  <2>1. Go(k, "queued")
    BY <1>2 DEF LockContext
  <2>2. Found(k)'
    BY <2>1, Going DEF HistInv, Found, Inside
  <2> QED
    BY <1>1, <1>2, <2>1, <2>2, GoneSettled DEF Running, Inside
<1>3. CASE <<calls[k].actor, calls[k].command.project>> \notin members
  BY <1>1, <1>3, LeftSettled DEF LockContext
<1> QED
  BY <1>2, <1>3

LEMMA OperationStep ==
  ASSUME HistInv, NEW k \in Calls, OperationLock(k)
  PROVE  HistInv'
<1>1. /\ calls[k].at = "queued" /\ Go(k, "reading")
      /\ ~RequestHeld(calls[k].command.op, calls[k].command.request)
      /\ UNCHANGED <<sources, imports, members, answers>>
  BY DEF OperationLock
<1>2. Running(k) /\ calls[k].at \in Inside
  BY <1>1 DEF Running, Inside
<1>3. Found(k)'
  BY <1>1, Going DEF HistInv, Found, Inside
<1> QED
  BY <1>1, <1>2, <1>3, UnderWay, GoneSettled DEF Inside

LEMMA SourcesStep ==
  ASSUME HistInv, NEW k \in Calls, ReadSources(k)
  PROVE  HistInv'
<1> DEFINE c     == calls[k].command
           known == {s \in sources : s.hash.request = c.request}
<1>1. /\ calls[k].at = "reading" /\ c.op = "source"
      /\ UNCHANGED <<sources, imports, members>>
  BY DEF ReadSources
<1>2. Running(k) /\ calls[k].at \in Inside /\ calls[k].at \in Inside \ {"queued"}
  BY <1>1 DEF Running, Inside
<1>3. CASE \E s \in known : Replay(k, s)
  <2>1. PICK s \in known : Replay(k, s)
    BY <1>3
  <2>2. s \in sources /\ s.id \in Ids
    BY <2>1 DEF HistInv, HistoryTypeOK, SourceRow
  <2>3. CASE s.hash = c
    <3>1. Answer(k, s.id)
      BY <2>1, <2>3 DEF Replay
    <3>2. Backed([command |-> c, result |-> s.id])
      BY <1>1, <2>2, <2>3 DEF Backed
    <3> QED
      BY <1>1, <1>2, <2>2, <3>1, <3>2, Answered
  <2>4. CASE s.hash # c
    BY <1>1, <2>1, <2>4, LeftSettled DEF Replay
  <2> QED
    BY <2>3, <2>4
<1>4. CASE known = {} /\ UNCHANGED answers
            /\ IF \E s \in sources : SameDocument(s, c) THEN Leave(k) ELSE Go(k, "writing")
  <2>1. CASE \E s \in sources : SameDocument(s, c)
    BY <1>1, <1>4, <2>1, LeftSettled
  <2>2. CASE ~\E s \in sources : SameDocument(s, c)
    <3>1. Go(k, "writing")
      BY <1>4, <2>2
    <3>2. calls'[k].at = "writing" /\ calls'[k].command = c
      BY <3>1, Going DEF HistInv, Inside
    <3>3. Unanswered(c) /\ Novel(c)
      BY <1>1, <1>4, <2>2 DEF Unanswered, Novel
    <3>4. Unanswered(c)' /\ Novel(c)' /\ c' = c
      BY <1>1, <3>2, <3>3 DEF Unanswered, Novel, SameDocument, SameSelection
    <3>5. Found(k)'
      BY <1>1, <3>2, <3>4 DEF Found
    <3> QED
      BY <1>1, <1>2, <1>4, <3>1, <3>5, UnderWay, GoneSettled DEF Inside
  <2> QED
    BY <2>1, <2>2
<1> QED
  BY <1>3, <1>4 DEF ReadSources

LEMMA ImportsStep ==
  ASSUME HistInv, NEW k \in Calls, ReadImports(k)
  PROVE  HistInv'
<1> DEFINE c     == calls[k].command
           known == {i \in imports : i.hash.request = c.request}
<1>1. /\ calls[k].at = "reading" /\ c.op = "selection"
      /\ UNCHANGED <<sources, imports, members>>
  BY DEF ReadImports
<1>2. Running(k) /\ calls[k].at \in Inside /\ calls[k].at \in Inside \ {"queued"}
  BY <1>1 DEF Running, Inside
<1>3. CASE Leave(k) /\ UNCHANGED answers
  BY <1>1, <1>3, LeftSettled
<1>4. CASE \E i \in known : Replay(k, i)
  <2>1. PICK i \in known : Replay(k, i)
    BY <1>4
  <2>2. i \in imports /\ i.id \in Ids
    BY <2>1 DEF HistInv, HistoryTypeOK, ImportRow
  <2>3. CASE i.hash = c
    <3>1. Answer(k, i.id)
      BY <2>1, <2>3 DEF Replay
    <3>2. Backed([command |-> c, result |-> i.id])
      BY <1>1, <2>2, <2>3 DEF Backed
    <3> QED
      BY <1>1, <1>2, <2>2, <3>1, <3>2, Answered
  <2>4. CASE i.hash # c
    BY <1>1, <2>1, <2>4, LeftSettled DEF Replay
  <2> QED
    BY <2>3, <2>4
<1>5. CASE /\ SourceKnown(c)
           /\ known = {} /\ UNCHANGED answers
           /\ Go(k, IF c.prior = None THEN "comparing" ELSE "chaining")
  <2> DEFINE w == IF c.prior = None THEN "comparing" ELSE "chaining"
  <2>1. w \in Inside /\ w \in {"chaining", "comparing"} /\ (w = "comparing" => c.prior = None)
    BY DEF Inside
  <2>2. Go(k, w)
    BY <1>5
  <2> HIDE DEF w
  <2>3. calls'[k].at = w /\ calls'[k].command = c
    BY <2>1, <2>2, Going DEF HistInv
  <2>4. Unanswered(c)' /\ SourceKnown(c)' /\ (w = "comparing" => Chained(c)')
    BY <1>1, <1>5, <2>1, <2>3 DEF Unanswered, SourceKnown, Chained
  <2>5. Found(k)'
    BY <1>1, <2>1, <2>3, <2>4 DEF Found
  <2> QED
    BY <1>1, <1>2, <1>5, <2>1, <2>2, <2>5, UnderWay, GoneSettled
<1> QED
  BY <1>3, <1>4, <1>5 DEF ReadImports

LEMMA PriorStep ==
  ASSUME HistInv, NEW k \in Calls, LockPrior(k)
  PROVE  HistInv'
<1> DEFINE c == calls[k].command
<1>1. calls[k].at = "chaining" /\ UNCHANGED <<sources, imports, members, answers>>
  BY DEF LockPrior
<1>2. Running(k) /\ calls[k].at \in Inside /\ calls[k].at \in Inside \ {"queued"}
  BY <1>1 DEF Running, Inside
<1>3. CASE \E i \in imports : i.id = c.prior /\ Revisable(i, c)
  <2>1. Go(k, "comparing")
    BY <1>3 DEF LockPrior
  <2>2. calls'[k].at = "comparing" /\ calls'[k].command = c
    BY <2>1, Going DEF HistInv, Inside
  <2>3. c.op = "selection" /\ Unanswered(c) /\ SourceKnown(c)
    BY <1>1, <1>2, UnderWay DEF Found
  <2>4. Unanswered(c)' /\ SourceKnown(c)' /\ Chained(c)'
    BY <1>1, <1>3, <2>2, <2>3 DEF Unanswered, SourceKnown, Chained, Revisable
  <2>5. Found(k)'
    BY <2>2, <2>3, <2>4 DEF Found
  <2> QED
    BY <1>1, <1>2, <2>1, <2>5, UnderWay, GoneSettled DEF Inside
<1>4. CASE ~\E i \in imports : i.id = c.prior /\ Revisable(i, c)
  BY <1>1, <1>4, LeftSettled DEF LockPrior
<1> QED
  BY <1>3, <1>4

LEMMA CompareStep ==
  ASSUME HistInv, NEW k \in Calls, Compare(k)
  PROVE  HistInv'
<1> DEFINE c == calls[k].command
<1>1. calls[k].at = "comparing" /\ UNCHANGED <<sources, imports, members, answers>>
  BY DEF Compare
<1>2. Running(k) /\ calls[k].at \in Inside /\ calls[k].at \in Inside \ {"queued"}
  BY <1>1 DEF Running, Inside
<1>3. CASE \E i \in imports : SameSelection(i, c)
  BY <1>1, <1>3, LeftSettled DEF Compare
<1>4. CASE ~\E i \in imports : SameSelection(i, c)
  <2>1. Go(k, "writing")
    BY <1>4 DEF Compare
  <2>2. calls'[k].at = "writing" /\ calls'[k].command = c
    BY <2>1, Going DEF HistInv, Inside
  <2>3. c.op = "selection" /\ Unanswered(c) /\ SourceKnown(c) /\ Chained(c)
    BY <1>1, <1>2, UnderWay DEF Found
  <2>4. Unanswered(c)' /\ SourceKnown(c)' /\ Chained(c)' /\ Novel(c)'
    BY <1>1, <1>4, <2>2, <2>3 DEF Unanswered, SourceKnown, Chained, Revisable, Novel,
      SameSelection
  <2>5. Found(k)'
    BY <2>2, <2>3, <2>4 DEF Found
  <2> QED
    BY <1>1, <1>2, <2>1, <2>5, UnderWay, GoneSettled DEF Inside
<1> QED
  BY <1>3, <1>4

------------------------------------------------------------------------------
(* The writes.                                                             *)

(* What another capture read is not disturbed by a source of this one.     *)
LEMMA SourceBeside ==
  ASSUME HistInv, NEW k \in Calls, NEW l \in Calls \ {k}, WriteSource(k),
         calls'[l] = calls[l]
  PROVE  Mine(l)'
<1> DEFINE c   == calls[k].command
           d   == calls[l].command
           new == [id |-> calls[k].id, project |-> c.project, content |-> c.content,
                   hash |-> c, recordedBy |-> calls[k].actor]
<1>1. /\ calls[k].at = "writing" /\ c.op = "source"
      /\ sources' = sources \cup {new}
      /\ UNCHANGED <<imports, members>>
  BY DEF WriteSource
<1>2. /\ new.id = calls[k].id /\ new.project = c.project /\ new.hash = c
  OBVIOUS
<1> HIDE DEF new
<1>3. Mine(l) /\ Apart(k, l) /\ Running(k) /\ calls[k].at \in Inside \ {"queued"}
  BY <1>1 DEF HistInv, CallsInv, Running, Inside
<1>4. Running(l) => Fresh(l)'
  BY <1>1, <1>2, <1>3 DEF Mine, Fresh, Apart
<1>5. SourceKnown(d) => SourceKnown(d)'
  BY <1>1 DEF SourceKnown
<1>6. Chained(d) => Chained(d)'
  BY <1>1 DEF Chained, Revisable
<1>7. calls[l].at \in Inside \ {"queued"} /\ Unanswered(d) => Unanswered(d)'
  BY <1>1, <1>2, <1>3 DEF Unanswered, Apart
<1>8. calls[l].at \in Inside /\ Novel(d) => Novel(d)'
  BY <1>1, <1>2, <1>3 DEF Novel, Apart, SameDocument, SameSelection
<1>9. Found(l)'
  <2>1. d' = d
    OBVIOUS
  <2> QED
    BY <1>3, <1>5, <1>6, <1>7, <1>8, <2>1 DEF Found, Mine, Inside
<1> QED
  BY <1>1, <1>3, <1>4, <1>9 DEF Mine, Running

LEMMA SourceStep ==
  ASSUME HistInv, NEW k \in Calls, WriteSource(k)
  PROVE  HistInv'
<1> DEFINE c   == calls[k].command
           new == [id |-> calls[k].id, project |-> c.project, content |-> c.content,
                   hash |-> c, recordedBy |-> calls[k].actor]
           ans == [command |-> c, result |-> calls[k].id]
<1>1. /\ calls[k].at = "writing" /\ c.op = "source"
      /\ sources' = sources \cup {new} /\ answers' = answers \cup {ans} /\ Leave(k)
      /\ UNCHANGED <<imports, members>>
  BY DEF WriteSource, Answer
<1>2. Running(k)
  BY <1>1 DEF Running
<1>3. c \in SourceCommand /\ c.project \in Projects /\ c.content \in Contents
  BY <1>1, <1>2, UnderWay, Kinds DEF SourceCommand
<1>4. /\ new \in SourceRow /\ new.id = calls[k].id /\ new.project = c.project
      /\ new.hash = c
  BY <1>2, <1>3, UnderWay DEF SourceRow
<1>5. /\ ans \in [command : Command, result : Ids]
      /\ ans.command = c /\ ans.result = calls[k].id
  BY <1>2, UnderWay
<1>6. Unanswered(c)
  BY <1>1, <1>2, UnderWay DEF Found
<1> HIDE DEF new, ans
<1>7. /\ calls' \in [Calls -> Call] /\ calls'[k].at = "idle"
      /\ \A l \in Calls \ {k} : calls'[l] = calls[l]
  BY <1>1, Leaving DEF HistInv
<1>8. HistoryTypeOK'
  BY <1>1, <1>4, <1>5, <1>7 DEF HistInv, HistoryTypeOK
<1>9. CallsInv'
  <2>1. Mine(k)'
    BY <1>7 DEF Mine, Running, Found, Inside
  <2>2. ASSUME NEW l \in Calls PROVE Mine(l)'
    BY <1>7, <2>1, SourceBeside
  <2>3. ASSUME NEW l \in Calls, NEW m \in Calls, l # m PROVE Apart(l, m)'
    <3>1. Apart(l, m)
      BY <2>3 DEF HistInv, CallsInv
    <3> QED
      BY <1>7, <3>1 DEF Apart, Running, Inside
  <2> QED
    BY <2>2, <2>3 DEF CallsInv
<1>10. Rows'
  <2>1. \A s, t \in sources' : s.hash.request = t.hash.request => s = t
    BY <1>1, <1>4, <1>6 DEF HistInv, Rows, Unanswered
  <2>2. RevisionsLinear'
    BY <1>1 DEF HistInv, Rows, RevisionsLinear
  <2> QED
    BY <1>1, <2>1, <2>2 DEF HistInv, Rows
<1>11. \A a \in answers' : Backed(a)'
  BY <1>1, <1>4, <1>5 DEF HistInv, Backed
<1> QED
  BY <1>8, <1>9, <1>10, <1>11 DEF HistInv

(* What another capture read is not disturbed by a selection of this one.  *)
LEMMA SelectionBeside ==
  ASSUME HistInv, NEW k \in Calls, NEW l \in Calls \ {k}, WriteSelection(k),
         calls'[l] = calls[l]
  PROVE  Mine(l)'
<1> DEFINE c   == calls[k].command
           d   == calls[l].command
           new == [id |-> calls[k].id, project |-> c.project, source |-> c.source,
                   choice |-> c.choice, prior |-> c.prior, revision |-> c.expected + 1,
                   hash |-> c, recordedBy |-> calls[k].actor]
<1>1. /\ calls[k].at = "writing" /\ c.op = "selection"
      /\ imports' = imports \cup {new}
      /\ UNCHANGED <<sources, members>>
  BY DEF WriteSelection
<1>2. /\ new.id = calls[k].id /\ new.project = c.project /\ new.hash = c
      /\ new.prior = c.prior
  OBVIOUS
<1> HIDE DEF new
<1>3. Mine(l) /\ Apart(k, l) /\ Running(k) /\ calls[k].at \in Inside \ {"queued"}
  BY <1>1 DEF HistInv, CallsInv, Running, Inside
<1>4. Running(l) => Fresh(l)'
  BY <1>1, <1>2, <1>3 DEF Mine, Fresh, Apart
<1>5. SourceKnown(d) => SourceKnown(d)'
  BY <1>1 DEF SourceKnown
<1>6. calls[l].at \in Inside /\ Chained(d) => Chained(d)'
  <2> SUFFICES ASSUME calls[l].at \in Inside, Chained(d), d.prior # None
               PROVE  \E i \in imports' : i.id = d.prior /\ Revisable(i, d)'
    BY DEF Chained
  <2>1. PICK i \in imports : i.id = d.prior /\ Revisable(i, d)
    BY DEF Chained
  <2>2. i.project = d.project /\ i.id # None
    BY <2>1 DEF Revisable
  <2>3. c.prior # i.id
    <3> SUFFICES ASSUME c.prior = i.id PROVE FALSE
      OBVIOUS
    <3>1. Chained(c)
      BY <1>1, <1>3, UnderWay DEF Found
    <3>2. PICK j \in imports : j.id = c.prior /\ Revisable(j, c)
      BY <2>2, <3>1 DEF Chained
    <3>3. j = i /\ j.project = c.project
      BY <3>2 DEF HistInv, Rows, Revisable
    <3> QED
      BY <1>3, <2>2, <3>3 DEF Apart
  <2>4. Revisable(i, d)'
    BY <1>1, <1>2, <2>1, <2>3 DEF Revisable
  <2> QED
    BY <1>1, <2>1, <2>4
<1>7. calls[l].at \in Inside \ {"queued"} /\ Unanswered(d) => Unanswered(d)'
  BY <1>1, <1>2, <1>3, Kinds, UnderWay DEF Unanswered, Apart, Running, Inside
<1>8. calls[l].at \in Inside /\ Novel(d) => Novel(d)'
  BY <1>1, <1>2, <1>3 DEF Novel, Apart, SameDocument, SameSelection
<1>9. Found(l)'
  <2>1. d' = d
    OBVIOUS
  <2> QED
    BY <1>3, <1>5, <1>6, <1>7, <1>8, <2>1 DEF Found, Mine, Inside
<1> QED
  BY <1>1, <1>3, <1>4, <1>9 DEF Mine, Running

(* The rows of the table with one more.                                    *)
LEMMA SelectionRows ==
  ASSUME HistInv, NEW k \in Calls, WriteSelection(k)
  PROVE  Rows'
<1> DEFINE c   == calls[k].command
           new == [id |-> calls[k].id, project |-> c.project, source |-> c.source,
                   choice |-> c.choice, prior |-> c.prior, revision |-> c.expected + 1,
                   hash |-> c, recordedBy |-> calls[k].actor]
<1>1. /\ calls[k].at = "writing" /\ c.op = "selection"
      /\ imports' = imports \cup {new} /\ UNCHANGED sources
  BY DEF WriteSelection
<1>2. Running(k)
  BY <1>1 DEF Running
<1>3. /\ new.id = calls[k].id /\ new.project = c.project /\ new.hash = c
      /\ new.prior = c.prior /\ new.source = c.source /\ new.revision = c.expected + 1
  OBVIOUS
<1> HIDE DEF new
<1>4. Unanswered(c) /\ SourceKnown(c) /\ Chained(c) /\ Fresh(k)
  BY <1>1, <1>2, UnderWay DEF Found
<1>5. \A i, j \in imports' : i.id = j.id => i = j
  BY <1>1, <1>3, <1>4 DEF HistInv, Rows, Fresh
<1>6. \A i, j \in imports' : i.hash.request = j.hash.request => i = j
  BY <1>1, <1>3, <1>4 DEF HistInv, Rows, Unanswered
<1>7. ASSUME NEW i \in imports', NEW j \in imports', i.prior # None, j.prior = i.prior
      PROVE  j = i
  <2>1. ASSUME NEW h \in imports, c.prior # None PROVE h.prior # c.prior
    BY <1>4, <2>1 DEF Chained, Revisable
  <2>2. CASE i \in imports /\ j \in imports
    BY <1>7, <2>2 DEF HistInv, Rows, RevisionsLinear
  <2>3. CASE i = new \/ j = new
    BY <1>1, <1>3, <1>7, <2>1, <2>3
  <2> QED
    BY <1>1, <2>2, <2>3
<1>8. ASSUME NEW i \in imports PROVE
        /\ \E s \in sources : s.id = i.source /\ s.project = i.project
        /\ i.prior = None => i.revision = 1
        /\ i.prior # None =>
             \E p \in imports' : /\ p.id = i.prior /\ p.revision + 1 = i.revision
                                 /\ p.source = i.source /\ p.project = i.project
  BY <1>1 DEF HistInv, Rows, RevisionsLinear
<1>9. /\ \E s \in sources : s.id = new.source /\ s.project = new.project
      /\ new.prior = None => new.revision = 1
      /\ new.prior # None =>
           \E p \in imports' : /\ p.id = new.prior /\ p.revision + 1 = new.revision
                               /\ p.source = new.source /\ p.project = new.project
  <2>1. c \in Commands
    BY <1>2, UnderWay
  <2>2. new.prior = None => new.revision = 1
    <3>1. new.prior = None => c.expected = 0
      BY <1>1, <1>3, <2>1, CaptureAssumption
    <3> QED
      BY <1>3, <3>1
  <2>3. new.prior # None =>
           \E p \in imports : /\ p.id = new.prior /\ p.revision + 1 = new.revision
                              /\ p.source = new.source /\ p.project = new.project
    BY <1>3, <1>4 DEF Chained, Revisable
  <2> QED
    BY <1>1, <1>3, <1>4, <2>2, <2>3 DEF SourceKnown
<1>10. RevisionsLinear'
  BY <1>1, <1>7, <1>8, <1>9 DEF RevisionsLinear
<1> QED
  BY <1>1, <1>5, <1>6, <1>10 DEF HistInv, Rows

LEMMA SelectionStep ==
  ASSUME HistInv, NEW k \in Calls, WriteSelection(k)
  PROVE  HistInv'
<1> DEFINE c   == calls[k].command
           new == [id |-> calls[k].id, project |-> c.project, source |-> c.source,
                   choice |-> c.choice, prior |-> c.prior, revision |-> c.expected + 1,
                   hash |-> c, recordedBy |-> calls[k].actor]
           ans == [command |-> c, result |-> calls[k].id]
<1>1. /\ calls[k].at = "writing" /\ c.op = "selection"
      /\ imports' = imports \cup {new} /\ answers' = answers \cup {ans} /\ Leave(k)
      /\ UNCHANGED <<sources, members>>
  BY DEF WriteSelection, Answer
<1>2. Running(k)
  BY <1>1 DEF Running
<1>3. c \in SelectionCommand
  BY <1>1, <1>2, UnderWay, Kinds
<1>4. /\ new \in ImportRow /\ new.id = calls[k].id /\ new.project = c.project
      /\ new.hash = c
  <2>1. /\ c.project \in Projects /\ c.source \in Ids /\ c.choice \in Choices
        /\ c.prior \in Ids \cup {None} /\ c.expected \in Nat
    BY <1>3 DEF SelectionCommand
  <2>2. c.expected + 1 \in Nat \ {0}
    BY <2>1
  <2>3. calls[k].id \in Ids /\ calls[k].actor \in Actors
    BY <1>2, UnderWay
  <2> QED
    BY <1>3, <2>1, <2>2, <2>3 DEF ImportRow
<1>5. /\ ans \in [command : Command, result : Ids]
      /\ ans.command = c /\ ans.result = calls[k].id
  BY <1>2, UnderWay
<1> HIDE DEF new, ans
<1>6. /\ calls' \in [Calls -> Call] /\ calls'[k].at = "idle"
      /\ \A l \in Calls \ {k} : calls'[l] = calls[l]
  BY <1>1, Leaving DEF HistInv
<1>7. HistoryTypeOK'
  BY <1>1, <1>4, <1>5, <1>6 DEF HistInv, HistoryTypeOK
<1>8. CallsInv'
  <2>1. Mine(k)'
    BY <1>6 DEF Mine, Running, Found, Inside
  <2>2. ASSUME NEW l \in Calls PROVE Mine(l)'
    BY <1>6, <2>1, SelectionBeside
  <2>3. ASSUME NEW l \in Calls, NEW m \in Calls, l # m PROVE Apart(l, m)'
    <3>1. Apart(l, m)
      BY <2>3 DEF HistInv, CallsInv
    <3> QED
      BY <1>6, <3>1 DEF Apart, Running, Inside
  <2> QED
    BY <2>2, <2>3 DEF CallsInv
<1>9. \A a \in answers' : Backed(a)'
  BY <1>1, <1>4, <1>5 DEF HistInv, Backed
<1> QED
  BY <1>7, <1>8, <1>9, SelectionRows DEF HistInv

------------------------------------------------------------------------------
(* Access changes beside the captures.                                     *)
LEMMA MembersStep ==
  ASSUME HistInv, members' \subseteq Actors \X Projects,
         UNCHANGED <<sources, imports, calls, answers>>,
         \A k \in Calls : calls[k].at \in Inside =>
           <<calls[k].actor, calls[k].command.project>> \in members'
  PROVE  HistInv'
<1>1. HistoryTypeOK' /\ Rows' /\ \A a \in answers' : Backed(a)'
  BY DEF HistInv, HistoryTypeOK, Rows, RevisionsLinear, Backed
<1>2. ASSUME NEW k \in Calls PROVE Mine(k)'
  <2>1. Mine(k)
    BY DEF HistInv, CallsInv
  <2> QED
    BY <2>1 DEF Mine, Running, Fresh, Found, Unanswered, SourceKnown, Chained, Revisable,
      Novel, SameDocument, SameSelection
<1>3. ASSUME NEW k \in Calls, NEW l \in Calls, k # l PROVE Apart(k, l)'
  BY <1>3 DEF HistInv, CallsInv, Apart, Running
<1> QED
  BY <1>1, <1>2, <1>3 DEF HistInv, CallsInv

LEMMA HistInit == Init => HistInv
<1> SUFFICES ASSUME Init PROVE HistInv
  OBVIOUS
<1>1. \A k \in Calls : calls[k] = Idle
  BY DEF Init
<1>2. Idle \in Call /\ Idle.at = "idle"
  BY DEF Idle, Call
<1>3. HistoryTypeOK
  BY <1>2 DEF Init, HistoryTypeOK
<1>4. CallsInv
  BY <1>1, <1>2 DEF CallsInv, Mine, Apart, Running, Found, Inside
<1>5. Rows /\ \A a \in answers : Backed(a)
  BY DEF Init, Rows, RevisionsLinear
<1> QED
  BY <1>3, <1>4, <1>5 DEF HistInv

LEMMA HistNext == HistInv /\ [Next]_vars => HistInv'
<1> SUFFICES ASSUME HistInv, [Next]_vars PROVE HistInv'
  OBVIOUS
<1>1. ASSUME NEW k \in Calls, NEW c \in Commands, NEW a \in Actors, Begin(k, c, a)
      PROVE  HistInv'
  BY <1>1, BeginStep
<1>2. ASSUME NEW k \in Calls, Step(k) PROVE HistInv'
  BY <1>2, ContextStep, OperationStep, SourcesStep, ImportsStep, PriorStep, CompareStep,
    SourceStep, SelectionStep DEF Step
<1>3. ASSUME NEW k \in Calls, Abort(k) PROVE HistInv'
  BY <1>3, LeftSettled DEF Abort
<1>4. ASSUME NEW a \in Actors, NEW p \in Projects, Grant(a, p) PROVE HistInv'
  <2>1. \A k \in Calls : calls[k].at \in Inside =>
          <<calls[k].actor, calls[k].command.project>> \in members
    BY DEF HistInv, CallsInv, Mine
  <2> QED
    BY <1>4, <2>1, MembersStep DEF Grant, HistInv, HistoryTypeOK
<1>5. ASSUME NEW a \in Actors, NEW p \in Projects, Revoke(a, p) PROVE HistInv'
  <2>1. \A k \in Calls : calls[k].at \in Inside =>
          <<calls[k].actor, calls[k].command.project>> \in members'
    BY <1>5 DEF HistInv, CallsInv, Mine, Revoke, GrantHeld
  <2> QED
    BY <1>5, <2>1, MembersStep DEF Revoke, HistInv, HistoryTypeOK
<1>6. CASE UNCHANGED vars
  <2>1. \A k \in Calls : calls[k].at \in Inside =>
          <<calls[k].actor, calls[k].command.project>> \in members
    BY DEF HistInv, CallsInv, Mine
  <2> QED
    BY <1>6, <2>1, MembersStep DEF vars, HistInv, HistoryTypeOK
<1> QED
  BY <1>1, <1>2, <1>3, <1>4, <1>5, <1>6 DEF Next

------------------------------------------------------------------------------
(* The theorems.                                                           *)

LEMMA HistAlways == Spec => []HistInv
BY HistInit, HistNext, PTL DEF Spec

(* Every reachable state of rows, captures and answers is well typed.      *)
THEOREM CaptureTyping == Spec => []HistoryTypeOK
<1>1. HistInv => HistoryTypeOK
  BY DEF HistInv
<1> QED
  BY <1>1, HistAlways, PTL

(* A request id is one submission for good: whoever repeats it is answered *)
(* with the row it made, and another submission under it is refused.       *)
THEOREM OneCapture == Spec => []RequestsBindOneCapture
<1>1. HistInv => RequestsBindOneCapture
  <2> SUFFICES ASSUME HistInv, NEW a \in answers, NEW b \in answers,
                      a.command.op = b.command.op, a.command.request = b.command.request
               PROVE  a = b
    BY DEF RequestsBindOneCapture
  <2>1. /\ a \in [command : Command, result : Ids]
        /\ b \in [command : Command, result : Ids]
        /\ Backed(a) /\ Backed(b)
    BY DEF HistInv, HistoryTypeOK
  <2>2. CASE a.command.op = "source"
    <3>1. PICK s \in sources : s.id = a.result /\ s.hash = a.command
      BY <2>1, <2>2 DEF Backed
    <3>2. PICK t \in sources : t.id = b.result /\ t.hash = b.command
      BY <2>1, <2>2 DEF Backed
    <3>3. s = t
      BY <3>1, <3>2 DEF HistInv, Rows
    <3> QED
      BY <2>1, <3>1, <3>2, <3>3
  <2>3. CASE a.command.op # "source"
    <3>1. PICK i \in imports : i.id = a.result /\ i.hash = a.command
      BY <2>1, <2>3 DEF Backed
    <3>2. PICK j \in imports : j.id = b.result /\ j.hash = b.command
      BY <2>1, <2>3 DEF Backed
    <3>3. i = j
      BY <3>1, <3>2 DEF HistInv, Rows
    <3> QED
      BY <2>1, <3>1, <3>2, <3>3
  <2> QED
    BY <2>2, <2>3
<1> QED
  BY <1>1, HistAlways, PTL

(* Revisions are chains, whatever captures revise one row at once.         *)
THEOREM Revisions == Spec => []RevisionsLinear
<1>1. HistInv => RevisionsLinear
  BY DEF HistInv, Rows
<1> QED
  BY <1>1, HistAlways, PTL

(* A capture that is about to write violates no unique index: what it read *)
(* under its locks still holds.                                            *)
THEOREM Indexes == Spec => []IndexesNeverFire
<1>1. HistInv => IndexesNeverFire
  <2> SUFFICES ASSUME HistInv, NEW k \in Calls, calls[k].at = "writing"
               PROVE  Unique(calls[k].command)
    BY DEF IndexesNeverFire
  <2> DEFINE c == calls[k].command
  <2>1. /\ Unanswered(c) /\ Novel(c) /\ (c.op = "selection" => Chained(c))
        /\ c.op \in {"source", "selection"}
    BY UnderWay, Kinds DEF Running, Found
  <2>2. CASE c.op = "source"
    BY <2>1, <2>2 DEF Unanswered, Novel, Unique
  <2>3. CASE c.op = "selection"
    <3>1. ASSUME NEW i \in imports, c.prior # None PROVE i.prior # c.prior
      BY <2>1, <2>3, <3>1 DEF Chained, Revisable
    <3> QED
      BY <2>1, <2>3, <3>1 DEF Unanswered, Novel, Unique
  <2> QED
    BY <2>1, <2>2, <2>3
<1> QED
  BY <1>1, HistAlways, PTL

(* Rows are recorded under the authority of the moment they are recorded.  *)
THEOREM UnderAuthority == Spec => CapturedUnderAuthority
<1> DEFINE Authorized ==
      \A row \in (sources' \cup imports') \ (sources \cup imports) :
        <<row.recordedBy, row.project>> \in members
<1>1. HistInv /\ [Next]_vars => [Authorized]_vars
  <2> SUFFICES ASSUME HistInv, Next PROVE Authorized
    OBVIOUS
  <2>1. ASSUME NEW k \in Calls, WriteSource(k) PROVE Authorized
    <3>1. calls[k].at \in Inside /\ Running(k)
      BY <2>1 DEF WriteSource, Inside, Running
    <3>2. <<calls[k].actor, calls[k].command.project>> \in members
      BY <3>1, UnderWay
    <3> QED
      BY <2>1, <3>2 DEF WriteSource
  <2>2. ASSUME NEW k \in Calls, WriteSelection(k) PROVE Authorized
    <3>1. calls[k].at \in Inside /\ Running(k)
      BY <2>2 DEF WriteSelection, Inside, Running
    <3>2. <<calls[k].actor, calls[k].command.project>> \in members
      BY <3>1, UnderWay
    <3> QED
      BY <2>2, <3>2 DEF WriteSelection
  <2>3. CASE UNCHANGED <<sources, imports>>
    BY <2>3
  <2> QED
    BY <2>1, <2>2, <2>3 DEF Next, Step, Begin, LockContext, OperationLock, ReadSources,
      ReadImports, LockPrior, Compare, Abort, Grant, Revoke
<1> QED
  BY <1>1, HistAlways, PTL DEF Spec, CapturedUnderAuthority
------------------------------------------------------------------------------
(* Captures one after another.                                             *)

(* What a row says is what its submission said.                            *)
Spelled ==
  /\ \A s \in sources : s.project = s.hash.project /\ s.content = s.hash.content
  /\ \A i \in imports :
       /\ i.project = i.hash.project /\ i.source = i.hash.source
       /\ i.choice = i.hash.choice /\ i.prior = i.hash.prior
       /\ i.revision = i.hash.expected + 1

LEMMA SpelledStep == Spelled /\ [Next]_vars => Spelled'
<1> SUFFICES ASSUME Spelled, [Next]_vars PROVE Spelled'
  OBVIOUS
<1>1. ASSUME NEW k \in Calls, WriteSource(k) PROVE Spelled'
  <2>1. PICK new :
          /\ new = [id |-> calls[k].id, project |-> calls[k].command.project,
                    content |-> calls[k].command.content, hash |-> calls[k].command,
                    recordedBy |-> calls[k].actor]
          /\ sources' = sources \cup {new} /\ UNCHANGED imports
    BY <1>1 DEF WriteSource
  <2>2. new.project = new.hash.project /\ new.content = new.hash.content
    BY <2>1
  <2> QED
    BY <2>1, <2>2 DEF Spelled
<1>2. ASSUME NEW k \in Calls, WriteSelection(k) PROVE Spelled'
  <2> DEFINE c == calls[k].command
  <2>1. PICK new :
          /\ new = [id |-> calls[k].id, project |-> c.project, source |-> c.source,
                    choice |-> c.choice, prior |-> c.prior, revision |-> c.expected + 1,
                    hash |-> c, recordedBy |-> calls[k].actor]
          /\ imports' = imports \cup {new} /\ UNCHANGED sources
    BY <1>2 DEF WriteSelection
  <2>2. /\ new.project = new.hash.project /\ new.source = new.hash.source
        /\ new.choice = new.hash.choice /\ new.prior = new.hash.prior
        /\ new.revision = new.hash.expected + 1
    BY <2>1
  <2> QED
    BY <2>1, <2>2 DEF Spelled
<1>3. CASE UNCHANGED <<sources, imports>>
  BY <1>3 DEF Spelled
<1> QED
  BY <1>1, <1>2, <1>3 DEF Next, Step, Begin, LockContext, OperationLock, ReadSources,
    ReadImports, LockPrior, Compare, Abort, Grant, Revoke, vars

(* The records of the archive by their kind.                               *)
LEMMA Kept ==
  ASSUME HistInv
  PROVE  /\ Archive!Recorded("source") = {Record(s) : s \in sources}
         /\ Archive!Recorded("selection") = {Record(i) : i \in imports}
<1>1. /\ \A s \in sources : Record(s).command.op = "source"
      /\ \A i \in imports : Record(i).command.op = "selection"
  BY DEF HistInv, HistoryTypeOK, SourceRow, ImportRow, SourceCommand, SelectionCommand, Record
<1> QED
  BY <1>1 DEF Archive!Recorded

(* A capture about to write finds the archive as it needs it.              *)
LEMMA Due ==
  ASSUME HistInv, Spelled, NEW k \in Calls, calls[k].at = "writing", NEW c,
         c = calls[k].command
  PROVE  /\ <<calls[k].actor, c.project>> \in members
         /\ \A r \in Archive!Recorded(c.op) : r.command.request # c.request
         /\ ~Archive!Repeats(c) /\ Archive!Founded(c)
         /\ \A row \in sources \cup imports : Record(row).id # calls[k].id
<1>1. /\ Unanswered(c) /\ Novel(c) /\ (c.op = "selection" => SourceKnown(c) /\ Chained(c))
      /\ c.op \in {"source", "selection"} /\ <<calls[k].actor, c.project>> \in members
      /\ Fresh(k)
  BY UnderWay, Kinds DEF Running, Found, Inside
<1>2. \A row \in sources \cup imports :
        /\ Record(row).id = row.id /\ Record(row).command = row.hash
  BY DEF Record
<1>3. \A r \in Archive!Recorded(c.op) : r.command.request # c.request
  BY <1>1, <1>2, Kept DEF Unanswered
<1>4. ~Archive!Repeats(c)
  <2>1. CASE c.op = "source"
    BY <1>1, <1>2, <2>1, Kept DEF Novel, SameDocument, Spelled, Archive!Repeats
  <2>2. CASE c.op = "selection"
    BY <1>1, <1>2, <2>2, Kept DEF Novel, SameSelection, Spelled, Archive!Repeats
  <2> QED
    BY <1>1, <2>1, <2>2
<1>5. Archive!Founded(c)
  <2> SUFFICES ASSUME c.op = "selection" PROVE Archive!Founded(c)
    BY DEF Archive!Founded
  <2>1. \E r \in Archive!Recorded("source") : r.id = c.source /\ r.command.project = c.project
    BY <1>1, <1>2, Kept DEF SourceKnown, Spelled
  <2>2. ASSUME c.prior # None
        PROVE  /\ \E r \in Archive!Recorded("selection") :
                    /\ r.id = c.prior
                    /\ r.command.project = c.project /\ r.command.source = c.source
                    /\ r.command.expected + 1 = c.expected
               /\ \A r \in Archive!Recorded("selection") : r.command.prior # c.prior
    <3>1. PICK i \in imports : i.id = c.prior /\ Revisable(i, c)
      BY <1>1, <2>2 DEF Chained
    <3>2. /\ Record(i) \in Archive!Recorded("selection")
          /\ i.hash.project = c.project /\ i.hash.source = c.source
          /\ i.hash.expected + 1 = c.expected
      BY <3>1, Kept DEF Revisable, Spelled
    <3>3. \A j \in imports : j.hash.prior # c.prior
      BY <3>1 DEF Revisable, Spelled
    <3> QED
      BY <1>2, <3>1, <3>2, <3>3, Kept
  <2> QED
    BY <2>1, <2>2 DEF Archive!Founded
<1>6. \A row \in sources \cup imports : Record(row).id # calls[k].id
  BY <1>1, <1>2 DEF Fresh
<1> QED
  BY <1>1, <1>3, <1>4, <1>5, <1>6

(* A row that is written is a submission captured.                         *)
LEMMA Captured ==
  ASSUME HistInv, Spelled, NEW k \in Calls, WriteSource(k) \/ WriteSelection(k)
  PROVE  Archive!Next
<1>1. PICK c, a, i : c = calls[k].command /\ a = calls[k].actor /\ i = calls[k].id
  OBVIOUS
<1>2. calls[k].at = "writing" /\ UNCHANGED members
      /\ answers' = answers \cup {[command |-> c, result |-> i]}
  BY <1>1 DEF WriteSource, WriteSelection, Answer
<1>3. PICK row : /\ Record(row) = [id |-> i, command |-> c, by |-> a]
                 /\ sources' \cup imports' = (sources \cup imports) \cup {row}
  <2>1. CASE WriteSource(k)
    <3>1. PICK new : /\ new = [id |-> i, project |-> c.project, content |-> c.content,
                               hash |-> c, recordedBy |-> a]
                     /\ sources' = sources \cup {new} /\ UNCHANGED imports
      BY <1>1, <2>1 DEF WriteSource
    <3>2. Record(new) = [id |-> i, command |-> c, by |-> a]
      BY <3>1 DEF Record
    <3> QED
      BY <3>1, <3>2
  <2>2. CASE WriteSelection(k)
    <3>1. PICK new : /\ new = [id |-> i, project |-> c.project, source |-> c.source,
                               choice |-> c.choice, prior |-> c.prior,
                               revision |-> c.expected + 1, hash |-> c, recordedBy |-> a]
                     /\ imports' = imports \cup {new} /\ UNCHANGED sources
      BY <1>1, <2>2 DEF WriteSelection
    <3>2. Record(new) = [id |-> i, command |-> c, by |-> a]
      BY <3>1 DEF Record
    <3> QED
      BY <3>1, <3>2
  <2> QED
    BY <2>1, <2>2
<1>4. {Record(r) : r \in sources' \cup imports'}
        = {Record(r) : r \in sources \cup imports} \cup {[id |-> i, command |-> c, by |-> a]}
  BY <1>3
<1>5. c \in Commands /\ a \in Actors /\ i \in Ids
  BY <1>1, <1>2, UnderWay DEF Running
<1>6. Archive!Capture(c, a)
  <2>1. /\ <<a, c.project>> \in members
        /\ \A r \in Archive!Recorded(c.op) : r.command.request # c.request
        /\ ~Archive!Repeats(c) /\ Archive!Founded(c)
        /\ \A r \in {Record(x) : x \in sources \cup imports} : r.id # i
    BY <1>1, <1>2, Due
  <2> QED
    BY <1>2, <1>4, <1>5, <2>1 DEF Archive!Capture, Archive!Answer, Record
<1> QED
  BY <1>5, <1>6 DEF Archive!Next

(* A request that is answered from its row is answered again.              *)
LEMMA AnsweredAgain ==
  ASSUME HistInv, NEW k \in Calls, NEW known \in sources \cup imports,
         calls[k].at \in Inside, Replay(k, known), UNCHANGED <<sources, imports, members>>
  PROVE  [Archive!Next]_Archive!vars
<1>1. CASE known.hash # calls[k].command
  BY <1>1 DEF Replay, Archive!vars, Record
<1>2. CASE known.hash = calls[k].command
  <2>1. Running(k)
    BY DEF Running, Inside
  <2>2. /\ calls[k].command \in Commands /\ calls[k].actor \in Actors
        /\ <<calls[k].actor, calls[k].command.project>> \in members
    BY <2>1, UnderWay
  <2>3. answers' = answers \cup {[command |-> calls[k].command, result |-> known.id]}
    BY <1>2 DEF Replay, Answer
  <2>4. Record(known).command = calls[k].command /\ Record(known).id = known.id
    BY <1>2 DEF Record
  <2>5. Archive!AnswerAgain(calls[k].command, calls[k].actor)
    BY <2>2, <2>3, <2>4 DEF Archive!AnswerAgain, Archive!Answer, Record
  <2> QED
    BY <2>2, <2>5 DEF Archive!Next
<1> QED
  BY <1>1, <1>2

LEMMA ArchiveStep == HistInv /\ Spelled /\ [Next]_vars => [Archive!Next]_Archive!vars
<1> SUFFICES ASSUME HistInv, Spelled, [Next]_vars PROVE [Archive!Next]_Archive!vars
  OBVIOUS
<1>1. ASSUME UNCHANGED <<sources, imports, members, answers>> PROVE [Archive!Next]_Archive!vars
  BY <1>1 DEF Archive!vars, Record
<1>2. ASSUME NEW k \in Calls, ReadSources(k) \/ ReadImports(k) PROVE [Archive!Next]_Archive!vars
  <2>1. /\ calls[k].at \in Inside /\ UNCHANGED <<sources, imports, members>>
        /\ UNCHANGED answers \/ \E known \in sources \cup imports : Replay(k, known)
    BY <1>2 DEF ReadSources, ReadImports, Inside
  <2> QED
    BY <1>1, <2>1, AnsweredAgain
<1>3. ASSUME NEW k \in Calls, WriteSource(k) \/ WriteSelection(k) PROVE [Archive!Next]_Archive!vars
  BY <1>3, Captured
<1>4. ASSUME NEW a \in Actors, NEW p \in Projects, Grant(a, p) \/ Revoke(a, p)
      PROVE  [Archive!Next]_Archive!vars
  <2>1. members' \in SUBSET (Actors \X Projects) /\ UNCHANGED <<sources, imports, answers>>
    BY <1>4 DEF Grant, Revoke, HistInv, HistoryTypeOK
  <2> QED
    BY <2>1 DEF Archive!Next, Archive!ChangeAccess, Record
<1> QED
  BY <1>1, <1>2, <1>3, <1>4 DEF Next, Step, Begin, LockContext, OperationLock, LockPrior,
    Compare, Abort, vars

(* Captures that overlap are as good as captures one after another: what a *)
(* capture relies on when it writes or answers holds at that moment.       *)
THEOREM OneByOne == Spec => ImplementsArchive
<1>1. Init => Spelled /\ Archive!Init
  BY DEF Init, Spelled, Archive!Init
<1> QED
  BY <1>1, HistAlways, SpelledStep, ArchiveStep, PTL DEF Spec, ImplementsArchive, Archive!Spec
==============================================================================
