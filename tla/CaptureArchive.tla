---------------------------- MODULE CaptureArchive ----------------------------
(***************************************************************************)
(* What capturing estimates promises, as if captures never overlapped: a   *)
(* submission is recorded once, by somebody permitted at that moment, and  *)
(* only if it repeats nothing and what it builds on is there; it may be    *)
(* answered again as long as its sender is permitted; records stay.        *)
(***************************************************************************)
EXTENDS Naturals

CONSTANTS Commands, Actors, Projects, Ids, None

VARIABLES
  records,    \* submissions recorded, by whom, under which id
  permitted,  \* who may capture for which project
  answers     \* answers given

vars == <<records, permitted, answers>>

Init ==
  /\ records = {} /\ answers = {}
  /\ permitted = Actors \X Projects

Recorded(op) == {r \in records : r.command.op = op}

(* The document was recorded before, or the selection was.                 *)
Repeats(c) ==
  \E r \in Recorded(c.op) :
    /\ r.command.project = c.project
    /\ IF c.op = "source" THEN r.command.content = c.content
       ELSE r.command.source = c.source /\ r.command.choice = c.choice

(* A selection is of a document of its project.  A revision is of the last *)
(* selection of a chain of that document, whose number it expects.         *)
Founded(c) ==
  c.op = "selection" =>
    /\ \E r \in Recorded("source") : r.id = c.source /\ r.command.project = c.project
    /\ c.prior # None =>
         /\ \E r \in Recorded("selection") :
              /\ r.id = c.prior
              /\ r.command.project = c.project /\ r.command.source = c.source
              /\ r.command.expected + 1 = c.expected
         /\ \A r \in Recorded("selection") : r.command.prior # c.prior

Answer(c, i) == answers' = answers \cup {[command |-> c, result |-> i]}

Capture(c, a) ==
  /\ <<a, c.project>> \in permitted
  /\ \A r \in Recorded(c.op) : r.command.request # c.request
  /\ ~Repeats(c)
  /\ Founded(c)
  /\ \E i \in Ids :
       /\ \A r \in records : r.id # i
       /\ records' = records \cup {[id |-> i, command |-> c, by |-> a]}
       /\ Answer(c, i)
  /\ UNCHANGED permitted

AnswerAgain(c, a) ==
  /\ <<a, c.project>> \in permitted
  /\ \E r \in records : r.command = c /\ Answer(c, r.id)
  /\ UNCHANGED <<records, permitted>>

ChangeAccess ==
  /\ \E allowed \in SUBSET (Actors \X Projects) : permitted' = allowed
  /\ UNCHANGED <<records, answers>>

Next ==
  \/ \E c \in Commands, a \in Actors : Capture(c, a) \/ AnswerAgain(c, a)
  \/ ChangeAccess

Spec == Init /\ [][Next]_vars
==============================================================================
