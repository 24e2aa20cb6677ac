------------------------- MODULE MCHistoricalCapture -------------------------
(* A small instance of HistoricalCapture for TLC.                           *)
EXTENDS HistoricalCapture, TLC

CONSTANTS p1, p2, q1, q2, q3, s1, i1, i2, doc, x, y, z

Document(q, p) == [op |-> "source", request |-> q, project |-> p, content |-> doc]

Select(q, p, choice, prior, expected) ==
  [op |-> "selection", request |-> q, project |-> p, source |-> s1,
   choice |-> choice, prior |-> prior, expected |-> expected]

\* One document in either project; a selection of it, revisions of the first
\* selection and of the second, and one sent for the wrong project.
MCCommands ==
  {Document(q1, p1), Document(q1, p2), Document(q2, p1)}
    \cup {Select(q, p1, x, None, 0) : q \in {q1, q2}}
    \cup {Select(q, p1, y, i1, 1) : q \in {q1, q2}}
    \cup {Select(q2, p1, z, i1, 1), Select(q3, p1, z, i2, 2), Select(q3, p1, x, i2, 2),
           Select(q1, p2, x, None, 0)}
==============================================================================
