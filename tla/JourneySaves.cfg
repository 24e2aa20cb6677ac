\* Two pages of a single controller, with two logins, requests and selections and
\* prices that change, and a page shared by two controllers; under the fairness of
\* the web tier's 30 second limit.
CONSTANTS
  v2 = v2
  shared = shared
  s1 = s1
  x = x
  Views = {v1, v2}
  Pairs = {p1, p2, shared}
  Requests = {q1, q2}
  Selections = {x, y}
  Sources = {s1, s2}
  MaxSession = 2
  None = None
SPECIFICATION FairSpec
ACTION_CONSTRAINT Beside
INVARIANTS
  OpenRequestHeld
  ReceiptsTrue
  RefusalFinal
  ConfirmationBindsSelection
PROPERTIES
  BusyEnds
