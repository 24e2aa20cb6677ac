\* Two captures at once, two projects of a tenant, three request ids.
CONSTANTS
  p1 = p1
  p2 = p2
  q1 = q1
  q2 = q2
  q3 = q3
  s1 = s1
  i1 = i1
  i2 = i2
  doc = doc
  x = x
  y = y
  z = z
  Calls = {k1, k2}
  Projects = {p1, p2}
  Actors = {ann}
  Requests = {q1, q2, q3}
  Contents = {doc}
  Choices = {x, y, z}
  Ids = {s1, i1, i2, i3}
  Commands <- MCCommands
  None = None
SPECIFICATION FairSpec
INVARIANTS
  RequestsBindOneCapture
  RevisionsLinear
  IndexesNeverFire
PROPERTIES
  ImplementsArchive
  CapturesEnd
