\* One target of each kind, two calls, two adjustments beside edits by hand.
CONSTANTS
  Codes = {c1}
  Zones = {z1}
  Assemblies = {m1}
  Trades = {t1}
  Manual = {h1, h2}
  Floors <- MCFloors
  Adjustments = {a1, a2}
  Calls = {k1, k2}
  Editable = {c1, z1}
  None = None
SPECIFICATION Spec
SYMMETRY Symmetry
INVARIANTS
  AppliedInForce
PROPERTIES
  TransitionsClosed
  RollbackRestores
