\* One cost code that nobody edits by hand, two calls, two adjustments.
CONSTANTS
  Codes = {c1}
  Zones = {}
  Assemblies = {}
  Trades = {}
  Manual = {h1}
  Floors <- MCFloors
  Adjustments = {a1, a2}
  Calls = {k1, k2}
  Editable = {}
  None = None
SPECIFICATION Spec
INVARIANTS
  Uncompounded
