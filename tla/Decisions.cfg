\* Chains of three drafts under two request ids, up to the bound of the lineage
\* walk; and one draft that is edited, decided, revoked and versioned, with two
\* contents, notes and policies.
CONSTANTS
  lean = lean
  strict = strict
  d1 = d1
  d3 = d3
  plain = plain
  n1 = n1
  relaxed = relaxed
  q1 = q1
  q2 = q2
  Drafts = {d1, d2, d3}
  Roots = {d1}
  Actors = {ann}
  Requests = {q1, q2}
  Contents = {lean, rich, plain}
  Notes = {n1, n2}
  Policies = {strict, relaxed}
  Passes <- FloorPasses
  MaxVersion = 3
  MaxLineage = 2
  None = None
SPECIFICATION Spec
ACTION_CONSTRAINT Families
INVARIANTS
  RecordsAlwaysReadable
  ApprovedContentStays
  VersionChainCoherent
  RequestsBindOneCommand
  AnswersRepeatable
PROPERTIES
  TriggersNeverFire
  ImplementsLedger
