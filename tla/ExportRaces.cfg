\* Two calls for one export id beside the whole decision cycle, with deployments
\* between and during calls: same version with other bytes, and another version.
CONSTANTS
  Drafts = {d1, d2}
  Roots = {d1}
  Actors = {ann}
  Requests = {q1}
  Contents = {c1}
  n1 = n1
  d2 = d2
  Notes = {n1, n2}
  Policies = {p1}
  Passes <- AllPass
  MaxVersion = 2
  MaxLineage = 2
  None = None
  Issues = Issues
  Exports = {e1}
  Calls = {k1, k2}
  b1 = b1
  b2 = b2
  b3 = b3
  Builds = {b1, b2, b3}
  Versions <- DeclaredVersions
SPECIFICATION ExportSpec
CONSTRAINT EditedOrRaced
SYMMETRY Interchangeable
INVARIANTS
  OneFirstDelivery
  RetainedEvidenceSound
  HandedAsArchived
  AttemptsNameTheirDecision
PROPERTIES
  DeliveredUnderAuthority
  AttemptsRecordWhatTheyRead
  AttemptsImmutable
