\* Two leads, both routes; two conversions of one lead or of both, two writes by
\* staff beside them.
CONSTANTS
  l1 = l1
  l2 = l2
  ann = ann
  bob = bob
  ivy = ivy
  s1 = s1
  s2 = s2
  mail = mail
  tel = tel
  Calls = {k1, k2}
  Leads = {l1, l2}
  Entered = {x}
  Profiles = {ann, bob, ivy}
  Asks <- Mixed
  Handles = {mail, tel}
  Contacts <- Texts
  Written <- HalfKnown
  Home <- OneHome
  Site <- TwoJobs
  Owner <- IvysLead
  Readers = {ann}
  OwnerScope = {bob}
  MaxWrites = 2
  None = None
CHECK_DEADLOCK FALSE
SPECIFICATION FairSpec
INVARIANTS
  OneConversion
PROPERTIES
  ConvertedRowKept
  ProjectsWellFounded
  NoSecondDeal
  CallsEnd
