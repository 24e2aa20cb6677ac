\* Two leads of one person, each converted once by the modern route.
CONSTANTS
  l1 = l1
  l2 = l2
  ann = ann
  bob = bob
  ivy = ivy
  s1 = s1
  s2 = s2
  mail = mail
  tel = tel
  Calls = {k1, k2}
  Leads = {l1, l2}
  Entered = {x}
  Profiles = {ann, bob, ivy}
  Asks <- ModernOnly
  Handles = {mail, tel}
  Contacts <- Texts
  Written <- SamePerson
  Home <- OneHome
  Site <- TwoJobs
  Owner <- Unowned
  Readers = {ann}
  OwnerScope = {bob}
  MaxWrites = 0
  None = None
CHECK_DEADLOCK FALSE
SPECIFICATION Spec
INVARIANT
  NoTwinClients
