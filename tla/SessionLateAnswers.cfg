\* Two sessions of one account and one of another.
CONSTANTS
  a1 = a1
  a2 = a2
  ann = ann
  Sessions = {a1, a2, b}
  Users = {ann, b}
  UserOf <- Owners
  None = None
SPECIFICATION Spec
INVARIANTS
  BearerOfItsOperator
  CacheIsOwn
  RecoveryIsolated
PROPERTIES
  NoBearerAfterLogout
  NewerSignInStands
