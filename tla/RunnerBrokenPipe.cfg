\* The operating system reports the lost connection as EPIPE.
CONSTANTS
  Slots = {s1}
  Runs = {r1, r2}
  MaxAttempts = 2
  TransportCodes = {"EPIPE"}
  None = None
SPECIFICATION Spec
CHECK_DEADLOCK FALSE
INVARIANTS
  QuietBesideCurrent
