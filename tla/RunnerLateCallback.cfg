\* A callback awaits armStatement across the execution deadline.
CONSTANTS
  Slots = {s1}
  Runs = {r1}
  MaxAttempts = 1
  TransportCodes = {"CONNECTION_CLOSED"}
  None = None
SPECIFICATION FairSpec
CHECK_DEADLOCK FALSE
PROPERTIES
  LateCallbacksSilent
