\* One slot, two requests of three attempts, connections lost at any point; no
\* fairness of backend, network or callback.
CONSTANTS
  Slots = {s1}
  Runs = {r1, r2}
  MaxAttempts = 3
  TransportCodes = {"CONNECTION_CLOSED"}
  None = None
SPECIFICATION FairSpec
CHECK_DEADLOCK FALSE
INVARIANTS
  QuietBesideCurrent
  AnswersTrue
PROPERTIES
  LeasesEnd
