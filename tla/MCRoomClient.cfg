SPECIFICATION Spec
CONSTANTS
  MaxSockets = 2
  MaxFamilies = 2
  MaxFaults = 1
  MaxAges = 1
  MaxOutbox = 1
  Confident = 2
  MaxCommands = 2
  MaxVisits = 1
  Delays <- MCDelays
  MaxWindow = 5
INVARIANTS
  ClientTypeOK
  FamilyIntact
  CommandsKept
  ConfidenceIsFresh
  ClockBounded
PROPERTIES
  ComesBack
CHECK_DEADLOCK FALSE
