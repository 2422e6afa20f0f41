CONSTANTS
  Nodes = {n1, n2}
  Visitors = {v1, v2}
  None = None
  Dead = Dead
  MaxVisits = 2
  MaxIntents = 1
  MaxFaults = 1
SPECIFICATION Spec
INVARIANTS LeaseTypeOK SoleOwner NewestIsMirrored
PROPERTIES SplitHeals
CHECK_DEADLOCK FALSE
