SPECIFICATION Spec
CONSTANTS
  Items <- const_ThreeItems
  NoItem = NoItem
  Rates <- const_Rates
  NormalRate = 1
  Clients = {host, guest}
  Sweeper = sweeper
  Controllers = {host, guest}
  Managers = {host}
  Reconnecting = {guest}
  Commands <- const_Seek
  Backlogs <- const_BacklogAB
  ItemLength <- const_Length
  LiveItems <- const_NoLive
  StartTimeout = 1
  RatioNum = 1
  RatioDen = 2
  SendBuffer = 8
  MaxFaults = 0
  MaxSends = 1
  MaxTime = 1
  SweepLag = 1
INVARIANTS
  Converged
CHECK_DEADLOCK FALSE
