SPECIFICATION Spec
CONSTANTS
  Items <- const_TwoItems
  NoItem = NoItem
  Rates <- const_Rates
  NormalRate = 1
  Clients = {host, guest}
  Sweeper = sweeper
  Controllers = {host, guest}
  Managers = {host, guest}
  Reconnecting = {}
  Commands <- const_Fill
  Backlogs <- const_NoBacklog
  ItemLength <- const_Length
  LiveItems <- const_NoLive
  StartTimeout = 1
  RatioNum = 1
  RatioDen = 2
  SendBuffer = 8
  MaxFaults = 0
  MaxSends = 3
  MaxTime = 1
  SweepLag = 1
INVARIANTS
  NothingStranded
CHECK_DEADLOCK FALSE
