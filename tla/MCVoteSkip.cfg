SPECIFICATION Spec
CONSTANTS
  Items <- const_ThreeItems
  NoItem = NoItem
  Rates <- const_Rates
  NormalRate = 1
  Clients = {host, guest}
  Sweeper = sweeper
  Controllers = {host, guest}
  Managers = {host}
  Reconnecting = {}
  Commands <- const_Vote
  Backlogs <- const_BacklogABC
  ItemLength <- const_Unknown
  LiveItems <- const_NoLive
  StartTimeout = 1
  RatioNum = 1
  RatioDen = 2
  SendBuffer = 8
  MaxFaults = 0
  MaxSends = 2
  MaxTime = 1
  SweepLag = 1
PROPERTIES
  SkipHitsItsVideo
CHECK_DEADLOCK FALSE
