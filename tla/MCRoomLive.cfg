SPECIFICATION Spec
CONSTANTS
  Items <- const_TwoItems
  NoItem = NoItem
  Rates <- const_Rates
  NormalRate = 1
  Clients = {host}
  Sweeper = sweeper
  Controllers = {host}
  Managers = {host}
  Reconnecting = {host}
  Commands <- const_Few
  Backlogs <- const_BacklogAB
  ItemLength <- const_Length
  LiveItems <- const_NoLive
  StartTimeout = 1
  RatioNum = 1
  RatioDen = 2
  SendBuffer = 1
  MaxFaults = 1
  MaxSends = 1
  MaxTime = 3
  SweepLag = 1
INVARIANTS
  VotesAreLive
PROPERTIES
  CueStarts
  EndMovesOn
CHECK_DEADLOCK FALSE
