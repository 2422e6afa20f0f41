SPECIFICATION Spec
CONSTANTS
  Items <- const_Items
  NoItem = NoItem
  Rates <- const_Rates
  NormalRate = 1
  Lengths <- const_Lengths
  Seeks <- const_Seeks
  StartTimeout = 2
  MaxVersion = 5
  MaxTime = 5
INVARIANTS
  TypeOK
  HeldAtZero
  EndedAtTheEnd
PROPERTIES
  EveryChangeIsNumbered
  ImplementsPlayhead
CHECK_DEADLOCK FALSE
