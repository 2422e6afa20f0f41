SPECIFICATION Spec
CONSTANTS
  o1 = o1
  o2 = o2
  a1 = a1
  b1 = b1
  O = O
  A = A
  B = B
  NoOne = NoOne
  Sockets <- MCSockets
  Users <- MCUsers
  Creator = O
  Visitors <- MCVisitors
  UserOf <- MCUserOf
  Capacity = 2
  MaxJoins = 3
  MaxActs = 1
INVARIANTS OneHost HostIsDue SweepsTheEmpty
CHECK_DEADLOCK FALSE
