SPECIFICATION FairSpec
CONSTANTS
  Node = {n1, n2}
  Hall = {h1}
  Cab = {}
  IdSpan = 256
  NoCall = NoCall
  MaxNum = 0
  MaxPresses = 1
  MaxRemovals = 1
  MaxNet = 12
  MaxRestarts = 0
PROPERTIES
  ImplementsCallBoard
  AckCompletes
  ServiceCompletes
CHECK_DEADLOCK FALSE
