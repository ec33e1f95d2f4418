SPECIFICATION Spec
CONSTANTS
  NFloors = 3
  DoorTicks = 2
  Networked = TRUE
  Prompt = TRUE
  MaxOpen = 1
  MaxQueue = 1
INVARIANT
  CabCallsAssigned
