SPECIFICATION FairSpec
CONSTANTS
  NFloors = 3
  DoorTicks = 2
  Networked = FALSE
  Prompt = TRUE
  MaxOpen = 2
  MaxQueue = 1
INVARIANTS
  TypeOK
  DoorOpensAtFloor
  WithinShaft
  MovingTowardsCall
  NoLostWakeup
  EveryStopClears
  NoCallAbandoned
  NeverIdleWithCalls
PROPERTIES
  ServedAtFloor
  ObstructionHoldsDoor
  EveryCallServed
