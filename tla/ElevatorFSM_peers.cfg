SPECIFICATION Spec
CONSTANTS
  NFloors = 2
  DoorTicks = 2
  Networked = TRUE
  Prompt = FALSE
  MaxOpen = 1
  MaxQueue = 2
INVARIANTS
  OneDoorTimeout
  MotorDoorInterlock
PROPERTY
  ImplementsDoorway
