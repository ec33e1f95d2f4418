SPECIFICATION FairSpec
CONSTANTS
  Node = {n1, n2}
  NFloors = 2
  Call = {0, 1}
  FloorOf <- MCFloorOf
  CabOf <- MCCabOf
  Nobody = Nobody
  Divide <- MCDivide
  MaxCrashes = 1
  MaxFlying = 1
  Blockable = {n1}
  NoStatus = NoStatus
PROPERTIES
  DivisionLasts
  
