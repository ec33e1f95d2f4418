SPECIFICATION LightsFair
CONSTANTS
  Node = {n1, n2}
  Watched = {n1}
  Hall = {h1}
  Cab = {c1}
  IdSpan = 256
  NoCall = NoCall
  MaxNum = 0
  MaxPresses = 1
  MaxRemovals = 1
  MaxNet = 1
  MaxRestarts = 1
INVARIANTS
  ListsItself
  CabLampIsOwn
PROPERTIES
  ServicedForGood
  LampMeansKnown
  LampsFollow
CHECK_DEADLOCK FALSE
