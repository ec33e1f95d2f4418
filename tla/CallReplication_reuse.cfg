SPECIFICATION Spec
CONSTANTS
  Node = {n1, n2}
  Hall = {h1}
  Cab = {c1}
  IdSpan = 256
  NoCall = NoCall
  MaxNum = 1
  MaxPresses = 2
  MaxRemovals = 0
  MaxNet = 2
  MaxRestarts = 1
INVARIANT
  OneButtonPerId
CHECK_DEADLOCK FALSE
