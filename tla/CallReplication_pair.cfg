SPECIFICATION SteadySpec
CONSTANTS
  Node = {n1, n2}
  Hall = {h1}
  Cab = {c1}
  IdSpan = 256
  NoCall = NoCall
  MaxNum = 1
  MaxPresses = 2
  MaxRemovals = 1
  MaxNet = 1
  MaxRestarts = 0
SYMMETRY NodeSymmetry
INVARIANTS
  TypeOK
  CallIdAgreement
  AckMeansKnown
  ServicedMeansServed
  OneOpenOwnCall
CHECK_DEADLOCK FALSE
