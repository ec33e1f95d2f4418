SPECIFICATION FailoverSpec
CONSTANTS
  Process = {p1, p2, p3, p4}
  Timeout = 6
  StartMin = 2
  BootMax = 2
  MaxCrashes = 3
  Second = 2
  RemovalTime = 2
  Nobody = Nobody
SYMMETRY Alike
INVARIANTS
  TypeOK
  TakesOverInTime
  GoneInTime
PROPERTIES
  TakesOverFromTheSilent
  DeadOnlyAfterLosses
  ForgottenBeforeBack
