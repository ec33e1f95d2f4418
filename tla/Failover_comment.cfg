SPECIFICATION FailoverSpec
CONSTANTS
  Process = {p1, p2}
  Timeout = 6
  StartMin = 2
  BootMax = 2
  MaxCrashes = 1
  Second = 2
  RemovalTime = 2
  Nobody = Nobody
PROPERTIES
  DeadForFiveSeconds
