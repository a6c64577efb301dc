SPECIFICATION StreamSpec
CONSTANTS
  Run = {1}
  Stream = {s1, s2, s3}
  Limit = 2
  PageSize = 2
  Lifetime = 1
  Lease = 2
  MaxLog = 4
  MaxDeaths = 1
  None = None
INVARIANTS
  StreamsWithinLimit
PROPERTIES
  EndsDrained
  EveryEventTaken
CHECK_DEADLOCK FALSE
