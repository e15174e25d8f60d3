SPECIFICATION HistorySpec
CONSTANTS
  r1 = r1
  r2 = r2
  r3 = r3
  s1 = s1
  s2 = s2
  s3 = s3
  Requests = {r1, r2, r3}
  Sources = {s1, s2, s3}
  ConcurrentRequests = 2
  RequestsPerMinute = 3
  RequestsPerIpMinute = 2
  SourceEntries = 2
  Minute = 2
  MaxTime = 5
INVARIANTS
  SlotsAreOpenResponses
  AtMostTwoWindowsAMinute
  NoStaleRefusal
PROPERTIES
  LiveWindowsKept
  ImplementsPool
SYMMETRY Symmetry
CHECK_DEADLOCK FALSE
