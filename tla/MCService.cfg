SPECIFICATION FairServiceSpec
CONSTANTS
  r1 = r1
  r2 = r2
  s1 = s1
  Requests = {r1, r2}
  Sources = {s1}
  ConcurrentRequests = 2
  RequestsPerMinute = 2
  RequestsPerIpMinute = 2
  SourceEntries = 1
  Minute = 1
  MaxTime = 1
  OutboundConnections = 2
  MaxTypes = 2
INVARIANTS
  HandlersHoldSlots
  OutboundWithinCap
  RepliesAreTruthful
  NobodyForgotten
PROPERTIES
  EverySlotReturns
CHECK_DEADLOCK FALSE
