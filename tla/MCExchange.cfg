SPECIFICATION FairSpec
CONSTANTS
  e1 = e1
  e2 = e2
  Exchanges = {e1, e2}
  OutboundConnections = 1
  DohBytes = 1
INVARIANTS
  LiveSocketsHoldSlots
  AbortSettles
  QuietOnceSettled
  ResultIsGenuine
PROPERTIES
  ImplementsPool
  EverySlotReturns
CHECK_DEADLOCK FALSE
