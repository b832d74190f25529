SPECIFICATION FairSpec
CONSTANTS
  Callers = {c1, c2}
  MaxRequests = 2
  MaxEvents = 1
  MaxLines = 1
INVARIANTS TypeOK NobodyBlocksOnPut ReadyIsHealthy ClosedIsReaped
PROPERTIES NoWayBack WaitersReleased CallsReturn
