SPECIFICATION FairRuntimeSpec
CONSTANTS
  Turn = {t1, t2}
  None = None
  TombstoneLimit = 1
  MaxInbox = 2
INVARIANTS NeverReactivated InterruptHoldsTurn  SlotSettled WaitIsTruthful 
PROPERTIES OnlyOwnCompletionCloses  EverythingStops
