SPECIFICATION Spec
CONSTANTS
  Senders = {pump, main}
  Sessions = {s1, s2, s3, s4, s5}
  NoSession = NoSession
  TornLines = TRUE
  SilentReset = TRUE
  MaxVersion = 3
  MaxSeq = 3
  MaxChannel = 2
  MaxFaults = 2
INVARIANTS LiveFramesInOrder Converged
PROPERTIES SnapshotsNeverRegress
SYMMETRY SendersSymmetric
