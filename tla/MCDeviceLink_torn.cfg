SPECIFICATION FairSpec
CONSTANTS
  Senders = {pump}
  Sessions = {s1, s2, s3, s4, s5}
  NoSession = NoSession
  TornLines = TRUE
  SilentReset = FALSE
  MaxVersion = 2
  MaxSeq = 2
  MaxChannel = 2
  MaxFaults = 1
PROPERTIES Resynchronised
