SPECIFICATION Spec
CONSTANTS
  idLong = idLong
  idShort = idShort
  Ids = {idLong, idShort}
  NoId = NoId
  Lines <- LinesOfIds
  Complete = {idLong}
  SlotCount = 2
  Turn = {t}
  None = None
  ClockSize = 4
  GuardMs = 2
  StaleMs = 2
  HoldMs = 2
  HelloRetryMs = 2
  VisibleLines = 2
  TxDepth = 1
  MaxTime = 4
  Ticks = {1, 2}
  KeyEvents <- AllKeys
  ButtonLevels = {TRUE, FALSE}
INVARIANTS DecidedOnce InterruptDeliberate
PROPERTIES AcceptGuarded 
