SPECIFICATION Spec
CONSTANTS
  Requests = {r1, r2}
  NoRequest = NoRequest
  Profiles <- AllProfiles
  FallbackKnown = TRUE
  FaultyServer = TRUE
  MaxInbox = 1
  MaxDeviceId = 2
INVARIANTS TypeOK OneResponse TablesAgree AnswerAllowed DisplayCurrent
PROPERTIES ShownUntilResolved ImplementsApprovalSpec
SYMMETRY Symmetry
