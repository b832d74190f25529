SPECIFICATION Spec
CONSTANTS
  Requests = {r1, r2}
  NoRequest = NoRequest
  Profiles <- OneProfile
  FallbackKnown = TRUE
  FaultyServer = FALSE
  MaxInbox = 1
  MaxDeviceId = 2
INVARIANT UsbFaultSparesPump
