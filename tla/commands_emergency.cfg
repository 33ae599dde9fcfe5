SPECIFICATION Spec
CONSTANTS
  Payloads <- MCPayloads
  Reserved <- MCReserved
  CustomIds <- MCCustomIds
  MaxHandlers = 1
  StatRange = 2
  StorageCanFail = TRUE
  Buffered = FALSE
  SaveWhenClean = FALSE
  NoImage = NoImage
  Torn = Torn
PROPERTY CriticalEventsReachEmergency
