CONSTANTS
  NParts = 2
  Requests = {r1, r2}
  NoOwner = NoOwner
  Providers <- OnlyGoogle
  SessionTTL = 1
  ShortRanges = FALSE
  Extensions <- NoExtension
  LeaseTime = 1
  MaxTime = 2
  MaxFaults = 1
  FaultHorizon = 1
  RowsMayVanish = FALSE
SPECIFICATION LiveSpec
PROPERTIES
  ExpiredSessionsGetClosed
