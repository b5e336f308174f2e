CONSTANTS
  NParts = 1
  Requests = {r1, r2}
  NoOwner = NoOwner
  Providers <- OnlyDropbox
  SessionTTL = 2
  ShortRanges = FALSE
  Extensions <- NoExtension
  LeaseTime = 1
  MaxTime = 1
  MaxFaults = 1
  FaultHorizon = 0
  RowsMayVanish = FALSE
SPECIFICATION LiveSpec
PROPERTIES
  RetriedPartsGetRecorded
