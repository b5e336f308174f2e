SPECIFICATION UploadLiveSpec
CONSTANTS
  Records = {a, b, c}
  Stuck = {a}
  Unreadable = {b}
  Requests = {r1, r2}
  Nobody = Nobody
  Limit = 1
  MaxFaults = 1
  NParts = 1
  NoOwner = NoOwner
  Providers <- OnlyS3
  SessionTTL = 2
  ShortRanges = FALSE
  Extensions <- NoExtension
  LeaseTime = 1
  MaxTime = 3
  FaultHorizon = 2
  RowsMayVanish = FALSE
PROPERTIES
  ExpiredSessionsGetClosed RetriedPartsGetRecorded SessionsTakeTurns
