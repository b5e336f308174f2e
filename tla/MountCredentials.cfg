SPECIFICATION MountSpec
CONSTANTS
  Handlers = {h1, h2}
  Nobody = Nobody
  OAuthDrivers = {"google"}
  OtherDrivers = {"s3"}
  NoDriver = NoDriver
  Legacy = FALSE
  MaxGrants = 2
  MaxVersion = 2
  MaxTokens = 3
  MaxEdits = 1
  MaxFaults = 1
  MaxEvents = 1
  Keys <- MCKeys
  Contents = {1, 2}
  Marker = Marker
  Stocks <- MCStocks
  MaxBatch = 2
  MaxQuota = 3
SYMMETRY HandlerSymmetry
INVARIANTS
  AuthorizationOfOneGrant
  StatesAreUsedOnce
  ContentSurvives
PROPERTIES
  RotationsSurvive
  NothingOverwritten
CHECK_DEADLOCK FALSE
