SPECIFICATION Spec
CONSTANTS
  Requests = {r1, r2}
  Scopes = {{"login"}, {"share"}}
  MaxFailures <- MCMaxFailures
  Window = 3
  Reservation = 1
  MaxBackoff = 2
  Retention = 5
  MaxDelay = 1
  MaxFaults = 1
INVARIANTS OneVerificationAtATime GuessesWithinLimit NoReservationLeftBehind RetryAfterIsEnough
PROPERTIES NobodyLockedOut
