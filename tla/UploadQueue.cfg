SPECIFICATION LiveSpec
CONSTANTS
  Parts = {1, 2}
  MaxTasks = 2
  MaxSessions = 2
  Stamps = {1, 2}
  Kinds = {"single", "multipart"}
  MaxConcurrent = 1
  MaxClicks = 4
  MaxVisits = 1
  MaxFaults = 1
  MaxEvents = 4
INVARIANTS
  SlotsAreAlive
  OneFilePerSession
PROPERTIES
  NoSessionForgotten
  QueueMoves
CHECK_DEADLOCK FALSE
