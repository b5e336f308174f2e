CONSTANTS
  NParts = 2
  Requests = {r1, r2}
  NoOwner = NoOwner
  Providers <- AllProviders
  SessionTTL = 2
  ShortRanges = FALSE
  Extensions <- MayExtend
  LeaseTime = 1
  MaxTime = 3
  MaxFaults = 1
  FaultHorizon = 10
  RowsMayVanish = TRUE
SYMMETRY RequestSymmetry
SPECIFICATION Spec
INVARIANTS
  RowAlwaysReadable
  RepliesStayTrue
  RecordedPartsHeld
  ItemMeansFile
  TerminalLeaseIsExclusive
  PartLeaseIsExclusive
PROPERTIES
  RowOnlyAdvances KeepsTheContract
