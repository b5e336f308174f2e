CONSTANTS
  Root = Root
  FolderIds = {d}
  FileIds = {f}
  Names = {a}
  NoName = NoName
  MaxAttempts = 2
  Handlers = {h1, h2}
  Nobody = Nobody
  MaxBlobDeletes = 1
  MaxFaults = 0
  Rearranged = {d, f}
SYMMETRY Symmetry
SPECIFICATION Spec
INVARIANTS
  JournalCoversDeletions
CHECK_DEADLOCK FALSE
