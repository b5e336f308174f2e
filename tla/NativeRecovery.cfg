CONSTANTS
  Root = Root
  FolderIds = {d}
  FileIds = {f, g}
  Names = {a, b}
  NoName = NoName
  MaxAttempts = 3
  Handlers = {h1}
  Nobody = Nobody
  MaxBlobDeletes = 1
  MaxFaults = 1
  Rearranged = {f}
SPECIFICATION LiveSpec
INVARIANTS
  JournalCoversDeletions
  DeletedMeansGone
PROPERTIES
  LeftoversGo
CHECK_DEADLOCK FALSE
