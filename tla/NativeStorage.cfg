SPECIFICATION StorageSpec
CONSTANTS
  Root = Root
  FolderIds = {d}
  FileIds = {f}
  Names = {a, b}
  NoName = NoName
  MaxAttempts = 2
  Handlers = {h1, h2}
  Nobody = Nobody
  MaxBlobDeletes = 1
  MaxFaults = 1
  Rearranged = {d, f}
  Writers = {h1, h2}
  Scripts = {m1, m2}
  Keys <- MCKeys
  Segments = {"d", "f", "g"}
  Patches <- MCPatches
  Etags = {1}
  Stocks <- MCStocks
  Missing = Missing
  NoOwner = NoOwner
  ReservationLease = 1
  LockLease = 1
  Local = TRUE
  MaxEvents = 1
SYMMETRY Symmetry
INVARIANTS
  ReadyFilesHaveBlobs
  BlobsAreOwned
  JournalCoversUploads
  UsableUnderUsable
  MigrationSeesEveryWrite
PROPERTIES
  EntryLifecycle
  ImportIsFaithful
CHECK_DEADLOCK FALSE
