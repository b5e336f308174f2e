SPECIFICATION BothSpec
CONSTANTS
  Admins = {a1}
  Visitors = {v1, v2}
  Passwords = {p, q}
  NoPassword = NoPassword
  Limits = {1}
  Expiries = {1}
  CookieTtl = 1
  MaxTokens = 2
  MaxUpdates = 2
  MaxDownloads = 2
  MaxTime = 1
  Root = "/"
  FolderIds = {"d", "e", "c"}
  FileIds = {"f", "g"}
  Names = {"d", "e", "f"}
  NoName = ""
  Handlers = {"h1", "h2"}
  Nobody = "nobody"
  Copiers = {"h1"}
  Arrivals = {"delete"}
  Rearranged = {}
  MaxBlobDeletes = 1
  MaxAttempts = 4
  MaxFaults = 1
  Shelves <- MCShelves
  FirstFree = 2
SYMMETRY Symmetry
INVARIANTS
  CookiesProveThePassword
  DownloadsWithinLimit
  OldLinksStayDead
  AnswersHold
  CopiesAreWhole
CHECK_DEADLOCK FALSE
