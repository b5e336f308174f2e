SPECIFICATION ShareSpec
CONSTANTS
  Admins = {a1, a2}
  Visitors = {v1}
  Passwords = {p, q}
  NoPassword = NoPassword
  Limits = {1}
  Expiries = {}
  CookieTtl = 1
  MaxTokens = 2
  MaxUpdates = 2
  MaxDownloads = 1
  MaxTime = 1
INVARIANT OldLinksStayDead
CHECK_DEADLOCK FALSE
