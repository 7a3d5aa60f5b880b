SPECIFICATION MCSpec
CONSTANTS
  UserIds = {u1, u2}
  Tokens = {k1, k2, k3}
  ResetIds = {r1}
  Emails = {e1, e2}
  Secrets = {p1, p2}
  FirstAdmin = u1
  FirstEmail = e1
  FirstSecret = p1
  Threads = {t1, t2}
  Setups <- SetupSet
  NewRows <- RowSet
  Edits <- EditSet
  NoUser = NoUser
  NoToken = NoToken
  NoReset = NoReset
  Ended = Ended
  OtherUser = u2
  OtherEmail = e2
  AdminToken = k1
  OtherToken = k2
  MaxRequests = 3
  Leaves = {"theme", "account"}
  Values = {"light", "dark"}
  Default = "light"
  Null = Null
  Bodies <- BodySet
  MaxVersion = 1
  NoDocument = NoDocument
SYMMETRY Symmetry
INVARIANTS
  TypesOK
  ResetOnce
  AdminsGranted
PROPERTIES
  SerialAccounts
  PreferencesKept
