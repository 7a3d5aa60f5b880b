SPECIFICATION MCSpec
CONSTANTS
  Users = {u1, u2}
  AlertIds = {al1, al2}
  Owner <- MCOwner
  Keys = {k1}
  NoUser = NoUser
  Threads = {t1, t2}
  Accounts = {a1, a2}
  RuleIds = {r1, r2}
  AccountOwner <- MCAccountOwner
  Strategies = {s1}
  NoStrategy = NoStrategy
  Thresholds = {20, 90}
  MaxStamp = 2
  NoSnapshot = NoSnapshot
  NoRule = NoRule
  MaxRequests = 3
SYMMETRY Symmetry
INVARIANTS
  TypesOK
  RowsFit
  SnapshotsFit
PROPERTIES
  SerialResolved
