SPECIFICATION MCSpec
CONSTANTS
  Sockets = {c1}
  Signals = {}
  Alerts = {}
  MaxItems = 1
  MaxReconnectAttempts = 2
  MaxDrops = 2
  MaxPresses = 2
  MaxTransit = 1
  NoSocket = NoSocket
  Scopes = {"trading"}
  Accounts = {b1, b2}
  Slots = {r1, r2}
  NoAccount = NoAccount
  MaxContext = 2
  MaxChanges = 1
  MaxOrders = 1
  MaxFails = 1
INVARIANTS
  ShowsSelected
CHECK_DEADLOCK FALSE
