SPECIFICATION MCSpec
CONSTANTS
  Sockets = {c1, c2}
  Signals = {}
  Alerts = {}
  MaxItems = 1
  MaxReconnectAttempts = 5
  MaxDrops = 1
  MaxPresses = 1
  MaxTransit = 1
  NoSocket = NoSocket
  Scopes = {"stream", "button"}
  Accounts = {}
  Slots = {}
  NoAccount = NoAccount
  MaxContext = 0
  MaxChanges = 0
  MaxOrders = 0
  MaxFails = 0
PROPERTIES
  Settles
CHECK_DEADLOCK FALSE
