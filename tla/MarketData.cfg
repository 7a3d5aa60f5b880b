SPECIFICATION MCSpec
CONSTANTS
  Users = {u1, u2}
  Symbols = {s1, s2}
  Threads = {t1, t2}
  MaxRequests = 1
  Window = 1
  Ttl = 1
  MaxClock = 2
  Failure <- FailureSet
  NoUser = NoUser
  NoEntry = NoEntry
  Sockets = {1, 2, 3}
  SubIds = {1, 2}
  MaxConnections = 2
  MaxSubscriptions = 1
  NoSub = NoSub
  NoSocket = NoSocket
  Jobs = {j1, j2}
  Owner <- MCOwner
  Payload <- MCPayload
  NoResult = NoResult
  NoJob = NoJob
  Prices = {1, 2, 5}
  Periods <- MCPeriods
  MaxCandles = 5
  MaxAsked = 2
  Histories <- HistorySet
  ParameterSets <- HealthSets
  Templates = {"moving_average", "mean_reversion", "macd"}
  Fees <- FeeSet
INVARIANTS
  TypesOK
  QuotesFit
  SyncFits
  AnalysesFit
PROPERTIES
  StreamFits
CHECK_DEADLOCK FALSE
