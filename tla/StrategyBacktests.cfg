SPECIFICATION MCSpec
CONSTANTS
  Users = {u1}
  StrategyIds = {s1}
  TaskIds = {i1, i2}
  Keys = {k1}
  NoKey = NoKey
  NoTask = NoTask
  NoStrategy = NoStrategy
  Threads = {t1, t2}
  MaxCrash = 1
  PortfolioIds = {f1}
  Members = {1, 2}
  Weights = {1, 2}
  Limits <- LimitSet
  Targets <- TargetSet
  Scores = {1, 3}
  MaxVersion = 4
  NoPortfolio = NoPortfolio
  NoPlan = NoPlan
  Ranges <- RangeSet
  MaxAxes = 2
  Metrics <- MetricSet
  Budgets = {1, 3, 5, 20}
  Stops = {0}
  NoStop = NoStop
  Unit = 12
SYMMETRY Symmetry
INVARIANTS
  TypesOK
  MetricsOfCompleted
  KeysUnique
  SerialPortfolios
  SearchesFit
PROPERTIES
  SerialRows
CHECK_DEADLOCK FALSE
