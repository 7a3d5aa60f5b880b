SPECIFICATION MCSpec
CONSTANTS
  Accounts = {a1}
  Symbols = {s1}
  OrderIds = {o1, o2, o3}
  Quantities = {1, 2}
  Prices = {1}
  Amounts = {1}
  Keys = {k1}
  Threads = {t1, t2}
  NoKey = NoKey
  NoOrder = NoOrder
  NoAccount = NoAccount
  NoSymbol = NoSymbol
  MaxBatch = 1
  MaxPayments = 2
  MaxCrash = 1
  MixedOrders = 2
CONSTRAINT MCConstraint
SYMMETRY MCSymmetry
INVARIANTS
  FilledOnce
  TradesBooked
  SerialLedger
PROPERTIES
  ImplementsBook
CHECK_DEADLOCK FALSE
