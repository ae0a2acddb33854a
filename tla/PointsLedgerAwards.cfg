SPECIFICATION Spec
CONSTANTS
  c1 = c1
  c2 = c2
  j1 = j1
  j2 = j2
  r1 = r1
  Customers = {c1, c2}
  Workers = {w1, w2}
  TxIds = {t1, t2}
  QrTokens = {j1, j2}
  QrOwner <- OwnerTwo
  Events = {}
  Requests = {q1}
  Rewards = {}
  Cost <- CostTwo
  InitialStock <- StockOne
  Amounts = {2}
  Programs <- HoldOrNot
  Newcomers = {}
  ActiveLimit = 1
  ActiveDays = 0
  None = None
  MaxDay = 1
  MaxRows = 3
INVARIANTS
  BalanceIsLedger
  PendingIsLedger
  TakesEffectOnce
  QrBurntByAward
PROPERTIES
  HeldUntilDue
SYMMETRY SymWorkers
