SPECIFICATION Spec
CONSTANTS
  c1 = c1
  c2 = c2
  j1 = j1
  j2 = j2
  r1 = r1
  Customers = {c1}
  Workers = {w1}
  TxIds = {t1}
  QrTokens = {j1}
  QrOwner <- OwnerOne
  Events = {e1}
  Requests = {q1, q2, q3}
  Rewards = {r1}
  Cost <- CostTwo
  InitialStock <- StockAny
  Amounts = {6}
  Programs <- Everything
  Newcomers = {}
  ActiveLimit = 1
  ActiveDays = 1
  None = None
  MaxDay = 1
  MaxRows = 4
INVARIANTS
  DailyLimitKept
PROPERTIES
  ImplementsIdeal
SYMMETRY SymWorkers
