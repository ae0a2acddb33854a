SPECIFICATION Spec
CONSTANTS
  c1 = c1
  c2 = c2
  j1 = j1
  j2 = j2
  r1 = r1
  Customers = {c1}
  Workers = {w1, w2}
  TxIds = {t1}
  QrTokens = {j1}
  QrOwner <- OwnerOne
  Events = {}
  Requests = {q1, q2}
  Rewards = {r1}
  Cost <- CostTwo
  InitialStock <- StockOne
  Amounts = {2, 3}
  Programs <- Expiring
  Newcomers = {}
  ActiveLimit = 0
  ActiveDays = 0
  None = None
  MaxDay = 2
  MaxRows = 5
INVARIANTS
  ReversalsPairUp
  NeverNegative
  StockConserved
  SpendableWithinLifetime
PROPERTIES
  AppendOnly
  RetryIsAnswered
SYMMETRY SymWorkers
