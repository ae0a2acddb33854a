SPECIFICATION Spec
CONSTANTS
  r1 = r1
  r2 = r2
  a = a
  b = b
  PoolSize = 3
  Requests = {r1, r2}
  Kind <- AwardAndJoin
  Tenant <- TwoTenants
  Transactions = 1
  None = None
INVARIANTS
  TypeOK
  OneHolder
  WorkInTenant
  ClearedUnlessOvertaken
PROPERTIES
  EveryRequestIsServed
