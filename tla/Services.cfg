SPECIFICATION SSpec
CONSTANTS
  Tills = {w1, w2}
  RequestIds = {q1, q2, q3}
  Actors <- OwnerAndCashier
  Sums = {4, 1000}
  Expiries <- FirstDayOrNever
  Null = Null
  ViewLimit = 2
  MaxCards = 1
  MaxCardRows = 3
  LastDay = 1
  Absent = Absent
  Nil = Nil
  Unapplied = Unapplied
  Payments = {e1}
  Handlers = {h1, h2}
  Guests = {g1}
  Payloads <- FourPayloads
  MaxAwarded = 2
  Customers = {g1}
  LastClock = 1
  NoValue = NoValue
  NoRow = NoRow
  NoTier = NoTier
  Runners = {api, worker}
  Birthday <- BornOnTheFirstDay
  Bonus <- BirthdayPoints
  Nobody = Nobody
  Sales = {s1, s2}
  Tabs = {t1, t2}
  MaxBatch = 1
  Staff = {"owner", "manager"}
  Super = "super"
  Emails = {"o@x", "m@x", "n@x"}
  FirstEmail <- EmailOfEach
  Clicks = {k1, k2}
  RowSecurity = FALSE
  MaxRequests = 2
  Desks = {d1, d2}
  Purchases <- CupOfCoffee
  Badge <- TwoBadges
  Challenge <- TwoChallenges
  MaxRows = 4
  LastWindow = 1
  Phones = {p1, p2}
  Members = {p1}
  Servers = {v1, v2}
  NoCode = NoCode
  Settings <- AtSignupOrLater
  MaxGuesses = 1
  MaxCodes = 1
  MaxPurchases = 2
  Sessions = {x1, x2}
  Kinds = {"award", "redeem", "settle"}
  MaxHistory = 2
  LastDate = 1
  TierMin <- ThreeTiers
  Workers = {u1, u2}
  Gains <- UpAndDown
  Reentry = 1
  MaxPoints = 4
  MaxSessions = 2
  Links = {l1}
  Visitors = {i1, i2}
  Idle = 2
  Absolute = 3
  TouchGrace = 1
  LastTick = 3
  Starters = {m1, m2}
  Builds <- ThreeBuilds
INVARIANTS
  GiftMoneyKept
  ViewNeverOver
  PaymentsSound
  GreetedOnce
  AcceptedIsKept
  EmailIsConfirmed
  RewardMoneyKept
  ReferralPaidOnce
  TiersSound
  SessionsSound
  MigrationsSound
PROPERTIES
  EarnedWhileStanding
  RefreshRestores
CHECK_DEADLOCK FALSE
