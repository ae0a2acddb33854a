SPECIFICATION RewardsSpec
CONSTANTS
  Desks = {d1, d2}
  Purchases <- OneVisit
  Badge <- NoBadges
  Challenge <- DailyVisit
  NoValue = NoValue
  MaxRows = 5
  LastWindow = 1
INVARIANTS
  OncePerWindow
CHECK_DEADLOCK FALSE
