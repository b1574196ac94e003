\* Both bonuses, and the upline who is paid for what the downline earns.
SPECIFICATION Spec
CONSTANTS
  ama = ama
  kofi = kofi
  esi = esi
  yaw = yaw
  p1 = p1
  p2 = p2
  p3 = p3
  w1 = w1
  w2 = w2
  None = None
  Expiry = 1
  MinPersonal = 1
  LastDay = 2
  Rate = 75
  Cap = 20
  Week = 1
  MatchRate = 50
  FirstInterval = 2
  Distributors <- Team
  Above <- Tree
  Sponsor <- Recruits
  Depth <- Ranks
  EarlierPersonal <- Qualified
  Purchases = {p1, p2}
  Buyer <- TwoBuyers
  Pv <- TwoEarned
  MonthLength = 3
  Jobs = {"binary", "matching"}
  Workers = {w1}
  Intervals = {1, 2}
  MayLapse = {}
  MaxFaults = 1
PROPERTIES OwedIsPaid
CHECK_DEADLOCK FALSE
