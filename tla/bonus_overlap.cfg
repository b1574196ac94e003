\* Two workers whose binary cycles overlap once the lock lapsed.
SPECIFICATION Spec
CONSTANTS
  ama = ama
  kofi = kofi
  esi = esi
  yaw = yaw
  p1 = p1
  p2 = p2
  p3 = p3
  w1 = w1
  w2 = w2
  None = None
  Expiry = 1
  MinPersonal = 1
  LastDay = 2
  Rate = 75
  Cap = 20
  Week = 1
  MatchRate = 50
  FirstInterval = 1
  Distributors <- Trio
  Above <- TrioTree
  Sponsor <- TrioRecruits
  Depth <- TrioRanks
  EarlierPersonal <- TrioQualified
  Purchases = {p1, p2, p3}
  Buyer <- Buyers
  Pv <- Earned
  MonthLength = 2
  Jobs = {"binary"}
  Workers = {w1, w2}
  Intervals = {1, 2}
  MayLapse = {"binary"}
  MaxFaults = 0
SYMMETRY WorkerSymmetry
INVARIANTS WeeklyCapHolds PvIsConserved PaidForSpent
CHECK_DEADLOCK FALSE
