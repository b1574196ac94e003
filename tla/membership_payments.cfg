SPECIFICATION FairSpec
CONSTANTS
  ama = ama
  ben = ben
  cyd = cyd
  dan = dan
  esi = esi
  w1 = w1
  w2 = w2
  None = None
  Members <- Pair
  Sponsor <- PairSponsor
  Packs <- TwoPacks
  PackPv <- Pv
  PackBonus <- Pv
  Buyers = {ben}
  Cancellers = {ben}
  MaxRefs = 2
  Requests = {w1}
  Tasks = {w2}
  PaymentSteps <- AnyPayment
  Spending = {}
  Disputable = {1}
  MaxFaults = 1
INVARIANTS PackBooksAgree
PROPERTIES PayerIsServed
CHECK_DEADLOCK FALSE
