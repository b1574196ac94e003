SPECIFICATION Spec
CONSTANTS
  ama = ama
  ben = ben
  cyd = cyd
  dan = dan
  esi = esi
  w1 = w1
  w2 = w2
  None = None
  Members <- Clan
  Sponsor <- ClanSponsor
  Packs <- OnePack
  PackPv <- Pv
  PackBonus <- Pv
  Buyers = {ben, cyd, dan, esi}
  Cancellers = {ben}
  MaxRefs = 3
  Requests = {w1, w2}
  Tasks = {}
  PaymentSteps <- PaidOnly
  Spending = {ama}
  Disputable = {}
  MaxFaults = 0
INVARIANTS TreeSound PackBooksAgree
CHECK_DEADLOCK FALSE
