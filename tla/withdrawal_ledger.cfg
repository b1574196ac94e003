SPECIFICATION Spec
CONSTANTS
  Distributors = {d1}
  Requests = {r1, r2}
  Workers = {w1}
  Destinations = {m1, m2}
  None = None
  Nameless = {}
  Amounts = {4, 5, 11}
  TaxRates = {10}
  MinAmount = 5
  MaxAmount = 10
  Window = 2
  LastDay = 2
  Earnings = {5}
  MaxEarned = 10
  OpeningBalance = 5
  MaxFaults = 1
  Environments <- OnlyLockStands
  FirstAnswers <- JustPending
  Settlements <- PlainSettlements
INVARIANTS MoneyConserved LedgerFollowsStatus OneRequestPerWindow SentToSnapshot
SYMMETRY RequestSymmetry
