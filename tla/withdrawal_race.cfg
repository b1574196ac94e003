SPECIFICATION FairSpec
CONSTANTS
  Distributors = {d1}
  Requests = {r1}
  Workers = {w1, w2}
  Destinations = {m1}
  None = None
  Nameless = {}
  Amounts = {5}
  TaxRates = {10}
  MinAmount = 5
  MaxAmount = 5
  Window = 1
  LastDay = 0
  Earnings = {}
  MaxEarned = 5
  OpeningBalance = 5
  MaxFaults = 2
  Environments <- EitherStands
  FirstAnswers <- AllAnswers
  Settlements <- AllSettlements
INVARIANTS OneTransferPerRequest IInv
PROPERTIES KeepsPromise EventuallySettled
