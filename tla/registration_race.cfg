SPECIFICATION Spec
CONSTANTS
  w1 = w1
  w2 = w2
  None = None
  Phones = {"024"}
  MaxRows = 2
  MaxRefs = 2
  Workers <- TwoWorkers
  Serves <- Split
  FirstFee = 100
  LastFee = 120
  Registered = {"024"}
  PaymentSteps <- PaymentsThatStay
  MaxFaults = 1
INVARIANTS AnsweredRightly
PROPERTIES OpenCheckoutKeepsRow
CHECK_DEADLOCK FALSE
