SPECIFICATION FairSpec
CONSTANTS
  w1 = w1
  w2 = w2
  None = None
  Phones = {"024"}
  MaxRows = 1
  MaxRefs = 2
  Workers <- TwoWorkers
  Serves <- Roles
  FirstFee = 100
  LastFee = 100
  Registered = {}
  PaymentSteps <- Payments
  MaxFaults = 1
PROPERTIES PaidRegistrationIsAnswered RowsAreResolved
CHECK_DEADLOCK FALSE
