SPECIFICATION FairSpec
CONSTANTS
  o1 = o1
  o2 = o2
  w1 = w1
  w2 = w2
  soap = soap
  None = None
  Orders <- OneOrder
  Products = {soap}
  Workers = {w1, w2}
  TermChoices <- OneOrTwo
  OpeningStock <- LastUnit
  MaxTyped = 1
  MaxEdits = 0
  MaxUses = 1
  PaymentSteps <- AnyPayment
  Disputable <- OneOrder
  MaxFaults = 1
INVARIANTS GoodsArePaidFor RefundIsOnRecord OneRefundUnlessNews IInv
PROPERTIES PendingOrdersClose PaidIsAnswered
CHECK_DEADLOCK FALSE
