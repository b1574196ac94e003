SPECIFICATION Spec
CONSTANTS
  o1 = o1
  o2 = o2
  w1 = w1
  w2 = w2
  soap = soap
  None = None
  Orders <- TwoOrders
  Products = {soap}
  Workers = {w1}
  TermChoices <- AnyTerms
  OpeningStock <- LastUnit
  MaxTyped = 1
  MaxEdits = 1
  MaxUses = 1
  PaymentSteps <- PaidAtLast
  Disputable <- NoDisputes
  MaxFaults = 0
SYMMETRY OrderSymmetry
INVARIANTS LinesServed BooksMatch
PROPERTIES ShelfKept
CHECK_DEADLOCK FALSE
