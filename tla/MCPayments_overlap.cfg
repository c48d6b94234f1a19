CONSTANTS
  p1 = p1  p2 = p2  c1 = c1  c2 = c2  c3 = c3  u1 = u1  none = none
  Payments <- TwoPayments  Users <- OneUser  Plans <- Club  Calls <- TwoCalls  None <- none
  Month = 2  Forever = 100  AmountsNamed = TRUE  ByHand = {}  MaxNow = 0  MaxFaults = 0
SPECIFICATION Spec
INVARIANTS MonthsDoNotOverlap
CHECK_DEADLOCK FALSE
