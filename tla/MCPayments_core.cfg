CONSTANTS
  p1 = p1  p2 = p2  c1 = c1  c2 = c2  c3 = c3  u1 = u1  none = none
  Payments <- TwoPayments  Users <- OneUser  Plans <- Mixed  Calls <- TwoCalls  None <- none
  Month = 2  Forever = 100  AmountsNamed = TRUE  ByHand <- Second  MaxNow = 1  MaxFaults = 1
SPECIFICATION Spec
INVARIANTS StatusTellsMoney CompletedHasAccess
PROPERTIES CancelledForGood KeepsPromise
CHECK_DEADLOCK FALSE
