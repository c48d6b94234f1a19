CONSTANTS
  p1 = p1  p2 = p2  c1 = c1  c2 = c2  u1 = u1  u2 = u2  none = none
  Payments <- TwoPayments  Buyers <- TwoBuyers  Calls <- TwoCalls  None <- none
  Spread = 2  Expiry = 2  DedupeTtl = 2  Repeats = 2  Prompt = TRUE  MaxNow = 4  MaxFaults = 1
SPECIFICATION FairSpec
INVARIANTS SumsTellApart TransfersAreCredited
PROPERTIES NewBuyerIsCredited
CHECK_DEADLOCK FALSE
