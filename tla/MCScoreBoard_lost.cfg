CONSTANTS
  c1 = c1  c2 = c2
  Field = 4  TableCount = 2  Calls <- TwoCalls  Corrections = FALSE  MaxScores = 2  MaxFaults = 0
SPECIFICATION Spec
INVARIANTS SavedScoreStays
CHECK_DEADLOCK FALSE
