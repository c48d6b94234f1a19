CONSTANTS
  Tournaments <- DoubleWithByes
SPECIFICATION Spec
INVARIANTS SomeoneCanPlay
CHECK_DEADLOCK FALSE
