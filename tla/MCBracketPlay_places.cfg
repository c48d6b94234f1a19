CONSTANTS
  Tournaments <- UnevenScores
SPECIFICATION Spec
INVARIANTS ChampionIsFirst
CHECK_DEADLOCK FALSE
