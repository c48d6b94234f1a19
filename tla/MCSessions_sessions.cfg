\* One tab, two requests, one fault; pages wait for the bootstrap.
CONSTANTS
  t1 = t1  b1 = b1  n1 = n1  n2 = n2  n3 = n3  n4 = n4  n5 = n5
  r1 = r1  r2 = r2  none = none
  Tabs <- OneTab
  Browsers = {b1}
  Home <- Alone
  Tokens <- FiveTokens
  Requests = {r1, r2}
  None <- none
  EarlyRequests = FALSE
  MaxFaults = 1
SPECIFICATION FairSpec
PROPERTIES EndedForGood SessionSurvives RequestsEnd
CHECK_DEADLOCK FALSE
