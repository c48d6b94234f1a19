\* The bounds of the parts that have no constants here are in Parts.
CONSTANTS
  e1 = e1  e2 = e2  e3 = e3  u1 = u1  u2 = u2  guest = guest  none = none  left = left  c1 = c1  c2 = c2
  Entries <- ThreeEntries  Users <- TwoUsers  Guest <- guest  None <- none  Left <- left
  Places <- TwoOrThree  MinPlayers = 2  Calls <- TwoCalls  MaxStarts = 2  MaxFaults = 1
  Tournaments <- TwoTournaments  Ticks <- TwoTicks  ReminderHorizon = 3  MaxChanges = 1
  Chats <- TwoChats  Codes <- TwoCodes  Commands <- TwoCommands
  SwitchHorizon = 5  AlertCooldown = 3  LongestNotice = 2  AlertHorizon = 9
  StoreSockets <- ThreeSockets  MaxBoots = 2
  Views <- ThreeViews
  CopyVersion = 1
  Phones <- TwoPhones  Accounts <- OneAccount
  Field = 5  TableCount = 2  Corrections = TRUE  MaxScores = 3
  Processes <- OneProcess  Hour = 1  TokenHorizon = 3  MaxKeys = 2
  Desktops <- TwoDesktops  Dashboards <- OneDashboard  MaxStates = 1
  Tabs <- TwoTabs  TextForms <- OneForm  Values <- TwoTexts  Files <- OneFile
  Player <- player  Guests <- TwoGuests  Marked <- marker  MaxPlayers = 2
  Played <- ThreePlayed  DayOf <- TwoDays  CostOf <- ThreeCosts  ListLimit = 2  MaxShift = 2
  Pause = 1  Week = 4  Retention = 5  SessionLimit = 3  MaxRows = 4  LogHorizon = 7
  Sizes <- TwoSizes  MaxPrizes = 2  MaxDrafts = 2
SPECIFICATION ScenesSpec
INVARIANTS CountKeepsUp FieldIsDrawn TablesAreUsed ReadyIsAnnounced NobodyIsStranded  AnswersAreRecent AlertsAreSpaced OneSocket ShownIsSelected
PROPERTIES StartedIsFrozen NobodyIsOverbooked PlaysTheBracket HubIsTrue RecordsAreTrue CodesServeOnce StoresKeepUp PagesDoWhatTheyShow
CHECK_DEADLOCK FALSE
