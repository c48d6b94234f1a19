------------------------------- MODULE Parts -------------------------------
(***************************************************************************)
(* Registration, and smaller parts beside it whose properties need no      *)
(* fairness.  They share no state, so that one of them, the scene of a     *)
(* behaviour, moves alone.  Registration has its own variables; the other  *)
(* parts take theirs from the slots v1, v2, ..., which are 0 where a scene *)
(* does not use them.                                                      *)
(***************************************************************************)
EXTENDS Registration, Sequences

\* Constants of several parts, beside Calls, Users and MaxFaults of Registration.
CONSTANTS
  Tournaments, Ticks, ReminderHorizon, MaxChanges,      \* Reminders
  Chats, Codes, Commands,                               \* TelegramLink
  SwitchHorizon,                                        \* Automation
  AlertCooldown, LongestNotice, AlertHorizon,           \* AnomalyAlerts
  StoreSockets, MaxBoots,                               \* ClubStore
  Played, DayOf, CostOf, ListLimit, MaxShift,           \* ClubRecords
  Views,                                                \* ReportPage
  CopyVersion,                                          \* TournamentCache
  Phones, Accounts,                                     \* PlayerLookup
  Processes, Hour, TokenHorizon, MaxKeys,               \* TokenCheck
  Field, TableCount, Corrections, MaxScores,            \* ScoreBoard
  Desktops, Dashboards, MaxStates,                      \* ClubHub
  Tabs, TextForms, Values, Files,                       \* Profile
  Player, Guests, Marked, MaxPlayers,                   \* TournamentPage
  Sizes, MaxPrizes, MaxDrafts,                          \* Wizard
  Pause, Week, Retention, SessionLimit, MaxRows, LogHorizon   \* ActivityLog

ASSUME PartsAssumption ==
  /\ ReminderHorizon \in Nat /\ MaxChanges \in Nat /\ SwitchHorizon \in Nat
  /\ {AlertCooldown, LongestNotice, AlertHorizon} \subseteq Nat
  /\ AlertHorizon > AlertCooldown   \* the clock of the alerts begins after one
  /\ MaxBoots \in Nat /\ CopyVersion \in Nat
  /\ Hour \in Nat /\ TokenHorizon \in Nat /\ MaxKeys \in Nat \ {0}
  /\ Accounts \subseteq Phones
  /\ Field \in Nat \ {0, 1}   \* fewer are not started
  /\ TableCount \in Nat /\ MaxScores \in Nat
  /\ Desktops \cap Dashboards = {} /\ MaxStates \in Nat
  /\ 0 \in Values /\ (UNION TextForms) \cap {"avatar", "password"} = {}
  /\ 8 \in Sizes /\ Sizes \subseteq Nat \ {0, 1}   \* 8 is what the form begins with
  /\ MaxPrizes \in Nat \ {0} /\ MaxDrafts \in Nat
  /\ Played \subseteq Nat /\ IsFiniteSet(Played) /\ CostOf \in [Played -> Nat]
  /\ ListLimit \in Nat /\ MaxShift \in Nat
  /\ Pause \in Nat /\ Week \in Nat /\ Retention \in Nat /\ LogHorizon \in Nat
  /\ None \notin StoreSockets \cup Phones \cup Chats \cup Codes
  /\ None \notin Desktops \cup Guests \cup {Player}

VARIABLES scene, v1, v2, v3, v4, v5, v6, v7, v8, v9, v10, v11, v12, v13, v14

\* The slots after the first n, and those slots unused.
After11 == <<v12, v13, v14>>
After9 == <<v10, v11, After11>>
After8 == <<v9, After9>>
After7 == <<v8, After8>>
After6 == <<v7, After7>>
After5 == <<v6, After6>>
After4 == <<v5, After5>>
After2 == <<v3, v4, After4>>

Unused11 == v12 = 0 /\ v13 = 0 /\ v14 = 0
Unused9 == v10 = 0 /\ v11 = 0 /\ Unused11
Unused8 == v9 = 0 /\ Unused9
Unused7 == v8 = 0 /\ Unused8
Unused6 == v7 = 0 /\ Unused7
Unused5 == v6 = 0 /\ Unused6
Unused4 == v5 = 0 /\ Unused5
Unused2 == v3 = 0 /\ v4 = 0 /\ Unused4
Unused0 == v1 = 0 /\ v2 = 0 /\ Unused2

slots == <<scene, v1, v2, After2>>
all == <<vars, slots>>

-----------------------------------------------------------------------------
\* Two runs of the scheduler that may overlap; a lead that ends before the clock.
Reminder == INSTANCE Reminders WITH
  Horizon <- ReminderHorizon,
  linked <- v1, joined <- v2, date <- v3, marked <- v4, running <- v5, tick <- v6,
  post <- v7, now <- v8, ticked <- v9, sent <- v10, ready <- v11, late <- v12,
  faults <- v13, changes <- v14

\* Two commands may carry one code, or two codes of one user.
Link == INSTANCE TelegramLink WITH
  chat <- v1, code <- v2, owner <- v3, start <- v4, told <- v5, crossed <- v6

\* Two requests that look at the switch, for twice its time to live and one more.
Switch == INSTANCE Automation WITH
  Requests <- Calls, Horizon <- SwitchHorizon,
  password <- v1, cache <- v2, request <- v3, now <- v4, lastSet <- v5, lastUnset <- v6

\* Two checks, and time for two alerts of each kind.
Anomaly == INSTANCE AnomalyAlerts WITH
  Checks <- Calls, Cooldown <- AlertCooldown, Notice <- LongestNotice, Horizon <- AlertHorizon,
  last <- v1, check <- v2, now <- v3, raised <- v4, faults <- v5

\* A desktop that is replaced, a dashboard, two snapshots that may cross.
Hub == INSTANCE ClubHub WITH
  Handlers <- Calls, MaxVersion <- MaxStates,
  sock <- v1, desktop <- v2, browsers <- v3, version <- v4, work <- v5, stored <- v6,
  shown <- v7, asked <- v8, acked <- v9, unheard <- v10, crossed <- v11

\* Two scores may cross, and played matches may be corrected.
Board == INSTANCE ScoreBoard WITH
  board <- v1, table <- v2, notified <- v3, told <- v4, saved <- v5, call <- v6,
  scores <- v7, faults <- v8, past <- v9

\* Three sockets: the store's, one that closes, one that comes next.
Dashboard == INSTANCE ClubStore WITH
  Sockets <- StoreSockets,
  user <- v1, token <- v2, mounted <- v3, boots <- v4, ws <- v5, sock <- v6,
  closingIntentionally <- v7, timer <- v8, late <- v9

\* Three sessions of two days, one more than the list holds.
Records == INSTANCE ClubRecords WITH
  Sessions <- Played, Day <- DayOf, Cost <- CostOf, Limit <- ListLimit, Posts <- Calls,
  rows <- v1, over <- v2, told <- v3, toldShift <- v4, shift <- v5, record <- v6, post <- v7

Report == INSTANCE ReportPage WITH
  NoView <- None, Asks <- Calls,
  view <- v1, shown <- v2, loading <- v3, ask <- v4, stray <- v5

\* Two requests that may cross, for two tournaments that change once.
Cache == INSTANCE TournamentCache WITH
  MaxVersion <- CopyVersion,
  version <- v1, cache <- v2, recent <- v3, call <- v4, done <- v5

\* A phone with an account and one without.
Lookup == INSTANCE PlayerLookup WITH
  Lookups <- Calls,
  open <- v1, phone <- v2, found <- v3, timer <- v4, lookup <- v5, listed <- v6,
  sent <- v7, stale <- v8

\* Two requests at one process, keys that change once, for three of its hours.
Token == INSTANCE TokenCheck WITH
  Requests <- Calls, Horizon <- TokenHorizon,
  signer <- v1, began <- v2, ended <- v3, cache <- v4, request <- v5, now <- v6

\* The settings open in two tabs, two requests that may cross.
Settings == INSTANCE Profile WITH
  Forms <- TextForms,
  row <- v1, stored <- v2, user <- v3, draft <- v4, typed <- v5, call <- v6, behind <- v7

\* Two places, three who may take them, two requests that may cross.
TheTournament == INSTANCE TournamentPage WITH
  Places <- MaxPlayers, Me <- Player, Clicks <- Calls,
  server <- v1, shown <- v2, answer <- v3, click <- v4

\* A number below the limit and one above it, a window that is opened twice.
Creation == INSTANCE Wizard WITH
  page <- v1, window <- v2, submitting <- v3, draft <- v4, call <- v5

\* Pauses of one, and rows that are purged while the clock still goes on.
Activity == INSTANCE ActivityLog WITH
  Limit <- SessionLimit,
  Nobody <- None, Horizon <- LogHorizon,
  log <- v1, now <- v2

-----------------------------------------------------------------------------
ScenesInit ==
  \/ scene = "registration" /\ Init /\ Unused0
  \/ /\ Init /\ places = 2
     /\ \/ scene = "reminders" /\ Reminder!Init
        \/ scene = "link" /\ Link!Init /\ Unused6
        \/ scene = "switch" /\ Switch!Init /\ Unused6
        \/ scene = "alerts" /\ Anomaly!Init /\ Unused5
        \/ scene = "board" /\ Board!Init /\ Unused9
        \/ scene = "hub" /\ Hub!Init /\ Unused11
        \/ scene = "dashboard" /\ Dashboard!Init /\ Unused9
        \/ scene = "records" /\ Records!Init /\ Unused7
        \/ scene = "report" /\ Report!Init /\ Unused5
        \/ scene = "cache" /\ Cache!Init /\ Unused5
        \/ scene = "lookup" /\ Lookup!Init /\ Unused8
        \/ scene = "token" /\ Token!Init /\ Unused6
        \/ scene = "settings" /\ Settings!Init /\ Unused7
        \/ scene = "tournament" /\ TheTournament!Init /\ Unused4
        \/ scene = "creation" /\ Creation!Init /\ Unused5
        \/ scene = "activity" /\ Activity!Init /\ Unused2

Plays(name) == scene = name /\ UNCHANGED <<scene, vars>>

ScenesNext ==
  \/ scene = "registration" /\ Next /\ UNCHANGED slots
  \/ Plays("reminders") /\ Reminder!Next
  \/ Plays("link") /\ Link!Next /\ UNCHANGED After6
  \/ Plays("switch") /\ Switch!Next /\ UNCHANGED After6
  \/ Plays("alerts") /\ Anomaly!Next /\ UNCHANGED After5
  \/ Plays("board") /\ Board!Next /\ UNCHANGED After9
  \/ Plays("hub") /\ Hub!Next /\ UNCHANGED After11
  \/ Plays("dashboard") /\ Dashboard!Next /\ UNCHANGED After9
  \/ Plays("records") /\ Records!Next /\ UNCHANGED After7
  \/ Plays("report") /\ Report!Next /\ UNCHANGED After5
  \/ Plays("cache") /\ Cache!Next /\ UNCHANGED After5
  \/ Plays("lookup") /\ Lookup!Next /\ UNCHANGED After8
  \/ Plays("token") /\ Token!Next /\ UNCHANGED After6
  \/ Plays("settings") /\ Settings!Next /\ UNCHANGED After7
  \/ Plays("tournament") /\ TheTournament!Next /\ UNCHANGED After4
  \/ Plays("creation") /\ Creation!Next /\ UNCHANGED After5
  \/ Plays("activity") /\ Activity!Next /\ UNCHANGED After2

ScenesSpec == ScenesInit /\ [][ScenesNext]_all

-----------------------------------------------------------------------------
(* What the run checks of each part, whose module says what it means; the  *)
(* types of its variables are checked along with it.                       *)

\* Tables are exclusive and not idle (table-assign.ts 18-60), the participants of
\* ready matches are told (tournament routes.ts 60-125), and whatever crosses or
\* fails, the tournament can be finished (500-560).
TablesAreUsed == scene = "board" => Board!TypeOK /\ Board!TablesAreUsed
ReadyIsAnnounced == scene = "board" => Board!ReadyIsAnnounced
NobodyIsStranded == scene = "board" => Board!NobodyIsStranded

\* Scores that take turns play the bracket of BracketPlay (tournament routes.ts
\* 500-560).
PlaysTheBracket ==
  /\ scene = "board" => Board!Play!Init
  /\ [][scene = "board" => Board!PlaysOn]_slots

\* Users are reminded once of a tournament, and nobody who was linked and
\* registered in time is forgotten (scheduler.ts 43-86).
RemindersAreRight ==
  scene = "reminders" =>
    Reminder!TypeOK /\ Reminder!RemindedOnce /\ Reminder!NobodyIsForgotten

\* A link code ties one chat, to the user who asked for it (routes.ts 497-520).
CodesServeOnce ==
  /\ [](scene = "link" => Link!TypeOK)
  /\ [][scene = "link" => Link!Serves]_slots

\* Whether a tournament is free to pay was true a minute before, or later
\* (automation.ts 18-41); the key that says whose a token is was the auth service's
\* an hour before, or later (gateway jwt-verifier.ts 17-31).
AnswersAreRecent ==
  /\ scene = "switch" => Switch!TypeOK /\ Switch!AnswersAreRecent
  /\ scene = "token" => Token!TypeOK /\ Token!TakenIsRecent /\ Token!RefusedForAReason

\* Crossing checks keep the cooldown between alerts of errors, and between those
\* of traffic but for the time a notice takes (jobs.ts 80-103).
AlertsAreSpaced == scene = "alerts" => Anomaly!TypeOK /\ Anomaly!AlertsAreSpaced

\* The club dashboard has one connection, and none after its page has gone
\* (store/club.ts 122-133, 178-185, 245-267).
OneSocket ==
  scene = "dashboard" =>
    Dashboard!TypeOK /\ Dashboard!OneSocket /\ Dashboard!GoneIsQuiet

\* The room of a club is true (ws-hub.ts 49-69, ws-route.ts 42-62), and what its
\* dashboards show goes back only when messages crossed (ws-hub.ts 87-116).
HubIsTrue ==
  /\ [](scene = "hub" => Hub!TypeOK /\ Hub!RoomIsTrue)
  /\ [][scene = "hub" => Hub!GoesForward]_slots

\* The reports of a club count every session once (club routes.ts 122-161,
\* 275-370), its shift on record goes back only by a request that was outrun
\* (165-202), and the sessions of the activity log are stretches without a pause
\* (admin routes.ts 292-321).
RecordsAreTrue ==
  /\ [](scene = "records" => Records!TypeOK /\ Records!TakingsAreTrue)
  /\ [](scene = "activity" => Activity!TypeOK /\ Activity!SessionsAreStretches)
  /\ [][scene = "records" => Records!KeepsUp]_slots

\* The report shown is the one selected (ClubReports.tsx 127-160).
ShownIsSelected == scene = "report" => Report!TypeOK /\ Report!ShownIsSelected

\* A tournament shown goes back only by an answer that was outrun, and whoever
\* changed it sees his change (tournaments.ts 102-183); of a profile, a form
\* changes what was typed in it, and a tab shows what came of its last request
\* (auth.ts 97-121, SettingsTab.tsx 46-66, 212-240).
StoresKeepUp ==
  /\ [](scene = "cache" => Cache!TypeOK)
  /\ [][scene = "cache" => Cache!GoesForward /\ Cache!OwnChangeCame]_slots
  /\ [](scene = "settings" =>
         Settings!TypeOK /\ Settings!AvatarIsStored /\ Settings!EndedIsShown)
  /\ [][scene = "settings" => Settings!ChangesWhatWasTyped]_slots

\* The account added is the one of the phone added, but for late answers
\* (TournamentDetail.tsx 945-1008); what a page offers is done unless it was old
\* (103-108, 404-436, 637-689); and a form creates a complete tournament, once
\* (CreateTournamentWizard.tsx 148-194).
PagesDoWhatTheyShow ==
  /\ [](scene = "lookup" => Lookup!TypeOK)
  /\ [][scene = "lookup" => Lookup!AddsTheOneFound]_slots
  /\ [](scene = "tournament" => TheTournament!TypeOK /\ TheTournament!OffersAreGood)
  /\ [][scene = "tournament" => TheTournament!MarksWhatWasMeant]_slots
  /\ [](scene = "creation" => /\ Creation!TypeOK /\ Creation!FormsAreComplete
                              /\ Creation!CreatedOnce /\ Creation!WaitsForItsRequest)
=============================================================================
