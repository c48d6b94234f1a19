# Biliardo in TLA+

Biliardo is a service for billiards tournaments: a React client, a gateway and a handful of
Fastify services over Postgres and Redis. This directory holds TLA+ models of the parts of it that
have behaviour of their own (money, brackets, sessions, rows that several requests write, pages that
show what may be old), the TLC runs that check them, and TLAPS proofs about twenty-one of them.

Run TLC with `tlc -config MCPayments_core.cfg MCPayments.tla` (each `.cfg` is named after its MC
module), the proofs with `tlapm` on each module named `_proofs`.
`PROJECT.json` lists the runs, the source lines of every definition, the hazards and the findings.

## The system

| Component | State | Operations | Who it talks to |
|---|---|---|---|
| payment service, live mode (`payment/src/routes.ts`, `kaspi-client.ts`, `plans.ts`) | `Payment`, `Subscription` rows; orders at Kaspi | create, poll, webhook, credit, refund | Kaspi (HTTP out, webhook in), the buyer's page (polls), admin (refund) |
| payment service, bridge mode (`routes.ts`, `kaspi-bridge.ts`) | `Payment` rows with a unique sum; a map of recent notifications in memory | give out a sum, save the QR, take a notification, match, credit | a phone that forwards the bank's notifications |
| automation gate (`automation.ts`) | a flag cached for a minute | read before a payment is created | auth |
| tournaments (`tournament/src/routes.ts`) | `Tournament`, `Participant`, `Match` rows, `participantCount` | register, unregister, start, complete, change, delete | the bot (HTTP), shared bracket code |
| score board (`routes.ts`, `table-assign.ts`, `mapping.ts`, `notify.ts`) | `Match` rows with table and `notifiedReady` | score a match: rewrite all rows, assign tables, announce | the bot |
| brackets (`packages/shared/src/bracket`) | none, pure functions | generate and advance single and double elimination, page playoff, round robin, Swiss, groups; standings | tournament service, web client, `scripts/verify-brackets.ts` |
| reminder scheduler (`scheduler.ts`) | `startReminderSentAt`, a `running` flag | a tick a minute | the bot |
| auth (`auth/src`) | users, refresh tokens, link codes; a BullMQ queue | register through the queue, login, refresh with rotation, logout, link Telegram, desktop token | Redis, the bot |
| club (`club/src`) | WebSocket rooms in memory, snapshots, sessions, shifts | attach, synchronise, command and acknowledge | the club's desktop program, browsers |
| gateway (`gateway/src`) | a cached public key, a cached ban list, rate counters | verify, ban, proxy, post activity | every service |
| bot (`bot/src`) | none | tie a chat, send notifications | auth, Telegram |
| admin (`admin/src`) | bans, activity and alert logs, stamps of the last alerts, dump files | watch, alert, ban, purge, dump, edit rows | the bot, Postgres, `pg_dump` |
| web client: stores (`apps/web/src/store`, `api/client.ts`) | user and access token, tournaments, a club's socket | refresh, log in and out, merge answers, connect | gateway, club |
| web client: pages (`apps/web/src/pages`, `components`) | timers, requests under way, forms | check out, poll, score, register, create, edit a profile, report | the stores |

What is hard: every handler reads with one statement and writes with a later one, no row has a
version and no read takes a lock, so any two requests of a component may cross between two awaits;
transactions run at Postgres' default READ COMMITTED; calls to Kaspi and to the bot fail, answer
late or lose their answer; a process may die between two statements; in-memory maps go with a
restart. `PROJECT.json` lists the places where that bites.

What makes each part correct:

- payments: a status tells the truth about the money; a completed subscription has access, a
  refunded one never gets it back; money taken is settled;
- bridge: a sum in a notification points to one payment; a transfer completes one payment, the
  right one, however often its notification comes;
- tournaments: the counter matches the rows; a running tournament has a bracket, of the people who
  are registered; a started tournament does not change under its players; nobody is overbooked;
- score board: rows always form a bracket that can be finished; ready matches have tables of their
  own and their players know;
- brackets: the champion is reached from every field the service accepts, everyone has one place,
  results and seats agree, also after a corrected score;
- sessions: one tab alone keeps its session, sessions that were ended stay ended; queue: a registration
  is carried out, and nobody is told a lie about it; link codes: one chat each; a token is believed only by a recent key;
- club: one socket a dashboard, one desktop a room, dashboards catch up, takings are counted once;
- reminders: once, and not forgotten; alerts of a kind: a cooldown apart; bans: known in the end; backups: answered, and whole;
- pages: a buyer comes to see his payment; what a page offers is accepted unless the page was old; what is
  added, saved or created is what was shown, once.

## Modules

| Module | Models | Lines of |
|---|---|---|
| `AccessPromise` | what a subscription purchase promises: pay, grant, return, revoke | abstract |
| `Payments` | the payment service in live mode with Kaspi and the buyer | payment `routes.ts`, `kaspi-client.ts`, `plans.ts` |
| `Payments_proofs` | theorems about `Payments`, its refinement of `AccessPromise` | |
| `BridgePayments`, `BridgePayments_proofs` | the payment service in bridge mode, the forwarder, restarts; theorems | payment `routes.ts`, `kaspi-bridge.ts` |
| `Automation` | the API password, the auth service's answer, the minute's cache | payment `automation.ts`, auth `routes.ts` |
| `Checkout` | the buyer's pages and their polls | `PaymentCheckout.tsx`, `PaymentReturn.tsx`, `Pricing.tsx` |
| `Brackets` | the elimination brackets as operators on sequences of matches | `packages/shared/src/bracket` |
| `Leagues` | round robin, Swiss, groups with playoff, standings, final places; the six formats together | `packages/shared/src/bracket` |
| `BracketPlay`, `BracketPlay_proofs` | a tournament of any format, played in every order; theorems about leagues and knockouts | `applyMatchResult`, `verify-brackets.ts` |
| `ScoreBoard`, `ScoreBoard_proofs` | score requests that cross, tables, announcements; implements `BracketPlay`; theorems | tournament `routes.ts` 505-606, `table-assign.ts` |
| `Registration`, `Registration_proofs` | participants, the counter, start, complete, change, delete; theorems | tournament `routes.ts` 235-502 |
| `Reminders` | the scheduler, its notification, the bot's messages | `scheduler.ts`, `notify.ts`, bot `routes.ts` |
| `TournamentPage` | a tournament open before an organizer and a player, and the handlers behind its buttons | `TournamentDetail.tsx`, tournament `routes.ts` 313-517 |
| `PlayerLookup` | the window that adds a participant by phone | `TournamentDetail.tsx` 887-1002 |
| `Wizard` | the window that creates a tournament, and its handler | `CreateTournamentWizard.tsx`, tournament `routes.ts` 63-77, 229-257 |
| `TournamentCache` | the store of tournaments and its answers | `store/tournaments.ts` |
| `Sessions`, `Sessions_proofs` | refresh tokens, cookie, single flight, bootstrap, login and logout; theorems | auth `refresh-token.ts`, `routes.ts`, `api/client.ts`, `store/auth.ts` |
| `TokenCheck` | the public key each process keeps, and the tokens it judges | the gateway's and club's `jwt-verifier.ts`, tournament `auth.ts` |
| `RegisterQueue` | registration through the job queue | auth `queue.ts`, `routes.ts` |
| `TelegramLink` | link codes, /start, unlinking | auth `routes.ts`, `bot.ts`, `auth-client.ts` |
| `Profile` | the profile, the avatar, the API password, settings in several tabs | auth `routes.ts`, `s3.ts`, `SettingsTab.tsx`, `store/auth.ts` |
| `ClubHub` | sockets of a club, snapshots and acknowledgements, what dashboards show | `ws-hub.ts`, `ws-route.ts`, club `routes.ts`, `store/club.ts` |
| `ClubStore` | the dashboard's socket, its timer and its flag | `store/club.ts` 98-268 |
| `ClubRecords` | sessions and shifts as the desktop repeats them, two reports | club `routes.ts` 122-370 |
| `ReportPage` | the view selected and the requests for it | `ClubReports.tsx` |
| `IpBans` | rows of bans and the gateway's copy | gateway `index.ts` 74-106, admin `routes.ts` |
| `ActivityLog` | the log of requests, its purge, the sessions made of it | gateway `index.ts`, admin `routes.ts`, `jobs.ts` |
| `AnomalyAlerts` | the minute's checks, the alert and its message | `jobs.ts` 69-109, `alerts.ts` |
| `Backups` | dumps, the events that end them, pruning | `backup.ts`, `jobs.ts` |
| `MCPayments`, `MCBridgePayments`, `MCBracketPlay`, `MCScoreBoard`, `MCRegistration`, `MCSessions` | constants for TLC | |
| `Parts`, `Parts_proofs`, `Pages_proofs` | registration and the smaller parts as scenes of one specification; theorems about sixteen of them | |
| `MCParts` | the constants of `Parts` for TLC | |
| `MCProgress` | the parts whose properties need fairness, as scenes of one run | |

`Leagues` EXTENDS `Brackets`, `BracketPlay` EXTENDS `Leagues`; `ScoreBoard` EXTENDS `Brackets` and
INSTANCEs `BracketPlay`; `Payments` INSTANCEs `AccessPromise`. The board of `ScoreBoard` begins where
`Registration`'s start has committed.

Scenes. The smaller parts share no state, so nothing is gained by letting them move together. `Parts`
and `MCProgress` INSTANCE each part with the variables `v1`, `v2`, ... in the place of its own; `scene` says
which part a behaviour is about, and never changes. A property of such a run is a conjunction over
the scenes it speaks of, and includes their type invariants. What a part's property means is said in
the part's module. `Parts` takes the constants of the parts that have theorems as its own, so that the
theorems hold for all their values, and says in `PartsAssumption` what is assumed of them; `MCParts` gives
them values. `MCProgress` states the fairness of
each part in its own scene; a condition whose alternatives lie in different scenes is the same as one
condition for each, since at most one is ever enabled.

Common form. A request in flight is a record `call[c]` in one of a few slots; its `pc` names the
next statement, its other fields are the handler's local variables. An action is what happens
between two awaits: a check that ends in an early answer is a disabled action, since it changes
nothing. A transaction is one step when nothing in it can be interleaved, two when it takes row
locks or reads what it later writes. `Abandon` is a failed statement or a dead process between two
steps; it is bounded by `MaxFaults`. An operator named `X_Something` above an operator `X` is a
plausible bug of `X`; it is used by no run, and shows that the property it is paired with in
`PROJECT.json` can be broken by the code going wrong. A variable whose comment says "history" is no
state of the program: it remembers what a property has to leave out, or to tell apart.

Assumptions that all models share: READ COMMITTED; a statement is atomic; validation, authentication
and ownership checks, which answer before anything is read or written, are left out unless a page and a
handler may disagree on them. Where a lost answer matters (sessions, the desktop's repetitions, the
wizard, the pages) it is an action; elsewhere a request whose answer is lost counts as failed.

### Payments

`pay`, `sub` and `order` are the rows of `Payment` and `Subscription` and the order at Kaspi.
POST /payments inserts the row, creates the order, saves its id (`CreateRow`, `OrderCreated`,
`SaveOrder`); its catch writes FAILED over whatever is there (`MarkFailed`). A poll asks Kaspi and a
webhook brings a result late or twice; both go through `applyPaymentResult` (`ApplyRead`, then
`ApplyClose`, or `CreditOpen` and one of the two credits). `CreditRejected` is the unique key on
`paymentId` that stops a second credit of the same purchase. A refund returns the money first and
then cancels the subscription and the payment in a transaction (`ReturnMoney`, `RevokeOpen`,
`RevokeCommit`); `ReturnAnswerLost` is an answer of Kaspi that never arrives. Refund and credit
lock the two rows in opposite order, and Postgres aborts one (`DeadlockAbort`). The buyer sees the QR
code only with the saved row, so nobody pays an order whose id was not saved.

The amount of a payment is compared with what Kaspi reports, when it reports one (`routes.ts:442`): a webhook carries
the amount by its type (`kaspi-client.ts:65`), the answer about a status may leave it out (301), and a wrong sum then counts
as the right one (`Answers`). `AmountsNamed` says that Kaspi always names it; `Taken` is the money the service may take for paid.
The merchant may also return money in Kaspi's own application (`ManualReturn`), of the payments in `ByHand`; `Purchases` are the others,
and of them alone the refinement and `AccessIsCompleted` speak.

Not in the model: the stub provider of development builds, the administrator's direct PATCH and
DELETE of a payment. The automation gate is `Automation`.

`StatusTellsMoney`, `CompletedHasAccess`, `AccessIsCompleted`, `CancelledForGood` are the safety
properties, `KeepsPromise` the refinement of `AccessPromise`, `PaidIsSettled` the liveness property.
`MonthsDoNotOverlap` is what a doc claims; the code breaks it.

### BridgePayments

Amounts are offsets from one price: the ranges of the plans do not overlap, so payments of
different plans cannot meet. A notification carries sender and sum, nothing else. `Match` finds the
pending payment of that sum, `Credit` stands for the crediting transaction of `Payments`. `seen` is the
in-memory memory of notifications, lost in `Restart`. `alone` records that no two requests have been
in flight together; `Calm` adds that nothing failed. Several properties hold under them only; that
is stated in each. `Prompt` says that
no request and no unanswered transfer lives across an expiry: `Tick` waits for them. What is remembered
is forgotten after `DedupeTtl`, a day in the code, or in a restart; the forwarder repeats a notification
for `Repeats`. `BridgeAssumption` says that it stops before the memory does (`Repeats <= DedupeTtl`): the
forwarder is not in the repository, and a repetition after a day would be taken for a new transfer.

### Brackets, Leagues and BracketPlay

A match has a stage, a round, two participants (seeds), a status and a winner; a score is reduced to
the side that wins and the difference `by`, which is all that advance and ranking look at. Generators
and `ApplyMatchResult` are translated function by function: byes, `snakeSeed`, the drop of losers with
its free-seat rule, the grand final, the third place of the page playoff; in `Leagues` the circle method
(`CirclePlace`), the greedy pairing of a Swiss round (`SwissPairings`), the round that a score may open
(`NextSwissRound`), the snake over the groups (`GroupOf`) and the playoff they fill (`FillPlayoff`).
`Standings` and `Placements` are two rankings, one of `standings.ts` and one of `player-stats.ts`; both
sort by a key, and a sort by keys that all differ is the sequence `Ranked` picks.

`BracketPlay` scores any playable match, with any winner; `corrections` says whether completed matches
are scored again, as the bracket view allows. `pace` bounds the order: `free` is every order, `listed` the
first ready match with any winner, `scripted` the first ready match won 5:3 by its first participant,
which is what `verify-brackets.ts` plays.

### ScoreBoard

POST .../score reads all rows, computes the next bracket, then deletes and inserts every row in one
transaction, chooses tables from a later read and assigns them in another transaction, loads ready
matches, sends the messages and marks them. Each of these is a step of `ScoreBoard`. Of two
replacements that cross, the second does not see the first one's rows: its INSERT collides and the
request fails (`CommitFails`). Everybody has Telegram, all messages of a request are one step, the
include of `findUnique` is one snapshot, and the bracket is a single elimination.
`PlaysTheBracket` is the refinement: requests in turn play `BracketPlay`. `past` is a history variable that remembers
whether requests have crossed and whether a score was corrected.

### Registration

`entry[e]` says whose participant row `e` is; ids are never used again (`Left`). `brackets` holds for
each bracket among the match rows when it was started and with whom. DRAFT and REGISTRATION act alike
in every handler and are merged. Start reads the participants, deletes the matches it can see
(`Clear`) and inserts its own (`CommitStart`): two starts that cross leave two brackets, as ids are
fresh. Delete is one statement that cascades. `Ahead` is the difference between counter and rows with
the writes under way counted in; it is what `CountKeepsUp` and its proof are about.

Not in the model: seeds and positions, the replacement of prize places, a change of the bracket type,
CANCELLED (only an administrator writes it). The marks for check-in and the fee are in `TournamentPage`, the
creation of a tournament in `Wizard`.

### Sessions and tokens

`Sessions` is one account in some browsers. `row` is what became of each refresh token, `cookie` and `stored`
belong to a browser and are shared by its tabs, `tab` is a tab's memory. A refresh is sent by the bootstrap of a
page load or by the single flight that requests answered 401 share (`Ways`); a page that is left gives its
call to an orphan slot, and its login or logout is left to the service (`Left`): both are handled still, their answers reach nobody (`Vanish`,
`Unheard`). The handler finds and judges a token in one step
(`Handle`) and rotates it, or revokes all tokens, in a later one. A token nobody holds stands for the next random one, so a
handful of values is enough. `Disturbed` names what may end a session without a logout: a fault, a logout
everywhere, expiry, another tab of the same browser.

`TokenCheck` is the other half: access tokens are judged by a public key that each process keeps for an
hour. It has the clock, the keys the auth service was given, and requests that find a key old and wait for an
answer. The three copies of the code (gateway, tournament, club) are the set `Processes`. A key is as old as
the request for it, not its answer: `lastFetched` takes the moment before the await.

### Queue, link, profile

`RegisterQueue`: the form, the job whose id is the phone, three attempts of a job that throws, one stalled run after a
crash, the two seconds the handler waits and the status route; an ended job may be removed at any time (an hour, a day, or a thousand
others completed). BullMQ is external and modelled by how the code uses it.
`TelegramLink`: a code is judged before the transaction that uses it; the bot's answer comes later.
`Profile`: rows, storage and tabs that may show an old user. A form sends the fields that differ from the store's user, which
is why saving in one tab does not undo the other's change; `meant` is the history of what was typed. Refused texts and phones
are failed calls.

### The club

`ClubHub` has the sockets of the desktop and of the dashboards, the room, the row of the snapshot and the handlers nobody waits
for. The state of the club is a number, so "goes back" is `<`. `crossed` marks behaviours in which two messages overtook
each other. A desktop that was replaced is heard until its socket has closed (`Heard`), and what it had sent may come late
(`AcknowledgeLate`). `ClubStore` is the socket as the dashboard's store handles it, with its one flag, its timer and close events that come
late. `ClubRecords` has the desktop, which is not in the repository, repeat what was not answered. `ReportPage` is
the report a page asks for while another view is selected.

### Reminders, alerts, bans, backups, activity

Time is counted in units of what matters: the reminder's lead, half of the cache's minute. Each module's head says which. `Reminders` and `AnomalyAlerts` let runs of a timer overlap, as `setInterval` does; `IpBans` lets
fetches overlap and answers come in any order. `Backups` is the event loop of one dump: exit, error, open, finish and close in any order.
`ActivityLog` translates the query of the activity sessions clause by clause: the window of the week, the row before, the
pause, the running count, the group, the order and the limit (`Answers`).
The unit of the clock of `AnomalyAlerts` is left open, a millisecond in the code; `Cooldown` and `Notice`, the longest that telling the
administrators of errors takes, are any numbers of it.

### Pages and stores

`Checkout`, `TournamentCache`, `PlayerLookup`, `TournamentPage`, `Wizard`: a request is sent from what the page shows, and by the time
it is answered the page may show something else. `TournamentPage` has two viewers; `Offers` is what the page allows and
`Accepts` what the handler checks, and `OffersAreGood` says that they agree when the page is not old. `Wizard` has the four steps,
`canGoNext`, the request and the page behind it; fields that are never required are left out, and their limits stand with
that of the number of participants.

## Runs

| Run | Result | Bounds | Shows |
|---|---|---|---|
| `core` | pass | 2 payments, 1 buyer, a tournament and a club plan, 2 requests, 1 fault, every amount named, the second payment's money may be returned by hand | the safety properties and the refinement of `AccessPromise` |
| `overlap` | violation | 2 payments, 2 requests | two renewals confirmed together start at the same date |
| `bridge` | pass | 2 payments, 2 buyers, 2 offsets, 2 requests, 1 fault or restart | sums tell payments apart in turn, transfers are credited once although memory expires, new buyers are credited |
| `bracket` | pass | every order: single elimination 2-9, double 4 and 8, page 4-6, round robin 2-5, Swiss 2-6, groups 4-6, with one or two differences of scores and corrections of small fields; groups of 10 as listed; the script for fields up to 17 | every tournament ends, one place each, seats follow results, pairs meet once, the best of each group advance, places follow standings |
| `bracket_places` | violation | single elimination of 3, differences 1 and 3 | the winner of the final is placed second |
| `bracket_byes` | violation | double elimination 5-7 | a losers' match waits for ever |
| `score_lost` | violation | 4 players, 2 requests | a saved score disappears |
| `sessions` | pass | 1 tab, 2 requests beside its refreshes, 1 fault, 5 token values | sessions end for good, survive, and requests end |
| `session_restored` | violation | the same, a page that asks at once, no fault | a reload signs its user out |
| `parts` | pass | the constants in `MCParts` and the cfg: two or three of what may cross in each scene | what holds of 16 parts and of registration whatever crosses, fails or is cut short |
| `progress` | pass | the constants in `MCProgress`: two of what may cross, fairness; of payments one, with 3 requests, manual returns, amounts left out and 2 faults | what 6 parts promise comes to pass |
| `queued` | violation | the same | a form that was answered 202 is never told how its registration ended |

The scenes of `parts`:

| Scene | Module | Property |
|---|---|---|
| `registration` | `Registration` (3 row ids, 2 users and guests, 2 or 3 places, 2 requests, 2 starts, 1 fault) | `CountKeepsUp`, `FieldIsDrawn`, `StartedIsFrozen`, `NobodyIsOverbooked` |
| `board` | `ScoreBoard` (5 players, 2 tables, 2 requests, 3 scores, 1 fault) | `TablesAreUsed`, `ReadyIsAnnounced`, `NobodyIsStranded`, `PlaysTheBracket` |
| `reminders` | `Reminders` (2 tournaments, 2 users, 2 runs) | `RemindersAreRight` |
| `link` | `TelegramLink` (2 users, chats, codes and commands) | `CodesServeOnce` |
| `switch`, `token` | `Automation` (2 requests), `TokenCheck` (2 requests, 2 keys, 3 hours) | `AnswersAreRecent` |
| `alerts` | `AnomalyAlerts` (2 checks, a cooldown of 3 and a notice of 2 units, time for two alerts of a kind) | `AlertsAreSpaced` |
| `hub` | `ClubHub` (2 desktops, 1 dashboard, 2 snapshots) | `HubIsTrue` |
| `dashboard` | `ClubStore` (3 sockets, 2 bootstraps) | `OneSocket` |
| `records`, `activity` | `ClubRecords` (3 sessions, a list of 2), `ActivityLog` (2 users, 4 rows, an answer of 3 sessions) | `RecordsAreTrue` |
| `report` | `ReportPage` (3 views, 2 requests) | `ShownIsSelected` |
| `cache`, `settings` | `TournamentCache` (2 tournaments, 2 requests), `Profile` (2 tabs, 2 requests) | `StoresKeepUp` |
| `lookup`, `tournament`, `creation` | `PlayerLookup` (2 phones), `TournamentPage` (2 places, 3 people, 2 clicks), `Wizard` (2 openings, 2 requests, 2 prizes) | `PagesDoWhatTheyShow` |

Why the bounds suffice. The races in these handlers are between two requests: one reads, the other
writes, the first writes. Two slots give every such crossing, and the payment of `progress` has a third, since creation,
confirmation and refund of one payment can all be under way. One fault reaches each error path, two
(the payment and the queue of `progress`) a fault in the repair of another. Two payments are what it takes to confuse one with another;
the 503 for "no free offset" needs more payments than offsets and is not reached. Fields up to 9 give every
shape of bye in brackets of 2 to 16 lines; leagues of 2 to 5 have even and odd fields, rounds with a bye and
groups of unequal size, and 10 is the first field with three groups and byes in the playoff. The Swiss half of
`EveryoneMeetsOnce` speaks of two rounds (and of all three with four players), as later rounds of a small
field may have nobody left to meet. Three of the five scores of a field of 5 or 6 bring the bracket
from its byes to the final. Three row ids let someone leave and come back with three places to fill. Clocks run until
each period (lead, cooldown, time to live, hour, retention) can pass twice; three sockets are the store's, one that closes and
the next; the list of sessions is one shorter than the sessions; one of the wizard's sizes is below the server's limit and one above.

Every run says `CHECK_DEADLOCK FALSE`: bounded numbers of rows, scores and faults mean that each model
comes to rest, and a service without requests rests too.

Fairness. `Payments`: a handler that runs goes on (weak fairness of each slot's next step), and a
poll of a payment's page is taken again and again (strong, since all slots may be busy): the pages
`PaymentReturn.tsx` (lines 11-49) and `PaymentCheckout.tsx` (59, 70) poll on an interval. Webhooks,
buyers, refunds and Kaspi are bound to nothing; the property is about a page that stays open.
`BridgePayments`: handlers go on, and the forwarder delivers (strong fairness of `Notify`). `Sessions`: services
answer what they are sent and answers travel; pages, users and clocks are bound to nothing. `RegisterQueue`: the service and the
worker go on; nobody is bound to ask for a status, as no client does. `Backups`: the event loop delivers
what has happened. `IpBans`: the minute's timer fires, and not every fetch fails (strong). `ClubHub`: the desktop posts and the
dashboard asks on their intervals, not every upsert fails (strong), and
a socket that closes has closed in the end (`ws` gives it thirty seconds). `Checkout`: intervals fire, and not every poll fails.

## Proofs

TLAPS proves for every value of the constants that the named assumptions allow, so for any payments, users, tabs,
requests, sockets, tournaments, fields, tables, and any bound:

| Module | Theorems | States properties of the run |
|---|---|---|
| `Payments_proofs` | `TypeCorrect`, `Invariance`, `StatusSafe`, `AccessSafe`, `ActiveSafe`, `CancelledSafe`, `Implements` | `core` |
| `BridgePayments_proofs` | `Invariance`, `SumsSafe`, `TransfersSafe` | `bridge` |
| `Registration_proofs` | `RegistrationTypes`, `RegistrationInvariance`, `CountSafe`, `RunningSafe`, `BracketSafe`, `FieldSafe`, `Frozen`, `NotOverbooked` | `parts` |
| `Sessions_proofs` | `SessionsSafe`, `EndIsFinal`, `SessionsSurvive` | `sessions` |
| `BracketPlay_proofs` | `LeagueInvariance`, `PlacesAreRanks`, `NobodyMeetsTwice`, `TheBestGoOn`, `KnockoutInvariance`, `ResultsAreSeated` | `bracket` |
| `ScoreBoard_proofs` | `GeneratorIsSound`, `Invariance`, `Refinement`, `Soundness`, `NoOneIsStranded` | (through `Parts_proofs`) |
| `Pages_proofs` | the lemmas about the pages, the stores, the hub and the reminders that `Parts_proofs` cites | |
| `Parts_proofs` | `Invariance`, `ReportIsSelected`, `SocketIsOne`, `AnswersStayRecent`, `AlertsStaySpaced`, `CodesAreSafe`, `RemindersStayRight`, `TablesStayUsed`, `ReadyStaysAnnounced`, `BoardIsPlayed`, `NobodyGetsStranded`, `HubStaysTrue`, `RecordsStayTrue`, `StoresStayUp`, `PagesKeepTheirWord` | `parts` |

The assumptions are those the modules state about their constants, which TLC evaluates on every run: bounds are
naturals, `None` is not an id, a token or a tab, the slots for requests are finitely many (`Registration`), every tab has a browser,
a forwarder stops repeating before its notification is forgotten (`BridgeAssumption`), the clock of the alerts has room to
begin, desktops are not dashboards, a text field may hold what it held at first, 8 is among the sizes of a tournament, since the
wizard begins with it, the sessions of a club are finitely many naturals (their ids) with natural costs, a tournament that is
played has two participants or more (`PartsAssumption`; tournament `routes.ts:447-452` refuses to start a smaller one). The fields of `BracketPlay`
are at most `Infinity` and its groups have one of the four names the model has (`BoundAssumption`): 1000 participants, and 17 in groups. `ActiveSafe`
and `Implements` need `AmountsNamed`, that Kaspi names the amount in every answer, and speak of the `Purchases`: the payments
whose money the merchant does not return in Kaspi's own application (`ByHand`).

Each module states its inductive invariant as `IInv`, a conjunction of named parts that stand, with what they mean, at the
end of the module of the component (`Sessions_proofs` has its own). The parts beside the types and the property are why it
is inductive.

*Payments.* `StatusTellsMoney` alone is not inductive: FAILED is written by a catch that does not look,
and a result is applied some steps after it was read. `IInv` adds what makes these harmless:
`CreatorInv` (one request creates a payment, and while its order is unsaved nobody can pay it, so the
blind FAILED tells the truth), `ResultInv` (a result on its way is still true of the order, as Kaspi's
states do not go back), `MoneyInv`, `SubInv`, and `ReturnInv` (for `Purchases` money goes back only for
a settled payment). The step lemma takes each action in turn and, under it, each conjunct it can
disturb. The refinement maps `money` to the order's state and `access` to the subscription's; each
action is a step of `AccessPromise` or a stutter.

*BridgePayments.* That a transfer counts once needs that its notification is remembered while it can come again
(`TakenInOnce`, with `NoneIsEarly` for the clock), and that one request at most works for it. That sums tell payments apart
in turn needs `CountedDiffer`: amounts that the allocation counts differ from each other and from the one it has just found,
which rests on `NothingIsLate` (no request lives across an expiry). `OwnIsCredited` follows a notification of such a
behaviour from the match to the credit.

*Registration.* The counting argument is `CountStep`: `Ahead` changes in no step but a fault, which
moves it by one. It rests on `PendingChange` (one request changes the number at a statement by one) and on
`RowAdded` and `RowRemoved`, from the library's facts about finite sets. For the serial properties
`SerialInv` says that while requests take turns there is one of them and what it read on arrival is still
true: the status, the free place, the list of players. `SerialStep` keeps it action by action; `Frozen` and
`NotOverbooked` then look at a single step.

*Sessions.* That ended sessions stay ended needs no invariant, only what each step may make of the table: no
step but a rotation that has judged, or a login, makes a token live. `SessionsSafe` is the argument that the promise in
`client.ts` is always settled: a request waits only while the tab's own flight is under way, and whatever ends
that flight wakes everyone (`WaitersStep`). `SessionsSurvive` is about browsers of one tab each whose calls are all answered
(`Quiet`) and whose pages wait for their bootstrap (`~EarlyRequests`). `SessionsKept` says of such a browser that the user in its store, the
stored flag and its cookie agree, that a refresh under way is the only one and shows that cookie (`OneRefresh`, `CallFits`), and that
every token is held by one browser (`OneHolder`): no token is shown twice, so none is ever judged reused. Logging in elsewhere cannot
disturb it, as a fresh token is nobody's (`OthersApart`). `SessionsStep` keeps it handler by handler.

*ScoreBoard.* While requests take turns, what each has read is still so when it writes (`HeldIsTrue`): the rows it will
insert are one score away from those in the table, its plan is what `PickAssignments` would choose now, the matches it will
announce are the ready ones. `Ranks` and `Picks` are the lemmas about choosing tables: no match twice, no table twice, as many as
there are matches or tables. `WorkIsDone` says that at rest, or until the request under way gets there, no table is idle
and nobody untold. The refinement maps `board` to the sequence of matches; a commit in turn is `Score` of `BracketPlay`, and every
other step leaves it alone.

*The bracket of any field.* `NobodyIsStranded` needs to know the bracket. `IsSound` says of one: its matches stand in rounds that
halve, the seats of a match are the winners of the two before it, results are whole, and everyone has one place, where he waits, has lost or has
won the final. `BracketsAreSound` keeps that of the rows and of what a request will write, so that crossing and failing requests, which lose
scores, never lose a participant: each writes a whole bracket, and `ScoreIsSound` says that a score of a ready match leaves one. That the
first bracket is sound (`GeneratorIsSound`) takes the generator apart: `2 ^ k` doubles (`PowerDoubles`, by the cardinality of the subsets of a
set), so the size is a power of two (`SizeIsPower`); rounds laid one after the other are a function of the place
(`Flattened`, `LaterRounds`, `KnockoutIs`); `NextIs` finds the next match at `size \div 2 + (x + 1) \div 2`; and `ByesAreFed` is the fold that
seats the byes, by induction over the set it takes. `SoundBoardsGoOn` is then the argument that some match is ready: the first match
without a result has both its seats.

*Leagues.* `Inv` says of a league that scores and corrections leave its seats alone, and of each format what they are.
- A round robin, and every group, is the league the circle method made (`RobinInv`, `Grouped`): `RobinIsLeague` says that every round seats
  everyone once and every two meet once. `CircleIs` gives the place of each player in each round, the inverse of `CirclePlace`; two sit
  opposite to each other in one round (`Opposite`), found by halving the sum of their numbers, as the number of those that turn is odd.
- Swiss rounds seat everyone once, and all but the last are played (`SwissInv`). A round is put together along the standings (`PairNext`); whoever
  has a bye is the last one (`InRound`). That round 2 repeats nobody (`SecondRound`) is `WinnersFirst`: each pair of round 1 has a winner and a loser,
  winners come first, so only the last winner may look among the losers, and one of them is not the one he beat. In round 3 of four participants
  everyone has one left whom he has not met, and they are paired (`ThirdRound`, `MatesPair`).
- While no score is corrected the playoff of groups is empty until every match of the groups is closed (`GroupsInv`, `FillIs`). It is then filled, once, by the snake, which
  gives each advancer a seat (`SnakeIs`) also when some are byes (`ByesSpare`): the two first of every group's
  standings (`TopTwo`), whose order is that of wins. `Spares` says that knockout scores change nothing of the groups or the first round.
- Keys of a ranking differ in their last component, so a ranking is the one sequence in that order (`KeysAreOrdered`, `RankedIs`). Nobody leaves
  a league, so `ExitRound` is the same for all, and `Placements` rank as `Standings` do (`PlacementsAre`).

*Knockouts.* `ResultsSeatPlayers` compares a result with seats that later scores and corrections write too. `KnockoutInv` holds whatever is corrected.
- `Feed` says of a set of matches that their winners, or nobody, sit in the next round. A seat has one match that feeds it (`FeedersDiffer`), so an
  advance disturbs no other (`AdvanceFeeds`), and the byes, which are advanced by a fold, none of those before them (`ByesFold`, `ByesLead`, `ByesFeed`). That the
  generated bracket is fed (`ByesOpen`) needs only that nobody but round 1 has participants (`Fresh`, `KnockoutIsFresh`, `DoubleIsFresh`).
- In double elimination the losers' bracket and the grand final never touch the winners' (`SeatBelow`, `FinalSeat`). That the free seat `sendLoserToLB` looks for is the
  second one holds while no score is corrected: `Settled` says that a match without result has fed nobody, `Dropped` that the second seats of even rounds are
  those of the losers of the winners' matches that were played, one each (`FallsDiffer`), and empty before. `LoserLeft` is the state between the two halves of a score.
- The playoff of groups is fed when it is filled, whatever stood in it (`GroupsSeat`); a semifinal of the page playoff has its side of both deciding
  matches (`PageInv`), so they share nobody.

*Reminders.* Of everyone who is ready, `NobodyIsDropped` says where his reminder is: his tournament is yet to be found by a
run, is found, is posted, or he has had it. It needs that one run at a time finds tournaments (`OneRuns`), each once and a lead before
its start (`FindingsAreNew`), and that one notification of a tournament is on its way (`OneIsPosted`).

*The parts.* `ScenesIInv` is `IInv` of the part that is played. `ScenesBegin` and `ScenesStay` say that a scene begins with its
part's first state and that its steps are its part's; `Invariance` follows from one step lemma for each part. A part that has a module of
proofs of its own (`ScoreBoard`) is proved there with its own constants and variables, and `Parts_proofs` takes that module as an instance over the
slots (`BoardProof`), with lemmas that the two copies of each definition agree. The others are proved where they are played.

- `ReportPage`, `ClubStore`, `TelegramLink`, `PlayerLookup`: the property and the types, and for link codes that whoever was judged good was.
- `Automation`: the cache and an answer under way were true at the moment they carry, and that moment is recent when it is used.
- `TokenCheck`: keys follow each other without overlap, and a key in a cache was in use when it was asked for; `TokenIsJudged`
  is the arithmetic that a token judged by it is right for an hour.
- `AnomalyAlerts`: errors are judged as soon as the moment is taken, traffic after the notice of errors (`ChecksAreShort`), so a stamp of
  traffic is at most that much older than its alert (`StampsAreClose`), and two alerts of traffic may be closer by as much (`Lag`). `fetch` has
  a limit of some five minutes by default, the cooldown is fifteen: alerts of traffic may come little more than ten minutes apart.
- `ClubHub`: nothing is newer than the desktop; as long as nothing has crossed, one handler is at work, with the newest state,
  and a dashboard is not ahead of the row or the last acknowledgement (`InOrder`).
- `ClubRecords`: a row is that of a session that is over or was told (`RowsAreSessions`), and what a late repetition says of a shift is
  outrun (`OldIsOutrun`). That the summary, the days and the tables agree is about sums, which are folds of the community modules.
  `Induction` and `SubsetInduction` (in `ScoreBoard_proofs`) come from the library's theorem on well-founded relations, whose statement is first-order;
  with them a fold is the same in whatever order it takes its set (`FoldIsSum`, `TakeOne`), the sum of a set is that of its parts
  (`TotalOfParts`), and the list has every row while there are no more than its limit (`ListIsAll`).
- `ActivityLog`: rows are in the order of their times. A row that begins a session comes a pause after the one before it
  (`BeginsAfterPause`), so the running count grows exactly there (`GroupsGrow`): two sessions are a pause apart
  (`StretchesApart`), none has a pause inside (`StretchesHold`), and sessions share no row (`RequestsAreCounted`).
- `TournamentCache`: an answer that was not outrun is as new as the page and as every answer still to come (`LastIsNewest`).
- `Profile`: the texts of a request were typed when it was sent, and what it read is the user unless it is stale (`Whole`); a
  field that differs from the store was typed in (`DraftsAreTyped`).
- `TournamentPage`: what was clicked was offered by what is shown (`OffersStand`), unless the server's copy changed meanwhile.
- `Wizard`: a step that was passed was complete (`StepsAreLookedAt`), and one window has one request (`OneRequest`).

What stays with TLC, and why:

- liveness (`PaidIsSettled`, `NewBuyerIsCredited`, `RequestsEnd`, the liveness half of each property of `progress`): no prover for fairness;
- `SomeoneCanPlay` of `BracketPlay`, which is false of a double elimination of 5 to 7 (the run `bracket_byes`) and is proved of single
  elimination, through `ScoreBoard`, as `NobodyIsStranded`;
- `EveryoneHasOnePlace` of double elimination. Of single elimination it is part of `IsSound`.

## Disagreements between code and docs

Six are runs of their own: see the findings in `PROJECT.json` (`overlap`, `bracket_byes`, `bracket_places`, `score_lost`,
`session_restored`, `queued`). Others were met while modelling and have no run.

Money:
- A status answer of Kaspi without an amount credits any sum (`routes.ts:442`), although the comment above it says that the sums must agree.
- payment `routes.ts:119` says a payment whose order failed stays PENDING; the catch at 157 writes FAILED.
- A repeated confirmation writes COMPLETED over a final status (428, 453), against the comment at 415.
- Two bridge payments created at the same moment get the same sum (366), against the comment at 360.
- A refund that Postgres aborts (`DeadlockAbort`), or whose answer is lost, leaves access with the money
  gone back; the refund cannot be repeated (`routes.ts:234`).
- A bridge row whose expiry was not saved matches for ever (`routes.ts:309`); after a restart a
  repeated notification may complete another payment of the same sum (`kaspi-bridge.ts:68`); a second
  equal transfer of the same sender is dropped as a duplicate (`kaspi-bridge.ts:77`).
- One failed poll ends the checkout with "Платёж не найден"; `PaymentReturn.tsx` polls for ever although its comment (15)
  says until a final status, and shows nothing for REFUNDED. `invalidateAutomationCache` is never called.

Brackets and scores:
- A corrected winners' match of round 2 or later leaves the former loser on a seat
  (`double-elimination.ts:182`); `snakeSeed` puts seeds 1 and 2 in the same half from 8 participants on
  (`common.ts:5`).
- Every score rewrites `tableLabel` and `notifiedReady` (`routes.ts:118`), so tables are dealt anew to the
  matches that are ready, and their players are told again, although `routes.ts:564` marks them so as not to.
- With three groups the first and the second of group C meet again in the first round of the playoff
  (`group-playoff.ts:147`, the seats of six in a bracket of eight).

Tournaments and their pages:
- A date chosen in the wizard has no zone (`CreateTournamentWizard.tsx:174`, 309), and `z.string().datetime()` (tournament
  `routes.ts:69`) refuses it: a tournament made on the web has no date, and so no reminder.
- The wizard's `max` and `min` are not enforced: more than 500 places, fractions, negative fees, more than 20 prizes and long
  texts are refused by the server only. An answer that comes after the wizard was closed and opened again empties the new
  form, closes it and leads away from it; after a lost answer the same form makes a second tournament.
- Two toggles of a mark that cross turn it the same way (`routes.ts:394`); the score window lets through scores over 99 that the
  server refuses; in the fullscreen bracket success is shown before the answer.
- A name found for one phone stays for the next (`TournamentDetail.tsx:944`).
- A postponed tournament is not reminded of again, although `bot.ts:37` promises a message two hours before the start; runs stop
  altogether when a query of one hangs, as its flag is never reset.
- PATCH deletes the prize places before the update, outside a transaction (`routes.ts:272`); `publicOnly` takes the string
  "false" for true; `mergeMany` never drops a tournament that was removed.

Accounts:
- Two tabs of one browser share a cookie and can sign each other out; a logout may be overtaken by a refresh, whose answer sets
  the cookie again; a late 401 may end the next login; two rotations of one token leave two live ones.
- `/api/auth/register/status/:jobId`, which the web client does not ask (the run `queued`), is not public in the gateway
  (`index.ts:14`), nor are `/api/tournaments/by-invite/:code` and `/api/payments/provider/kaspi-notify`. A second form for a phone within the hour is given the
  first job's result; a failed job is answered 202 for a day.
- A link code can be used twice by commands that cross (`routes.ts:501`). Removing the API password does not end a desktop token
  that was given out; a role stays in an access token until it expires.
- When the key cannot be fetched every token is refused, although the process still holds the old key (`jwt-verifier.ts:26`).
  The comment in the club's `jwt-verifier.ts` that desktop tokens pass by the gateway does not hold: their paths are not public there.
- Old avatars are never deleted (`deleteAvatar` has no caller). `Button` computes `disabled ?? loading`: a button that is told
  `disabled={false}` can be pressed while it loads.

Club and administration:
- A socket put aside by `teardown` or `connect` leaves `closingIntentionally` set when its close event is ignored, so that the next break of the
  connection is not retried (`store/club.ts:60`, 245). `BrokenIsRetried` in `ClubStore` says what the comment at 59-65 promises;
  the code does not keep it.
- Commands to a desktop that is gone are dropped silently; a snapshot stored after the desktop's close shows it online until the
  next refresh; after an acknowledged start no button is shown until the next snapshot.
- A late repetition opens a closed shift again (`club/routes.ts:165`). The summary has no limit of 500 sessions while the list has.
- The gateway's comment at `index.ts:76` says that nobody is banned when admin is down; a failed fetch keeps the old list.
- Alerts of traffic may come within the fifteen minutes that `jobs.ts:15` sets between alerts of a kind, by as long as the notice of errors took.
- When the row of an alert cannot be written the alert is silent for its whole cooldown, and the check for traffic is skipped.
- When `pg_dump` is not found the file may be created after it was unlinked; names have the precision of a second.
- Requests on public paths have no user in the activity log, whoever sends them.
- The administrator's raw PATCH and DELETE of rows keep none of the invariants stated here.

## Plan

Done: payments with their promise and proofs; the bridge; brackets, leagues, play and the score board; registration with proofs;
sessions with proofs; the queue, the link, the profile, the key; hub, dashboard, records and reports of the club; reminders, alerts,
bans, activity and backups; the buyer's pages, the page of a tournament and its windows.

Proofs: the inductive invariants of twenty-one modules and two refinements.

Next, models: the commands a dashboard sends to a
desktop, the desktop token, double elimination with byes once the generator feeds them into the losers' bracket.

## Not modelled

What holds no protocol of its own: rendering, styles and translations of the web client and its administration pages; generated
Prisma clients; types and input schemas (data, used where a page and a handler disagree on them); the templates of the bot; exports, lists
and charts of the administration, which are queries without state, and its direct edits of rows, which keep no rule; health samples and
pings; the rate limit and the proxying of the gateway, which belong to libraries; containers and proxies. Most of the repository's lines
are of this kind (JSX and queries), which is why the map covers a part of them only.
