----------------------------- MODULE MCProgress -----------------------------
(***************************************************************************)
(* The smaller parts in which something must come to pass.  They share no  *)
(* state, so that one of them, the scene of a behaviour, moves alone, and  *)
(* takes its variables from the slots v1, v2, ..., which are 0 where it    *)
(* does not use them.                                                      *)
(***************************************************************************)
EXTENDS Naturals

VARIABLES scene, v1, v2, v3, v4, v5, v6, v7, v8, v9, v10, v11

\* The slots after the first n, and those slots unused.
After8 == <<v9, v10, v11>>
After7 == <<v8, After8>>
After6 == <<v7, After7>>
After5 == <<v6, After6>>

Unused8 == v9 = 0 /\ v10 = 0 /\ v11 = 0
Unused7 == v8 = 0 /\ Unused8
Unused6 == v7 = 0 /\ Unused7
Unused5 == v6 = 0 /\ Unused6

vars == <<scene, v1, v2, v3, v4, v5, After5>>

-----------------------------------------------------------------------------
\* Two of what may overlap in each part, and three requests about one payment.
Pair == {"a", "b"}
Three == Pair \cup {"c"}

\* A payment of a subscription or a tournament, which Kaspi does not always name
\* the amount of, and whose money may also be returned by hand.  The clock only
\* places the months and stands.
Payment == INSTANCE Payments WITH
  Payments <- {"p1"}, Users <- {"u1"}, Plans <- {"STANDARD", "ENTERPRISE"}, Calls <- Three,
  None <- "none", Month <- 2, Forever <- 100, AmountsNamed <- FALSE, ByHand <- {"p1"},
  MaxNow <- 0, MaxFaults <- 2,
  pay <- v1, sub <- v2, order <- v3, call <- v4, now <- v5, faults <- v6

\* Two forms for one phone, and a second phone to move to.
Queue == INSTANCE RegisterQueue WITH
  Forms <- Pair, Phones <- Pair, Asks <- [f \in Pair |-> "a"], None <- "none",
  MaxFaults <- 2, MaxMoves <- 1,
  account <- v1, job <- v2, form <- v3, faults <- v4, moves <- v5

\* A scheduled dump and one that an administrator asked for.
Backup == INSTANCE Backups WITH
  Dumps <- Pair, Manual <- {"b"},
  child <- v1, file <- v2, stream <- v3, told <- v4, alerted <- v5, old <- v6, hasty <- v7

\* Two fetches that may cross; addresses do not affect one another.
Ban == INSTANCE IpBans WITH
  Ips <- {"i1"}, Syncs <- Pair, Horizon <- 2, MaxChanges <- 2, MaxRestarts <- 1,
  bans <- v1, ipBans <- v2, up <- v3, sync <- v4, now <- v5, changes <- v6, restarts <- v7

\* A desktop, a dashboard, two snapshots that may cross.
Hub == INSTANCE ClubHub WITH
  Desktops <- {"d1"}, Dashboards <- {"b1"}, Handlers <- Pair, None <- "none", MaxVersion <- 1,
  sock <- v1, desktop <- v2, browsers <- v3, version <- v4, work <- v5, stored <- v6,
  shown <- v7, asked <- v8, acked <- v9, unheard <- v10, crossed <- v11

\* Two polls that may cross.
Buyer == INSTANCE Checkout WITH
  Polls <- Pair,
  status <- v1, page <- v2, shown <- v3, error <- v4, timer <- v5, poll <- v6,
  failed <- v7, crossed <- v8

-----------------------------------------------------------------------------
Init ==
  \/ scene = "payment" /\ Payment!Init /\ Unused6
  \/ scene = "queue" /\ Queue!Init /\ Unused5
  \/ scene = "backups" /\ Backup!Init /\ Unused7
  \/ scene = "bans" /\ Ban!Init /\ Unused7
  \/ scene = "hub" /\ Hub!Init
  \/ scene = "buyer" /\ Buyer!Init /\ Unused8

Is(name) == scene = name /\ UNCHANGED scene
InPayment(A) == Is("payment") /\ A /\ UNCHANGED After6
InQueue(A) == Is("queue") /\ A /\ UNCHANGED After5
InBackups(A) == Is("backups") /\ A /\ UNCHANGED After7
InBans(A) == Is("bans") /\ A /\ UNCHANGED After7
InHub(A) == Is("hub") /\ A
InBuyer(A) == Is("buyer") /\ A /\ UNCHANGED After8

Next == \/ InQueue(Queue!Next) \/ InBackups(Backup!Next) \/ InBans(Ban!Next)
        \/ InHub(Hub!Next) \/ InBuyer(Buyer!Next) \/ InPayment(Payment!Next)

Spec == Init /\ [][Next]_vars

\* The fairness of each part, in its own scene.  One condition serves several
\* parts: in a behaviour only one of its alternatives is ever enabled.
Fairness ==
  /\ WF_vars(InPayment(Payment!Advance("c")))
  /\ \A i \in Pair :
       /\ SF_vars(InBans(Ban!Read(i)) \/ InHub(Hub!Persist(i)) \/ InBuyer(Buyer!Read(i)))
       /\ SF_vars(InBans(Ban!Install(i)) \/ InBuyer(Buyer!Answer(i)))
       /\ WF_vars(\/ InPayment(Payment!Advance(i))
                  \/ InQueue(Queue!Handle(i)) \/ InBackups(Backup!Events(i))
                  \/ InBans(Ban!Begin(i)) \/ InHub(Hub!Broadcast(i))
                  \/ InBuyer(Buyer!Answer(i) \/ Buyer!Fail(i)))
       /\ WF_vars(InQueue(Queue!Work(i)))
  /\ SF_vars(InPayment(\E i \in Three : Payment!PollStart(i, "p1")))
  /\ WF_vars(InHub(Hub!Post) \/ InBuyer(\E i \in Pair : Buyer!Tick(i)))
  /\ WF_vars(InHub(Hub!Closed("d1")))
  /\ WF_vars(\/ InHub(Hub!Ask("b1") \/ Hub!Answer("b1"))
             \/ InBuyer(\E i \in Pair : Buyer!Navigate(i)))

FairSpec == Spec /\ Fairness

-----------------------------------------------------------------------------
(* What the run checks of each part, whose module says what it means; the  *)
(* types of its variables are checked along with it.                       *)

At(name, P) == scene = name /\ P

\* Money that was taken does not stay on a pending payment whose page is open, and
\* what comes of it is true (payment routes.ts 377-480).
PaidIsSettled ==
  /\ [](scene = "payment" =>
         Payment!TypeOK /\ Payment!StatusTellsMoney /\ Payment!CompletedHasAccess)
  /\ At("payment", Payment!Paid("p1")) ~> At("payment", Payment!Settled("p1"))

\* A registration that was queued is carried out, and nobody is told a lie about it
\* (queue.ts 56-125, auth routes.ts 131-208).
RegistrationsEnd ==
  /\ [](scene = "queue" => Queue!TypeOK /\ Queue!AnswersAreTrue /\ Queue!EndsAreTrue)
  /\ \A p \in Pair : At("queue", Queue!Underway(p)) ~> At("queue", Queue!Over(p))

\* Whoever is told that his registration is queued comes to be told its end, since
\* "клиент опрашивает" (the client polls), says auth routes.ts 127.
QueuedIsTold ==
  \A f \in Pair : At("queue", Queue!Queued(f)) ~> At("queue", Queue!Heard(f))

\* A backup is answered, and reported as made when it is whole (backup.ts 75-113).
BackupsAreAnswered ==
  /\ [](scene = "backups" => Backup!TypeOK /\ Backup!ReportedIsWhole)
  /\ \A d \in Pair : At("backups", Backup!Awaits(d)) ~> At("backups", Backup!Answered(d))

\* The gateway comes to block those who are banned (gateway index.ts 79-106).
BansSettle ==
  /\ [](scene = "bans" => Ban!TypeOK)
  /\ <>[](scene = "bans" => Ban!BansAreKnown)

\* Dashboards come to show the state of the desktop (ws-hub.ts 87-116).
DashboardsCatchUp == <>[](scene = "hub" => Hub!CaughtUp)

\* A checkout that waits is watched, and whoever has paid comes to see it
\* (PaymentCheckout.tsx 60-91, PaymentReturn.tsx 33-50).
BuyersSeeSuccess ==
  /\ [](scene = "buyer" => Buyer!TypeOK /\ Buyer!WaitingIsWatched)
  /\ At("buyer", Buyer!HasPaid) ~> At("buyer", Buyer!SeesSuccess \/ Buyer!LosesTrack)
=============================================================================
