--------------------------- MODULE AnomalyAlerts ---------------------------
(***************************************************************************)
(* The check for bursts of errors and of requests that the admin service   *)
(* runs every minute (jobs.ts 69-109), and the alert it makes: a row, and  *)
(* a message of the bot to the administrators (alerts.ts 23-74).  Nothing  *)
(* keeps two checks apart: one waits for the bot while others run.         *)
(*                                                                         *)
(* The unit of the clock is left open, a millisecond in the code: the      *)
(* cooldown and the longest notice are as many units as they are.          *)
(***************************************************************************)
EXTENDS Naturals, Sequences

CONSTANTS
  Checks,       \* checks under way at once
  Cooldown,     \* ALERT_COOLDOWN_MS
  Notice,       \* the longest that notifyAdmins takes to tell of errors
  Horizon,      \* bound: the last moment considered
  MaxFaults     \* bound: failed statements, restarts

Kinds == {"errors", "traffic"}
Start == Cooldown + 1       \* 0, the first value of the stamps, is long ago
Moments == 0..Horizon

VARIABLES
  last,         \* lastErrorAlertAt, lastTrafficAlertAt
  check,        \* checks: how far, begun when, and the bursts they have read
  now,
  raised,       \* history: when alerts of each kind were raised, since the start
  faults

vars == <<last, check, now, raised, faults>>

Pcs == {"idle", "errors", "logErrors", "tellErrors",
        "traffic", "logTraffic", "tellTraffic"}
Idle == [pc |-> "idle", at |-> 0, read |-> {}]

TypeOK ==
  /\ last \in [Kinds -> Moments]
  /\ check \in [Checks -> [pc : Pcs, at : Moments, read : SUBSET Kinds]]
  /\ now \in Moments
  /\ raised \in [Kinds -> Seq(Moments)]
  /\ faults \in 0..MaxFaults

Init ==
  /\ last = [k \in Kinds |-> 0]
  /\ check = [c \in Checks |-> Idle]
  /\ now = Start
  /\ raised = [k \in Kinds |-> <<>>]
  /\ faults = 0

\* The query: the last minutes may show a burst of either kind.  `now' is taken
\* once, after it.
Begin(c, burst) ==
  /\ check[c].pc = "idle"
  /\ check' = [check EXCEPT ![c] = [pc |-> "errors", at |-> now, read |-> burst]]
  /\ UNCHANGED <<last, now, raised, faults>>

Logging(k) == IF k = "errors" THEN "logErrors" ELSE "logTraffic"
Telling(k) == IF k = "errors" THEN "tellErrors" ELSE "tellTraffic"
Alerting == {Logging("errors"), Telling("errors")}

\* A kind is done with: the traffic follows the errors, judged by the old `now'.
Leave(c, k) ==
  check' = [check EXCEPT ![c] = IF k = "errors" THEN [@ EXCEPT !.pc = "traffic"] ELSE Idle]

Due(c, k) == k \in check[c].read /\ check[c].at > last[k] + Cooldown

\* Mutant: the stamp is left to whoever sends the alert.
Raise_Unmarked(c, k) ==
  /\ UNCHANGED last
  /\ check' = [check EXCEPT ![c].pc = Logging(k)]
  /\ raised' = [raised EXCEPT ![k] = Append(@, now)]

\* The stamp is set before the alert is made, in the step that finds it due.
Raise(c, k) ==
  /\ last' = [last EXCEPT ![k] = check[c].at]
  /\ check' = [check EXCEPT ![c].pc = Logging(k)]
  /\ raised' = [raised EXCEPT ![k] = Append(@, now)]

Judge(c, k) ==
  /\ check[c].pc = k
  /\ \/ Due(c, k) /\ Raise(c, k)
     \/ ~Due(c, k) /\ Leave(c, k) /\ UNCHANGED <<last, raised>>
  /\ UNCHANGED <<now, faults>>

\* notifyAdmins: the row of alert_log, then the bot.
Log(c, k) ==
  /\ check[c].pc = Logging(k)
  /\ check' = [check EXCEPT ![c].pc = Telling(k)]
  /\ UNCHANGED <<last, now, raised, faults>>

\* The row cannot be written: the whole check ends, the stamp stays.
Fail(c, k) ==
  /\ check[c].pc = Logging(k)
  /\ faults < MaxFaults /\ faults' = faults + 1
  /\ check' = [check EXCEPT ![c] = Idle]
  /\ UNCHANGED <<last, now, raised>>

\* The bot has told them, or there is nobody to tell, no bot, or an error, which
\* is only logged: the check goes on the same.
Tell(c, k) ==
  /\ check[c].pc = Telling(k)
  /\ Leave(c, k)
  /\ UNCHANGED <<last, now, raised, faults>>

\* A check takes time only while it waits.  How long the notice of traffic, its
\* last step, takes is of no account.
Pass ==
  /\ now < Horizon /\ now' = now + 1
  /\ \A c \in Checks : /\ check[c].pc \notin Kinds
                       /\ check[c].pc \in Alerting => now < check[c].at + Notice
  /\ UNCHANGED <<last, check, raised, faults>>

\* The stamps are in memory only.
Restart ==
  /\ faults < MaxFaults /\ faults' = faults + 1
  /\ last' = [k \in Kinds |-> 0]
  /\ check' = [c \in Checks |-> Idle]
  /\ raised' = [k \in Kinds |-> <<>>]
  /\ UNCHANGED now

Next ==
  \/ \E c \in Checks, burst \in SUBSET Kinds : Begin(c, burst)
  \/ \E c \in Checks, k \in Kinds : Judge(c, k) \/ Log(c, k) \/ Fail(c, k) \/ Tell(c, k)
  \/ Pass \/ Restart

Spec == Init /\ [][Next]_vars

-----------------------------------------------------------------------------
\* How much older than its alert a stamp may be: errors are judged as soon as
\* `now' is taken, traffic after the notice of errors.
Lag(k) == IF k = "errors" THEN 0 ELSE Notice

\* Checks that wait for the bot and checks that overtake them raise no two alerts
\* of errors within the cooldown of one another, as long as the process lives, and
\* alerts of traffic at most one notice of errors earlier than that: a stamp may be
\* that much older than its alert, and is still no newer than what the next check
\* compares (jobs.ts 80-103).
AlertsAreSpaced ==
  \A k \in Kinds : \A i \in 1..(Len(raised[k]) - 1) :
    raised[k][i + 1] + Lag(k) > raised[k][i] + Cooldown

-----------------------------------------------------------------------------
(* The inductive invariant, in parts.                                      *)

\* A check has just begun, or waits, or has waited, for one notice at most, when
\* it judges.
ChecksAreShort ==
  \A c \in Checks :
    /\ check[c].pc = "errors" => check[c].at = now
    /\ check[c].pc \in Alerting \cup {"traffic"} =>
         check[c].at <= now /\ now <= check[c].at + Notice

LastRaised(k) == raised[k][Len(raised[k])]

\* A stamp is that much older than its alert at most.
StampsAreClose ==
  \A k \in Kinds : raised[k] # <<>> =>
    last[k] <= LastRaised(k) /\ LastRaised(k) <= last[k] + Lag(k)

IInv == TypeOK /\ AlertsAreSpaced /\ ChecksAreShort /\ StampsAreClose
=============================================================================
