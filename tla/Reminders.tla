----------------------------- MODULE Reminders -----------------------------
(***************************************************************************)
(* The reminder before a tournament: the scheduler of the tournament       *)
(* service (services/tournament/src/scheduler.ts), the notification nobody *)
(* waits for (notify.ts), and the bot that asks the auth service for chats *)
(* and sends (services/bot/src/routes.ts).                                 *)
(*                                                                         *)
(* Time is counted in units of the reminder's lead, two hours; a run of    *)
(* the scheduler begins every minute, so one is over before a unit is, and *)
(* so are the calls to the bot.                                            *)
(***************************************************************************)
EXTENDS Naturals, Sequences

CONSTANTS
  Users, Tournaments,
  Ticks,           \* runs of the scheduler
  Horizon,             \* bound: the last moment considered
  MaxFaults,       \* bound: failed statements and calls, crashes
  MaxChanges       \* bound: links, registrations and dates that change

Lead == 1          \* REMINDER_LEAD_MS
Moments == 0..Horizon

VARIABLES
  linked,          \* who has a chat
  joined,          \* who takes part in each tournament
  date, marked,    \* its scheduledAt, and whether startReminderSentAt is set
  running,         \* the scheduler's flag
  tick,            \* what each run has found due and not handled yet
  post,            \* the notification of each run and tournament
  now, ticked,     \* the clock; has a run ended since it moved?
  sent,            \* history: the dates each user was reminded of
  ready,           \* history: who was linked and joined as the lead began
  late,            \* history: dates changed after the reminder was begun
  faults, changes  \* history: how many of those have happened

world == <<linked, joined, date, now, ready, late, changes>>
vars == <<world, marked, running, tick, post, ticked, sent, faults>>

Idle == [pc |-> "idle", due |-> {}]
NoPost == [pc |-> "none", to |-> {}, date |-> 0]
Posts == Ticks \X Tournaments

Init ==
  /\ linked \in [Users -> BOOLEAN]
  /\ joined = [t \in Tournaments |-> Users]
  /\ date \in [Tournaments -> 2..Horizon]
  /\ marked = [t \in Tournaments |-> FALSE]
  /\ running = FALSE
  /\ tick = [k \in Ticks |-> Idle]
  /\ post = [p \in Posts |-> NoPost]
  /\ now = 0
  /\ ticked = FALSE
  /\ sent = [t \in Tournaments |-> [u \in Users |-> <<>>]]
  /\ ready = [t \in Tournaments |-> {}]
  /\ late = {}
  /\ faults = 0
  /\ changes = 0

-----------------------------------------------------------------------------
\* A run finds the tournaments that are due, with who takes part by now.
IsDue_Later(t) == ~marked[t] /\ now < date[t] /\ date[t] < now + Lead   \* mutant

IsDue(t) == ~marked[t] /\ now < date[t] /\ date[t] <= now + Lead

Found == {[t |-> t, users |-> joined[t], date |-> date[t]] :
            t \in {x \in Tournaments : IsDue(x)}}

\* Mutant: runs are not kept apart.
Begin_Overlaps(k) ==
  /\ tick[k].pc = "idle"
  /\ running' = TRUE
  /\ tick' = [tick EXCEPT ![k] = [pc |-> "loops", due |-> Found]]
  /\ UNCHANGED <<world, marked, post, ticked, sent, faults>>

Begin(k) ==
  /\ ~running /\ tick[k].pc = "idle"
  /\ running' = TRUE
  /\ tick' = [tick EXCEPT ![k] = [pc |-> "loops", due |-> Found]]
  /\ UNCHANGED <<world, marked, post, ticked, sent, faults>>

\* Mutant: the tournament is not marked.
Mark_Forgets(k) ==
  \E d \in tick[k].due :
    /\ tick' = [tick EXCEPT ![k].due = @ \ {d}]
    /\ post' = [post EXCEPT ![<<k, d.t>>] =
                  [pc |-> "posted", to |-> d.users, date |-> d.date]]
    /\ UNCHANGED <<world, marked, running, ticked, sent, faults>>

\* Each is marked before the bot is told, and marked though nobody is to be
\* told; the notification is not waited for.
Mark(k) ==
  \E d \in tick[k].due :
    /\ marked' = [marked EXCEPT ![d.t] = TRUE]
    /\ tick' = [tick EXCEPT ![k].due = @ \ {d}]
    /\ post' = IF d.users = {} THEN post
               ELSE [post EXCEPT ![<<k, d.t>>] =
                       [pc |-> "posted", to |-> d.users, date |-> d.date]]
    /\ UNCHANGED <<world, running, ticked, sent, faults>>

Finish(k) ==
  /\ tick[k].pc = "loops" /\ tick[k].due = {}
  /\ tick' = [tick EXCEPT ![k] = Idle]
  /\ running' = FALSE
  /\ ticked' = TRUE
  /\ UNCHANGED <<world, marked, post, sent, faults>>

\* A statement fails: what is left waits for the next run.
Fail(k) ==
  /\ tick[k].due # {} /\ faults < MaxFaults
  /\ tick' = [tick EXCEPT ![k].due = {}]
  /\ faults' = faults + 1
  /\ UNCHANGED <<world, marked, running, post, ticked, sent>>

\* The process dies, and runs at once when it is back.
Crash ==
  /\ running /\ faults < MaxFaults
  /\ tick' = [k \in Ticks |-> Idle]
  /\ running' = FALSE
  /\ faults' = faults + 1
  /\ UNCHANGED <<world, marked, post, ticked, sent>>

-----------------------------------------------------------------------------
\* The bot asks for the chats, then sends to one after the other.
Resolve(p) ==
  /\ post[p].pc = "posted"
  /\ post' = [post EXCEPT ![p].pc = "sends",
                          ![p].to = {u \in @ : linked[u]}]
  /\ UNCHANGED <<world, marked, running, tick, ticked, sent, faults>>

Send(p, u) ==
  /\ post[p].pc = "sends" /\ u \in post[p].to
  /\ sent' = [sent EXCEPT ![p[2]][u] = Append(@, post[p].date)]
  /\ post' = [post EXCEPT ![p].to = @ \ {u}]
  /\ UNCHANGED <<world, marked, running, tick, ticked, faults>>

\* One message fails: the others are sent.
Skip(p, u) ==
  /\ post[p].pc = "sends" /\ u \in post[p].to /\ faults < MaxFaults
  /\ post' = [post EXCEPT ![p].to = @ \ {u}]
  /\ faults' = faults + 1
  /\ UNCHANGED <<world, marked, running, tick, ticked, sent>>

Answered(p) ==
  /\ post[p].pc = "sends" /\ post[p].to = {}
  /\ post' = [post EXCEPT ![p] = NoPost]
  /\ UNCHANGED <<world, marked, running, tick, ticked, sent, faults>>

\* The bot or the auth service is down, or dies: the rest is lost.
Lose(p) ==
  /\ post[p].pc # "none" /\ faults < MaxFaults
  /\ post' = [post EXCEPT ![p] = NoPost]
  /\ faults' = faults + 1
  /\ UNCHANGED <<world, marked, running, tick, ticked, sent>>

-----------------------------------------------------------------------------
services == <<marked, running, tick, post, sent, faults>>

Pass ==
  /\ now < Horizon /\ ticked /\ ~running /\ \A p \in Posts : post[p] = NoPost
  /\ now' = now + 1
  /\ ticked' = FALSE
  /\ ready' = [t \in Tournaments |->
                 IF date[t] # now' + Lead THEN ready[t]
                 ELSE {u \in joined[t] : linked[u]}]
  /\ UNCHANGED <<services, linked, joined, date, late, changes>>

Change == changes < MaxChanges /\ changes' = changes + 1

\* The bot's /start with a code of the user, and DELETE /auth/me/telegram.
Link(u) ==
  /\ Change /\ linked' = [linked EXCEPT ![u] = ~@]
  /\ ready' = [t \in Tournaments |-> ready[t] \ {u}]
  /\ UNCHANGED <<services, joined, date, now, ticked, late>>

\* A user leaves or comes back.
Join(t, u) ==
  /\ Change
  /\ joined' = [joined EXCEPT ![t] = IF u \in @ THEN @ \ {u} ELSE @ \cup {u}]
  /\ ready' = [ready EXCEPT ![t] = @ \ {u}]
  /\ UNCHANGED <<services, linked, date, now, ticked, late>>

\* PATCH /organizer/tournaments/:id sets the date and leaves the mark alone.
Begun(t) == marked[t] \/ \E k \in Ticks : \E d \in tick[k].due : d.t = t

Postpone(t, m) ==
  /\ Change /\ m # date[t]
  /\ date' = [date EXCEPT ![t] = m]
  /\ ready' = [ready EXCEPT ![t] = {}]
  /\ late' = IF Begun(t) THEN late \cup {t} ELSE late
  /\ UNCHANGED <<services, linked, joined, now, ticked>>

Next ==
  \/ \E k \in Ticks : Begin(k) \/ Mark(k) \/ Finish(k) \/ Fail(k)
  \/ \E p \in Posts : Resolve(p) \/ Answered(p) \/ Lose(p)
  \/ \E p \in Posts, u \in Users : Send(p, u) \/ Skip(p, u)
  \/ \E u \in Users : Link(u)
  \/ \E t \in Tournaments, u \in Users : Join(t, u)
  \/ \E t \in Tournaments, m \in Moments : Postpone(t, m)
  \/ Crash \/ Pass

Spec == Init /\ [][Next]_vars

-----------------------------------------------------------------------------
Finding == [t : Tournaments, users : SUBSET Users, date : Nat]

\* Every variable keeps its type.
TypeOK ==
  /\ linked \in [Users -> BOOLEAN]
  /\ joined \in [Tournaments -> SUBSET Users]
  /\ date \in [Tournaments -> Nat]
  /\ marked \in [Tournaments -> BOOLEAN]
  /\ running \in BOOLEAN /\ ticked \in BOOLEAN
  /\ tick \in [Ticks -> [pc : {"idle", "loops"}, due : SUBSET Finding]]
  /\ post \in [Posts -> [pc : {"none", "posted", "sends"}, to : SUBSET Users, date : Nat]]
  /\ now \in Moments
  /\ sent \in [Tournaments -> [Users -> Seq(Nat)]]
  /\ ready \in [Tournaments -> SUBSET Users]
  /\ late \subseteq Tournaments
  /\ faults \in 0..MaxFaults /\ changes \in 0..MaxChanges

\* Nobody is reminded twice of a tournament, whatever runs cross, fail or are
\* cut short (scheduler.ts 43-86: the flag, and the mark before the call).
RemindedOnce ==
  \A t \in Tournaments, u \in Users : Len(sent[t][u]) <= 1

\* Whoever was linked and registered as the last two hours began has his
\* reminder when the tournament starts, unless something failed, or the
\* tournament was given another date after its reminder was begun.
NobodyIsForgotten ==
  \A t \in Tournaments, u \in Users :
    date[t] <= now /\ u \in ready[t] /\ faults = 0 /\ t \notin late
      => sent[t][u] = <<date[t]>>

-----------------------------------------------------------------------------
(* The inductive invariant, in parts.                                      *)

\* One run at a time finds tournaments, each once, that start a lead from now.
OneRuns ==
  /\ \A k \in Ticks : tick[k].pc = "idle" => tick[k].due = {}
  /\ \A k \in Ticks : tick[k].pc # "idle" => running
  /\ \A j, k \in Ticks : tick[j].pc # "idle" /\ tick[k].pc # "idle" => j = k
FindingsAreNew ==
  \A k \in Ticks : \A d \in tick[k].due :
    /\ ~marked[d.t] /\ d.date = now + Lead
    /\ d.t \notin late => d.date = date[d.t]
    /\ \A e \in tick[k].due : e.t = d.t => e = d

\* Of a tournament there is one notification, once it is marked, for users who
\* have not had it.
OneIsPosted ==
  /\ \A p \in Posts : post[p].pc = "none" => post[p].to = {}
  /\ \A p \in Posts : post[p].pc # "none" =>
       /\ marked[p[2]] /\ post[p].date = now + Lead
       /\ p[2] \notin late => post[p].date = date[p[2]]
       /\ \A u \in post[p].to : sent[p[2]][u] = <<>>
  /\ \A p, q \in Posts : post[p].pc # "none" /\ post[q].pc # "none" /\ p[2] = q[2] => p = q
MarkedIsNear ==
  \A t \in Tournaments :
    IF marked[t] THEN t \notin late => date[t] <= now + Lead
    ELSE \A u \in Users : sent[t][u] = <<>>

\* Who is ready still is, and his tournament is yet to be found by a run, or is
\* found, or his notification is on its way, or he has had it.
ReadyIsTrue ==
  \A t \in Tournaments : \A u \in ready[t] : u \in joined[t] /\ linked[u]
Awaits(t) == date[t] = now + Lead /\ ~running /\ ~ticked
IsFound(t, u) == \E k \in Ticks : \E d \in tick[k].due : d.t = t /\ u \in d.users
IsPosted(t, u) == \E p \in Posts : p[2] = t /\ u \in post[p].to
NobodyIsDropped ==
  faults = 0 =>
    \A t \in Tournaments \ late : \A u \in ready[t] :
      IF marked[t] THEN IsPosted(t, u) \/ sent[t][u] = <<date[t]>>
      ELSE IsFound(t, u) \/ Awaits(t)

IInv ==
  /\ TypeOK /\ RemindedOnce
  /\ OneRuns /\ FindingsAreNew /\ OneIsPosted /\ MarkedIsNear
  /\ ReadyIsTrue /\ NobodyIsDropped
=============================================================================
