---------------------------- MODULE ActivityLog ----------------------------
(***************************************************************************)
(* The log of what users ask of the gateway: a row for each answer, which  *)
(* the gateway posts without waiting (services/gateway/src/index.ts), and  *)
(* for each action of an administrator; old rows are purged                *)
(* (services/admin/src/jobs.ts, routes.ts).  From it the administrator is  *)
(* shown the sessions of each user: stretches without a longer pause.      *)
(***************************************************************************)
EXTENDS Integers, FiniteSets, Sequences, FiniteSetsExt

CONSTANTS
  Users,      \* who is known to the gateway; requests of others have no user
  Nobody,
  Pause,      \* the half hour that ends a session
  Week,       \* how far back sessions are shown
  Retention,  \* ACTIVITY_RETENTION_DAYS
  Limit,      \* the sessions an answer holds at most
  MaxRows,    \* bound: the rows of the log
  Horizon     \* bound: the clock

VARIABLES
  log,        \* rows: user and createdAt, which the database sets
  now

vars == <<log, now>>

Init == log = <<>> /\ now = 0

Tick ==
  /\ now < Horizon /\ now' = now + 1
  /\ UNCHANGED log

\* A row comes when it comes, or never: nobody waits for it.
Record(u) ==
  /\ Len(log) < MaxRows
  /\ log' = Append(log, [user |-> u, at |-> now])
  /\ UNCHANGED now

Old == {i \in DOMAIN log : log[i].at < now - Retention}

\* runRetention, every hour, and POST /admin/activity/purge.  The old rows are the
\* first, since rows are in the order of their times (TypeOK).
Purge ==
  /\ Old # {}
  /\ log' = SubSeq(log, Max(Old) + 1, Len(log))
  /\ UNCHANGED now

Next == Tick \/ Purge \/ \E u \in Users \cup {Nobody} : Record(u)

Spec == Init /\ [][Next]_vars

-----------------------------------------------------------------------------
(* GET /admin/activity/sessions, query by query.                           *)

Ordered == {i \in DOMAIN log : log[i].user # Nobody /\ log[i].at > now - Week}

Before(i) == {j \in Ordered : j < i /\ log[j].user = log[i].user}

\* Mutant: a pause as long as half an hour ends a session.
NewSession_Sooner(i) == Before(i) = {} \/ log[i].at - log[Max(Before(i))].at >= Pause

NewSession(i) == Before(i) = {} \/ log[i].at - log[Max(Before(i))].at > Pause

\* How many sessions of its user have begun: a row's peers in time are counted.
Group(i) == Cardinality({j \in Ordered : /\ log[j].user = log[i].user /\ log[j].at <= log[i].at
                                         /\ NewSession(j)})

Session(rows) == LET times == {log[i].at : i \in rows} IN
  [user |-> log[CHOOSE i \in rows : TRUE].user, startedAt |-> Min(times),
   lastSeenAt |-> Max(times), requests |-> Cardinality(rows)]

Sessions == {Session({j \in Ordered : log[j].user = log[i].user /\ Group(j) = Group(i)})
               : i \in Ordered}

\* What the query may answer (ORDER BY "startedAt" DESC LIMIT $1): the sessions that
\* began last; which of those that began at once are left out is the database's choice.
Answers == {list \in SUBSET Sessions :
  /\ Cardinality(list) <= Limit
  /\ Cardinality(list) < Limit => list = Sessions
  /\ \A s \in list, r \in Sessions \ list : s.startedAt >= r.startedAt}

-----------------------------------------------------------------------------
\* Every variable keeps its type, and rows are in the order of their times.
TypeOK ==
  /\ now \in 0..Horizon
  /\ log \in Seq([user : Users \cup {Nobody}, at : 0..now])
  /\ \A i, j \in DOMAIN log : i < j => log[i].at <= log[j].at

RowsOf(u) == {i \in Ordered : log[i].user = u}

\* What is answered are the longest stretches without a pause: no pause lies within
\* one, one lies between any two, and an answer shorter than its limit counts every
\* request of the week (admin routes.ts 292-321).
SessionsAreStretches == \A list \in Answers :
  /\ Cardinality(list) < Limit =>
       MapThenSumSet(LAMBDA s : s.requests, list) = Cardinality(Ordered)
  /\ \A s \in list : \A t \in s.startedAt .. s.lastSeenAt :
       \E i \in RowsOf(s.user) : log[i].at \in (t - Pause) .. t
  /\ \A s, r \in list : s # r /\ s.user = r.user =>
       s.startedAt - r.lastSeenAt > Pause \/ r.startedAt - s.lastSeenAt > Pause
=============================================================================
