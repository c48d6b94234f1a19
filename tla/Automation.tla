----------------------------- MODULE Automation -----------------------------
(***************************************************************************)
(* Free tournaments of a club with automation: the API password it sets    *)
(* and removes (services/auth/src/routes.ts 364-399), the answer of the    *)
(* auth service, and the cache the payment service keeps of it for a       *)
(* minute (services/payment/src/automation.ts, routes.ts 85-95).           *)
(*                                                                         *)
(* Time is counted in half minutes.  The question and the answer of a call *)
(* take less than one each.                                                *)
(***************************************************************************)
EXTENDS Integers

CONSTANTS
  Requests,   \* POST /payments for a single tournament, used again
  Horizon         \* bound: the last moment considered

Ttl == 2      \* CACHE_TTL_MS
Moments == 0..Horizon
Never == -1

VARIABLES
  password,   \* is an API password set?
  cache,      \* the value remembered, and until when
  request,    \* each request: how far it is, and the value it has read
  now,
  lastSet,    \* history: the last moment the password was set at
  lastUnset   \* history: the last moment it was not set at

vars == <<password, cache, request, now, lastSet, lastUnset>>

Empty == [active |-> FALSE, expires |-> Never]
Idle == [pc |-> "idle", active |-> FALSE, at |-> 0]

Init ==
  /\ password \in BOOLEAN
  /\ cache = Empty
  /\ request = [r \in Requests |-> Idle]
  /\ now = 0
  /\ lastSet = IF password THEN 0 ELSE Never
  /\ lastUnset = IF password THEN Never ELSE 0

Set(r, pc, active) == request' = [request EXCEPT ![r] = [pc |-> pc, active |-> active, at |-> now]]

\* checkAutomation: what is remembered, or a call.
Fresh_Forever == cache.expires # Never   \* mutant

Fresh == cache.expires > now

Look(r) ==
  /\ request[r].pc = "idle"
  /\ IF Fresh THEN Set(r, IF cache.active THEN "free" ELSE "pays", cache.active)
     ELSE Set(r, "calls", FALSE)
  /\ UNCHANGED <<password, cache, now, lastSet, lastUnset>>

\* GET /auth/internal/automation/:userId reads the password.
Read(r) ==
  /\ request[r].pc = "calls"
  /\ Set(r, "read", password)
  /\ UNCHANGED <<password, cache, now, lastSet, lastUnset>>

\* Its answer is remembered for a minute from now ...
Answer(r) ==
  /\ request[r].pc = "read"
  /\ cache' = [active |-> request[r].active, expires |-> now + Ttl]
  /\ Set(r, IF request[r].active THEN "free" ELSE "pays", request[r].active)
  /\ UNCHANGED <<password, now, lastSet, lastUnset>>

\* ... an error is not, and the club pays.
Refuse(r) ==
  /\ request[r].pc = "calls"
  /\ Set(r, "refused", FALSE)
  /\ UNCHANGED <<password, cache, now, lastSet, lastUnset>>

\* The request is answered, and another may come.
Close(r) ==
  /\ request[r].pc \in {"free", "pays", "refused"}
  /\ Set(r, "idle", FALSE)
  /\ UNCHANGED <<password, cache, now, lastSet, lastUnset>>

\* POST and DELETE /auth/me/api-password; nothing tells the payment service,
\* whose invalidateAutomationCache nobody calls.
SetPassword ==
  /\ password' = TRUE /\ lastSet' = now
  /\ UNCHANGED <<cache, request, now, lastUnset>>

RemovePassword ==
  /\ password' = FALSE /\ lastUnset' = now
  /\ UNCHANGED <<cache, request, now, lastSet>>

\* The payment service starts again.
Restart ==
  /\ cache' = Empty
  /\ request' = [r \in Requests |-> Idle]
  /\ UNCHANGED <<password, now, lastSet, lastUnset>>

Pass ==
  /\ now < Horizon
  /\ \A r \in Requests : request[r].pc \in {"calls", "read"} => request[r].at = now
  /\ now' = now + 1
  /\ lastSet' = IF password THEN now' ELSE lastSet
  /\ lastUnset' = IF password THEN lastUnset ELSE now'
  /\ UNCHANGED <<password, cache, request>>

Next ==
  \/ \E r \in Requests : Look(r) \/ Read(r) \/ Answer(r) \/ Refuse(r) \/ Close(r)
  \/ SetPassword \/ RemovePassword \/ Restart \/ Pass

Spec == Init /\ [][Next]_vars

-----------------------------------------------------------------------------
TypeOK ==
  /\ password \in BOOLEAN
  /\ cache \in [active : BOOLEAN, expires : {Never} \cup 0..Horizon + Ttl]
  /\ request \in [Requests -> [pc : {"idle", "calls", "read", "free", "pays", "refused"},
                              active : BOOLEAN, at : Moments]]
  /\ now \in Moments
  /\ lastSet \in Moments \cup {Never}
  /\ lastUnset \in Moments \cup {Never}

\* The answer was true a minute and the time of a call before it was given, or
\* later: a club that has removed its password is charged again, and one
\* that has set it is not charged any more, whatever answers cross.
Recent(moment, at) == moment # Never /\ moment >= at - Ttl

AnswersAreRecent ==
  \A r \in Requests :
    /\ request[r].pc = "free" => Recent(lastSet, request[r].at)
    /\ request[r].pc = "pays" => Recent(lastUnset, request[r].at)

-----------------------------------------------------------------------------
(* The inductive invariant, in parts.                                      *)

MomentsAreKept ==
  /\ lastSet <= now /\ lastUnset <= now
  /\ IF password THEN lastSet = now ELSE lastUnset = now

\* The last moment at which the answer was true.
LastTrue(active) == IF active THEN lastSet ELSE lastUnset

\* What a call has read, and what is remembered, was so when it was read.
ReadIsTrue ==
  \A r \in Requests : request[r].pc \in {"calls", "read"} =>
    /\ request[r].at <= now /\ now <= request[r].at + 1
    /\ request[r].pc = "read" => LastTrue(request[r].active) >= request[r].at

CacheIsTrue ==
  cache.expires # Never => /\ LastTrue(cache.active) # Never
                           /\ LastTrue(cache.active) + Ttl + 1 >= cache.expires

IInv == TypeOK /\ AnswersAreRecent /\ MomentsAreKept /\ ReadIsTrue /\ CacheIsTrue
=============================================================================
