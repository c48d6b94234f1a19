------------------------------- MODULE IpBans -------------------------------
(***************************************************************************)
(* Banned addresses: the rows of the admin service (routes.ts 663-693),    *)
(* the copy of them the gateway fetches every minute (gateway index.ts     *)
(* 74-106, 320-323; admin routes.ts 734-744), and the hook that asks it    *)
(* (gateway index.ts 170-175).  A fetch may outlast the minute.            *)
(***************************************************************************)
EXTENDS Naturals

CONSTANTS
  Ips,
  Syncs,         \* fetches under way at once
  Horizon,           \* bound: the last moment considered
  MaxChanges,    \* bound: bans made and lifted
  MaxRestarts    \* bound: starts of the gateway

\* A ban lasts until a moment: 0 is no ban, Forever is past every moment.
Forever == Horizon + 1
Untils == 0..Forever

VARIABLES
  bans,          \* the rows of ip_ban
  ipBans,        \* the gateway's copy
  up,            \* the gateway listens
  sync,          \* its fetches: begun at the start or by the timer, and read
  now,
  changes, restarts

vars == <<bans, ipBans, up, sync, now, changes, restarts>>

NoRows == [i \in Ips |-> 0]
Idle == [pc |-> "idle", rows |-> NoRows]

Init ==
  /\ bans \in [Ips -> {0, Forever}]
  /\ ipBans = NoRows
  /\ up = FALSE
  /\ sync = [s \in Syncs |-> Idle]
  /\ now = 0
  /\ changes = 0 /\ restarts = 0

\* POST and DELETE /admin/ipbans.
Ban(i, until) ==
  /\ changes < MaxChanges /\ until # bans[i]
  /\ bans' = [bans EXCEPT ![i] = until]
  /\ changes' = changes + 1
  /\ UNCHANGED <<ipBans, up, sync, now, restarts>>

\* The gateway fetches the bans before it listens, then every minute.
Begin(s) ==
  /\ sync[s].pc = "idle"
  /\ ~up => \A r \in Syncs : sync[r].pc = "idle"
  /\ sync' = [sync EXCEPT ![s].pc = "sent"]
  /\ UNCHANGED <<bans, ipBans, up, now, changes, restarts>>

Active == [i \in Ips |-> IF bans[i] > now THEN bans[i] ELSE 0]

Read(s) ==
  /\ sync[s].pc = "sent"
  /\ sync' = [sync EXCEPT ![s] = [pc |-> "read", rows |-> Active]]
  /\ UNCHANGED <<bans, ipBans, up, now, changes, restarts>>

\* Mutant: the copy is not cleared.
Install_Adds(s) ==
  /\ sync[s].pc = "read"
  /\ ipBans' = [i \in Ips |-> IF sync[s].rows[i] = 0 THEN ipBans[i] ELSE sync[s].rows[i]]
  /\ sync' = [sync EXCEPT ![s] = Idle]
  /\ up' = TRUE
  /\ UNCHANGED <<bans, now, changes, restarts>>

Install(s) ==
  /\ sync[s].pc = "read"
  /\ ipBans' = sync[s].rows
  /\ sync' = [sync EXCEPT ![s] = Idle]
  /\ up' = TRUE
  /\ UNCHANGED <<bans, now, changes, restarts>>

\* No answer, or an error: the copy stays as it was.
Fail(s) ==
  /\ sync[s].pc # "idle"
  /\ sync' = [sync EXCEPT ![s] = Idle]
  /\ up' = TRUE
  /\ UNCHANGED <<bans, ipBans, now, changes, restarts>>

Restart ==
  /\ restarts < MaxRestarts /\ restarts' = restarts + 1
  /\ up' = FALSE
  /\ ipBans' = NoRows
  /\ sync' = [s \in Syncs |-> Idle]
  /\ UNCHANGED <<bans, now, changes>>

Pass ==
  /\ now < Horizon /\ now' = now + 1
  /\ UNCHANGED <<bans, ipBans, up, sync, changes, restarts>>

Next ==
  \/ \E i \in Ips, until \in Untils : Ban(i, until)
  \/ \E s \in Syncs : Begin(s) \/ Read(s) \/ Install(s) \/ Fail(s)
  \/ Restart \/ Pass

Spec == Init /\ [][Next]_vars

\* The timer fires, and not every fetch fails.
Fairness == \A s \in Syncs : /\ WF_vars(Begin(s))
                             /\ SF_vars(Read(s)) /\ SF_vars(Install(s))

FairSpec == Spec /\ Fairness

-----------------------------------------------------------------------------
\* Every variable keeps its type.
TypeOK ==
  /\ bans \in [Ips -> Nat] /\ ipBans \in [Ips -> Nat]
  /\ up \in BOOLEAN
  /\ \A s \in Syncs : sync[s].rows \in [Ips -> Nat]
  /\ now \in 0..Horizon
  /\ changes \in 0..MaxChanges /\ restarts \in 0..MaxRestarts

Blocked(i) == ipBans[i] > now      \* isBanned

\* Whatever fetches cross, fail or are cut short, the gateway comes to block
\* those who are banned and nobody else, and keeps doing so once the bans do not
\* change any more (index.ts 79-106).
BansAreKnown == \A i \in Ips : Blocked(i) <=> bans[i] > now

BansSettle == <>[]BansAreKnown
=============================================================================
