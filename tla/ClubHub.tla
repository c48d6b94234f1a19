------------------------------ MODULE ClubHub ------------------------------
(***************************************************************************)
(* One club: the sockets of its desktop application and its dashboards     *)
(* (services/club/src/ws-route.ts, ws-hub.ts), the snapshot they and the   *)
(* HTTP handlers of routes.ts write and read, and what a dashboard shows   *)
(* (apps/web/src/store/club.ts).                                           *)
(*                                                                         *)
(* The state of the club is a number that the desktop counts up.  A        *)
(* handler is started for every message and nobody waits for it.           *)
(***************************************************************************)
EXTENDS Naturals

CONSTANTS
  Desktops, Dashboards,   \* sockets, each opened once
  Handlers,               \* handlers of snapshots at work at once
  None,
  MaxVersion              \* bound: states of the club

Sockets == Desktops \cup Dashboards
Versions == 0..MaxVersion

VARIABLES
  sock,       \* each socket: its connection, as the server sees it
  desktop,    \* room.desktop
  browsers,   \* room.browsers
  version,    \* the state the desktop is in
  work,       \* handlers of snapshots: what they carry, and how far they are
  stored,     \* the row of ClubSyncSnapshot
  shown,      \* what each dashboard shows
  asked,      \* the answer to GET /club/status on its way to a dashboard
  acked,      \* history: the last state that was acknowledged
  unheard,    \* history: sockets that closed before they had handlers
  crossed     \* history: dashboards for which two messages have crossed

room == <<sock, desktop, browsers, unheard>>
vars == <<room, version, work, stored, shown, asked, acked, crossed>>

Free == [pc |-> "free", v |-> 0]
Nothing == [pc |-> "idle", v |-> 0]

Init ==
  /\ sock = [s \in Sockets |-> "new"]
  /\ desktop = None
  /\ browsers = {}
  /\ version = 0
  /\ work = [h \in Handlers |-> Free]
  /\ stored = 0
  /\ shown = [b \in Dashboards |-> 0]
  /\ asked = [b \in Dashboards |-> Nothing]
  /\ acked = 0
  /\ unheard = {}
  /\ crossed = {}

snapshots == <<version, work, stored, shown, asked, acked, crossed>>

-----------------------------------------------------------------------------
\* A socket is open while its token is verified, and has no handlers yet.
Open(s) ==
  /\ sock[s] = "new"
  /\ sock' = [sock EXCEPT ![s] = "verifying"]
  /\ UNCHANGED <<desktop, browsers, unheard, snapshots>>

Refuse(s) ==
  /\ sock[s] = "verifying"
  /\ sock' = [sock EXCEPT ![s] = "closed"]
  /\ UNCHANGED <<desktop, browsers, unheard, snapshots>>

\* Verified: the newest desktop wins, the one before is closed.
AttachDesktop(s) ==
  /\ s \in Desktops /\ sock[s] \in {"verifying", "vanished"}
  /\ desktop' = s
  /\ sock' = [t \in Sockets |->
                CASE t = s /\ sock[s] = "verifying" -> "open"
                  [] t = s /\ sock[s] = "vanished" -> "closed"
                  [] t = desktop /\ sock[t] = "open" /\ t # s -> "closing"
                  [] OTHER -> sock[t]]
  /\ unheard' = IF sock[s] = "vanished" THEN unheard \cup {s} ELSE unheard
  /\ UNCHANGED <<browsers, snapshots>>

AttachBrowser(s) ==
  /\ s \in Dashboards /\ sock[s] \in {"verifying", "vanished"}
  /\ browsers' = browsers \cup {s}
  /\ sock' = [sock EXCEPT ![s] = IF @ = "verifying" THEN "open" ELSE "closed"]
  /\ unheard' = IF sock[s] = "vanished" THEN unheard \cup {s} ELSE unheard
  /\ UNCHANGED <<desktop, snapshots>>

\* The other side goes: while the token is verified nobody hears of it.
Break(s) ==
  /\ sock[s] \in {"verifying", "open"}
  /\ sock' = [sock EXCEPT ![s] = IF @ = "open" THEN "closing" ELSE "vanished"]
  /\ UNCHANGED <<desktop, browsers, unheard, snapshots>>

\* Mutant: whichever desktop closes, the room is left without one.
Closed_Whoever(s) ==
  /\ sock[s] = "closing"
  /\ sock' = [sock EXCEPT ![s] = "closed"]
  /\ desktop' = IF s \in Desktops THEN None ELSE desktop
  /\ browsers' = browsers \ {s}
  /\ UNCHANGED <<unheard, snapshots>>

\* The close handlers: a desktop that was replaced leaves the new one alone.
Closed(s) ==
  /\ sock[s] = "closing"
  /\ sock' = [sock EXCEPT ![s] = "closed"]
  /\ desktop' = IF desktop = s THEN None ELSE desktop
  /\ browsers' = browsers \ {s}
  /\ UNCHANGED <<unheard, snapshots>>

-----------------------------------------------------------------------------
Busy == {h \in Handlers : work[h].pc # "free"}
Attended == {b \in browsers : sock[b] = "open"}

\* A message to the dashboards: it shows what it carries.  It crosses the
\* answer to a status request that read before it.
Told(v) == [b \in Dashboards |-> IF b \in Attended THEN v ELSE shown[b]]
Passing == {b \in Attended : asked[b].pc = "read"}

\* Whoever has handlers is heard until it has closed, replaced or not.
Heard == {s \in Desktops : sock[s] \in {"open", "closing"}}

\* The desktop's state changes, and it sends a snapshot (SYNC, or POST
\* /club/sync, which is not sent on), or the acknowledgement of a command,
\* which needs no statement and overtakes the snapshots at work.
Sync(h, socket) ==
  /\ work[h] = Free
  /\ socket => Heard # {}
  /\ version' \in {version, version + 1} \cap Versions
  /\ work' = [work EXCEPT ![h] = [pc |-> IF socket THEN "sync" ELSE "post", v |-> version']]
  /\ crossed' = IF Busy = {} THEN crossed ELSE Dashboards
  /\ UNCHANGED <<room, stored, shown, asked, acked>>

Acknowledge ==
  /\ Heard # {} /\ version < MaxVersion
  /\ version' = version + 1
  /\ shown' = Told(version')
  /\ acked' = version'
  /\ crossed' = IF Busy = {} THEN crossed \cup Passing ELSE Dashboards
  /\ UNCHANGED <<room, work, stored, asked>>

\* An acknowledgement that a socket had sent before it was replaced, or broke.
AcknowledgeLate(v) ==
  /\ \E s \in Heard : sock[s] = "closing"
  /\ v <= version
  /\ shown' = Told(v)
  /\ crossed' = Dashboards
  /\ UNCHANGED <<room, version, work, stored, asked, acked>>

\* Mutant: the dashboards are told before the row is written.
Persist_Later(h) ==
  /\ work[h].pc \in {"sync", "post"}
  /\ shown' = IF work[h].pc = "sync" THEN Told(work[h].v) ELSE shown
  /\ crossed' = IF work[h].pc = "sync" THEN crossed \cup Passing ELSE crossed
  /\ work' = [work EXCEPT ![h].pc = "stored"]
  /\ UNCHANGED <<room, version, stored, asked, acked>>

\* The upsert ...
Persist(h) ==
  /\ work[h].pc \in {"sync", "post"}
  /\ stored' = work[h].v
  /\ work' = [work EXCEPT ![h] = IF @.pc = "post" THEN Free ELSE [@ EXCEPT !.pc = "stored"]]
  /\ UNCHANGED <<room, version, shown, asked, acked, crossed>>

\* ... or its error, which is only logged for SYNC ...
PersistFails(h) ==
  /\ work[h].pc \in {"sync", "post"}
  /\ work' = [work EXCEPT ![h] = IF @.pc = "post" THEN Free ELSE [@ EXCEPT !.pc = "stored"]]
  /\ crossed' = Dashboards
  /\ UNCHANGED <<room, version, stored, shown, asked, acked>>

\* ... and the broadcast.
Broadcast(h) ==
  /\ work[h].pc = "stored"
  /\ shown' = Told(work[h].v)
  /\ crossed' = crossed \cup Passing
  /\ work' = [work EXCEPT ![h] = Free]
  /\ UNCHANGED <<room, version, stored, asked, acked>>

\* Mutant: a dashboard asks only while its socket is connected.
Ask_WhileOpen(b) ==
  /\ asked[b].pc = "idle" /\ b \in Attended
  /\ asked' = [asked EXCEPT ![b] = [pc |-> "read", v |-> stored]]
  /\ UNCHANGED <<room, version, work, stored, shown, acked, crossed>>

\* A dashboard asks for the row every 15 seconds, whatever its socket does.
\* An acknowledgement is not in the row before the next snapshot is.
Ask(b) ==
  /\ asked[b].pc = "idle"
  /\ asked' = [asked EXCEPT ![b] = [pc |-> "read", v |-> stored]]
  /\ crossed' = IF stored < acked THEN crossed \cup {b} ELSE crossed
  /\ UNCHANGED <<room, version, work, stored, shown, acked>>

Answer(b) ==
  /\ asked[b].pc = "read"
  /\ shown' = [shown EXCEPT ![b] = asked[b].v]
  /\ asked' = [asked EXCEPT ![b] = Nothing]
  /\ UNCHANGED <<room, version, work, stored, acked, crossed>>

-----------------------------------------------------------------------------
Handle(h) == Persist(h) \/ Broadcast(h)
Post == \E h \in Handlers : Sync(h, FALSE)

Next ==
  \/ \E s \in Sockets : \/ Open(s) \/ Refuse(s) \/ AttachDesktop(s) \/ AttachBrowser(s)
                        \/ Break(s) \/ Closed(s)
  \/ \E h \in Handlers, socket \in BOOLEAN : Sync(h, socket)
  \/ \E h \in Handlers : Handle(h) \/ PersistFails(h)
  \/ Acknowledge
  \/ \E v \in Versions : AcknowledgeLate(v)
  \/ \E b \in Dashboards : Ask(b) \/ Answer(b)

Spec == Init /\ [][Next]_vars

\* The desktop posts its state every 30 seconds, a dashboard asks every 15, and
\* an upsert may fail now and then but is not always failing.  A socket that closes
\* has closed 30 seconds later at the latest (the timeout of ws).
Fairness ==
  /\ WF_vars(Post)
  /\ \A h \in Handlers : SF_vars(Persist(h)) /\ WF_vars(Broadcast(h))
  /\ \A b \in Dashboards : WF_vars(Ask(b) \/ Answer(b))
  /\ \A s \in Desktops : WF_vars(Closed(s))

FairSpec == Spec /\ Fairness

-----------------------------------------------------------------------------
TypeOK ==
  /\ sock \in [Sockets -> {"new", "verifying", "vanished", "open", "closing", "closed"}]
  /\ desktop \in Desktops \cup {None}
  /\ browsers \subseteq Dashboards
  /\ work \in [Handlers -> [pc : {"free", "sync", "post", "stored"}, v : Versions]]
  /\ asked \in [Dashboards -> [pc : {"idle", "read"}, v : Versions]]
  /\ shown \in [Dashboards -> Versions]
  /\ {version, stored, acked} \subseteq Versions
  /\ unheard \subseteq Sockets /\ crossed \subseteq Dashboards

\* The room has the desktop that is connected, and only one is: a desktop that
\* closes, replaced or not, never takes another out of it, and the room never
\* keeps one that is gone, unless it went while its token was verified
\* (ws-hub.ts 49-69, ws-route.ts 42-62).
RoomIsTrue ==
  /\ \A s \in Desktops : sock[s] = "open" => desktop = s
  /\ desktop # None => sock[desktop] \in {"open", "closing"} \/ desktop \in unheard
  /\ \A b \in browsers : sock[b] \in {"open", "closing"} \/ b \in unheard

\* What a dashboard shows never goes back, as long as no two messages have
\* crossed: a snapshot and another or an acknowledgement, a broadcast or an
\* acknowledgement and the row a status request reads (ws-hub.ts 87-116,
\* store/club.ts 111-120).
GoesForward == \A b \in Dashboards : shown'[b] >= shown[b] \/ b \in crossed'

NothingGoesBack == [][GoesForward]_vars

\* Whatever crossed, every dashboard comes to show the state the desktop is in
\* and keeps showing it once that does not change any more.
CaughtUp == \A b \in Dashboards : shown[b] = version

DashboardsCatchUp == <>[]CaughtUp

-----------------------------------------------------------------------------
(* The inductive invariant, in parts.                                      *)

\* Nothing is newer than the desktop.
NothingIsAhead ==
  /\ stored <= version /\ acked <= version
  /\ \A h \in Handlers : work[h].v <= version
  /\ \A b \in Dashboards : shown[b] <= version /\ asked[b].v <= version

\* As long as nothing has crossed, one handler at most is at work, with the state
\* the desktop is in, and a dashboard is behind the row, or the acknowledgement.
InOrder ==
  \A b \in Dashboards \ crossed :
    /\ \A h, i \in Busy : h = i
    /\ \A h \in Busy : work[h].v = version /\ (work[h].pc = "stored" => stored = version)
    /\ shown[b] <= stored \/ shown[b] <= acked
    /\ asked[b].pc = "read" => shown[b] <= asked[b].v /\ asked[b].v <= stored

IInv == TypeOK /\ version \in Versions /\ stored \in Versions /\ acked \in Versions
        /\ RoomIsTrue /\ NothingIsAhead /\ InOrder
=============================================================================
