-------------------------- MODULE TournamentCache --------------------------
(***************************************************************************)
(* The tournaments a page has: the store (apps/web/src/store/tournaments.ts*)
(* 46-190), the pages that fill it (TournamentDetail.tsx, Workspace.tsx,   *)
(* Tournaments.tsx) and the handlers that change a tournament through it.  *)
(*                                                                         *)
(* A tournament is the number of its changes on the server.  Answers come  *)
(* in any order, and each is merged into the cache.                        *)
(***************************************************************************)
EXTENDS Naturals

CONSTANTS
  Tournaments,
  Calls,          \* requests under way at once
  MaxVersion      \* bound: changes of a tournament

Versions == 0..MaxVersion
Absent == MaxVersion + 1      \* not in the cache

VARIABLES
  version,        \* the tournament on the server
  cache,          \* the store's copy
  recent,         \* the lists fetched less than 30 seconds ago
  call,           \* requests: kind, tournaments, how far, what was read; history:
                  \* the version they made, and tournaments read again since
  done            \* history: the last of its own changes that was answered

vars == <<version, cache, recent, call, done>>

Lists == {"mine", "catalog"}
\* Whether a change answers the tournament, or it is read again afterwards.
Changes == {"answers", "rereads"}
Idle == [pc |-> "idle", kind |-> "one", of |-> {}, read |-> [t \in {} |-> 0],
         own |-> 0, outrun |-> {}]

Init ==
  /\ version = [t \in Tournaments |-> 0]
  /\ cache = [t \in Tournaments |-> Absent]
  /\ recent = {}
  /\ done = [t \in Tournaments |-> 0]
  /\ call = [c \in Calls |-> Idle]

Begin(c, kind, of) ==
  /\ call[c].pc = "idle"
  /\ call' = [call EXCEPT ![c] = [Idle EXCEPT !.pc = "sent", !.kind = kind, !.of = of]]
  /\ UNCHANGED <<version, cache, recent, done>>

\* fetchById, fetchByInvite.
Fetch(c, t) == Begin(c, "one", {t})

\* fetchMine, fetchCatalog, unless forced: not within 30 seconds of the last.
FetchList(c, list) ==
  /\ list \notin recent
  /\ \E S \in SUBSET Tournaments : Begin(c, list, S)

\* Mutant: the change is shown before the server has made it.
Change_Optimistic(c, kind, t) ==
  /\ cache[t] < MaxVersion /\ call[c].pc = "idle"
  /\ call' = [call EXCEPT ![c] = [Idle EXCEPT !.pc = "sent", !.kind = kind, !.of = {t}]]
  /\ cache' = [cache EXCEPT ![t] = @ + 1]
  /\ UNCHANGED <<version, recent, done>>

\* start, complete, setMatchScore answer the tournament; registerParticipant,
\* toggleCheckin and togglePaid read it again.
Change(c, kind, t) ==
  /\ cache[t] # Absent
  /\ Begin(c, kind, {t})

\* The time of a list is that of its request.
Forget(list) ==
  /\ list \in recent
  /\ recent' = recent \ {list}
  /\ UNCHANGED <<version, cache, call, done>>

-----------------------------------------------------------------------------
\* The answer of a call is read, and outruns those that were read before it.
Reads(c, v, own) ==
  call' = [d \in Calls |->
             IF d = c THEN [call[c] EXCEPT !.pc = "read", !.own = own,
                              !.read = [t \in call[c].of |-> v[t]]]
             ELSE IF call[d].pc = "read"
                  THEN [call[d] EXCEPT !.outrun = @ \cup (call[c].of \cap call[d].of)]
                  ELSE call[d]]

Serve(c) ==
  /\ \/ call[c].pc = "sent" /\ call[c].kind \notin Changes
     \/ call[c].pc = "changed"
  /\ Reads(c, version, call[c].own)
  /\ UNCHANGED <<version, cache, recent, done>>

\* Mutant: the tournament is read at once, beside its change.
Serve_Beside(c, t) ==
  /\ call[c].pc = "sent" /\ call[c].kind \in Changes /\ t \in call[c].of
  /\ version[t] < MaxVersion
  /\ version' = [version EXCEPT ![t] = @ + 1]
  /\ Reads(c, version, version'[t])
  /\ UNCHANGED <<cache, recent, done>>

ServeChange(c, t) ==
  /\ call[c].pc = "sent" /\ call[c].kind \in Changes /\ t \in call[c].of
  /\ version[t] < MaxVersion
  /\ version' = [version EXCEPT ![t] = @ + 1]
  /\ IF call[c].kind = "answers"
     THEN Reads(c, version', version'[t])
     ELSE call' = [call EXCEPT ![c] = [@ EXCEPT !.pc = "changed", !.own = version'[t]]]
  /\ UNCHANGED <<cache, recent, done>>

\* mergeOne and mergeMany: what was answered replaces what was there; what was
\* not answered stays.
Answer(c) ==
  /\ call[c].pc = "read"
  /\ cache' = [t \in Tournaments |->
                 IF t \in call[c].of THEN call[c].read[t] ELSE cache[t]]
  /\ recent' = recent \cup ({call[c].kind} \cap Lists)
  /\ done' = [t \in Tournaments |-> IF t \in call[c].of /\ call[c].own > done[t]
                                     THEN call[c].own ELSE done[t]]
  /\ call' = [call EXCEPT ![c] = Idle]
  /\ UNCHANGED version

\* An error leaves the cache alone.
Fail(c) ==
  /\ call[c].pc # "idle"
  /\ call' = [call EXCEPT ![c] = Idle]
  /\ UNCHANGED <<version, cache, recent, done>>

\* Somebody else changes it.
Others(t) ==
  /\ version[t] < MaxVersion
  /\ version' = [version EXCEPT ![t] = @ + 1]
  /\ UNCHANGED <<cache, recent, call, done>>

Next ==
  \/ \E c \in Calls : Serve(c) \/ Answer(c) \/ Fail(c)
  \/ \E c \in Calls, t \in Tournaments : Fetch(c, t) \/ ServeChange(c, t)
  \/ \E c \in Calls, t \in Tournaments, kind \in Changes : Change(c, kind, t)
  \/ \E c \in Calls, list \in Lists : FetchList(c, list)
  \/ \E list \in Lists : Forget(list)
  \/ \E t \in Tournaments : Others(t)

Spec == Init /\ [][Next]_vars

-----------------------------------------------------------------------------
\* Every variable keeps its type.
TypeOK ==
  /\ version \in [Tournaments -> Versions]
  /\ \A t \in Tournaments : cache[t] = Absent \/ cache[t] \in 0..version[t]
  /\ recent \subseteq Lists
  /\ \A t \in Tournaments : done[t] \in 0..version[t]
  /\ \A c \in Calls : /\ call[c].of \subseteq Tournaments
                      /\ call[c].outrun \subseteq call[c].of
                      /\ call[c].pc = "read" => DOMAIN call[c].read = call[c].of

\* A tournament shown never goes back to what it was, unless the answer was
\* outrun: it was read before another one that came, or may come, first. The
\* store does not know which is newer (tournaments.ts 160-183).
GoesForward ==
  \A t \in Tournaments :
    cache[t] # Absent /\ cache'[t] # cache[t] =>
      \/ cache'[t] > cache[t]
      \/ \E c \in Calls : t \in call[c].outrun /\ call'[c] = Idle

NothingGoesBack == [][GoesForward]_vars

\* Whoever has changed a tournament sees his change when the handler is over,
\* whatever else is under way (tournaments.ts 102-155).
OwnChangeCame == \A t \in Tournaments : done'[t] # done[t] => cache'[t] >= done'[t]

OwnChangeIsShown == [][OwnChangeCame]_vars

-----------------------------------------------------------------------------
(* The inductive invariant, in parts.                                      *)

RequestTypes ==
  [pc : {"idle", "sent", "changed", "read"}, kind : {"one"} \cup Lists \cup Changes,
   of : SUBSET Tournaments, read : UNION {[S -> Versions] : S \in SUBSET Tournaments},
   own : Versions, outrun : SUBSET Tournaments]

\* A change is of one tournament; only what was read can be outrun.
RequestsAreWhole ==
  /\ version \in [Tournaments -> Versions] /\ cache \in [Tournaments -> Versions \cup {Absent}]
  /\ done \in [Tournaments -> Versions] /\ call \in [Calls -> RequestTypes]
  /\ \A c \in Calls : /\ call[c].pc # "read" => call[c].outrun = {}
                      /\ call[c].kind \in Changes => \A t, u \in call[c].of : t = u

\* Nothing is newer than the server; whoever changes a tournament reads it afterwards.
ReadsAreTrue ==
  \A c \in Calls : \A t \in call[c].of :
    /\ call[c].pc = "sent" => call[c].own = 0
    /\ call[c].pc = "changed" => call[c].own <= version[t]
    /\ call[c].pc = "read" => call[c].own <= call[c].read[t] /\ call[c].read[t] <= version[t]

\* What was not outrun is as new as the cache, and as whatever else may come.
LastIsNewest ==
  \A c \in Calls : \A t \in call[c].of \ call[c].outrun : call[c].pc = "read" =>
    /\ cache[t] # Absent => cache[t] <= call[c].read[t]
    /\ \A d \in Calls : call[d].pc = "read" /\ t \in call[d].of =>
         call[d].read[t] <= call[c].read[t]

IInv == TypeOK /\ RequestsAreWhole /\ ReadsAreTrue /\ LastIsNewest
=============================================================================
