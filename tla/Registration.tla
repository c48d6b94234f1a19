---------------------------- MODULE Registration ----------------------------
(***************************************************************************)
(* A tournament from its registration to its end in the tournament service *)
(* (routes.ts): participants come and go, the organizer changes its        *)
(* properties, starts, completes or deletes it.  Handlers check the        *)
(* tournament they loaded and write later; participantCount is a column    *)
(* next to the rows it counts.  What start does after its transaction is   *)
(* the beginning of ScoreBoard.                                            *)
(***************************************************************************)
EXTENDS Integers, FiniteSets

CONSTANTS
  Entries,     \* ids the service may give to Participant rows
  Users,       \* users who register
  Guest,       \* a participant whom the organizer adds without a userId
  None, Left,  \* no row yet, and a row that was deleted
  Places,      \* values of maxParticipants
  MinPlayers,  \* minParticipantsFor the tournament's format
  Calls,       \* slots for requests in flight at the same time
  MaxStarts,   \* bound: starts that commit
  MaxFaults    \* bound: failed or killed requests

ASSUME RegistrationAssumption ==
  /\ IsFiniteSet(Calls)
  /\ Places \subseteq Nat /\ Places # {}
  /\ MinPlayers \in Nat \ {0}
  /\ MaxStarts \in Nat /\ MaxFaults \in Nat
  /\ None # Left /\ {None, Left} \cap (Users \cup {Guest}) = {}
  /\ None \notin Entries

VARIABLES
  status,    \* of the tournament; DRAFT and REGISTRATION act alike
  places,    \* maxParticipants
  entry,     \* entry[e]: whose Participant row e is
  count,     \* participantCount
  brackets,  \* the brackets among the tournament's matches: start and players
  call,      \* requests in flight and their local variables
  starts, faults,
  alone      \* no two requests have been in flight together so far

vars == <<status, places, entry, count, brackets, call, starts, faults, alone>>

Statuses == {"REGISTRATION", "ACTIVE", "COMPLETED", "deleted"}
Who == Users \cup {Guest}
Registered == {e \in Entries : entry[e] \in Who}

Pcs == {"idle", "create", "increment", "delete", "decrement", "clear", "commit",
        "complete", "patch"}
Brackets == Nat \X SUBSET Entries
Request == [pc : Pcs, e : Entries \cup {None}, who : Who \cup {None},
            places : Places \cup {0}, players : SUBSET Entries, old : SUBSET Brackets]

Idle == [pc |-> "idle", e |-> None, who |-> None, places |-> 0, players |-> {}, old |-> {}]

Init == /\ status = "REGISTRATION"
        /\ places \in Places
        /\ entry = [e \in Entries |-> None]
        /\ count = 0
        /\ brackets = {}
        /\ call = [c \in Calls |-> Idle]
        /\ starts = 0
        /\ faults = 0
        /\ alone = TRUE

\* A request that passed its checks goes on with pc; one that does not is answered
\* and changes nothing.
Begin(c, request) ==
  /\ call[c].pc = "idle"
  /\ call' = [call EXCEPT ![c] = request]
  /\ alone' = (alone /\ \A d \in Calls \ {c} : call[d].pc = "idle")
  /\ UNCHANGED <<status, places, entry, count, brackets, starts, faults>>

At(c, pc) == call[c].pc = pc /\ status # "deleted"

Goto(c, pc) == call' = [call EXCEPT ![c].pc = pc]
End(c) == call' = [call EXCEPT ![c] = Idle]

-----------------------------------------------------------------------------
(* POST /tournaments/:id/participants: the row, then the counter.          *)

\* Mutant: a place more.
Register_OneTooMany(c, u) ==
  /\ status = "REGISTRATION"
  /\ Cardinality(Registered) <= places
  /\ u # Guest => \A e \in Registered : entry[e] # u
  /\ Begin(c, [Idle EXCEPT !.pc = "create", !.who = u])

Register(c, u) ==
  /\ status = "REGISTRATION"
  /\ Cardinality(Registered) < places
  /\ u # Guest => \A e \in Registered : entry[e] # u
  /\ Begin(c, [Idle EXCEPT !.pc = "create", !.who = u])

\* The unique key on tournament and userId.
Unique(u) == u # Guest => \A e \in Registered : entry[e] # u

Create(c, e) ==
  /\ At(c, "create")
  /\ entry[e] = None
  /\ Unique(call[c].who)
  /\ entry' = [entry EXCEPT ![e] = call[c].who]
  /\ Goto(c, "increment")
  /\ UNCHANGED <<status, places, count, brackets, starts, faults, alone>>

\* Mutant: the rejected row is counted.
CreateRejected_Counted(c) ==
  /\ At(c, "create")
  /\ ~Unique(call[c].who)
  /\ Goto(c, "increment")
  /\ UNCHANGED <<status, places, entry, count, brackets, starts, faults, alone>>

CreateRejected(c) ==
  /\ At(c, "create")
  /\ ~Unique(call[c].who)
  /\ End(c)
  /\ UNCHANGED <<status, places, entry, count, brackets, starts, faults, alone>>

Increment(c) ==
  /\ At(c, "increment")
  /\ count' = count + 1
  /\ End(c)
  /\ UNCHANGED <<status, places, entry, brackets, starts, faults, alone>>

-----------------------------------------------------------------------------
(* DELETE /tournaments/:id/participants/:pid.                              *)

\* Mutant: also from a tournament that runs.
Unregister_AnyStatus(c, e) ==
  /\ status # "deleted"
  /\ e \in Registered
  /\ Begin(c, [Idle EXCEPT !.pc = "delete", !.e = e])

Unregister(c, e) ==
  /\ status = "REGISTRATION"
  /\ e \in Registered
  /\ Begin(c, [Idle EXCEPT !.pc = "delete", !.e = e])

DeleteRow(c) ==
  /\ At(c, "delete")
  /\ call[c].e \in Registered
  /\ entry' = [entry EXCEPT ![call[c].e] = Left]
  /\ Goto(c, "decrement")
  /\ UNCHANGED <<status, places, count, brackets, starts, faults, alone>>

\* The row is gone: Prisma throws and the answer is 500.
DeleteRejected(c) ==
  /\ At(c, "delete")
  /\ call[c].e \notin Registered
  /\ End(c)
  /\ UNCHANGED <<status, places, entry, count, brackets, starts, faults, alone>>

Decrement(c) ==
  /\ At(c, "decrement")
  /\ count' = count - 1
  /\ End(c)
  /\ UNCHANGED <<status, places, entry, brackets, starts, faults, alone>>

-----------------------------------------------------------------------------
(* The organizer: start, complete, change, delete.                         *)

\* Mutant: a tournament that runs or is over is started again.
Start_AnyStatus(c) ==
  /\ status # "deleted"
  /\ Cardinality(Registered) >= MinPlayers
  /\ Begin(c, [Idle EXCEPT !.pc = "clear", !.players = Registered])

Start(c) ==
  /\ status = "REGISTRATION"
  /\ Cardinality(Registered) >= MinPlayers
  /\ Begin(c, [Idle EXCEPT !.pc = "clear", !.players = Registered])

\* The DELETE of start's transaction finds the matches that are committed by then.
Clear(c) ==
  /\ At(c, "clear")
  /\ call' = [call EXCEPT ![c].pc = "commit", ![c].old = brackets]
  /\ UNCHANGED <<status, places, entry, count, brackets, starts, faults, alone>>

\* Mutant: the matches are deleted after the new ones were inserted.
CommitStart_Swapped(c) ==
  /\ At(c, "commit")
  /\ starts < MaxStarts
  /\ starts' = starts + 1
  /\ brackets' = {}
  /\ status' = "ACTIVE"
  /\ End(c)
  /\ UNCHANGED <<places, entry, count, faults, alone>>

CommitStart(c) ==
  /\ At(c, "commit")
  /\ starts < MaxStarts
  /\ starts' = starts + 1
  /\ brackets' = (brackets \ call[c].old) \cup {<<starts, call[c].players>>}
  /\ status' = "ACTIVE"
  /\ End(c)
  /\ UNCHANGED <<places, entry, count, faults, alone>>

Complete(c) ==
  /\ status \notin {"COMPLETED", "deleted"}
  /\ Begin(c, [Idle EXCEPT !.pc = "complete"])

SetCompleted(c) ==
  /\ At(c, "complete")
  /\ status' = "COMPLETED"
  /\ End(c)
  /\ UNCHANGED <<places, entry, count, brackets, starts, faults, alone>>

Patch(c, n) ==
  /\ status = "REGISTRATION"
  /\ Begin(c, [Idle EXCEPT !.pc = "patch", !.places = n])

SetPlaces(c) ==
  /\ At(c, "patch")
  /\ places' = call[c].places
  /\ End(c)
  /\ UNCHANGED <<status, entry, count, brackets, starts, faults, alone>>

\* Participants and matches go with the tournament.
Delete ==
  /\ status # "deleted"
  /\ status' = "deleted"
  /\ entry' = [e \in Entries |-> IF e \in Registered THEN Left ELSE entry[e]]
  /\ brackets' = {}
  /\ UNCHANGED <<places, count, call, starts, faults, alone>>

\* A statement that finds no tournament fails.
NotFound(c) ==
  /\ status = "deleted"
  /\ call[c].pc # "idle"
  /\ End(c)
  /\ UNCHANGED <<status, places, entry, count, brackets, starts, faults, alone>>

\* A statement fails for another reason, or the process dies.
Abandon(c) ==
  /\ call[c].pc # "idle"
  /\ faults < MaxFaults
  /\ faults' = faults + 1
  /\ End(c)
  /\ UNCHANGED <<status, places, entry, count, brackets, starts, alone>>

Step(c) == \/ \E e \in Entries : Create(c, e)
           \/ CreateRejected(c) \/ Increment(c)
           \/ DeleteRow(c) \/ DeleteRejected(c) \/ Decrement(c)
           \/ Clear(c) \/ CommitStart(c) \/ SetCompleted(c) \/ SetPlaces(c)
           \/ NotFound(c) \/ Abandon(c)

Arrive(c) == \/ \E u \in Who : Register(c, u)
             \/ \E e \in Entries : Unregister(c, e)
             \/ Start(c) \/ Complete(c)
             \/ \E n \in Places : Patch(c, n)

Next == Delete \/ \E c \in Calls : Step(c) \/ Arrive(c)

Spec == Init /\ [][Next]_vars

-----------------------------------------------------------------------------
\* What the zod schemas leave of a request.
WellFormed(r) == /\ r.pc = "create" => r.who \in Who
                 /\ r.pc = "patch" => r.places \in Places

\* Every variable keeps its type.
TypeOK == /\ status \in Statuses
          /\ places \in Places
          /\ entry \in [Entries -> Who \cup {None, Left}]
          /\ count \in Int
          /\ brackets \subseteq Brackets
          /\ call \in [Calls -> Request]
          /\ \A c \in Calls : WellFormed(call[c])
          /\ starts \in Nat /\ faults \in Nat
          /\ alone \in BOOLEAN

Pending(pc) == {c \in Calls : call[c].pc = pc}

\* How far the counter is ahead of the rows, the increments and decrements under
\* way counted in.
Ahead == count + Cardinality(Pending("increment")) - Cardinality(Pending("decrement"))
         - Cardinality(Registered)

\* participantCount counts the participants: with the increments and decrements
\* under way it is off by at most one for each request that failed, whatever
\* crossed, and so exact when nothing failed and nothing is under way.
CountKeepsUp == status # "deleted" => -faults <= Ahead /\ Ahead <= faults

\* A tournament that runs has a bracket, however starts cross each other.
RunningHasBracket == status = "ACTIVE" => brackets # {}

\* As long as requests come one after another, a tournament has one bracket and
\* everyone in it is registered.
BracketOfTheRegistered ==
  alone => /\ Cardinality(brackets) <= 1
           /\ \A b \in brackets : b[2] = Registered

\* The draw and the field agree (routes.ts 440-470): both of these.
FieldIsDrawn == RunningHasBracket /\ BracketOfTheRegistered

\* As long as requests come one after another, nothing about a tournament changes
\* once it has started but its end (routes.ts: NOT_REGISTERING, IMMUTABLE_STATE,
\* ALREADY_STARTED).
StartedIsFrozen ==
  [][alone' /\ status \in {"ACTIVE", "COMPLETED"} =>
       /\ status' = status \/ status' \in {"COMPLETED", "deleted"}
       /\ places' = places
       /\ status' # "deleted" => entry' = entry /\ brackets' = brackets]_vars

\* As long as requests come one after another, whoever registers finds a place
\* (FULL).
NobodyIsOverbooked ==
  [][alone' /\ Registered' \ Registered # {} => Cardinality(Registered') <= places]_vars

-----------------------------------------------------------------------------
(* The inductive invariant behind the properties above.                    *)

Enrolling == {"create", "increment", "delete", "decrement", "clear", "commit", "patch"}

\* While requests come one after another: there is one of them, what it read on
\* arrival still holds, and there is no bracket before the start.
SerialInv ==
  alone =>
    /\ \A c, d \in Calls : call[c].pc # "idle" /\ call[d].pc # "idle" => c = d
    /\ \A c \in Calls : call[c].pc \in Enrolling => status \in {"REGISTRATION", "deleted"}
    /\ \A c \in Calls : call[c].pc = "create" /\ status # "deleted"
         => Cardinality(Registered) < places
    /\ \A c \in Calls : call[c].pc \in {"clear", "commit"} /\ status # "deleted"
         => call[c].players = Registered
    /\ status \in {"REGISTRATION", "deleted"} => brackets = {}

IInv == /\ TypeOK
        /\ IsFiniteSet(Registered)
        /\ CountKeepsUp
        /\ RunningHasBracket
        /\ SerialInv
        /\ BracketOfTheRegistered
=============================================================================
