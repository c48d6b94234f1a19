----------------------------- MODULE ScoreBoard -----------------------------
(***************************************************************************)
(* A running tournament in the tournament service (routes.ts, POST         *)
(* .../matches/:matchId/score; table-assign.ts): the rows of Match, the    *)
(* requests that score them, the tables given to ready matches and the     *)
(* match_ready messages.  The bracket is a single elimination of Brackets. *)
(*                                                                         *)
(* A score replaces all rows: the request reads the bracket, computes the  *)
(* next one, and in a transaction deletes and inserts every row.  At READ  *)
(* COMMITTED a transaction that crosses another one's commit does not see  *)
(* the rows that one inserted: its DELETE leaves them, its INSERT collides *)
(* with their ids and it fails; an UPDATE that waited finds its rows gone. *)
(***************************************************************************)
EXTENDS Brackets

CONSTANTS
  Field,        \* number of participants
  TableCount,   \* length of the tournament's list of tables
  Calls,        \* slots for score requests in flight at the same time
  Corrections,  \* are completed matches scored again?
  MaxScores,    \* bound: requests
  MaxFaults     \* bound: failed or killed requests

VARIABLES
  board,     \* the matches, as a bracket
  table,     \* tableLabel of each match
  notified,  \* matches with notifiedReady
  told,      \* messages sent: match, its two participants, the table named
  saved,     \* matches whose score was answered with 200
  call,      \* requests in flight and their local variables
  scores, faults,
  past       \* what happened so far: crossing requests, corrected scores

rows == <<board, table, notified>>
vars == <<rows, told, saved, call, scores, faults, past>>

Matches == DOMAIN board
NoTable == 0
Tables == 1..TableCount

Idle == [pc |-> "idle", x |-> 0, next |-> <<>>, plan |-> <<>>, ready |-> {}, crossed |-> FALSE]

Pcs == {"idle", "open", "commit", "reassign", "assign", "load", "send", "mark"}

End(c, from) == /\ call[c].pc = from
                /\ call' = [call EXCEPT ![c] = Idle]

-----------------------------------------------------------------------------
(* pickAssignments: the first free tables go to ready matches without one. *)

ReadyMatches(b) == {x \in DOMAIN b : Ready(b[x])}

Occupied(b, t) == {t[x] : x \in ReadyMatches(b)} \ {NoTable}
Rank(x, S) == Cardinality({y \in S : y < x})

\* Mutant: a table given is not taken out of the free ones.
PickAssignments_SameTable(b, t) ==
  LET free == Tables \ Occupied(b, t)
      wait == {x \in ReadyMatches(b) : t[x] = NoTable}
  IN [x \in {y \in wait : free # {}} |-> CHOOSE n \in free : Rank(n, free) = 0]

\* The k-th free table goes to the k-th ready match, by round and number.
PickAssignments(b, t) ==
  LET free == Tables \ Occupied(b, t)
      wait == {x \in ReadyMatches(b) : t[x] = NoTable}
  IN [x \in {y \in wait : Rank(y, wait) < Cardinality(free)} |->
        CHOOSE n \in free : Rank(n, free) = Rank(x, wait)]

Labelled(t, plan) == [x \in DOMAIN t |-> IF x \in DOMAIN plan THEN plan[x] ELSE t[x]]

Messages(ready, b, t) == {<<x, Players(b[x]), t[x]>> : x \in ready}

\* The tournament as its start leaves it.
Init ==
  /\ board = GenerateSingle(Field)
  /\ table = LET noTables == [x \in DOMAIN board |-> NoTable]
             IN Labelled(noTables, PickAssignments(board, noTables))
  /\ notified = ReadyMatches(board)
  /\ told = Messages(notified, board, table)
  /\ saved = {}
  /\ call = [c \in Calls |-> Idle]
  /\ scores = 0
  /\ faults = 0
  /\ past = {}

-----------------------------------------------------------------------------
(* The request, cut at its awaits.                                         *)

\* What an organizer can click: BracketViewer.tsx offers ready and completed
\* matches.
Score(c, x, side) ==
  /\ call[c].pc = "idle"
  /\ \/ Ready(board[x])
     \/ Corrections /\ board[x].status = "completed"
  /\ past' = past \cup (IF Ready(board[x]) THEN {} ELSE {"correction"})
                  \cup (IF \E d \in Calls \ {c} : call[d].pc # "idle" THEN {"crossing"} ELSE {})
  /\ scores < MaxScores
  /\ scores' = scores + 1
  /\ call' = [call EXCEPT ![c] = [Idle EXCEPT !.pc = "open", !.x = x,
                !.next = ApplySingle(board, x, Win(side, 1))]]
  /\ UNCHANGED <<rows, told, saved, faults>>

Open(c) ==
  /\ call[c].pc = "open"
  /\ call' = [call EXCEPT ![c].pc = "commit"]
  /\ UNCHANGED <<rows, told, saved, scores, faults, past>>

\* Statements that another request has under way when a commit replaces the rows.
Crossed(c) == [d \in Calls |-> IF d # c /\ call[d].pc \in {"commit", "assign", "mark"}
                               THEN [call[d] EXCEPT !.crossed = TRUE] ELSE call[d]]

\* Mutants: the bracket is stored without the advance of the winner; the marks of
\* notified matches are carried over.
Replace_ResultOnly(c) ==
  board' = [board EXCEPT ![call[c].x] = call[c].next[call[c].x]]

MarksAfter_Kept(marks) == marks

\* Every row is new: table labels and notifiedReady are not carried over.
Replace(c) == board' = call[c].next
MarksAfter(marks) == {}

Commit(c) ==
  /\ call[c].pc = "commit"
  /\ ~call[c].crossed
  /\ Replace(c)
  /\ table' = [x \in Matches |-> NoTable]
  /\ notified' = MarksAfter(notified)
  /\ call' = [Crossed(c) EXCEPT ![c].pc = "reassign"]
  /\ UNCHANGED <<told, saved, scores, faults, past>>

CommitFails(c) ==
  /\ End(c, "commit")
  /\ call[c].crossed
  /\ UNCHANGED <<rows, told, saved, scores, faults, past>>

\* reassignTables reads the tournament, and then updates the matches it chose.
Reassign(c) ==
  /\ call[c].pc = "reassign"
  /\ LET plan == PickAssignments(board, table)
     IN call' = [call EXCEPT ![c] =
          IF DOMAIN plan = {} THEN [@ EXCEPT !.pc = "load"]
          ELSE [@ EXCEPT !.pc = "assign", !.plan = plan]]
  /\ UNCHANGED <<rows, told, saved, scores, faults, past>>

Locked(c) == \E d \in Calls \ {c} : call[d].pc = "commit" /\ ~call[d].crossed

\* Mutant: only the first chosen match gets its label.
Assign_FirstOnly(c) ==
  /\ call[c].pc = "assign"
  /\ ~Locked(c)
  /\ LET plan == call[c].plan
         first == CHOOSE x \in DOMAIN plan : \A y \in DOMAIN plan : x <= y
     IN table' = [table EXCEPT ![first] = plan[first]]
  /\ call' = [call EXCEPT ![c].pc = "load"]
  /\ UNCHANGED <<board, notified, told, saved, scores, faults, past>>

Assign(c) ==
  /\ call[c].pc = "assign"
  /\ ~Locked(c)
  /\ table' = Labelled(table, call[c].plan)
  /\ call' = [call EXCEPT ![c].pc = "load"]
  /\ UNCHANGED <<board, notified, told, saved, scores, faults, past>>

AssignFails(c) ==
  /\ End(c, "assign")
  /\ call[c].crossed
  /\ UNCHANGED <<rows, told, saved, scores, faults, past>>

\* The answer is 200 once the messages are out.
Answer(c) == saved' = saved \cup {call[c].x}

Load(c) ==
  /\ call[c].pc = "load"
  /\ LET ready == ReadyMatches(board) \ notified
     IN IF ready = {} THEN End(c, "load") /\ Answer(c)
        ELSE /\ call' = [call EXCEPT ![c] =
                  [@ EXCEPT !.pc = "send", !.next = board, !.plan = table, !.ready = ready]]
             /\ UNCHANGED saved
  /\ UNCHANGED <<rows, told, scores, faults, past>>

Pairs(sent) == {<<m[1], m[2]>> : m \in sent}

Send(c) ==
  /\ call[c].pc = "send"
  /\ told' = told \cup Messages(call[c].ready, call[c].next, call[c].plan)
  /\ call' = [call EXCEPT ![c] = [@ EXCEPT !.pc = "mark", !.next = <<>>, !.plan = <<>>]]
  /\ UNCHANGED <<rows, saved, scores, faults, past>>

Mark(c) ==
  /\ End(c, "mark")
  /\ Answer(c)
  /\ \/ ~Locked(c) /\ notified' = notified \cup call[c].ready
     \/ call[c].crossed /\ UNCHANGED notified
  /\ UNCHANGED <<board, table, told, scores, faults, past>>

\* A statement throws or the process dies.
Abandon(c) == /\ call[c].pc # "idle"
              /\ faults < MaxFaults
              /\ faults' = faults + 1
              /\ End(c, call[c].pc)
              /\ UNCHANGED <<rows, told, saved, scores, past>>

Step(c) == \/ Open(c) \/ Commit(c) \/ CommitFails(c) \/ Reassign(c)
           \/ Assign(c) \/ AssignFails(c) \/ Load(c) \/ Send(c) \/ Mark(c)

Next == \E c \in Calls : \/ Step(c) \/ Abandon(c)
                         \/ \E x \in Matches, side \in Sides : Score(c, x, side)

Spec == Init /\ [][Next]_vars

-----------------------------------------------------------------------------
InTurn == "crossing" \notin past
Quiet == InTurn /\ faults = 0 /\ \A c \in Calls : call[c].pc = "idle"

\* Every variable keeps its type, and only the tournament's tables are named.
TypeOK == /\ board \in Seq(Match)
          /\ table \in [Matches -> Tables \cup {NoTable}]
          /\ notified \subseteq Matches /\ saved \subseteq Matches
          /\ \A m \in told : m[1] \in Matches /\ m[2] \subseteq 1..Field /\ m[3] \in Tables \cup {NoTable}
          /\ \A c \in Calls : call[c].pc \in Pcs
          /\ scores \in 0..MaxScores /\ faults \in 0..MaxFaults
          /\ past \subseteq {"crossing", "correction"}

\* Two ready matches are not sent to the same table (pickAssignments), as long as
\* requests come one after another.
TablesAreExclusive ==
  InTurn => \A x, y \in ReadyMatches(board) : table[x] = table[y] /\ table[x] # NoTable => x = y

\* When nothing is under way a ready match waits for a table only if every table
\* has a ready match.
TablesAreBusy == \/ \A x \in ReadyMatches(board) : table[x] # NoTable
                 \/ Tables = Occupied(board, table)
NoTableIsIdle == Quiet => TablesAreBusy

\* Tables are used well (table-assign.ts 18-60): both of these.
TablesAreUsed == TablesAreExclusive /\ NoTableIsIdle

\* When nothing is under way, the participants of every ready match have been
\* told.
AllAreTold == \A x \in ReadyMatches(board) : <<x, Players(board[x])>> \in Pairs(told)
ReadyIsAnnounced == Quiet => AllAreTold

\* A score that was answered with 200 stays in the bracket.
SavedScoreStays == \A x \in saved : board[x].status = "completed"

\* Requests that come one after another play the bracket of BracketPlay, faults
\* and corrections included.
Tournament == [format |-> "single", field |-> Field, corrections |-> TRUE,
               margins |-> {1}, pace |-> "free"]
Play == INSTANCE BracketPlay WITH matches <- board, tournament <- Tournament,
                                  Tournaments <- {Tournament}
PlaysOn == InTurn' => [Play!Next]_board

PlaysTheBracket == Play!Init /\ [][PlaysOn]_vars

\* Whatever requests cross or fail half way, the rows are a bracket in which every
\* participant has one place, so that the tournament can be finished.
PlayUncorrected == INSTANCE BracketPlay WITH matches <- board,
                     tournament <- [Tournament EXCEPT !.corrections = FALSE],
                     Tournaments <- {[Tournament EXCEPT !.corrections = FALSE]}
NobodyIsStranded ==
  "correction" \notin past => /\ PlayUncorrected!EveryoneHasOnePlace
                              /\ PlayUncorrected!SomeoneCanPlay

-----------------------------------------------------------------------------
(* The inductive invariant, in parts.                                      *)

\* Rows name participants of the tournament, and requests are whole.
Seated == [stage : Stages, round : Nat, p1 : 0..Field, p2 : 0..Field, winner : 0..Field,
           by : Nat, status : {"pending", "completed", "bye"}]

IsWhole(r) == r \in [pc : Pcs, x : {r.x}, next : {r.next}, plan : {r.plan},
                     ready : SUBSET Matches, crossed : BOOLEAN]
IsRequest(r) ==
  /\ IsWhole(r)
  /\ r.pc # "idle" => r.x \in Matches
  /\ r.pc \in {"open", "commit", "send"} => r.next \in [Matches -> Seated]
  /\ r.pc = "send" => r.plan \in [Matches -> Tables \cup {NoTable}]
  /\ r.pc = "assign" => \A x \in DOMAIN r.plan : r.plan[x] \in Tables
CallsAreWhole == call = [c \in Calls |-> call[c]] /\ \A c \in Calls : IsRequest(call[c])

\* Requests that take turns are alone, and what they hold is still so.
OneAtATime ==
  InTurn => /\ \A c \in Calls : ~call[c].crossed
            /\ \A c, d \in Calls : call[c].pc # "idle" /\ call[d].pc # "idle" => c = d
NextIsScored(c) ==
  /\ Ready(board[call[c].x]) \/ board[call[c].x].status = "completed"
  /\ \E side \in Sides : call[c].next = ApplySingle(board, call[c].x, Win(side, 1))
HeldIsTrue ==
  InTurn => \A c \in Calls :
    /\ call[c].pc \in {"open", "commit"} => NextIsScored(c)
    /\ call[c].pc \in {"reassign", "assign", "load"} => notified = {}
    /\ call[c].pc = "assign" => call[c].plan = PickAssignments(board, table)
    /\ call[c].pc = "send" => call[c].next = board /\ call[c].ready = ReadyMatches(board)

\* What a request that takes its turn, and does not fail, has yet to do.
WillAssign == \E c \in Calls : call[c].pc \in {"reassign", "assign"}
WillTell == \E c \in Calls : call[c].pc \in {"reassign", "assign", "load", "send"}
WorkIsDone ==
  InTurn /\ faults = 0 => /\ WillAssign \/ TablesAreBusy
                          /\ WillTell \/ AllAreTold

\* The brackets that are played, as long as no score is corrected: half of the
\* matches are of the first round, and two winners meet in each of the others.
Size == NextPow2(Field)
SameRounds(ms) ==
  /\ DOMAIN ms = 1..(Size - 1)
  /\ \A x \in DOMAIN ms : /\ ms[x].stage = "main"
                          /\ ms[x].round = Knockout("main", Field)[x].round
SeatsFollow(ms) ==
  \A x \in (Size \div 2 + 1)..(Size - 1) : /\ ms[x].p1 = ms[2 * x - Size - 1].winner
                                           /\ ms[x].p2 = ms[2 * x - Size].winner
ResultsAreWhole(ms) ==
  \A x \in DOMAIN ms :
    /\ ms[x].p1 = ms[x].p2 => ms[x].p1 = Nobody
    /\ ms[x].status = "pending" => /\ ms[x].winner = Nobody
                                   /\ x <= Size \div 2 => Nobody \notin {ms[x].p1, ms[x].p2}
    /\ ms[x].status = "completed" => ms[x].winner \in Players(ms[x]) /\ Nobody \notin {ms[x].p1, ms[x].p2}
    /\ ms[x].status = "bye" => ms[x].winner # Nobody /\ x <= Size \div 2 /\ x < Size - 1

\* Where a participant waits, has lost, or has won the final.
PlacesOf(ms, p) ==
  {x \in DOMAIN ms : \/ ms[x].status = "pending" /\ p \in Players(ms[x])
                     \/ ms[x].status = "completed" /\ Loser(ms[x]) = p
                     \/ ms[x].status = "completed" /\ ms[x].winner = p /\ x = Size - 1}
IsSound(ms) == /\ SameRounds(ms) /\ SeatsFollow(ms) /\ ResultsAreWhole(ms)
               /\ \A p \in 1..Field : \E x \in DOMAIN ms : PlacesOf(ms, p) = {x}
BracketsAreSound ==
  "correction" \notin past =>
    /\ IsSound(board)
    /\ \A c \in Calls : call[c].pc \in {"open", "commit"} => IsSound(call[c].next)

IInv ==
  /\ TypeOK /\ board \in Seq(Seated) /\ CallsAreWhole
  /\ OneAtATime /\ HeldIsTrue /\ TablesAreExclusive /\ WorkIsDone
=============================================================================
