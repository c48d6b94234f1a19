---------------------------- MODULE ClubRecords ----------------------------
(***************************************************************************)
(* The takings of a club: finished sessions and shifts that its desktop    *)
(* sends (POST /club/session, POST /club/shift of                          *)
(* services/club/src/routes.ts), and the two reports made of them          *)
(* (GET /club/sessions and its summary).                                   *)
(*                                                                         *)
(* The desktop is not in this repository: it repeats what was not          *)
(* answered.  A handler verifies the desktop's token before it writes.     *)
(***************************************************************************)
EXTENDS Naturals, FiniteSets, FiniteSetsExt

CONSTANTS
  Sessions,     \* sessions played, in the order they started: 1, 2, ...
  Day, Cost,    \* of each session
  Limit,        \* the sessions a report lists at most (take: 500)
  MaxShift,     \* bound: states of the shift; in the last one it is closed
  Posts         \* requests of the desktop under way at once

Days == {Day[s] : s \in Sessions}
Periods == {{d} : d \in Days} \cup {Days}     \* a day, or a range

VARIABLES
  rows,         \* rows of each session in ClubSessionRecord
  over,         \* history: sessions that have ended
  told,         \* history: sessions the desktop need not send again
  toldShift,    \* history: the last state of the shift that was answered
  shift,        \* the state of the shift on the desktop
  record,       \* its row in ClubShiftRecord
  post          \* requests of the desktop, and whether a later one was written

vars == <<rows, over, told, toldShift, shift, record, post>>

NoPost == [kind |-> "none", of |-> 0, outrun |-> FALSE]

Init ==
  /\ rows = [s \in Sessions |-> 0]
  /\ over = {} /\ told = {} /\ toldShift = 0
  /\ shift = 0 /\ record = 0
  /\ post = [p \in Posts |-> NoPost]

-----------------------------------------------------------------------------
Play(s) ==
  /\ s \notin over /\ over' = over \cup {s}
  /\ UNCHANGED <<rows, told, shift, record, post, toldShift>>

Work ==
  /\ shift < MaxShift /\ shift' = shift + 1
  /\ UNCHANGED <<rows, over, told, record, post, toldShift>>

SendSession(p, s) ==
  /\ post[p] = NoPost /\ s \in over \ told
  /\ post' = [post EXCEPT ![p] = [NoPost EXCEPT !.kind = "session", !.of = s]]
  /\ UNCHANGED <<rows, over, told, shift, record, toldShift>>

SendShift(p) ==
  /\ post[p] = NoPost /\ shift > 0
  /\ post' = [post EXCEPT ![p] = [NoPost EXCEPT !.kind = "shift", !.of = shift]]
  /\ UNCHANGED <<rows, over, told, shift, record, toldShift>>

\* Mutant: a session sent again is another row.
Insert_Again(p, heard) ==
  LET s == post[p].of IN
  /\ post[p].kind = "session"
  /\ rows' = [rows EXCEPT ![s] = @ + 1]
  /\ told' = IF heard THEN told \cup {s} ELSE told
  /\ post' = [post EXCEPT ![p] = NoPost]
  /\ UNCHANGED <<over, shift, record, toldShift>>

\* The insert: 200, or 409 for one that is there.  The desktop hears of it, or
\* not.
Insert(p, heard) ==
  LET s == post[p].of IN
  /\ post[p].kind = "session"
  /\ rows' = [rows EXCEPT ![s] = IF @ = 0 THEN 1 ELSE @]
  /\ told' = IF heard THEN told \cup {s} ELSE told
  /\ post' = [post EXCEPT ![p] = NoPost]
  /\ UNCHANGED <<over, shift, record, toldShift>>

Hears(p, heard) ==
  toldShift' = IF heard /\ post[p].of > toldShift THEN post[p].of ELSE toldShift

\* Mutant: a shift that is there is left alone.
Upsert_Once(p, heard) ==
  /\ post[p].kind = "shift"
  /\ record' = IF record = 0 THEN post[p].of ELSE record
  /\ Hears(p, heard)
  /\ post' = [post EXCEPT ![p] = NoPost]
  /\ UNCHANGED <<rows, over, told, shift>>

\* The upsert: whatever is written last stays, though it was sent before.
Upsert(p, heard) ==
  /\ post[p].kind = "shift"
  /\ record' = post[p].of
  /\ Hears(p, heard)
  /\ post' = [q \in Posts |->
                IF q = p THEN NoPost
                ELSE IF post[q].kind = "shift" /\ post[q].of < post[p].of
                     THEN [post[q] EXCEPT !.outrun = TRUE] ELSE post[q]]
  /\ UNCHANGED <<rows, over, told, shift>>

\* The request does not arrive, or the token is refused.
Lose(p) ==
  /\ post[p] # NoPost
  /\ post' = [post EXCEPT ![p] = NoPost]
  /\ UNCHANGED <<rows, over, told, shift, record, toldShift>>

-----------------------------------------------------------------------------
Kept(S) == {s \in Sessions : rows[s] > 0 /\ Day[s] \in S}
Sum(S) == MapThenSumSet(LAMBDA s : rows[s] * Cost[s], S)

\* GET /club/sessions: the last ones, and their totals.
Listed(S) == {s \in Kept(S) : Cardinality({r \in Kept(S) : r > s}) < Limit}
Totals(S) == Sum(Listed(S))

\* GET /club/sessions/summary: a row for each day, of all.
Summary(S) == [d \in {Day[s] : s \in Kept(S)} |-> Sum(Kept(S \cap {d}))]
Takings(S) == MapThenSumSet(LAMBDA d : Summary(S)[d], DOMAIN Summary(S))

Next ==
  \/ \E s \in Sessions : Play(s)
  \/ \E p \in Posts, s \in Sessions : SendSession(p, s)
  \/ \E p \in Posts, heard \in BOOLEAN : Insert(p, heard) \/ Upsert(p, heard)
  \/ \E p \in Posts : SendShift(p) \/ Lose(p)
  \/ Work

Spec == Init /\ [][Next]_vars

-----------------------------------------------------------------------------
\* Every variable keeps its type.
TypeOK ==
  /\ rows \in [Sessions -> Nat]
  /\ over \subseteq Sessions /\ told \subseteq over
  /\ shift \in 0..MaxShift /\ record \in 0..shift /\ toldShift \in 0..shift
  /\ post \in [Posts -> [kind : {"none", "session", "shift"}, of : Nat, outrun : BOOLEAN]]
  /\ \A p \in Posts : CASE post[p].kind = "session" -> post[p].of \in over
                       [] post[p].kind = "shift" -> post[p].of \in 1..shift
                       [] OTHER -> post[p] = NoPost

\* However often a session is sent and its answer lost, both reports count it
\* once: the takings of any days are those of the sessions that have ended, all
\* that the desktop was told are there included, and the two reports agree for
\* as long as the list is not cut off (routes.ts 122-161, 275-310, 330-368).
TakingsAreTrue ==
  \A S \in Periods :
    LET Ended == MapThenSumSet(LAMBDA s : Cost[s], {s \in over : Day[s] \in S})
        Told == MapThenSumSet(LAMBDA s : Cost[s], {s \in told : Day[s] \in S}) IN
    /\ Takings(S) >= Told /\ Takings(S) <= Ended
    /\ Totals(S) <= Takings(S)
    /\ Cardinality(Kept(S)) <= Limit => Totals(S) = Takings(S)

\* A state of the shift that the desktop was told of is in the row, and the row
\* goes back, so that a closed shift is open again, only by a request that
\* a later one has outrun (routes.ts 165-202).
KeepsUp ==
  /\ toldShift' # toldShift => record' >= toldShift'
  /\ record' < record => \E p \in Posts : post[p].outrun /\ post'[p] = NoPost

ShiftKeepsUp == [][KeepsUp]_vars

-----------------------------------------------------------------------------
(* The inductive invariant: a session has one row at most, none before it  *)
(* ends, and one when the desktop was told of it; a state of the shift     *)
(* older than the row was outrun.                                          *)
RowsAreSessions ==
  \A s \in Sessions : /\ rows[s] \in {0, 1}
                      /\ rows[s] = 1 => s \in over
                      /\ s \in told => rows[s] = 1

OldIsOutrun ==
  \A p \in Posts : post[p].kind = "shift" /\ post[p].of < record => post[p].outrun

IInv == TypeOK /\ RowsAreSessions /\ OldIsOutrun
=============================================================================
