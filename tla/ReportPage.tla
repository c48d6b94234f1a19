----------------------------- MODULE ReportPage -----------------------------
(***************************************************************************)
(* The report a club's page shows (apps/web/src/pages/club/ClubReports.tsx *)
(* 120-160): the view that is selected, and the requests an effect begins  *)
(* whenever another one is.  Nothing is cancelled.                         *)
(***************************************************************************)
EXTENDS Naturals

CONSTANTS
  Views,     \* days, ranges, shifts: what sessions are asked for
  NoView,    \* the view of shifts while none is selected: nothing is asked
  Asks       \* requests under way at once

Nothing == NoView    \* an empty list is that of no view

VARIABLES
  view,      \* the view selected
  shown,     \* the view whose sessions are shown
  loading,
  ask,       \* requests, and whether another view was selected since
  stray      \* history: the last to end was for a view left meanwhile

vars == <<view, shown, loading, ask, stray>>

NoAsk == [of |-> NoView, outrun |-> FALSE]

Init ==
  /\ view = NoView /\ shown = Nothing /\ loading = FALSE
  /\ ask = [a \in Asks |-> NoAsk] /\ stray = FALSE

LeaveBehind == [b \in Asks |-> IF ask[b] = NoAsk THEN NoAsk ELSE [ask[b] EXCEPT !.outrun = TRUE]]

\* The effect.
Select(v, a) ==
  /\ v # view /\ view' = v
  /\ IF v = NoView
     THEN /\ ask' = LeaveBehind /\ loading' = FALSE
          /\ shown' = Nothing /\ stray' = FALSE
     ELSE /\ ask[a] = NoAsk
          /\ ask' = [LeaveBehind EXCEPT ![a].of = v] /\ loading' = TRUE
          /\ UNCHANGED <<shown, stray>>

Ends(a) ==
  /\ ask[a] # NoAsk
  /\ ask' = [ask EXCEPT ![a] = NoAsk]
  /\ stray' = ask[a].outrun
  /\ loading' = FALSE
  /\ UNCHANGED view

Answer(a) == Ends(a) /\ shown' = ask[a].of

\* Mutant: an error leaves what is shown.
Fail_Keeps(a) == Ends(a) /\ UNCHANGED shown

Fail(a) == Ends(a) /\ shown' = Nothing

Next ==
  \/ \E v \in Views \cup {NoView}, a \in Asks : Select(v, a)
  \/ \E a \in Asks : Answer(a) \/ Fail(a)

Spec == Init /\ [][Next]_vars

-----------------------------------------------------------------------------
\* Every variable keeps its type.
TypeOK ==
  /\ view \in Views \cup {NoView}
  /\ shown \in Views \cup {Nothing}
  /\ loading \in BOOLEAN /\ stray \in BOOLEAN
  /\ ask \in [Asks -> [of : Views \cup {NoView}, outrun : BOOLEAN]]

\* What is shown while nothing loads is of the view that is selected, unless the
\* request that ended last was begun for another one (ClubReports.tsx 127-160).
ShownIsSelected == ~loading /\ ~stray => shown \in {view, Nothing}

-----------------------------------------------------------------------------
\* The inductive invariant: a request that was not outrun is for the view selected.
IInv ==
  /\ TypeOK /\ ShownIsSelected
  /\ \A a \in Asks : ask[a] # NoAsk /\ ~ask[a].outrun => ask[a].of = view
=============================================================================
