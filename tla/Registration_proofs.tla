------------------------ MODULE Registration_proofs ------------------------
(***************************************************************************)
(* Proofs about Registration, for every set of participants, users and     *)
(* concurrent requests.  IInv (in Registration) is inductive; the counting *)
(* arguments rest on two lemmas about what one step does to the rows and   *)
(* to the requests under way.                                              *)
(***************************************************************************)
EXTENDS Registration, FiniteSetTheorems, TLAPS

-----------------------------------------------------------------------------
(* Types.                                                                  *)

LEMMA IdleType == Idle \in Request /\ Idle.pc = "idle"
BY DEF Idle, Request, Pcs

LEMMA BeginType ==
  ASSUME TypeOK, NEW c \in Calls, NEW r \in Request, Begin(c, r), WellFormed(r)
  PROVE  TypeOK'
<1>1. call' \in [Calls -> Request] /\ \A d \in Calls : WellFormed(call'[d])
  BY DEF Begin, TypeOK
<1> QED BY <1>1 DEF Begin, TypeOK, WellFormed, Who

\* A request that passed a statement.
RequestsOK == call \in [Calls -> Request] /\ \A c \in Calls : WellFormed(call[c])

LEMMA EndType ==
  ASSUME TypeOK, NEW c \in Calls, End(c)
  PROVE  RequestsOK'
<1>1. WellFormed(Idle) BY DEF Idle, WellFormed
<1>2. call' \in [Calls -> Request] /\ \A d \in Calls : WellFormed(call'[d])
  BY <1>1, IdleType DEF End, TypeOK
<1> QED BY <1>2 DEF RequestsOK, WellFormed, Who

LEMMA GotoType ==
  ASSUME TypeOK, NEW c \in Calls, NEW pc \in {"increment", "decrement"}, Goto(c, pc)
  PROVE  RequestsOK'
<1> DEFINE r == [call[c] EXCEPT !.pc = pc]
<1>1. r \in Request BY DEF TypeOK, Request, Pcs
<1>2. WellFormed(r)
  <2>1. call[c] \in Request BY DEF TypeOK
  <2>2. r.pc = pc BY <2>1 DEF Request
  <2> QED BY <2>2 DEF WellFormed
<1>3. call' = [call EXCEPT ![c] = r] BY DEF Goto
<1> HIDE DEF r
<1>4. call' \in [Calls -> Request] /\ \A d \in Calls : WellFormed(call'[d])
  BY <1>1, <1>2, <1>3 DEF TypeOK
<1> QED BY <1>4 DEF RequestsOK, WellFormed, Who

\* Every action keeps the types.
LEMMA TypeStep == ASSUME TypeOK, [Next]_vars PROVE TypeOK'
<1>1. CASE Delete BY <1>1 DEF Delete, TypeOK, Statuses
<1>2. ASSUME NEW c \in Calls, Step(c) PROVE TypeOK'
  <2>1. ASSUME NEW e \in Entries, Create(c, e) PROVE TypeOK'
    <3>1. WellFormed(call[c]) BY DEF TypeOK
    <3>2. call[c].who \in Who BY <2>1, <3>1 DEF Create, At, WellFormed
    <3> QED BY <2>1, <3>2, GotoType DEF Create, TypeOK, RequestsOK
  <2>2. CASE CreateRejected(c) BY <2>2, EndType DEF CreateRejected, TypeOK, RequestsOK
  <2>3. CASE Increment(c) BY <2>3, EndType DEF Increment, TypeOK, RequestsOK
  <2>4. CASE DeleteRow(c) BY <2>4, GotoType DEF DeleteRow, Registered, TypeOK, RequestsOK
  <2>5. CASE DeleteRejected(c) BY <2>5, EndType DEF DeleteRejected, TypeOK, RequestsOK
  <2>6. CASE Decrement(c) BY <2>6, EndType DEF Decrement, TypeOK, RequestsOK
  <2>7. CASE Clear(c)
    <3>1. [call[c] EXCEPT !.pc = "commit", !.old = brackets] \in Request
      BY DEF TypeOK, Request, Pcs
    <3>2. WellFormed([call[c] EXCEPT !.pc = "commit", !.old = brackets])
      BY DEF TypeOK, Request, WellFormed
    <3> QED BY <2>7, <3>1, <3>2 DEF Clear, TypeOK
  <2>8. CASE CommitStart(c)
    <3>1. call[c].players \in SUBSET Entries BY DEF TypeOK, Request
    <3>2. brackets' \subseteq Brackets BY <2>8, <3>1 DEF CommitStart, TypeOK, Brackets
    <3> QED BY <2>8, <3>2, EndType DEF CommitStart, TypeOK, Statuses, RequestsOK
  <2>9. CASE SetCompleted(c) BY <2>9, EndType DEF SetCompleted, TypeOK, Statuses, RequestsOK
  <2>10. CASE SetPlaces(c)
    <3>1. WellFormed(call[c]) BY DEF TypeOK
    <3>2. call[c].places \in Places BY <2>10, <3>1 DEF SetPlaces, At, WellFormed
    <3> QED BY <2>10, <3>2, EndType DEF SetPlaces, TypeOK, RequestsOK
  <2>11. CASE NotFound(c) BY <2>11, EndType DEF NotFound, TypeOK, RequestsOK
  <2>12. CASE Abandon(c) BY <2>12, EndType DEF Abandon, TypeOK, RequestsOK
  <2> QED BY <1>2, <2>1, <2>2, <2>3, <2>4, <2>5, <2>6, <2>7, <2>8, <2>9, <2>10,
             <2>11, <2>12 DEF Step
<1>3. ASSUME NEW c \in Calls, Arrive(c) PROVE TypeOK'
  <2> USE DEF Idle, Request, Pcs, WellFormed
  <2>1. ASSUME NEW u \in Who, Register(c, u) PROVE TypeOK'
    BY <2>1, BeginType DEF Register
  <2>2. ASSUME NEW e \in Entries, Unregister(c, e) PROVE TypeOK'
    BY <2>2, BeginType DEF Unregister
  <2>3. CASE Start(c) BY <2>3, BeginType DEF Start, Registered
  <2>4. CASE Complete(c) BY <2>4, BeginType DEF Complete
  <2>5. ASSUME NEW n \in Places, Patch(c, n) PROVE TypeOK'
    BY <2>5, BeginType DEF Patch
  <2> QED BY <1>3, <2>1, <2>2, <2>3, <2>4, <2>5 DEF Arrive
<1>4. CASE UNCHANGED vars BY <1>4 DEF vars, TypeOK, WellFormed
<1> QED BY <1>1, <1>2, <1>3, <1>4 DEF Next

LEMMA TypeInit == Init => TypeOK
BY IdleType DEF Init, TypeOK, Statuses, Brackets, WellFormed

\* The types hold in every reachable state.
THEOREM RegistrationTypes == Spec => []TypeOK
<1>1. TypeOK /\ [Next]_vars => TypeOK' BY TypeStep
<1> QED BY TypeInit, <1>1, PTL DEF Spec
-----------------------------------------------------------------------------
(* Counting.                                                               *)

\* Which call a step moves, and where to.
Moves(c, pc) == /\ \A d \in Calls \ {c} : call'[d] = call[d]
                /\ call'[c].pc = pc

LEMMA Moving ==
  ASSUME TypeOK, NEW c \in Calls
  PROVE  /\ \A r : Begin(c, r) => call[c].pc = "idle" /\ Moves(c, r.pc)
         /\ \A pc : Goto(c, pc) => Moves(c, pc)
         /\ End(c) => Moves(c, "idle")
BY IdleType DEF TypeOK, Request, Begin, Goto, End, Moves

\* The number of requests at a statement changes by the one that moves.
LEMMA PendingChange ==
  ASSUME NEW c \in Calls, NEW pc, Moves(c, pc), NEW x
  PROVE  /\ Cardinality(Pending(x)) \in Nat /\ Cardinality(Pending(x)') \in Nat
         /\ call[c].pc = x /\ pc # x => Cardinality(Pending(x)') = Cardinality(Pending(x)) - 1
         /\ call[c].pc # x /\ pc = x => Cardinality(Pending(x)') = Cardinality(Pending(x)) + 1
         /\ call[c].pc = x <=> pc = x => Cardinality(Pending(x)') = Cardinality(Pending(x))
<1>1. IsFiniteSet(Pending(x)) /\ IsFiniteSet(Pending(x)')
  <2>1. Pending(x) \subseteq Calls /\ Pending(x)' \subseteq Calls BY DEF Pending
  <2> QED BY <2>1, FS_Subset, RegistrationAssumption
<1>2. Cardinality(Pending(x)) \in Nat /\ Cardinality(Pending(x)') \in Nat
  BY <1>1, FS_CardinalityType
<1>3. CASE call[c].pc = x /\ pc # x
  <2>1. Pending(x)' = Pending(x) \ {c} /\ c \in Pending(x) BY <1>3 DEF Pending, Moves
  <2> QED BY <1>1, <1>2, <1>3, <2>1, FS_RemoveElement
<1>4. CASE call[c].pc # x /\ pc = x
  <2>1. Pending(x)' = Pending(x) \cup {c} /\ c \notin Pending(x)
    BY <1>4 DEF Pending, Moves
  <2> QED BY <1>1, <1>2, <1>4, <2>1, FS_AddElement
<1>5. CASE call[c].pc = x <=> pc = x
  <2>1. Pending(x)' = Pending(x) BY <1>5 DEF Pending, Moves
  <2> QED BY <1>2, <1>5, <2>1
<1> QED BY <1>3, <1>4, <1>5, <1>2

LEMMA RowAdded ==
  ASSUME TypeOK, IsFiniteSet(Registered), NEW e \in Entries, NEW u \in Who,
         entry[e] = None, entry' = [entry EXCEPT ![e] = u]
  PROVE  /\ Registered' = Registered \cup {e} /\ e \notin Registered
         /\ IsFiniteSet(Registered')
         /\ Cardinality(Registered') = Cardinality(Registered) + 1
<1>1. Registered' = Registered \cup {e} /\ e \notin Registered
  BY RegistrationAssumption DEF Registered, TypeOK, Who
<1> QED BY <1>1, FS_AddElement

LEMMA RowRemoved ==
  ASSUME TypeOK, IsFiniteSet(Registered), NEW e \in Registered,
         entry' = [entry EXCEPT ![e] = Left]
  PROVE  /\ Registered' = Registered \ {e}
         /\ IsFiniteSet(Registered')
         /\ Cardinality(Registered') = Cardinality(Registered) - 1
<1>1. Registered' = Registered \ {e}
  BY RegistrationAssumption DEF Registered, TypeOK, Who
<1> QED BY <1>1, FS_RemoveElement

LEMMA Unmoved == entry' = entry => Registered' = Registered
BY DEF Registered, Who

\* A move between other statements, with the rows and the counter left alone.
LEMMA Balanced ==
  ASSUME NEW c \in Calls, NEW pc, Moves(c, pc),
         {call[c].pc, pc} \cap {"increment", "decrement"} = {},
         entry' = entry, count' = count
  PROVE  Ahead' = Ahead
<1>1. /\ Cardinality(Pending("increment")') = Cardinality(Pending("increment"))
      /\ Cardinality(Pending("decrement")') = Cardinality(Pending("decrement"))
  BY PendingChange
<1> QED BY <1>1, Unmoved DEF Ahead

\* The rows stay finitely many, and the counter keeps up with them.
LEMMA CountStep ==
  ASSUME TypeOK, IsFiniteSet(Registered), CountKeepsUp, [Next]_vars
  PROVE  IsFiniteSet(Registered)' /\ CountKeepsUp'
<1>0. Cardinality(Registered) \in Nat /\ count \in Int /\ faults \in Nat
  BY FS_CardinalityType DEF TypeOK
<1>1. CASE Delete
  <2>1. Registered' = {}
    BY <1>1, RegistrationAssumption DEF Delete, Registered, Who, TypeOK
  <2> QED BY <1>1, <2>1, FS_EmptySet DEF Delete, CountKeepsUp
<1>2. ASSUME NEW c \in Calls, Step(c) PROVE IsFiniteSet(Registered)' /\ CountKeepsUp'
  <2>0. ASSUME NEW x, NEW y, Moves(c, y)
        PROVE  Cardinality(Pending(x)) \in Int /\ Cardinality(Pending(x)') \in Int
    BY <2>0, PendingChange
  <2>1. ASSUME NEW e \in Entries, Create(c, e) PROVE IsFiniteSet(Registered)' /\ CountKeepsUp'
    <3>1. WellFormed(call[c]) BY DEF TypeOK
    <3>2. call[c].who \in Who BY <2>1, <3>1 DEF Create, At, WellFormed
    <3>3. IsFiniteSet(Registered') /\ Cardinality(Registered') = Cardinality(Registered) + 1
      BY <2>1, <3>2, RowAdded DEF Create
    <3>4. Moves(c, "increment") /\ call[c].pc = "create"
      BY <2>1, Moving DEF Create, At
    <3>5. /\ Cardinality(Pending("increment")') = Cardinality(Pending("increment")) + 1
          /\ Cardinality(Pending("decrement")') = Cardinality(Pending("decrement"))
      BY <3>4, PendingChange
    <3>6. Ahead' = Ahead BY <1>0, <2>0, <2>1, <3>3, <3>4, <3>5 DEF Ahead, Create
    <3> QED BY <2>1, <3>3, <3>6 DEF CountKeepsUp, Create
  <2>2. CASE DeleteRow(c)
    <3>1. IsFiniteSet(Registered') /\ Cardinality(Registered') = Cardinality(Registered) - 1
      BY <2>2, RowRemoved DEF DeleteRow
    <3>2. Moves(c, "decrement") /\ call[c].pc = "delete"
      BY <2>2, Moving DEF DeleteRow, At
    <3>3. /\ Cardinality(Pending("increment")') = Cardinality(Pending("increment"))
          /\ Cardinality(Pending("decrement")') = Cardinality(Pending("decrement")) + 1
      BY <3>2, PendingChange
    <3>4. Ahead' = Ahead BY <1>0, <2>0, <2>2, <3>1, <3>2, <3>3 DEF Ahead, DeleteRow
    <3> QED BY <2>2, <3>1, <3>4 DEF CountKeepsUp, DeleteRow
  <2>3. CASE Increment(c)
    <3>1. Moves(c, "idle") /\ call[c].pc = "increment" BY <2>3, Moving DEF Increment, At
    <3>2. /\ Cardinality(Pending("increment")') = Cardinality(Pending("increment")) - 1
          /\ Cardinality(Pending("decrement")') = Cardinality(Pending("decrement"))
      BY <3>1, PendingChange
    <3>3. Registered' = Registered BY <2>3, Unmoved DEF Increment
    <3>4. Ahead' = Ahead BY <1>0, <2>0, <2>3, <3>1, <3>2, <3>3 DEF Ahead, Increment
    <3> QED BY <2>3, <3>3, <3>4 DEF CountKeepsUp, Increment
  <2>4. CASE Decrement(c)
    <3>1. Moves(c, "idle") /\ call[c].pc = "decrement" BY <2>4, Moving DEF Decrement, At
    <3>2. /\ Cardinality(Pending("increment")') = Cardinality(Pending("increment"))
          /\ Cardinality(Pending("decrement")') = Cardinality(Pending("decrement")) - 1
      BY <3>1, PendingChange
    <3>3. Registered' = Registered BY <2>4, Unmoved DEF Decrement
    <3>4. Ahead' = Ahead BY <1>0, <2>0, <2>4, <3>1, <3>2, <3>3 DEF Ahead, Decrement
    <3> QED BY <2>4, <3>3, <3>4 DEF CountKeepsUp, Decrement
  <2>5. CASE Clear(c)
    <3>1. Moves(c, "commit") /\ call[c].pc = "clear"
      BY <2>5 DEF Clear, At, Moves, TypeOK, Request
    <3>2. Ahead' = Ahead BY <2>5, <3>1, Balanced DEF Clear
    <3> QED BY <2>5, <3>2, Unmoved DEF Clear, CountKeepsUp
  <2>6. CASE CreateRejected(c) \/ DeleteRejected(c) \/ SetPlaces(c)
             \/ CommitStart(c) \/ SetCompleted(c)
    <3>1. /\ Moves(c, "idle")
          /\ call[c].pc \in {"create", "delete", "patch", "commit", "complete"}
          /\ entry' = entry /\ count' = count /\ faults' = faults /\ status # "deleted"
      BY <2>6, Moving
      DEF CreateRejected, DeleteRejected, SetPlaces, CommitStart, SetCompleted, At
    <3>2. Ahead' = Ahead BY <3>1, Balanced
    <3> QED BY <3>1, <3>2, Unmoved DEF CountKeepsUp
  <2>7. CASE NotFound(c) BY <2>7, Unmoved DEF NotFound, CountKeepsUp
  <2>8. CASE Abandon(c)
    <3>1. Moves(c, "idle") /\ call[c].pc # "idle" BY <2>8, Moving DEF Abandon
    <3>2. /\ Cardinality(Pending("increment")') \in
               {Cardinality(Pending("increment")), Cardinality(Pending("increment")) - 1}
          /\ Cardinality(Pending("decrement")') \in
               {Cardinality(Pending("decrement")), Cardinality(Pending("decrement")) - 1}
          /\ \/ Cardinality(Pending("increment")') = Cardinality(Pending("increment"))
             \/ Cardinality(Pending("decrement")') = Cardinality(Pending("decrement"))
      BY <3>1, PendingChange
    <3>3. Registered' = Registered BY <2>8, Unmoved DEF Abandon
    <3>4. Ahead' \in {Ahead - 1, Ahead, Ahead + 1} /\ Ahead \in Int
      BY <1>0, <2>0, <2>8, <3>1, <3>2, <3>3 DEF Ahead, Abandon
    <3> QED BY <1>0, <2>8, <3>3, <3>4 DEF CountKeepsUp, Abandon
  <2> QED BY <1>2, <2>1, <2>2, <2>3, <2>4, <2>5, <2>6, <2>7, <2>8 DEF Step
<1>3. ASSUME NEW c \in Calls, Arrive(c) PROVE IsFiniteSet(Registered)' /\ CountKeepsUp'
  <2>1. PICK r : Begin(c, r) /\ r.pc \notin {"increment", "decrement"}
    <3> DEFINE P(r) == Begin(c, r) /\ r.pc \notin {"increment", "decrement"}
    <3>1. ASSUME NEW u \in Who, Register(c, u) PROVE \E r : P(r)
      <4>1. P([Idle EXCEPT !.pc = "create", !.who = u]) BY <3>1 DEF Register, Idle
      <4> QED BY <4>1
    <3>2. ASSUME NEW e \in Entries, Unregister(c, e) PROVE \E r : P(r)
      <4>1. P([Idle EXCEPT !.pc = "delete", !.e = e]) BY <3>2 DEF Unregister, Idle
      <4> QED BY <4>1
    <3>3. CASE Start(c)
      <4>1. P([Idle EXCEPT !.pc = "clear", !.players = Registered]) BY <3>3 DEF Start, Idle
      <4> QED BY <4>1
    <3>4. CASE Complete(c)
      <4>1. P([Idle EXCEPT !.pc = "complete"]) BY <3>4 DEF Complete, Idle
      <4> QED BY <4>1
    <3>5. ASSUME NEW n \in Places, Patch(c, n) PROVE \E r : P(r)
      <4>1. P([Idle EXCEPT !.pc = "patch", !.places = n]) BY <3>5 DEF Patch, Idle
      <4> QED BY <4>1
    <3> QED BY <1>3, <3>1, <3>2, <3>3, <3>4, <3>5 DEF Arrive
  <2>2. Moves(c, r.pc) /\ call[c].pc = "idle" BY <2>1, Moving
  <2>3. Ahead' = Ahead BY <2>1, <2>2, Balanced DEF Begin
  <2> QED BY <2>1, <2>3, Unmoved DEF Begin, CountKeepsUp
<1>4. CASE UNCHANGED vars
  <2>1. Registered' = Registered BY <1>4, Unmoved DEF vars
  <2>2. \A x : Pending(x)' = Pending(x) BY <1>4 DEF vars, Pending
  <2> QED BY <1>4, <2>1, <2>2 DEF vars, CountKeepsUp, Ahead
<1> QED BY <1>1, <1>2, <1>3, <1>4 DEF Next

-----------------------------------------------------------------------------
(* The invariant.                                                          *)

LEMMA RunningStep ==
  ASSUME RunningHasBracket, [Next]_vars PROVE RunningHasBracket'
BY DEF RunningHasBracket, Next, vars, Delete, Step, Arrive, Create, CreateRejected,
       Increment, DeleteRow, DeleteRejected, Decrement, Clear, CommitStart, SetCompleted,
       SetPlaces, NotFound, Abandon, Register, Unregister, Start, Complete, Patch, Begin

\* What one request at a time leaves behind: the others are idle before and after.
LEMMA SerialAfter ==
  ASSUME NEW c \in Calls, NEW pc, Moves(c, pc),
         \A d \in Calls \ {c} : call[d].pc = "idle",
         pc \in Enrolling => status' \in {"REGISTRATION", "deleted"},
         pc = "create" /\ status' # "deleted" => Cardinality(Registered') < places',
         pc \in {"clear", "commit"} /\ status' # "deleted" => call'[c].players = Registered',
         status' \in {"REGISTRATION", "deleted"} => brackets' = {}
  PROVE  SerialInv'
<1>1. \A d \in Calls : d # c => call'[d].pc = "idle" BY DEF Moves
<1>2. call'[c].pc = pc BY DEF Moves
<1> QED BY <1>1, <1>2 DEF SerialInv, Enrolling

\* No bracket, or the same bracket and the same participants.
LEMMA NoBracket == brackets' = {} => BracketOfTheRegistered'
BY FS_EmptySet DEF BracketOfTheRegistered

LEMMA SameBracket ==
  ASSUME alone, BracketOfTheRegistered, brackets' = brackets, entry' = entry
  PROVE  BracketOfTheRegistered'
BY Unmoved DEF BracketOfTheRegistered

LEMMA SerialStep ==
  ASSUME IInv, [Next]_vars, alone'
  PROVE  SerialInv' /\ BracketOfTheRegistered'
<1>0. TypeOK /\ IsFiniteSet(Registered) BY DEF IInv
<1>1. CASE Delete
  <2>1. alone /\ call' = call /\ status' = "deleted" /\ brackets' = {} BY <1>1 DEF Delete
  <2>2. SerialInv BY DEF IInv
  <2>3. SerialInv' BY <2>1, <2>2 DEF SerialInv
  <2> QED BY <2>1, <2>3, NoBracket
<1>2. ASSUME NEW c \in Calls, Step(c) PROVE SerialInv' /\ BracketOfTheRegistered'
  <2>1. alone /\ call[c].pc # "idle"
    BY <1>2 DEF Step, Create, CreateRejected, Increment, DeleteRow, DeleteRejected, Decrement,
                Clear, CommitStart, SetCompleted, SetPlaces, NotFound, Abandon, At
  <2>2. /\ \A d \in Calls \ {c} : call[d].pc = "idle"
        /\ call[c].pc \in Enrolling => status \in {"REGISTRATION", "deleted"}
        /\ call[c].pc = "create" /\ status # "deleted" => Cardinality(Registered) < places
        /\ call[c].pc \in {"clear", "commit"} /\ status # "deleted"
             => call[c].players = Registered
        /\ status \in {"REGISTRATION", "deleted"} => brackets = {}
        /\ BracketOfTheRegistered
    BY <2>1 DEF IInv, SerialInv
  <2>3. ASSUME NEW e \in Entries, Create(c, e) PROVE SerialInv' /\ BracketOfTheRegistered'
    <3>1. Moves(c, "increment") /\ call[c].pc = "create" BY <1>0, <2>3, Moving DEF Create, At
    <3>2. status' \in {"REGISTRATION", "deleted"} /\ brackets' = {}
      BY <2>2, <2>3, <3>1 DEF Create, Enrolling
    <3> QED BY <2>2, <3>1, <3>2, SerialAfter, NoBracket
  <2>4. CASE DeleteRow(c)
    <3>1. Moves(c, "decrement") /\ call[c].pc = "delete" BY <1>0, <2>4, Moving DEF DeleteRow, At
    <3>2. status' \in {"REGISTRATION", "deleted"} /\ brackets' = {}
      BY <2>2, <2>4, <3>1 DEF DeleteRow, Enrolling
    <3> QED BY <2>2, <3>1, <3>2, SerialAfter, NoBracket
  <2>5. CASE Clear(c)
    <3>1. Moves(c, "commit") /\ call[c].pc = "clear" /\ call'[c].players = call[c].players
      BY <1>0, <2>5 DEF Clear, At, Moves, TypeOK, Request
    <3>2. status' \in {"REGISTRATION", "deleted"} /\ brackets' = {}
      BY <2>2, <2>5, <3>1 DEF Clear, Enrolling
    <3>3. status' # "deleted" => call'[c].players = Registered'
      BY <2>2, <2>5, <3>1, Unmoved DEF Clear
    <3> QED BY <2>2, <3>1, <3>2, <3>3, SerialAfter, NoBracket
  <2>6. CASE CommitStart(c)
    <3>1. /\ Moves(c, "idle") /\ call[c].pc = "commit" /\ status' = "ACTIVE"
          /\ status # "deleted"
      BY <1>0, <2>6, Moving DEF CommitStart, At
    <3>2. SerialInv' BY <2>2, <3>1, SerialAfter DEF Enrolling
    <3>3. brackets' = {<<starts, Registered>>}
      BY <2>2, <2>6, <3>1 DEF CommitStart, Enrolling
    <3>4. Registered' = Registered BY <2>6, Unmoved DEF CommitStart
    <3>5. Cardinality(brackets') = 1 BY <3>3, FS_Singleton
    <3> QED BY <3>2, <3>3, <3>4, <3>5 DEF BracketOfTheRegistered
  <2>7. CASE SetCompleted(c)
    <3>1. Moves(c, "idle") /\ status' = "COMPLETED" BY <1>0, <2>7, Moving DEF SetCompleted
    <3>2. SerialInv' BY <2>2, <3>1, SerialAfter DEF Enrolling
    <3> QED BY <2>1, <2>2, <2>7, <3>2, SameBracket DEF SetCompleted
  <2>8. CASE CreateRejected(c) \/ Increment(c) \/ DeleteRejected(c) \/ Decrement(c)
             \/ SetPlaces(c) \/ NotFound(c) \/ Abandon(c)
    <3>1. /\ Moves(c, "idle") /\ status' = status
          /\ brackets' = brackets /\ entry' = entry
      BY <1>0, <2>8, Moving DEF CreateRejected, Increment, DeleteRejected, Decrement,
                                SetPlaces, NotFound, Abandon
    <3>2. SerialInv' BY <2>2, <3>1, SerialAfter DEF Enrolling
    <3> QED BY <2>1, <2>2, <3>1, <3>2, SameBracket
  <2> QED BY <1>2, <2>3, <2>4, <2>5, <2>6, <2>7, <2>8 DEF Step
<1>3. ASSUME NEW c \in Calls, Arrive(c) PROVE SerialInv' /\ BracketOfTheRegistered'
  <2>1. ASSUME NEW r \in Request, Begin(c, r),
               r.pc \in Enrolling => status = "REGISTRATION",
               r.pc = "create" => Cardinality(Registered) < places,
               r.pc \in {"clear", "commit"} => r.players = Registered
        PROVE  SerialInv' /\ BracketOfTheRegistered'
    <3>1. /\ alone /\ Moves(c, r.pc)
          /\ \A d \in Calls \ {c} : call[d].pc = "idle"
      BY <1>0, <2>1, Moving DEF Begin
    <3>2. call'[c] = r BY <1>0, <2>1 DEF Begin, TypeOK
    <3>3. Registered' = Registered /\ places' = places /\ status' = status
          /\ brackets' = brackets /\ entry' = entry
      BY <2>1, Unmoved DEF Begin
    <3>4. /\ status \in {"REGISTRATION", "deleted"} => brackets = {}
          /\ BracketOfTheRegistered
      BY <3>1 DEF IInv, SerialInv
    <3>5. SerialInv' BY <2>1, <3>1, <3>2, <3>3, <3>4, SerialAfter
    <3> QED BY <3>1, <3>3, <3>4, <3>5, SameBracket
  <2> USE DEF Idle, Request, Pcs, Enrolling
  <2>2. ASSUME NEW u \in Who, Register(c, u) PROVE SerialInv' /\ BracketOfTheRegistered'
    BY <2>1, <2>2 DEF Register
  <2>3. ASSUME NEW e \in Entries, Unregister(c, e) PROVE SerialInv' /\ BracketOfTheRegistered'
    BY <2>1, <2>3 DEF Unregister
  <2>4. CASE Start(c) BY <2>1, <2>4 DEF Start, Registered
  <2>5. CASE Complete(c) BY <2>1, <2>5 DEF Complete
  <2>6. ASSUME NEW n \in Places, Patch(c, n) PROVE SerialInv' /\ BracketOfTheRegistered'
    BY <2>1, <2>6 DEF Patch
  <2> QED BY <1>3, <2>2, <2>3, <2>4, <2>5, <2>6 DEF Arrive
<1>4. CASE UNCHANGED vars
  <2>1. Registered' = Registered BY <1>4, Unmoved DEF vars
  <2> QED BY <1>4, <2>1 DEF vars, IInv, SerialInv, BracketOfTheRegistered
<1> QED BY <1>1, <1>2, <1>3, <1>4 DEF Next

\* IInv is inductive.
LEMMA IInvInit == Init => IInv
<1> SUFFICES ASSUME Init PROVE IInv OBVIOUS
<1>1. TypeOK BY TypeInit
<1>2. Registered = {}
  BY RegistrationAssumption DEF Init, Registered, Who
<1>3. Pending("increment") = {} /\ Pending("decrement") = {}
  BY IdleType DEF Init, Pending
<1>4. CountKeepsUp BY <1>2, <1>3, FS_EmptySet DEF Init, CountKeepsUp, Ahead
<1>5. SerialInv BY IdleType DEF Init, SerialInv, Enrolling
<1> QED BY <1>1, <1>2, <1>4, <1>5, FS_EmptySet
        DEF IInv, Init, RunningHasBracket, BracketOfTheRegistered

LEMMA IInvStep == IInv /\ [Next]_vars => IInv'
<1> SUFFICES ASSUME IInv, [Next]_vars PROVE IInv' OBVIOUS
<1>1. TypeOK' BY TypeStep DEF IInv
<1>2. IsFiniteSet(Registered)' /\ CountKeepsUp' BY CountStep DEF IInv
<1>3. RunningHasBracket' BY RunningStep DEF IInv
<1>4. SerialInv' /\ BracketOfTheRegistered'
  <2>1. CASE alone' BY <2>1, SerialStep
  <2>2. CASE ~alone' BY <2>2 DEF SerialInv, BracketOfTheRegistered
  <2> QED BY <2>1, <2>2
<1> QED BY <1>1, <1>2, <1>3, <1>4 DEF IInv

THEOREM RegistrationInvariance == Spec => []IInv
BY IInvInit, IInvStep, PTL DEF Spec

-----------------------------------------------------------------------------
(* The properties.                                                         *)

\* participantCount keeps up with the rows, whatever crosses or fails.
THEOREM CountSafe == Spec => []CountKeepsUp
<1>1. IInv => CountKeepsUp BY DEF IInv
<1> QED BY <1>1, RegistrationInvariance, PTL

\* A tournament that runs has a bracket.
THEOREM RunningSafe == Spec => []RunningHasBracket
<1>1. IInv => RunningHasBracket BY DEF IInv
<1> QED BY <1>1, RegistrationInvariance, PTL

\* One bracket of the registered participants while requests take turns.
THEOREM BracketSafe == Spec => []BracketOfTheRegistered
<1>1. IInv => BracketOfTheRegistered BY DEF IInv
<1> QED BY <1>1, RegistrationInvariance, PTL

\* The draw and the field agree: both of the above (routes.ts 440-470).
THEOREM FieldSafe == Spec => []FieldIsDrawn
<1>1. IInv => FieldIsDrawn BY DEF IInv, FieldIsDrawn
<1> QED BY <1>1, RegistrationInvariance, PTL

\* What a request that found the tournament open may write is written while it is
\* open, as long as requests take turns.
LEMMA EnrollingStep ==
  ASSUME IInv, alone', NEW c \in Calls, Step(c)
  PROVE  call[c].pc \in Enrolling => status \in {"REGISTRATION", "deleted"}
<1>1. alone
  BY DEF Step, Create, CreateRejected, Increment, DeleteRow, DeleteRejected, Decrement,
         Clear, CommitStart, SetCompleted, SetPlaces, NotFound, Abandon
<1> QED BY <1>1 DEF IInv, SerialInv

\* A started tournament changes nothing but its end while requests take turns.
THEOREM Frozen == Spec => StartedIsFrozen
<1> DEFINE Fixed == /\ status' = status \/ status' \in {"COMPLETED", "deleted"}
                    /\ places' = places
                    /\ status' # "deleted" => entry' = entry /\ brackets' = brackets
<1>1. ASSUME IInv, [Next]_vars, alone', status \in {"ACTIVE", "COMPLETED"}
      PROVE  Fixed
  <2>1. CASE Delete BY <2>1 DEF Delete
  <2>2. ASSUME NEW c \in Calls, Step(c) PROVE Fixed
    <3>1. call[c].pc \notin Enrolling BY <1>1, <2>2, EnrollingStep
    <3> QED BY <2>2, <3>1
            DEF Enrolling, Step, Create, CreateRejected, Increment, DeleteRow, DeleteRejected,
                Decrement, Clear, CommitStart, SetCompleted, SetPlaces, NotFound, Abandon, At
  <2>3. ASSUME NEW c \in Calls, Arrive(c) PROVE Fixed
    BY <2>3 DEF Arrive, Register, Unregister, Start, Complete, Patch, Begin
  <2>4. CASE UNCHANGED vars BY <2>4 DEF vars
  <2> QED BY <1>1, <2>1, <2>2, <2>3, <2>4 DEF Next
<1>2. IInv /\ [Next]_vars => [alone' /\ status \in {"ACTIVE", "COMPLETED"} => Fixed]_vars
  BY <1>1
<1> QED BY <1>2, RegistrationInvariance, PTL DEF Spec, StartedIsFrozen

\* Whoever registers finds a place while requests take turns.
THEOREM NotOverbooked == Spec => NobodyIsOverbooked
<1> DEFINE Fits == Registered' \ Registered # {} => Cardinality(Registered') <= places
<1>1. ASSUME IInv, [Next]_vars, alone' PROVE Fits
  <2>0. TypeOK /\ IsFiniteSet(Registered) BY <1>1 DEF IInv
  <2>1. CASE Delete BY <2>1 DEF Delete, Registered, Who
  <2>2. ASSUME NEW c \in Calls, Step(c) PROVE Fits
    <3>1. ASSUME NEW e \in Entries, Create(c, e) PROVE Fits
      <4>1. WellFormed(call[c]) BY <2>0 DEF TypeOK
      <4>2. call[c].who \in Who BY <3>1, <4>1 DEF Create, At, WellFormed
      <4>3. Cardinality(Registered') = Cardinality(Registered) + 1
        BY <2>0, <3>1, <4>2, RowAdded DEF Create
      <4>4. Cardinality(Registered) < places
        BY <1>1, <3>1 DEF IInv, SerialInv, Create, At
      <4>5. Cardinality(Registered) \in Nat /\ places \in Nat
        BY <2>0, FS_CardinalityType, RegistrationAssumption DEF TypeOK
      <4> QED BY <4>3, <4>4, <4>5
    <3>2. CASE DeleteRow(c)
      <4>1. Registered' = Registered \ {call[c].e} BY <2>0, <3>2, RowRemoved DEF DeleteRow
      <4> QED BY <4>1
    <3>3. CASE ~DeleteRow(c) /\ ~\E e \in Entries : Create(c, e)
      <4>1. entry' = entry
        BY <2>2, <3>3 DEF Step, CreateRejected, Increment, DeleteRejected, Decrement, Clear,
                          CommitStart, SetCompleted, SetPlaces, NotFound, Abandon
      <4> QED BY <4>1, Unmoved
    <3> QED BY <3>1, <3>2, <3>3
  <2>3. ASSUME NEW c \in Calls, Arrive(c) PROVE Fits
    <3>1. entry' = entry
      BY <2>3 DEF Arrive, Register, Unregister, Start, Complete, Patch, Begin
    <3> QED BY <3>1, Unmoved
  <2>4. CASE UNCHANGED vars BY <2>4, Unmoved DEF vars
  <2> QED BY <1>1, <2>1, <2>2, <2>3, <2>4 DEF Next
<1>2. IInv /\ [Next]_vars => [alone' => Fits]_vars BY <1>1
<1> QED BY <1>2, RegistrationInvariance, PTL DEF Spec, NobodyIsOverbooked
=============================================================================
