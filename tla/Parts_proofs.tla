---------------------------- MODULE Parts_proofs ----------------------------
(***************************************************************************)
(* Proofs about the parts of Parts that have an inductive invariant of     *)
(* their own, IInv of the part's module: the switch of automation, the     *)
(* alerts, the dashboard's socket, the club's report, the public key of a  *)
(* process, link codes, the lookup by phone, the club's books and the      *)
(* activity log.  They hold for every set of requests, sockets, views,     *)
(* keys, users, chats, codes and sessions, and whatever moment ends the    *)
(* model.  The books and the log are counted by folds: sums over sets come *)
(* first, by the induction of ScoreBoard_proofs, which speaks here of the  *)
(* variables of Parts; the pages, the stores, the hub and the reminders    *)
(* are those of Pages_proofs.                                              *)
(*                                                                         *)
(* A part keeps its variables in the slots v1, v2, ... (the INSTANCE in    *)
(* Parts says which is which); a proof names those it speaks of.           *)
(***************************************************************************)
EXTENDS Pages_proofs, FiniteSetsExt

-----------------------------------------------------------------------------
(* ScoreBoard_proofs, of the variables of Parts.  Its induction serves here, *)
(* its theorems serve the score board below.                               *)

BoardProof == INSTANCE ScoreBoard_proofs WITH
  board <- v1, table <- v2, notified <- v3, told <- v4, saved <- v5, call <- v6,
  scores <- v7, faults <- v8, past <- v9

LEMMA SubsetInduction ==
  ASSUME NEW S, IsFiniteSet(S), NEW P,
         \A T \in SUBSET S : (\A U \in SUBSET T : U # T => U \in P) => T \in P
  PROVE  SUBSET S \subseteq P
<1>1. BoardProof!IsFiniteSet(S) BY Zenon DEF IsFiniteSet, BoardProof!IsFiniteSet
<1> QED BY <1>1, BoardProof!SubsetInduction

LEMMA Greatest ==
  ASSUME NEW S, IsFiniteSet(S), S \subseteq Nat, S # {}
  PROVE  \E x \in S : \A y \in S : y <= x
<1> DEFINE P == {T \in SUBSET S : T # {} => \E x \in T : \A y \in T : y <= x}
<1>1. ASSUME NEW T \in SUBSET S, \A U \in SUBSET T : U # T => U \in P PROVE T \in P
  <2>1. ASSUME NEW z \in T PROVE \E x \in T : \A y \in T : y <= x
    <3>1. T \ {z} \in P BY <1>1, <2>1
    <3>2. CASE T \ {z} = {} BY <2>1, <3>2
    <3>3. CASE T \ {z} # {}
      <4>1. PICK x \in T \ {z} : \A y \in T \ {z} : y <= x BY <3>1, <3>3
      <4>2. x \in Nat /\ z \in Nat /\ \A y \in T : y \in Nat OBVIOUS
      <4>3. CASE z <= x BY <4>1, <4>2, <4>3
      <4>4. CASE ~(z <= x)
        <5>1. \A y \in T : y <= z BY <4>1, <4>2, <4>4
        <5> QED BY <5>1
      <4> QED BY <4>3, <4>4
    <3> QED BY <3>2, <3>3
  <2> QED BY <2>1
<1> HIDE DEF P
<1>2. S \in P BY <1>1, SubsetInduction
<1> QED BY <1>2 DEF P

-----------------------------------------------------------------------------
(* Sums over finite sets, as the community modules compute them.           *)

Pick(s) == CHOOSE x \in s : TRUE
Total(w, S) == MapThenSumSet(LAMBDA x : w[x], S)

\* g adds up the weights w over the subsets of S, one pick after the other.
AddsUp(g, w, S) ==
  \A s \in SUBSET S : g[s] = IF s = {} THEN 0 ELSE w[Pick(s)] + g[s \ {Pick(s)}]

LEMMA OneSum ==
  ASSUME NEW S, IsFiniteSet(S), NEW w, NEW g, NEW h, AddsUp(g, w, S), AddsUp(h, w, S)
  PROVE  g[S] = h[S]
<1> DEFINE P == {s \in SUBSET S : g[s] = h[s]}
<1>1. ASSUME NEW T \in SUBSET S, \A U \in SUBSET T : U # T => U \in P PROVE T \in P
  <2>1. CASE T = {} BY <2>1 DEF AddsUp
  <2>2. CASE T # {}
    <3>1. Pick(T) \in T BY <2>2 DEF Pick
    <3>2. T \ {Pick(T)} \in P BY <1>1, <3>1
    <3> QED BY <2>2, <3>2 DEF AddsUp
  <2> QED BY <2>1, <2>2
<1> HIDE DEF P
<1>2. SUBSET S \subseteq P BY <1>1, SubsetInduction
<1> QED BY <1>2 DEF P

LEMMA SumExists ==
  ASSUME NEW D, NEW w \in [D -> Int], NEW S \in SUBSET D, IsFiniteSet(S)
  PROVE  \E g \in [SUBSET S -> Int] : AddsUp(g, w, S)
<1> DEFINE P == {T \in SUBSET S : \E g \in [SUBSET T -> Int] : AddsUp(g, w, T)}
<1>1. ASSUME NEW T \in SUBSET S, \A U \in SUBSET T : U # T => U \in P PROVE T \in P
  <2>1. CASE T = {}
    <3> DEFINE g == [s \in SUBSET T |-> 0]
    <3>1. g \in [SUBSET T -> Int] /\ AddsUp(g, w, T) BY <2>1 DEF AddsUp
    <3> QED BY <3>1
  <2>2. CASE T # {}
    <3> DEFINE x == Pick(T)
               Q(U) == CHOOSE g \in [SUBSET U -> Int] : AddsUp(g, w, U)
               g == [s \in SUBSET T |-> IF s = T THEN w[x] + Q(T \ {x})[T \ {x}] ELSE Q(s)[s]]
    <3>1. x \in T /\ w[x] \in Int BY <2>2 DEF Pick
    <3>2. ASSUME NEW U \in SUBSET T, U # T
          PROVE  Q(U) \in [SUBSET U -> Int] /\ AddsUp(Q(U), w, U)
      BY <1>1, <3>2
    <3>3. ASSUME NEW U \in SUBSET T, U # T, NEW W \in SUBSET U PROVE Q(W)[W] = Q(U)[W]
      <4>1. W # T /\ IsFiniteSet(W) BY <3>3, FS_Subset
      <4> HIDE DEF Q
      <4>2. AddsUp(Q(U), w, W) /\ AddsUp(Q(W), w, W) BY <3>2, <3>3, <4>1 DEF AddsUp
      <4> QED BY <4>1, <4>2, OneSum
    <3>4. \A U \in SUBSET T : U # T => Q(U)[U] \in Int BY <3>2
    <3> HIDE DEF Q
    <3>5. g \in [SUBSET T -> Int] BY <3>1, <3>4
    <3>6. ASSUME NEW s \in SUBSET T
          PROVE  g[s] = IF s = {} THEN 0 ELSE w[Pick(s)] + g[s \ {Pick(s)}]
      <4>1. CASE s = T BY <2>2, <3>1, <4>1
      <4>2. CASE s # T
        <5>1. g[s] = Q(s)[s] BY <4>2
        <5>2. CASE s = {} BY <3>2, <4>2, <5>1, <5>2 DEF AddsUp
        <5>3. CASE s # {}
          <6>1. Pick(s) \in s BY <5>3 DEF Pick
          <6>2. Q(s)[s] = w[Pick(s)] + Q(s)[s \ {Pick(s)}] BY <3>2, <4>2, <5>3 DEF AddsUp
          <6>3. g[s \ {Pick(s)}] = Q(s)[s \ {Pick(s)}] BY <3>3, <4>2, <6>1
          <6> QED BY <5>1, <5>3, <6>2, <6>3
        <5> QED BY <5>2, <5>3
      <4> QED BY <4>1, <4>2
    <3> QED BY <3>5, <3>6 DEF AddsUp
  <2> QED BY <2>1, <2>2
<1> HIDE DEF P
<1>2. SUBSET S \subseteq P BY <1>1, SubsetInduction
<1> QED BY <1>2 DEF P

\* What the fold unfolds to.
LEMMA FoldIsSum ==
  ASSUME NEW D, NEW w \in [D -> Int], NEW S \in SUBSET D, IsFiniteSet(S), NEW g,
         g = CHOOSE f : f = [s \in SUBSET S |-> IF s = {} THEN 0
                                                ELSE w[Pick(s)] + f[s \ {Pick(s)}]]
  PROVE  AddsUp(g, w, S)
<1>1. PICK h \in [SUBSET S -> Int] : AddsUp(h, w, S) BY SumExists
<1>2. h = [s \in SUBSET S |-> IF s = {} THEN 0 ELSE w[Pick(s)] + h[s \ {Pick(s)}]]
  BY <1>1 DEF AddsUp
<1>3. g = [s \in SUBSET S |-> IF s = {} THEN 0 ELSE w[Pick(s)] + g[s \ {Pick(s)}]] BY <1>2
<1> QED BY <1>3 DEF AddsUp

LEMMA TotalIsSum ==
  ASSUME NEW D, NEW w \in [D -> Int], NEW S \in SUBSET D, IsFiniteSet(S), NEW g,
         AddsUp(g, w, S)
  PROVE  Total(w, S) = g[S]
<1> DEFINE F(f) == [s \in SUBSET S |-> IF s = {} THEN 0 ELSE w[Pick(s)] + f[s \ {Pick(s)}]]
           it == CHOOSE f : f = F(f)
<1>1. AddsUp(it, w, S)
  BY FoldIsSum
<1>2. Total(w, S) = it[S] BY DEF Total, MapThenSumSet, MapThenFoldSet, Pick
<1> HIDE DEF it
<1> QED BY <1>1, <1>2, OneSum

LEMMA TotalSteps ==
  ASSUME NEW D, NEW w \in [D -> Int], NEW S \in SUBSET D, IsFiniteSet(S)
  PROVE  /\ Total(w, S) \in Int
         /\ Total(w, {}) = 0
         /\ S # {} => Total(w, S) = w[Pick(S)] + Total(w, S \ {Pick(S)})
<1>1. PICK g \in [SUBSET S -> Int] : AddsUp(g, w, S) BY SumExists
<1>2. ASSUME NEW T \in SUBSET S PROVE Total(w, T) = g[T]
  <2>1. IsFiniteSet(T) /\ T \in SUBSET D /\ AddsUp(g, w, T)
    BY <1>1, FS_Subset DEF AddsUp
  <2> QED BY <2>1, TotalIsSum
<1>3. S # {} => Pick(S) \in S BY DEF Pick
<1> QED BY <1>1, <1>2, <1>3 DEF AddsUp

\* Any element may be taken out first.
LEMMA TakeOne ==
  ASSUME NEW D, NEW w \in [D -> Int], NEW S \in SUBSET D, IsFiniteSet(S), NEW x \in S
  PROVE  Total(w, S) = w[x] + Total(w, S \ {x})
<1> DEFINE P == {s \in SUBSET S : \A y \in s : Total(w, s) = w[y] + Total(w, s \ {y})}
<1>1. ASSUME NEW T \in SUBSET S, \A U \in SUBSET T : U # T => U \in P PROVE T \in P
  <2> SUFFICES ASSUME NEW y \in T PROVE Total(w, T) = w[y] + Total(w, T \ {y}) OBVIOUS
  <2> DEFINE p == Pick(T)
  <2>0. IsFiniteSet(T) /\ p \in T BY FS_Subset DEF Pick
  <2>1. Total(w, T) = w[p] + Total(w, T \ {p}) BY <2>0, TotalSteps
  <2>2. CASE y = p BY <2>1, <2>2
  <2>3. CASE y # p
    <3>1. Total(w, T \ {p}) = w[y] + Total(w, (T \ {p}) \ {y}) BY <1>1, <2>0, <2>3
    <3>2. Total(w, T \ {y}) = w[p] + Total(w, (T \ {y}) \ {p}) BY <1>1, <2>0, <2>3
    <3>3. (T \ {p}) \ {y} = (T \ {y}) \ {p} /\ IsFiniteSet((T \ {p}) \ {y}) BY <2>0, FS_Subset
    <3>4. Total(w, (T \ {p}) \ {y}) \in Int BY <3>3, TotalSteps
    <3>5. w[p] \in Int /\ w[y] \in Int BY <2>0
    <3>6. \A a, b, c \in Int : a + (b + c) = b + (a + c) OBVIOUS
    <3>7. Total(w, T) = w[p] + (w[y] + Total(w, (T \ {p}) \ {y})) BY <2>1, <3>1
    <3>8. Total(w, T \ {y}) = w[p] + Total(w, (T \ {p}) \ {y}) BY <3>2, <3>3
    <3> QED BY <3>4, <3>5, <3>6, <3>7, <3>8
  <2> QED BY <2>2, <2>3
<1> HIDE DEF P
<1>2. SUBSET S \subseteq P BY <1>1, SubsetInduction
<1> QED BY <1>2 DEF P

\* A subset of the naturals' sums is no more; equal weights, equal sums.
LEMMA TotalMonotone ==
  ASSUME NEW D, NEW w \in [D -> Nat], NEW S \in SUBSET D, IsFiniteSet(S),
         NEW E, NEW v \in [E -> Nat], NEW T \in SUBSET E, IsFiniteSet(T),
         S \subseteq T, \A x \in S : w[x] <= v[x]
  PROVE  Total(w, S) \in Nat /\ Total(v, T) \in Nat /\ Total(w, S) <= Total(v, T)
<1> DEFINE P == {s \in SUBSET T : /\ Total(w, S \cap s) \in Nat /\ Total(v, s) \in Nat
                                  /\ Total(w, S \cap s) <= Total(v, s)}
<1>0. w \in [D -> Int] /\ v \in [E -> Int] OBVIOUS
<1>1. ASSUME NEW U \in SUBSET T, \A W \in SUBSET U : W # U => W \in P PROVE U \in P
  <2>0. IsFiniteSet(U) /\ IsFiniteSet(S \cap U) BY FS_Subset
  <2>1. CASE U = {}
    <3>1. S \cap U = {} BY <2>1
    <3>2. Total(w, {}) = 0 /\ Total(v, {}) = 0 BY <1>0, TotalSteps
    <3> QED BY <2>1, <3>1, <3>2
  <2>2. CASE U # {}
    <3>1. PICK x \in U : TRUE BY <2>2
    <3>2. U \ {x} \in P BY <1>1
    <3>3. Total(v, U) = v[x] + Total(v, U \ {x}) BY <1>0, <2>0, TakeOne
    <3>4. S \cap (U \ {x}) = (S \cap U) \ {x} OBVIOUS
    <3>5. x \in S => Total(w, S \cap U) = w[x] + Total(w, S \cap (U \ {x}))
      BY <1>0, <2>0, <3>4, TakeOne
    <3>6. x \notin S => S \cap U = S \cap (U \ {x}) OBVIOUS
    <3>7. v[x] \in Nat /\ (x \in S => w[x] \in Nat /\ w[x] <= v[x]) OBVIOUS
    <3> QED BY <3>2, <3>3, <3>5, <3>6, <3>7
  <2> QED BY <2>1, <2>2
<1> HIDE DEF P
<1>2. SUBSET T \subseteq P BY <1>1, SubsetInduction
<1>3. S \cap T = S OBVIOUS
<1> QED BY <1>2, <1>3 DEF P

LEMMA TotalsEqual ==
  ASSUME NEW D, NEW w \in [D -> Nat], NEW S \in SUBSET D, IsFiniteSet(S),
         NEW E, NEW v \in [E -> Nat], S \subseteq E, \A x \in S : w[x] = v[x]
  PROVE  Total(w, S) = Total(v, S)
<1>1. Total(w, S) <= Total(v, S) /\ Total(w, S) \in Nat /\ Total(v, S) \in Nat
  BY TotalMonotone
<1>2. Total(v, S) <= Total(w, S) BY TotalMonotone
<1> QED BY <1>1, <1>2

LEMMA TotalOfNothing ==
  ASSUME NEW D, NEW w \in [D -> Nat], NEW S \in SUBSET D, IsFiniteSet(S), \A x \in S : w[x] = 0
  PROVE  Total(w, S) = 0
<1> DEFINE P == {T \in SUBSET S : Total(w, T) = 0}
<1>0. w \in [D -> Int] OBVIOUS
<1>1. ASSUME NEW T \in SUBSET S, \A U \in SUBSET T : U # T => U \in P PROVE T \in P
  <2>0. IsFiniteSet(T) BY FS_Subset
  <2>1. CASE T = {} BY <1>0, <2>0, <2>1, TotalSteps
  <2>2. CASE T # {}
    <3>1. PICK x \in T : TRUE BY <2>2
    <3>2. Total(w, T) = 0 + Total(w, T \ {x}) BY <1>0, <2>0, TakeOne
    <3> QED BY <1>1, <3>2
  <2> QED BY <2>1, <2>2
<1> HIDE DEF P
<1>2. S \in P BY <1>1, SubsetInduction
<1> QED BY <1>2 DEF P

\* A sum is the sum of the sums of its parts.
LEMMA TotalOfParts ==
  ASSUME NEW D, NEW w \in [D -> Nat], NEW S \in SUBSET D, IsFiniteSet(S),
         NEW R, IsFiniteSet(R), NEW k \in [S -> R],
         NEW p \in [R -> SUBSET S], \A r \in R, s \in S : s \in p[r] <=> k[s] = r,
         NEW v \in [R -> Nat], \A r \in R : v[r] = Total(w, p[r])
  PROVE  Total(v, R) = Total(w, S)
<1> DEFINE Part(T, r) == {s \in T : k[s] = r}
           Sums(T) == [r \in R |-> Total(w, Part(T, r))]
           P == {T \in SUBSET S : Sums(T) \in [R -> Nat] /\ Total(Sums(T), R) = Total(w, T)}
<1>0. w \in [D -> Int] /\ \A T \in SUBSET S : IsFiniteSet(T) /\ Sums(T) \in [R -> Nat]
  <2>1. ASSUME NEW T \in SUBSET S, NEW r \in R PROVE Total(w, Part(T, r)) \in Nat
    <3>1. IsFiniteSet(Part(T, r)) /\ Part(T, r) \in SUBSET D BY FS_Subset
    <3> HIDE DEF Part
    <3> QED BY <3>1, TotalMonotone
  <2> HIDE DEF Part
  <2> QED BY <2>1, FS_Subset
<1>1. ASSUME NEW T \in SUBSET S, \A U \in SUBSET T : U # T => U \in P PROVE T \in P
  <2>1. CASE T = {}
    <3>1. \A r \in R : Sums(T)[r] = 0
      <4>1. \A r \in R : Part(T, r) = {} BY <2>1
      <4>2. Total(w, {}) = 0 BY <1>0, TotalSteps
      <4> HIDE DEF Part
      <4> QED BY <4>1, <4>2
    <3> HIDE DEF Sums
    <3>2. Total(Sums(T), R) = 0 BY <1>0, <3>1, TotalOfNothing
    <3> QED BY <1>0, <2>1, <3>2, TotalSteps
  <2>2. CASE T # {}
    <3>1. PICK x \in T : TRUE BY <2>2
    <3> DEFINE U == T \ {x}
               q == k[x]
    <3>2. U \in SUBSET S /\ q \in R /\ w[x] \in Nat OBVIOUS
    <3>3. Total(Sums(U), R) = Total(w, U)
      <4> HIDE DEF Sums
      <4> QED BY <1>1
    <3>4. Total(w, T) = w[x] + Total(w, U) BY <1>0, TakeOne
    <3>5. Sums(T)[q] = w[x] + Sums(U)[q]
      <4>1. Part(U, q) = Part(T, q) \ {x} /\ x \in Part(T, q) OBVIOUS
      <4>2. IsFiniteSet(Part(T, q)) /\ Part(T, q) \in SUBSET D BY FS_Subset, <1>0
      <4>3. Total(w, Part(T, q)) = w[x] + Total(w, Part(U, q))
        <5> HIDE DEF Part, U, q
        <5>1. Total(w, Part(T, q)) = w[x] + Total(w, Part(T, q) \ {x})
          BY <1>0, <4>1, <4>2, TakeOne
        <5> QED BY <4>1, <5>1
      <4> HIDE DEF Part
      <4> QED BY <3>2, <4>3
    <3>6. \A r \in R \ {q} : Sums(T)[r] = Sums(U)[r]
      <4>1. \A r \in R \ {q} : Part(T, r) = Part(U, r) OBVIOUS
      <4> HIDE DEF Part
      <4> QED BY <4>1
    <3> HIDE DEF Sums, U, q
    <3>7. /\ Sums(T) \in [R -> Nat] /\ Sums(U) \in [R -> Nat]
          /\ Sums(T) \in [R -> Int] /\ Sums(U) \in [R -> Int]
      BY <1>0, <3>2
    <3>8. /\ Total(Sums(T), R) = Sums(T)[q] + Total(Sums(T), R \ {q})
          /\ Total(Sums(U), R) = Sums(U)[q] + Total(Sums(U), R \ {q})
      BY <3>2, <3>7, TakeOne
    <3>9. /\ Total(Sums(T), R \ {q}) = Total(Sums(U), R \ {q})
          /\ Total(Sums(U), R \ {q}) \in Nat
      <4>1. IsFiniteSet(R \ {q}) BY FS_Subset
      <4> QED BY <3>6, <3>7, <4>1, TotalsEqual, TotalMonotone
    <3>10. Sums(U)[q] \in Nat BY <3>2, <3>7
    <3> QED BY <1>0, <3>2, <3>3, <3>4, <3>5, <3>8, <3>9, <3>10
  <2> QED BY <2>1, <2>2
<1> HIDE DEF P
<1>2. S \in P
  <2>1. SUBSET S \subseteq P BY <1>1, SubsetInduction
  <2> QED BY <2>1
<1>3. Total(v, R) = Total(Sums(S), R)
  <2>1. \A r \in R : v[r] = Sums(S)[r]
    <3>1. \A r \in R : p[r] = {s \in S : k[s] = r} OBVIOUS
    <3> QED BY <3>1
  <2>2. Sums(S) \in [R -> Nat] BY <1>0
  <2> HIDE DEF Sums
  <2> QED BY <2>1, <2>2, TotalsEqual
<1> QED BY <1>2, <1>3 DEF P

\* The size of a set is a sum of ones.
LEMMA TotalOfOnes ==
  ASSUME NEW D, NEW w \in [D -> Nat], NEW S \in SUBSET D, IsFiniteSet(S),
         \A x \in S : w[x] = 1
  PROVE  Total(w, S) = Cardinality(S)
<1> DEFINE P == {T \in SUBSET S : Total(w, T) = Cardinality(T)}
<1>0. w \in [D -> Int] OBVIOUS
<1>1. ASSUME NEW T \in SUBSET S, \A U \in SUBSET T : U # T => U \in P PROVE T \in P
  <2>0. IsFiniteSet(T) BY FS_Subset
  <2>1. CASE T = {} BY <1>0, <2>0, <2>1, TotalSteps, FS_EmptySet
  <2>2. CASE T # {}
    <3>1. PICK x \in T : TRUE BY <2>2
    <3>2. Total(w, T) = 1 + Total(w, T \ {x}) BY <1>0, <2>0, TakeOne
    <3>3. Cardinality(T \ {x}) = Cardinality(T) - 1 /\ Cardinality(T) \in Nat
      BY <2>0, FS_RemoveElement, FS_CardinalityType
    <3>4. Total(w, T \ {x}) = Cardinality(T \ {x}) BY <1>1
    <3> QED BY <3>2, <3>3, <3>4
  <2> QED BY <2>1, <2>2
<1> HIDE DEF P
<1>2. S \in P BY <1>1, SubsetInduction
<1> QED BY <1>2 DEF P

-----------------------------------------------------------------------------
(* The report of a club (ReportPage).                                      *)

\* Another view is selected: the requests under way are outrun, one begins.
LEMMA ReportSelects ==
  ASSUME Report!IInv, NEW v \in Views \cup {None}, NEW a \in Calls, Report!Select(v, a)
  PROVE  Report!IInv'
<1> DEFINE view == v1  shown == v2  loading == v3  ask == v4  stray == v5
           AskTypes == [of : Views \cup {None}, outrun : BOOLEAN]
<1> USE DEF Report!IInv, Report!TypeOK, Report!ShownIsSelected, Report!Nothing
<1>1. /\ Report!LeaveBehind \in [Calls -> AskTypes]
      /\ \A b \in Calls : Report!LeaveBehind[b] = Report!NoAsk \/ Report!LeaveBehind[b].outrun = TRUE
  BY DEF Report!LeaveBehind, Report!NoAsk
<1>2. CASE v = None
  BY <1>1, <1>2 DEF Report!Select
<1>3. CASE v # None
  <2>1. /\ ask' = [Report!LeaveBehind EXCEPT ![a].of = v] /\ view' = v
        /\ loading' = TRUE /\ shown' = shown /\ stray' = stray
        /\ ask[a] = Report!NoAsk
    BY <1>3 DEF Report!Select
  <2>2. ask' \in [Calls -> AskTypes]
    BY <1>1, <2>1
  <2>3. \A b \in Calls \ {a} : ask'[b] = Report!LeaveBehind[b]
    BY <1>1, <2>1
  <2>4. ask'[a].of = v
    BY <1>1, <2>1
  <2> QED BY <1>1, <2>1, <2>2, <2>3, <2>4
<1> QED BY <1>2, <1>3

LEMMA ReportInv ==
  ASSUME Report!IInv, [Report!Next]_(Report!vars)
  PROVE  Report!IInv'
<1> DEFINE view == v1  shown == v2  loading == v3  ask == v4  stray == v5
<1> USE DEF Report!IInv, Report!TypeOK, Report!ShownIsSelected, Report!Nothing
<1>1. ASSUME NEW a \in Calls, Report!Answer(a) \/ Report!Fail(a)
      PROVE  Report!IInv'
  <2>1. /\ ask[a] # Report!NoAsk /\ ask' = [ask EXCEPT ![a] = Report!NoAsk]
        /\ stray' = ask[a].outrun /\ view' = view /\ loading' = FALSE
        /\ shown' = ask[a].of \/ shown' = None
    BY <1>1 DEF Report!Answer, Report!Fail, Report!Ends
  <2>2. Report!NoAsk \in [of : Views \cup {None}, outrun : BOOLEAN]
    BY DEF Report!NoAsk
  <2> QED BY <2>1, <2>2
<1>2. CASE UNCHANGED Report!vars
  BY <1>2 DEF Report!vars
<1> QED BY <1>1, <1>2, ReportSelects DEF Report!Next

-----------------------------------------------------------------------------
(* The socket of the dashboard (ClubStore).                                *)

\* connect closes the socket of the store, which is the only live one.
LEMMA DashboardConnects ==
  ASSUME PartsAssumption, Dashboard!TypeOK, Dashboard!OneSocket, NEW t, Dashboard!Connect(t)
  PROVE  /\ v5' \in StoreSockets \cup {None} /\ v7' \in BOOLEAN
         /\ v6' \in [StoreSockets -> {"none", "connecting", "open", "closing", "broken"}]
         /\ Dashboard!OneSocket'
<1> DEFINE sock == v6  ws == v5
<1> USE DEF Dashboard!TypeOK, Dashboard!OneSocket, Dashboard!Live, PartsAssumption
<1>1. /\ Dashboard!ClosedByUs(ws) \in
             [StoreSockets -> {"none", "connecting", "open", "closing", "broken"}]
      /\ \A s \in StoreSockets : Dashboard!ClosedByUs(ws)[s] \notin {"connecting", "open"}
  BY DEF Dashboard!ClosedByUs
<1> QED BY <1>1 DEF Dashboard!Connect

\* The page is mounted, or the user signs in or out: the socket stays.
LEMMA DashboardSigns ==
  ASSUME PartsAssumption, Dashboard!IInv,
         Dashboard!Mount \/ Dashboard!SignOut \/ Dashboard!SignIn
  PROVE  Dashboard!IInv'
<1> USE DEF Dashboard!IInv, Dashboard!TypeOK, Dashboard!auth, PartsAssumption
<1>1. /\ UNCHANGED <<v5, v6, v7, v8, v9>>
      /\ (v3' = v3 \/ v3' = TRUE) /\ v4' \in 0..MaxBoots
      /\ v1' \in BOOLEAN /\ v2' \in BOOLEAN
  <2>1. CASE Dashboard!Mount
    BY <2>1 DEF Dashboard!Mount
  <2>2. CASE Dashboard!SignOut
    BY <2>2 DEF Dashboard!SignOut
  <2>3. CASE Dashboard!SignIn
    BY <2>3 DEF Dashboard!SignIn
  <2> QED BY <2>1, <2>2, <2>3
<1>2. v3' \in BOOLEAN
  BY <1>1
<1>3. Dashboard!TypeOK'
  BY <1>1, <1>2
<1>4. Dashboard!OneSocket'
  BY <1>1 DEF Dashboard!OneSocket, Dashboard!Live
<1>5. Dashboard!GoneIsQuiet'
  <2>1. CASE Dashboard!Mount
    BY <2>1 DEF Dashboard!Mount, Dashboard!GoneIsQuiet
  <2>2. CASE Dashboard!SignOut
    BY <2>2 DEF Dashboard!SignOut, Dashboard!GoneIsQuiet
  <2>3. CASE Dashboard!SignIn
    BY <2>3 DEF Dashboard!SignIn, Dashboard!GoneIsQuiet
  <2> QED BY <2>1, <2>2, <2>3
<1> QED BY <1>3, <1>4, <1>5

LEMMA DashboardInv ==
  ASSUME PartsAssumption, Dashboard!IInv, [Dashboard!Next]_(Dashboard!vars)
  PROVE  Dashboard!IInv'
<1> USE DEF Dashboard!IInv, Dashboard!TypeOK, Dashboard!auth, PartsAssumption
<1>1. CASE Dashboard!Mount \/ Dashboard!SignOut \/ Dashboard!SignIn
  BY <1>1, DashboardSigns
<1>2. CASE Dashboard!Booted
  <2>1. Dashboard!OneSocket' /\ Dashboard!Connect(v2')
    BY <1>2, DashboardConnects DEF Dashboard!Booted
  <2>2. Dashboard!TypeOK'
    <3>1. /\ v1' \in BOOLEAN /\ v2' \in BOOLEAN /\ v3' \in BOOLEAN
          /\ v8' \in BOOLEAN /\ v9' \in BOOLEAN
      BY <1>2 DEF Dashboard!Booted
    <3>2. v4' \in 0..MaxBoots
      BY <1>2 DEF Dashboard!Booted
    <3> QED BY <2>1, <3>1, <3>2, DashboardConnects
  <2>3. Dashboard!GoneIsQuiet'
    BY <1>2 DEF Dashboard!Booted, Dashboard!GoneIsQuiet
  <2> QED BY <2>1, <2>2, <2>3
<1>3. CASE Dashboard!Unmount
  BY <1>3 DEF Dashboard!Unmount, Dashboard!ClosedByUs, Dashboard!GoneIsQuiet,
              Dashboard!OneSocket, Dashboard!Live
<1>4. CASE Dashboard!Reconnect
  <2>1. Dashboard!OneSocket' /\ Dashboard!TypeOK'
    BY <1>4, DashboardConnects DEF Dashboard!Reconnect
  <2>2. Dashboard!GoneIsQuiet'
    BY <1>4 DEF Dashboard!Reconnect, Dashboard!GoneIsQuiet
  <2> QED BY <2>1, <2>2
<1>5. ASSUME NEW s \in StoreSockets, Dashboard!Open(s) \/ Dashboard!Break(s)
      PROVE  Dashboard!IInv'
  BY <1>5 DEF Dashboard!Open, Dashboard!Break, Dashboard!GoneIsQuiet,
              Dashboard!OneSocket, Dashboard!Live
<1>6. ASSUME NEW s \in StoreSockets, Dashboard!OnClose(s)
      PROVE  Dashboard!IInv'
  BY <1>6 DEF Dashboard!OnClose, Dashboard!GoneIsQuiet, Dashboard!OneSocket, Dashboard!Live
<1>7. CASE UNCHANGED Dashboard!vars
  BY <1>7 DEF Dashboard!vars, Dashboard!GoneIsQuiet, Dashboard!OneSocket, Dashboard!Live
<1> QED BY <1>1, <1>2, <1>3, <1>4, <1>5, <1>6, <1>7 DEF Dashboard!Next

-----------------------------------------------------------------------------
(* The switch of automation (Automation).                                  *)

LEMMA SwitchInv ==
  ASSUME PartsAssumption, Switch!IInv, [Switch!Next]_(Switch!vars)
  PROVE  Switch!IInv'
<1> DEFINE password == v1  cache == v2  request == v3  now == v4
           lastSet == v5  lastUnset == v6
           RequestTypes == [pc : {"idle", "calls", "read", "free", "pays", "refused"},
                            active : BOOLEAN, at : Switch!Moments]
<1> USE DEF Switch!IInv, Switch!TypeOK, Switch!AnswersAreRecent, Switch!Recent,
            Switch!MomentsAreKept, Switch!ReadIsTrue, Switch!CacheIsTrue, Switch!LastTrue,
            PartsAssumption, Switch!Never, Switch!Ttl, Switch!Moments
<1>1. ASSUME NEW r \in Calls, Switch!Look(r) PROVE Switch!IInv'
  <2> DEFINE answered == [pc |-> IF cache.active THEN "free" ELSE "pays",
                          active |-> cache.active, at |-> now]
             calls == [pc |-> "calls", active |-> FALSE, at |-> now]
  <2>1. /\ UNCHANGED <<password, cache, now, lastSet, lastUnset>>
        /\ \/ cache.expires > now /\ request' = [request EXCEPT ![r] = answered]
           \/ request' = [request EXCEPT ![r] = calls]
    BY <1>1 DEF Switch!Look, Switch!Set, Switch!Fresh
  <2>2. Switch!TypeOK'
    <3>1. answered \in RequestTypes /\ calls \in RequestTypes
      OBVIOUS
    <3>2. request' \in [Calls -> RequestTypes]
      <4> HIDE DEF answered, calls, RequestTypes, Switch!AnswersAreRecent, Switch!Recent,
                   Switch!MomentsAreKept, Switch!ReadIsTrue, Switch!CacheIsTrue, Switch!LastTrue
      <4>1. request \in [Calls -> RequestTypes] BY DEF RequestTypes
      <4>2. \/ request' = [request EXCEPT ![r] = answered]
            \/ request' = [request EXCEPT ![r] = calls]
        BY <2>1
      <4> HIDE DEF Switch!IInv, Switch!TypeOK
      <4> QED BY <3>1, <4>1, <4>2
    <3> HIDE DEF answered, calls, RequestTypes, Switch!AnswersAreRecent, Switch!Recent,
                 Switch!MomentsAreKept, Switch!ReadIsTrue, Switch!CacheIsTrue, Switch!LastTrue
    <3>3. UNCHANGED <<password, cache, now, lastSet, lastUnset>> BY <2>1
    <3> QED BY SMTT(30), <3>2, <3>3 DEF RequestTypes
  <2>3. Switch!AnswersAreRecent'
    BY <2>1
  <2> QED BY <2>1, <2>2, <2>3
<1>2. ASSUME NEW r \in Calls, Switch!Read(r) PROVE Switch!IInv'
  BY <1>2 DEF Switch!Read, Switch!Set
<1>3. ASSUME NEW r \in Calls, Switch!Answer(r) PROVE Switch!IInv'
  BY <1>3 DEF Switch!Answer, Switch!Set
<1>4. ASSUME NEW r \in Calls, Switch!Refuse(r) \/ Switch!Close(r) PROVE Switch!IInv'
  <2>1. PICK pc \in {"refused", "idle"} :
          /\ UNCHANGED <<password, cache, now, lastSet, lastUnset>>
          /\ request' = [request EXCEPT ![r] = [pc |-> pc, active |-> FALSE, at |-> now]]
    BY <1>4 DEF Switch!Refuse, Switch!Close, Switch!Set
  <2>2. Switch!TypeOK'
    <3>1. request' \in [Calls -> RequestTypes]
      BY <2>1
    <3> QED BY <2>1, <3>1
  <2> QED BY <2>1, <2>2
<1>5. CASE Switch!SetPassword
  BY <1>5 DEF Switch!SetPassword
<1>6. CASE Switch!RemovePassword
  <2>1. password' = FALSE /\ lastUnset' = now /\ UNCHANGED <<cache, request, now, lastSet>>
    BY <1>6 DEF Switch!RemovePassword
  <2>2. Switch!TypeOK'
    BY <2>1
  <2>3. Switch!AnswersAreRecent' /\ Switch!ReadIsTrue'
    BY <2>1
  <2>4. Switch!MomentsAreKept'
    BY <2>1
  <2>5. Switch!CacheIsTrue'
    <3>1. lastUnset <= now
      OBVIOUS
    <3> QED BY <2>1, <3>1
  <2> QED BY <2>2, <2>3, <2>4, <2>5
<1>7. CASE Switch!Restart
  BY <1>7 DEF Switch!Restart, Switch!Empty, Switch!Idle
<1>8. CASE Switch!Pass
  BY <1>8 DEF Switch!Pass
<1>9. CASE UNCHANGED Switch!vars
  BY <1>9 DEF Switch!vars
<1> QED BY <1>1, <1>2, <1>3, <1>4, <1>5, <1>6, <1>7, <1>8, <1>9 DEF Switch!Next

-----------------------------------------------------------------------------
(* The alerts (AnomalyAlerts).                                             *)

\* A burst that is due is raised: its stamp is one call old at most.
LEMMA AlertIsSpaced ==
  ASSUME PartsAssumption, Anomaly!IInv, NEW c \in Calls, NEW k \in Anomaly!Kinds,
         Anomaly!Judge(c, k), Anomaly!Due(c, k)
  PROVE  Anomaly!IInv'
<1> DEFINE last == v1  check == v2  now == v3  raised == v4
           CheckTypes == [pc : Anomaly!Pcs, at : Anomaly!Moments, read : SUBSET Anomaly!Kinds]
<1> USE DEF Anomaly!IInv, Anomaly!Kinds
<1>1. Anomaly!Moments \subseteq Nat
  BY DEF Anomaly!Moments, PartsAssumption
<1>2. /\ last' = [last EXCEPT ![k] = check[c].at]
      /\ check' = [check EXCEPT ![c].pc = Anomaly!Logging(k)]
      /\ raised' = [raised EXCEPT ![k] = Append(raised[k], now)]
      /\ check[c].pc = k /\ check[c].at > last[k] + AlertCooldown /\ UNCHANGED <<now, v5>>
  BY DEF Anomaly!Judge, Anomaly!Raise, Anomaly!Due
<1>3. /\ check[c].at \in Nat /\ now \in Nat /\ last[k] \in Nat
      /\ check[c].at > last[k] + AlertCooldown
  BY <1>1, <1>2 DEF Anomaly!TypeOK
<1>a. /\ AlertCooldown \in Nat /\ LongestNotice \in Nat
      /\ \A j \in Anomaly!Kinds : Anomaly!Lag(j) \in Nat
  BY DEF PartsAssumption, Anomaly!Lag
<1>b. check[c].at <= now /\ now <= check[c].at + Anomaly!Lag(k)
  <2>1. check[c].pc = k
    BY <1>2
  <2>2. CASE k = "errors"
    <3>1. check[c].at = now /\ Anomaly!Lag(k) = 0
      BY <2>1, <2>2 DEF Anomaly!ChecksAreShort, Anomaly!Lag
    <3> QED BY <1>3, <3>1
  <2>3. CASE k = "traffic"
    <3>1. /\ check[c].at <= now /\ now <= check[c].at + LongestNotice
          /\ Anomaly!Lag(k) = LongestNotice
      BY <2>1, <2>3 DEF Anomaly!ChecksAreShort, Anomaly!Lag
    <3> QED BY <3>1
  <2> QED BY <2>2, <2>3
<1>4. Anomaly!TypeOK'
  <2>1. check' \in [Calls -> CheckTypes]
    <3>1. check \in [Calls -> CheckTypes]
      BY Zenon DEF Anomaly!TypeOK
    <3>2. Anomaly!Logging(k) \in Anomaly!Pcs
      BY DEF Anomaly!Logging, Anomaly!Pcs
    <3> DEFINE new == [check[c] EXCEPT !.pc = Anomaly!Logging(k)]
    <3>3. new \in CheckTypes
      <4>1. check[c] \in CheckTypes
        BY <3>1
      <4> HIDE DEF Anomaly!Kinds
      <4> QED BY <3>2, <4>1
    <3>4. check' = [check EXCEPT ![c] = new]
      BY <1>2
    <3> HIDE DEF new, CheckTypes
    <3> QED BY <3>1, <3>3, <3>4
  <2>2. /\ last' \in [Anomaly!Kinds -> Anomaly!Moments]
        /\ raised' \in [Anomaly!Kinds -> Seq(Anomaly!Moments)]
    <3>1. /\ last \in [Anomaly!Kinds -> Anomaly!Moments]
          /\ raised \in [Anomaly!Kinds -> Seq(Anomaly!Moments)] /\ now \in Anomaly!Moments
          /\ check \in [Calls -> CheckTypes]
      BY Zenon DEF Anomaly!TypeOK
    <3>2. check[c].at \in Anomaly!Moments
      BY <3>1
    <3>3. Append(raised[k], now) \in Seq(Anomaly!Moments)
      BY <3>1
    <3> QED BY <1>2, <3>1, <3>2, <3>3
  <2> QED BY <1>2, <2>1, <2>2 DEF Anomaly!TypeOK
<1>5. Anomaly!ChecksAreShort'
  <2>1. check \in [Calls -> CheckTypes]
    BY Zenon DEF Anomaly!TypeOK
  <2>2. /\ \A d \in Calls \ {c} : check'[d] = check[d]
        /\ check'[c].at = check[c].at
    BY <1>2, <2>1
  <2>3. check'[c].pc = Anomaly!Logging(k) /\ now' = now
    BY <1>2, <2>1
  <2>4. /\ k = "errors" => check[c].at = now
        /\ Anomaly!Logging(k) # "errors" /\ Anomaly!Logging(k) # "traffic"
        /\ k = "traffic" => Anomaly!Logging(k) \notin Anomaly!Alerting
    BY <1>2 DEF Anomaly!ChecksAreShort, Anomaly!Logging, Anomaly!Telling, Anomaly!Alerting
  <2> QED BY <1>3, <1>a, <2>2, <2>3, <2>4 DEF Anomaly!ChecksAreShort
<1>6. /\ raised[k] \in Seq(Anomaly!Moments) /\ raised'[k] = Append(raised[k], now)
      /\ now \in Anomaly!Moments /\ last'[k] = check[c].at
  BY <1>2 DEF Anomaly!TypeOK
<1>7. \A j \in Anomaly!Kinds \ {k} : raised'[j] = raised[j] /\ last'[j] = last[j]
  BY <1>2 DEF Anomaly!TypeOK
<1>8. Anomaly!StampsAreClose'
  <2>1. Anomaly!LastRaised(k)' = now
    BY <1>6 DEF Anomaly!LastRaised
  <2>2. ASSUME NEW j \in Anomaly!Kinds \ {k}, raised'[j] # <<>>
        PROVE  last'[j] <= Anomaly!LastRaised(j)' /\ Anomaly!LastRaised(j)' <= last'[j] + Anomaly!Lag(j)
    BY <1>7, <2>2 DEF Anomaly!StampsAreClose, Anomaly!LastRaised
  <2> QED BY <1>3, <1>b, <1>6, <2>1, <2>2 DEF Anomaly!StampsAreClose
<1>9. ASSUME NEW i \in 1..(Len(raised'[k]) - 1)
      PROVE  raised'[k][i + 1] + Anomaly!Lag(k) > raised'[k][i] + AlertCooldown
  <2>1. CASE i < Len(raised[k])
    <3>1. /\ i \in 1..(Len(raised[k]) - 1)
          /\ raised'[k][i] = raised[k][i] /\ raised'[k][i + 1] = raised[k][i + 1]
      BY <1>6, <1>9, <2>1
    <3>2. raised[k][i + 1] + Anomaly!Lag(k) > raised[k][i] + AlertCooldown
      BY <3>1 DEF Anomaly!AlertsAreSpaced
    <3> QED BY <3>1, <3>2
  <2>2. CASE i = Len(raised[k])
    <3> DEFINE before == raised[k][Len(raised[k])]
    <3>1. raised'[k][i + 1] = now /\ raised'[k][i] = before /\ raised[k] # <<>>
      BY <1>6, <1>9, <2>2
    <3>2. before \in Anomaly!Moments
      BY <1>6, <1>9, <2>2
    <3>3. before \in Nat
      BY <1>1, <3>2
    <3>4. before <= last[k] + Anomaly!Lag(k)
      BY <3>1 DEF Anomaly!StampsAreClose, Anomaly!LastRaised
    <3>5. now + Anomaly!Lag(k) > before + AlertCooldown
      <4> HIDE DEF before, last, check, now
      <4> QED BY SMTT(30), <1>3, <1>a, <1>b, <3>3, <3>4
    <3> QED BY <3>1, <3>5
  <2> QED BY <1>6, <1>9, <2>1, <2>2
<1>10. Anomaly!AlertsAreSpaced'
  BY <1>7, <1>9 DEF Anomaly!AlertsAreSpaced
<1> QED BY <1>4, <1>5, <1>8, <1>10

LEMMA AnomalyInv ==
  ASSUME PartsAssumption, Anomaly!IInv, [Anomaly!Next]_(Anomaly!vars)
  PROVE  Anomaly!IInv'
<1> DEFINE last == v1  check == v2  now == v3  raised == v4
           CheckTypes == [pc : Anomaly!Pcs, at : Anomaly!Moments, read : SUBSET Anomaly!Kinds]
<1> USE DEF Anomaly!IInv, Anomaly!Kinds
<1>1. Anomaly!Moments \subseteq Nat /\ 0 \in Anomaly!Moments
  BY DEF Anomaly!Moments, PartsAssumption
<1>2. /\ now \in Anomaly!Moments /\ check \in [Calls -> CheckTypes] /\ v5 \in 0..MaxFaults
      /\ now \in Nat /\ \A c \in Calls : check[c].at \in Nat
  <2>1. now \in Anomaly!Moments /\ check \in [Calls -> CheckTypes] /\ v5 \in 0..MaxFaults
    BY Zenon DEF Anomaly!TypeOK
  <2> QED BY <1>1, <2>1
<1>3. Anomaly!Idle \in CheckTypes /\ Anomaly!Idle.pc = "idle"
  BY <1>1 DEF Anomaly!Idle, Anomaly!Pcs
<1>4. ASSUME NEW c \in Calls, NEW burst \in SUBSET Anomaly!Kinds, Anomaly!Begin(c, burst)
      PROVE  Anomaly!IInv'
  <2>1. Anomaly!TypeOK'
    <3>1. [pc |-> "errors", at |-> now, read |-> burst] \in CheckTypes
      BY <1>2 DEF Anomaly!Pcs
    <3>2. check' \in [Calls -> CheckTypes] /\ UNCHANGED <<last, now, raised, v5>>
      BY <1>2, <1>4, <3>1 DEF Anomaly!Begin
    <3> QED BY <3>2 DEF Anomaly!TypeOK
  <2>2. Anomaly!AlertsAreSpaced' /\ Anomaly!StampsAreClose'
    BY <1>4 DEF Anomaly!Begin, Anomaly!AlertsAreSpaced, Anomaly!StampsAreClose,
                Anomaly!LastRaised
  <2>3. Anomaly!ChecksAreShort'
    <3>1. /\ check'[c].pc = "errors" /\ check'[c].at = now /\ now' = now
          /\ \A d \in Calls \ {c} : check'[d] = check[d]
      BY <1>2, <1>4 DEF Anomaly!Begin
    <3>2. "errors" \notin Anomaly!Alerting
      BY DEF Anomaly!Alerting, Anomaly!Logging, Anomaly!Telling
    <3> QED BY <3>1, <3>2 DEF Anomaly!ChecksAreShort
  <2> QED BY <2>1, <2>2, <2>3
<1>5. ASSUME NEW c \in Calls, NEW k \in Anomaly!Kinds,
             \/ Anomaly!Log(c, k) \/ Anomaly!Tell(c, k) \/ Anomaly!Fail(c, k)
             \/ Anomaly!Judge(c, k) /\ ~Anomaly!Due(c, k)
      PROVE  Anomaly!IInv'
  <2>1. /\ UNCHANGED <<last, now, raised>> /\ v5' \in 0..MaxFaults
        /\ \/ check' = [check EXCEPT ![c] = Anomaly!Idle]
           \/ \E pc \in Anomaly!Pcs \ {"errors"} :
                /\ check' = [check EXCEPT ![c].pc = pc]
                /\ pc \in Anomaly!Alerting \cup {"traffic"} =>
                     check[c].pc \in Anomaly!Alerting \cup {"errors"}
    <3>1. CASE Anomaly!Log(c, k)
      BY <1>2, <3>1 DEF Anomaly!Log, Anomaly!Logging, Anomaly!Telling, Anomaly!Alerting,
                        Anomaly!Pcs
    <3>2. CASE Anomaly!Tell(c, k)
      BY <1>2, <3>2 DEF Anomaly!Tell, Anomaly!Logging, Anomaly!Telling, Anomaly!Alerting,
                        Anomaly!Leave, Anomaly!Pcs
    <3>3. CASE Anomaly!Fail(c, k)
      BY <1>2, <1>5, <3>3, RegistrationAssumption DEF Anomaly!Fail, RegistrationAssumption
    <3>4. CASE Anomaly!Judge(c, k) /\ ~Anomaly!Due(c, k)
      BY <1>2, <3>4 DEF Anomaly!Judge, Anomaly!Leave, Anomaly!Pcs, Anomaly!Alerting
    <3> QED BY <1>5, <3>1, <3>2, <3>3, <3>4
  <2>2. Anomaly!TypeOK'
    <3>1. check' \in [Calls -> CheckTypes]
      BY <1>2, <1>3, <2>1
    <3> QED BY <2>1, <3>1 DEF Anomaly!TypeOK
  <2>3. Anomaly!ChecksAreShort'
    <3>1. Anomaly!Idle.pc \notin Anomaly!Alerting \cup {"traffic", "errors"}
      BY DEF Anomaly!Idle, Anomaly!Alerting, Anomaly!Logging, Anomaly!Telling
    <3>2. LongestNotice \in Nat
      BY DEF PartsAssumption
    <3>3. CASE check' = [check EXCEPT ![c] = Anomaly!Idle]
      BY <1>2, <2>1, <3>1, <3>3 DEF Anomaly!ChecksAreShort
    <3>4. ASSUME NEW pc \in Anomaly!Pcs \ {"errors"},
                 check' = [check EXCEPT ![c].pc = pc],
                 pc \in Anomaly!Alerting \cup {"traffic"} =>
                   check[c].pc \in Anomaly!Alerting \cup {"errors"}
          PROVE  Anomaly!ChecksAreShort'
      <4>1. /\ check'[c].pc = pc /\ check'[c].at = check[c].at
            /\ \A d \in Calls \ {c} : check'[d] = check[d]
        BY <1>2, <3>4
      <4>2. pc \in Anomaly!Alerting \cup {"traffic"} =>
              check[c].at <= now /\ now <= check[c].at + LongestNotice
        BY <1>2, <3>2, <3>4 DEF Anomaly!ChecksAreShort
      <4> QED BY <2>1, <3>4, <4>1, <4>2 DEF Anomaly!ChecksAreShort
    <3> QED BY <2>1, <3>3, <3>4
  <2>4. Anomaly!AlertsAreSpaced' /\ Anomaly!StampsAreClose'
    BY <2>1 DEF Anomaly!AlertsAreSpaced, Anomaly!StampsAreClose, Anomaly!LastRaised
  <2> QED BY <2>2, <2>3, <2>4
<1>6. CASE Anomaly!Pass
  <2>1. now' \in Anomaly!Moments
    <3>1. now < AlertHorizon /\ now' = now + 1
      BY <1>6 DEF Anomaly!Pass
    <3> QED BY <1>2, <3>1 DEF Anomaly!Moments, PartsAssumption
  <2>2. Anomaly!TypeOK'
    BY <1>6, <2>1 DEF Anomaly!Pass, Anomaly!TypeOK
  <2>3. Anomaly!AlertsAreSpaced' /\ Anomaly!StampsAreClose'
    BY <1>6 DEF Anomaly!Pass, Anomaly!AlertsAreSpaced, Anomaly!StampsAreClose,
                Anomaly!LastRaised
  <2>4. Anomaly!ChecksAreShort'
    <3>1. /\ now' = now + 1 /\ check' = check /\ LongestNotice \in Nat
          /\ \A c \in Calls : check[c].pc # "errors" /\ check[c].pc # "traffic"
      BY <1>6 DEF Anomaly!Pass, PartsAssumption
    <3>2. ASSUME NEW c \in Calls, check[c].pc \in Anomaly!Alerting
          PROVE  check[c].at <= now + 1 /\ now + 1 <= check[c].at + LongestNotice
      <4>1. check[c].at <= now /\ now < check[c].at + LongestNotice
        BY <1>6, <3>2 DEF Anomaly!Pass, Anomaly!ChecksAreShort
      <4> QED BY <1>2, <3>1, <4>1
    <3> QED BY <3>1, <3>2 DEF Anomaly!ChecksAreShort
  <2> QED BY <2>2, <2>3, <2>4
<1>7. CASE Anomaly!Restart
  <2>1. Anomaly!TypeOK'
    <3>1. v5' \in 0..MaxFaults
      BY <1>2, <1>7, RegistrationAssumption DEF Anomaly!Restart, RegistrationAssumption
    <3>2. /\ last' \in [Anomaly!Kinds -> Anomaly!Moments]
          /\ raised' \in [Anomaly!Kinds -> Seq(Anomaly!Moments)]
      BY <1>1, <1>7 DEF Anomaly!Restart
    <3>3. check' \in [Calls -> CheckTypes] /\ now' = now
      BY <1>3, <1>7 DEF Anomaly!Restart
    <3> QED BY <1>2, <3>1, <3>2, <3>3 DEF Anomaly!TypeOK
  <2>2. Anomaly!AlertsAreSpaced' /\ Anomaly!StampsAreClose'
    BY <1>7 DEF Anomaly!Restart, Anomaly!AlertsAreSpaced, Anomaly!StampsAreClose
  <2>3. Anomaly!ChecksAreShort'
    <3>1. /\ \A c \in Calls : check'[c] = Anomaly!Idle
          /\ Anomaly!Idle.pc \notin Anomaly!Alerting \cup {"traffic", "errors"}
      BY <1>7 DEF Anomaly!Restart, Anomaly!Idle, Anomaly!Alerting, Anomaly!Logging,
                  Anomaly!Telling
    <3> QED BY <3>1 DEF Anomaly!ChecksAreShort
  <2> QED BY <2>1, <2>2, <2>3
<1>8. CASE UNCHANGED Anomaly!vars
  BY <1>8 DEF Anomaly!vars, Anomaly!TypeOK, Anomaly!AlertsAreSpaced, Anomaly!ChecksAreShort,
              Anomaly!StampsAreClose, Anomaly!LastRaised
<1> QED BY <1>4, <1>5, <1>6, <1>7, <1>8, AlertIsSpaced DEF Anomaly!Next

-----------------------------------------------------------------------------
(* The public key of a process (TokenCheck).                               *)

\* A token is judged by a key that was in use, at most an hour before it came.
LEMMA TokenIsJudged ==
  ASSUME PartsAssumption, Token!TypeOK, Token!KeysFollow,
         NEW key \in Token!Keys, NEW since \in Token!Times, Token!WasInUse(key, since),
         NEW token \in Token!Keys, token <= v1,
         NEW seen \in Token!Times, since + Hour >= seen
  PROVE  /\ key = token => v3[token] + Hour >= seen
         /\ key # token => v2[token] + Hour >= seen \/ v3[token] <= v6
<1> DEFINE signer == v1  began == v2  ended == v3  now == v6
<1>1. /\ signer \in Nat /\ key \in 1..signer /\ token \in 1..signer /\ now \in Nat
      /\ since \in Nat /\ seen \in Nat /\ Hour \in Nat
  BY DEF PartsAssumption, Token!TypeOK, Token!WasInUse, Token!Keys, Token!Times
<1>2. /\ began[key] \in Nat /\ ended[key] \in Nat /\ began[token] \in Nat /\ ended[token] \in Nat
  BY DEF PartsAssumption, Token!TypeOK, Token!Never
<1>3. ended[key] >= since /\ began[key] <= now
  BY <1>1 DEF Token!KeysFollow, Token!WasInUse
<1>4. CASE key = token
  BY <1>1, <1>2, <1>3, <1>4
<1>5. CASE key < token
  <2>1. ended[key] <= began[token]
    BY <1>1, <1>5 DEF Token!KeysFollow
  <2> QED BY <1>1, <1>2, <1>3, <1>5, <2>1
<1>6. CASE token < key
  <2>1. ended[token] <= began[key]
    BY <1>1, <1>6 DEF Token!KeysFollow
  <2> QED BY <1>1, <1>2, <1>3, <1>6, <2>1
<1> QED BY <1>1, <1>4, <1>5, <1>6

\* Of a request that was judged, what AnswersAreRecent says.
TokenIsRight(r, began, ended) ==
  r.pc = "judged" =>
    /\ r.known => ended[r.token] + Hour >= r.seen
    /\ ~r.known => began[r.token] + Hour >= r.seen \/ ended[r.token] <= r.judged

\* Of a request, what RequestsAreTrue says.
TokenIsTrue(r) ==
  /\ r.token <= v1 /\ r.seen <= v6
  /\ r.pc = "answered" => r.got # 0 /\ Token!WasInUse(r.got, r.seen)
  /\ r.pc = "judged" => r.judged <= v6

LEMMA TokensAreRight ==
  Token!TakenIsRecent /\ Token!RefusedForAReason
     <=> \A r \in Calls : TokenIsRight(v5[r], v2, v3)
BY DEF Token!TakenIsRecent, Token!RefusedForAReason, Token!Judgements, TokenIsRight

LEMMA TokensAreRightNext ==
  Token!TakenIsRecent' /\ Token!RefusedForAReason'
     <=> \A r \in Calls : TokenIsRight(v5'[r], v2', v3')
BY DEF Token!TakenIsRecent, Token!RefusedForAReason, Token!Judgements, TokenIsRight

\* A request takes a step of its own.
LEMMA TokenRequestSteps ==
  ASSUME Token!IInv, UNCHANGED <<v1, v2, v3, v6>>,
         NEW r \in Calls, v5' = [v5 EXCEPT ![r] = v5'[r]],
         v5'[r] \in Token!RequestTypes, TokenIsTrue(v5'[r]), TokenIsRight(v5'[r], v2, v3),
         v4' \in [Processes -> Token!Caches], Token!CachesAreTrue'
  PROVE  Token!IInv'
<1> DEFINE request == v5
<1>1. request \in [Calls -> Token!RequestTypes]
  BY DEF Token!IInv, Token!TypeOK
<1>2. \A q \in Calls \ {r} : request'[q] = request[q]
  BY <1>1
<1>3. Token!TypeOK' /\ Token!KeysFollow'
  BY <1>1 DEF Token!IInv, Token!TypeOK, Token!KeysFollow, Token!Never, Token!Keys, Token!Times
<1>4. \A q \in Calls : TokenIsTrue(request'[q])
  BY <1>2 DEF Token!IInv, Token!RequestsAreTrue, TokenIsTrue
<1>5. Token!RequestsAreTrue'
  BY <1>4 DEF Token!RequestsAreTrue, TokenIsTrue, Token!WasInUse
<1>6. \A q \in Calls : TokenIsRight(request[q], v2, v3)
  BY TokensAreRight DEF Token!IInv
<1>7. \A q \in Calls : TokenIsRight(request'[q], v2', v3')
  BY <1>2, <1>6
<1> QED BY <1>3, <1>5, <1>7, TokensAreRightNext DEF Token!IInv

LEMMA TokenInv ==
  ASSUME PartsAssumption, Token!IInv, [Token!Next]_(Token!vars)
  PROVE  Token!IInv'
<1> DEFINE signer == v1  began == v2  ended == v3  cache == v4  request == v5  now == v6
<1> USE DEF Token!Keys, Token!Times, Token!Never
<1>0. /\ Hour \in Nat /\ TokenHorizon \in Nat /\ MaxKeys \in Nat
      /\ signer \in 1..MaxKeys /\ now \in 0..TokenHorizon
      /\ began \in [1..MaxKeys -> 0..TokenHorizon + 1]
      /\ ended \in [1..MaxKeys -> 0..TokenHorizon + 1]
      /\ cache \in [Processes -> Token!Caches]
      /\ request \in [Calls -> Token!RequestTypes]
  BY DEF PartsAssumption, Token!IInv, Token!TypeOK
<1>1. \A r \in Calls : TokenIsTrue(request[r]) /\ TokenIsRight(request[r], began, ended)
  BY TokensAreRight DEF Token!IInv, Token!RequestsAreTrue, TokenIsTrue
<1>a. /\ signer \in Nat \ {0} /\ now \in Nat
      /\ Hour \in Nat /\ TokenHorizon \in Nat /\ MaxKeys \in Nat
  BY <1>0
<1>2. CASE Token!Tick
  <2>1. now' = now + 1 /\ now' \in 0..TokenHorizon /\ UNCHANGED <<signer, began, ended, cache, request>>
    BY <1>0, <1>2 DEF Token!Tick
  <2>2. Token!TypeOK' /\ Token!TakenIsRecent' /\ Token!RefusedForAReason'
    BY <1>1, <2>1, TokensAreRightNext DEF Token!IInv, Token!TypeOK
  <2>3. Token!KeysFollow'
    BY <1>0, <2>1 DEF Token!IInv, Token!KeysFollow
  <2>4. Token!CachesAreTrue'
    BY <1>0, <2>1 DEF Token!IInv, Token!CachesAreTrue, Token!WasInUse, Token!Caches
  <2>5. Token!RequestsAreTrue'
    <3>1. ASSUME NEW r \in Calls PROVE TokenIsTrue(request[r])'
      <4>1. request' = request /\ signer' = signer /\ ended' = ended BY <2>1
      <4>2. /\ request[r].seen \in Nat /\ request[r].judged \in Nat /\ now \in Nat
            /\ now' = now + 1
        BY <1>0, <2>1 DEF Token!RequestTypes
      <4>3. TokenIsTrue(request[r]) BY <1>1
      <4> QED BY <4>1, <4>2, <4>3 DEF TokenIsTrue, Token!WasInUse
    <3> QED BY <3>1 DEF Token!RequestsAreTrue, TokenIsTrue
  <2> QED BY <2>2, <2>3, <2>4, <2>5 DEF Token!IInv
<1>3. CASE Token!Rotate
  <2>1. /\ signer' = signer + 1 /\ signer' \in 1..MaxKeys
        /\ began' = [began EXCEPT ![signer + 1] = now]
        /\ ended' = [ended EXCEPT ![signer] = now]
        /\ UNCHANGED <<cache, request, now>>
    BY <1>0, <1>3 DEF Token!Rotate
  <2>2. Token!TypeOK'
    <3>1. now \in 0..TokenHorizon + 1 BY <1>0
    <3>2. began' \in [1..MaxKeys -> 0..TokenHorizon + 1] BY <1>0, <2>1, <3>1
    <3>3. ended' \in [1..MaxKeys -> 0..TokenHorizon + 1] BY <1>0, <2>1, <3>1
    <3> QED BY <1>0, <2>1, <3>2, <3>3 DEF Token!TypeOK
  <2>3. /\ \A k \in 1..signer : began'[k] = began[k]
        /\ \A k \in 1..MaxKeys \ {signer} : ended'[k] = ended[k]
        /\ began'[signer + 1] = now /\ ended'[signer] = now /\ ended[signer] = TokenHorizon + 1
        /\ \A k \in 1..signer : began[k] <= now
    BY <1>0, <2>1 DEF Token!IInv, Token!KeysFollow
  <2>4. Token!KeysFollow'
    BY SMTT(30), <1>0, <2>1, <2>3 DEF Token!IInv, Token!KeysFollow
  <2>5. ASSUME NEW key \in 1..MaxKeys, NEW since \in 0..TokenHorizon, Token!WasInUse(key, since)
        PROVE  key <= signer' /\ since <= now' /\ ended'[key] >= since
    BY <1>0, <2>1, <2>3, <2>5 DEF Token!WasInUse
  <2>6. Token!CachesAreTrue'
    <3>1. ASSUME NEW p \in Processes, cache[p].key # 0
          PROVE  Token!WasInUse(cache[p].key, cache[p].since)'
      <4>1. cache[p].key \in 1..MaxKeys /\ cache[p].since \in 0..TokenHorizon
        BY <1>0, <3>1 DEF Token!Caches
      <4>2. Token!WasInUse(cache[p].key, cache[p].since)
        BY <3>1 DEF Token!IInv, Token!CachesAreTrue
      <4>3. cache' = cache BY <2>1
      <4> QED BY <2>5, <4>1, <4>2, <4>3 DEF Token!WasInUse
    <3> QED BY <2>1, <3>1 DEF Token!CachesAreTrue
  <2>7. Token!RequestsAreTrue'
    <3>1. ASSUME NEW r \in Calls, request[r].pc = "answered"
          PROVE  /\ request[r].got # 0
                 /\ request[r].got <= signer' /\ request[r].seen <= now'
                 /\ ended'[request[r].got] >= request[r].seen
      <4>1. request[r].got # 0 /\ Token!WasInUse(request[r].got, request[r].seen)
        BY <1>1, <3>1 DEF TokenIsTrue
      <4>2. request[r].got \in 0..MaxKeys /\ request[r].seen \in 0..TokenHorizon
        BY <1>0 DEF Token!RequestTypes
      <4>3. request[r].got \in 1..MaxKeys
        BY <1>0, <4>1, <4>2
      <4> QED BY <2>5, <4>1, <4>2, <4>3
    <3>2. ASSUME NEW r \in Calls PROVE request[r].token <= signer'
      <4>1. request[r].token \in Nat /\ signer \in Nat /\ signer' = signer + 1
        BY <1>0, <2>1 DEF Token!RequestTypes
      <4>2. request[r].token <= signer BY <1>1 DEF TokenIsTrue
      <4> QED BY <4>1, <4>2
    <3> QED BY <2>1, <3>1, <3>2 DEF Token!IInv, Token!RequestsAreTrue, Token!WasInUse
  <2>8. ASSUME NEW r \in Calls PROVE TokenIsRight(request'[r], began', ended')
    <3> SUFFICES ASSUME request[r].pc = "judged"
                 PROVE  TokenIsRight(request[r], began', ended')
      BY <2>1 DEF TokenIsRight
    <3>1. /\ request[r].token \in 1..MaxKeys /\ request[r].seen \in 0..TokenHorizon
          /\ request[r].judged \in 0..TokenHorizon
      BY <1>0 DEF Token!RequestTypes
    <3>2. request[r].token <= signer /\ request[r].seen <= now
      BY <1>1 DEF TokenIsTrue
    <3>3. CASE request[r].token = signer
      <4>1. /\ began'[request[r].token] = began[request[r].token]
            /\ ended'[request[r].token] = now /\ ended[request[r].token] = TokenHorizon + 1
        <5>1. signer \in 1..signer BY <1>a
        <5> QED BY <2>3, <3>3, <5>1
      <4>2. now + Hour >= request[r].seen
        BY <1>a, <3>1, <3>2
      <4>3. ~(TokenHorizon + 1 <= request[r].judged)
        BY <1>a, <3>1
      <4> QED BY <1>1, <4>1, <4>2, <4>3 DEF TokenIsRight
    <3>4. CASE request[r].token # signer
      <4>1. request[r].token \in 1..signer BY <1>a, <3>1, <3>2
      <4>2. /\ began'[request[r].token] = began[request[r].token]
            /\ ended'[request[r].token] = ended[request[r].token]
        BY <2>3, <3>1, <3>4, <4>1
      <4> QED BY <1>1, <4>2 DEF TokenIsRight
    <3> QED BY <3>3, <3>4
  <2> QED BY <2>2, <2>4, <2>6, <2>7, <2>8, TokensAreRightNext DEF Token!IInv
<1>4. ASSUME NEW r \in Calls, NEW p \in Processes, NEW k \in Token!Keys, Token!Arrive(r, p, k)
      PROVE  Token!IInv'
  <2> DEFINE taken == [pc |-> "judged", at |-> p, token |-> k, seen |-> now, got |-> 0,
                       judged |-> now, known |-> (cache[p].key = k)]
             waits == [pc |-> "fetching", at |-> p, token |-> k, seen |-> now, got |-> 0,
                       judged |-> 0, known |-> FALSE]
  <2>1. /\ k <= signer /\ UNCHANGED <<signer, began, ended, cache, now>>
        /\ request' = [request EXCEPT ![r] = request'[r]]
        /\ (Token!Fresh(p) /\ request'[r] = taken) \/ request'[r] = waits
    BY <1>0, <1>4 DEF Token!Arrive, Token!Idle
  <2>2. Token!CachesAreTrue'
    BY <2>1 DEF Token!IInv, Token!CachesAreTrue, Token!WasInUse
  <2>3. taken \in Token!RequestTypes /\ waits \in Token!RequestTypes
    BY <1>0 DEF Token!RequestTypes
  <2>4. TokenIsTrue(taken) /\ TokenIsTrue(waits) /\ TokenIsRight(waits, began, ended)
    BY <1>0, <2>1 DEF TokenIsTrue, TokenIsRight
  <2>5. ASSUME Token!Fresh(p) PROVE TokenIsRight(taken, began, ended)
    <3>1. /\ cache[p].key \in 1..MaxKeys /\ cache[p].since \in 0..TokenHorizon
          /\ cache[p].since + Hour >= now /\ Token!WasInUse(cache[p].key, cache[p].since)
      <4>1. cache[p].key \in 0..MaxKeys /\ cache[p].since \in 0..TokenHorizon
        BY <1>0 DEF Token!Caches
      <4>2. cache[p].key # 0 /\ cache[p].since + Hour >= now
        BY <1>a, <2>5, <4>1 DEF Token!Fresh
      <4>3. Token!WasInUse(cache[p].key, cache[p].since)
        BY <4>2 DEF Token!IInv, Token!CachesAreTrue
      <4> QED BY <1>a, <4>1, <4>2, <4>3
    <3>2. /\ cache[p].key = k => ended[k] + Hour >= now
          /\ cache[p].key # k => began[k] + Hour >= now \/ ended[k] <= now
      <4>1. Token!TypeOK /\ Token!KeysFollow BY DEF Token!IInv
      <4>2. k \in Token!Keys /\ k <= signer /\ now \in Token!Times
        BY <1>0, <2>1
      <4>3. cache[p].key \in Token!Keys /\ cache[p].since \in Token!Times
        BY <3>1
      <4> HIDE DEF Token!Keys, Token!Times
      <4> QED BY <3>1, <4>1, <4>2, <4>3, TokenIsJudged
    <3> QED BY <3>2 DEF TokenIsRight
  <2> HIDE DEF taken, waits
  <2>6. /\ request'[r] \in Token!RequestTypes /\ TokenIsTrue(request'[r])
        /\ TokenIsRight(request'[r], began, ended)
    BY <2>1, <2>3, <2>4, <2>5
  <2> QED BY <1>0, <2>1, <2>2, <2>6, TokenRequestSteps
<1>5. ASSUME NEW r \in Calls, Token!Answer(r) \/ Token!Fail(r) PROVE Token!IInv'
  <2> DEFINE answered == [request[r] EXCEPT !.pc = "answered", !.got = signer]
             failed == [request[r] EXCEPT !.pc = "failed"]
  <2>1. /\ UNCHANGED <<signer, began, ended, cache, now>>
        /\ request' = [request EXCEPT ![r] = request'[r]]
        /\ request'[r] = answered \/ request'[r] = failed
    BY <1>0, <1>5 DEF Token!Answer, Token!Fail
  <2>2. Token!CachesAreTrue'
    BY <2>1 DEF Token!IInv, Token!CachesAreTrue, Token!WasInUse
  <2>3. answered \in Token!RequestTypes /\ failed \in Token!RequestTypes
    <3>1. request[r] \in Token!RequestTypes /\ signer \in 0..MaxKeys
      BY <1>0
    <3> QED BY <3>1 DEF Token!RequestTypes
  <2>4. Token!WasInUse(signer, request[r].seen)
    <3>1. request[r].seen \in 0..TokenHorizon BY <1>0 DEF Token!RequestTypes
    <3>2. request[r].seen <= now BY <1>1 DEF TokenIsTrue
    <3>3. ended[signer] = TokenHorizon + 1 BY <1>0 DEF Token!IInv, Token!KeysFollow
    <3> QED BY <1>a, <3>1, <3>2, <3>3 DEF Token!WasInUse
  <2>5. TokenIsTrue(answered) /\ TokenIsTrue(failed)
    BY <1>0, <1>1, <2>4 DEF TokenIsTrue, Token!RequestTypes
  <2>6. TokenIsRight(answered, began, ended) /\ TokenIsRight(failed, began, ended)
    BY <1>0 DEF TokenIsRight, Token!RequestTypes
  <2> HIDE DEF answered, failed
  <2>7. /\ request'[r] \in Token!RequestTypes /\ TokenIsTrue(request'[r])
        /\ TokenIsRight(request'[r], began, ended)
    BY <2>1, <2>3, <2>5, <2>6
  <2> QED BY <1>0, <2>1, <2>2, <2>7, TokenRequestSteps
<1>6. ASSUME NEW r \in Calls, Token!Receive(r) PROVE Token!IInv'
  <2> DEFINE old == request[r]
             judged == [old EXCEPT !.pc = "judged", !.judged = now, !.known = (old.got = old.token)]
  <2>1. /\ UNCHANGED <<signer, began, ended, now>> /\ old.pc = "answered"
        /\ cache' = [cache EXCEPT ![old.at] = [key |-> old.got, since |-> old.seen]]
        /\ request' = [request EXCEPT ![r] = judged]
    BY <1>6 DEF Token!Receive, Token!Judged
  <2>2. old \in Token!RequestTypes
    BY <1>0
  <2>3. /\ old.got \in 1..MaxKeys /\ old.token \in 1..MaxKeys /\ old.seen \in 0..TokenHorizon
        /\ old.token <= signer /\ Token!WasInUse(old.got, old.seen) /\ old.seen <= now
    <3>1. old.got # 0 /\ old.token <= signer /\ Token!WasInUse(old.got, old.seen) /\ old.seen <= now
      BY <1>1, <2>1 DEF TokenIsTrue
    <3>2. old.got \in 0..MaxKeys /\ old.token \in 1..MaxKeys /\ old.seen \in 0..TokenHorizon
      BY <2>2 DEF Token!RequestTypes
    <3> QED BY <1>a, <3>1, <3>2
  <2>4. [key |-> old.got, since |-> old.seen] \in Token!Caches
    BY <1>0, <2>3 DEF Token!Caches
  <2>5. cache' \in [Processes -> Token!Caches] /\ Token!CachesAreTrue'
    BY <1>0, <2>1, <2>3, <2>4 DEF Token!IInv, Token!CachesAreTrue, Token!WasInUse
  <2>6. judged \in Token!RequestTypes
    BY <1>0, <2>2 DEF Token!RequestTypes
  <2>7. /\ judged.pc = "judged" /\ judged.judged = now /\ judged.seen = old.seen
        /\ judged.token = old.token /\ judged.known = (old.got = old.token)
    BY <2>2 DEF Token!RequestTypes
  <2>8. /\ old.got = old.token => ended[old.token] + Hour >= old.seen
        /\ old.got # old.token => began[old.token] + Hour >= old.seen \/ ended[old.token] <= now
    <3>1. old.seen + Hour >= old.seen
      BY <1>a, <2>3
    <3>2. Token!TypeOK /\ Token!KeysFollow BY DEF Token!IInv
    <3> QED BY <2>3, <3>1, <3>2, TokenIsJudged
  <2>9. TokenIsTrue(judged) /\ TokenIsRight(judged, began, ended)
    <3> HIDE DEF judged, old
    <3>1. TokenIsTrue(judged)
      BY <1>0, <2>3, <2>7 DEF TokenIsTrue
    <3>2. TokenIsRight(judged, began, ended)
      BY <2>7, <2>8 DEF TokenIsRight
    <3> QED BY <3>1, <3>2
  <2>10. request'[r] = judged /\ request' = [request EXCEPT ![r] = request'[r]]
    BY <1>0, <2>1
  <2> HIDE DEF judged, old
  <2> QED BY <2>1, <2>5, <2>6, <2>9, <2>10, TokenRequestSteps
<1>7. CASE UNCHANGED Token!vars
  BY <1>1, <1>7, TokensAreRightNext
  DEF Token!vars, Token!IInv, Token!TypeOK, Token!KeysFollow, Token!CachesAreTrue,
      Token!RequestsAreTrue, Token!WasInUse
<1> QED BY <1>2, <1>3, <1>4, <1>5, <1>6, <1>7 DEF Token!Next

-----------------------------------------------------------------------------
(* Link codes (TelegramLink).                                              *)

\* A command is told something, and it was all.
LEMMA LinkTells ==
  ASSUME PartsAssumption, Link!IInv, NEW s \in Commands, NEW what, Link!Tell(s, what),
         UNCHANGED <<v1, v2, v3, v6>>, v4[s] # Link!NoStart
  PROVE  Link!IInv' /\ Link!Serves
<1> DEFINE code == v2  start == v4  crossed == v6
<1> USE DEF Link!IInv, Link!TypeOK, Link!StartsAreWhole, Link!NoStart, PartsAssumption
<1>1. start' = [start EXCEPT ![s] = Link!NoStart] /\ DOMAIN v5' = Chats
  BY DEF Link!Tell
<1>2. Link!TypeOK' /\ Link!StartsAreWhole'
  BY <1>1
<1>3. Link!JudgedIsGood'
  <2> SUFFICES ASSUME ~crossed PROVE Link!JudgedIsGood'
    BY DEF Link!JudgedIsGood
  <2>1. start'[s] = Link!NoStart /\ \A r \in Commands \ {s} : start'[r] = start[r]
    BY <1>1
  <2>2. \A r \in Commands : start'[r].pc = "judged" => code'[start'[r].code] # "used"
    BY <2>1 DEF Link!JudgedIsGood
  <2>3. \A q, r \in Commands : start'[q] # Link!NoStart /\ start'[q].code = start'[r].code => q = r
    BY <2>1 DEF Link!JudgedIsGood
  <2> QED BY <2>2, <2>3 DEF Link!JudgedIsGood
<1>4. Link!Serves
  BY DEF Link!Serves
<1> QED BY <1>2, <1>3, <1>4

\* The transaction that uses the code.
LEMMA LinkConsumes ==
  ASSUME PartsAssumption, Link!IInv, NEW s \in Commands, Link!Consume(s)
  PROVE  Link!IInv' /\ Link!Serves
<1> DEFINE chat == v1  code == v2  owner == v3  start == v4  told == v5  crossed == v6
           c == start[s].chat  k == start[s].code  u == owner[k]
<1> USE DEF Link!IInv, Link!TypeOK, Link!StartsAreWhole, Link!NoStart, PartsAssumption
<1>1. start[s].pc = "judged" /\ c \in Chats /\ k \in Codes /\ start[s] # Link!NoStart
  BY DEF Link!Consume
<1>2. CASE \E v \in Users \ {u} : chat[v] = c
  BY <1>1, <1>2, LinkTells DEF Link!Consume
<1>3. CASE ~\E v \in Users \ {u} : chat[v] = c
  <2>1. /\ chat' = [chat EXCEPT ![u] = c] /\ code' = [code EXCEPT ![k] = "used"]
        /\ start' = [start EXCEPT ![s] = Link!NoStart]
        /\ told' = [told EXCEPT ![c] = "linked"] /\ UNCHANGED <<owner, crossed>>
    BY <1>3 DEF Link!Consume, Link!Tell
  <2>2. Link!TypeOK' /\ Link!StartsAreWhole'
    BY <1>1, <2>1
  <2>3. Link!JudgedIsGood'
    <3> SUFFICES ASSUME ~crossed PROVE Link!JudgedIsGood'
      BY <2>1 DEF Link!JudgedIsGood
    <3>1. start'[s] = Link!NoStart /\ \A r \in Commands \ {s} : start'[r] = start[r]
      BY <2>1
    <3>2. ASSUME NEW r \in Commands, start'[r].pc = "judged"
          PROVE  code'[start'[r].code] # "used"
      <4>1. r # s /\ start[r].pc = "judged" /\ start'[r] = start[r] /\ start[r] # Link!NoStart
        BY <3>1, <3>2
      <4>2. start[r].code \in Codes /\ start[r].code # k /\ code[start[r].code] # "used"
        BY <1>1, <4>1 DEF Link!JudgedIsGood
      <4> QED BY <2>1, <4>1, <4>2
    <3>3. \A q, r \in Commands : start'[q] # Link!NoStart /\ start'[q].code = start'[r].code => q = r
      BY <3>1 DEF Link!JudgedIsGood
    <3> QED BY <3>2, <3>3 DEF Link!JudgedIsGood
  <2>4. Link!Serves
    BY <1>1, <1>3, <2>1 DEF Link!JudgedIsGood, Link!Serves
  <2> QED BY <2>2, <2>3, <2>4
<1> QED BY <1>2, <1>3

LEMMA LinkInv ==
  ASSUME PartsAssumption, Link!IInv, [Link!Next]_(Link!vars)
  PROVE  Link!IInv' /\ Link!Serves
<1> DEFINE code == v2  start == v4
<1> USE DEF Link!IInv, Link!TypeOK, Link!StartsAreWhole, Link!NoStart, PartsAssumption
<1>1. ASSUME NEW u \in Users, Link!Unlink(u) PROVE Link!IInv' /\ Link!Serves
  BY <1>1 DEF Link!Unlink, Link!JudgedIsGood, Link!Serves
<1>2. ASSUME NEW u \in Users, NEW k \in Codes, Link!LinkToken(u, k)
      PROVE  Link!IInv' /\ Link!Serves
  BY <1>2 DEF Link!LinkToken, Link!JudgedIsGood, Link!Serves
<1>3. ASSUME NEW k \in Codes, Link!Expire(k) PROVE Link!IInv' /\ Link!Serves
  BY <1>3 DEF Link!Expire, Link!JudgedIsGood, Link!Serves
<1>4. ASSUME NEW s \in Commands, NEW c \in Chats, NEW k \in Codes, Link!Send(s, c, k)
      PROVE  Link!IInv' /\ Link!Serves
  BY <1>4 DEF Link!Send, Link!JudgedIsGood, Link!Serves
<1>5. ASSUME NEW s \in Commands, Link!Judge(s) PROVE Link!IInv' /\ Link!Serves
  <2>1. CASE code[start[s].code] # "fresh"
    BY <1>5, <2>1, LinkTells DEF Link!Judge
  <2>2. CASE code[start[s].code] = "fresh"
    <3>1. /\ start' = [start EXCEPT ![s].pc = "judged"]
          /\ start[s].pc = "sent" /\ UNCHANGED <<v1, code, v3, v5, v6>>
      BY <1>5, <2>2 DEF Link!Judge
    <3>2. Link!TypeOK' /\ Link!StartsAreWhole'
      BY <3>1
    <3>3. Link!JudgedIsGood'
      BY <2>2, <3>1 DEF Link!JudgedIsGood
    <3> QED BY <3>1, <3>2, <3>3 DEF Link!Serves
  <2> QED BY <2>1, <2>2
<1>6. ASSUME NEW s \in Commands, Link!Fail(s) PROVE Link!IInv' /\ Link!Serves
  BY <1>6, LinkTells DEF Link!Fail
<1>7. CASE UNCHANGED Link!vars
  BY <1>7 DEF Link!vars, Link!JudgedIsGood, Link!Serves
<1> QED BY <1>1, <1>2, <1>3, <1>4, <1>5, <1>6, <1>7, LinkConsumes DEF Link!Next

-----------------------------------------------------------------------------
(* The lookup by phone (PlayerLookup).                                     *)

LEMMA LookupInv ==
  ASSUME PartsAssumption, Lookup!IInv, [Lookup!Next]_(Lookup!vars)
  PROVE  Lookup!IInv' /\ Lookup!AddsTheOneFound
<1> DEFINE phone == v2  found == v3  lookup == v5  stale == v8
<1> USE DEF Lookup!IInv, Lookup!TypeOK, Lookup!AddsTheOneFound, PartsAssumption
<1>1. CASE Lookup!Open \/ Lookup!Close \/ Lookup!Forget
  BY <1>1 DEF Lookup!Open, Lookup!Close, Lookup!Forget
<1>2. CASE Lookup!Fire
  BY <1>2 DEF Lookup!Fire, Lookup!Look
<1>3. CASE Lookup!Submit
  BY <1>3 DEF Lookup!Submit
<1>4. ASSUME NEW p \in Phones \cup {None}, Lookup!Type(p)
      PROVE  Lookup!IInv' /\ Lookup!AddsTheOneFound
  BY <1>4 DEF Lookup!Type
<1>5. ASSUME NEW p \in Phones, Lookup!Leave(p)
      PROVE  Lookup!IInv' /\ Lookup!AddsTheOneFound
  BY <1>5 DEF Lookup!Leave
<1>6. ASSUME NEW l \in Calls, Lookup!Answer(l)
      PROVE  Lookup!IInv' /\ Lookup!AddsTheOneFound
  <2>1. /\ UNCHANGED <<v1, phone, v4, v6, v7>> /\ lookup' = [lookup EXCEPT ![l] = None]
        /\ \/ /\ lookup[l] \in Accounts /\ found' = lookup[l]
              /\ stale' = (stale \/ phone # lookup[l])
           \/ UNCHANGED <<found, stale>>
    BY <1>6 DEF Lookup!Answer
  <2>2. stale' \in BOOLEAN
    BY <2>1
  <2>3. found' \in Accounts \cup {None} /\ lookup' \in [Calls -> Phones \cup {None}]
    BY <2>1
  <2>4. ~stale' => found' \in {None, phone'}
    BY <2>1
  <2>5. Lookup!AddsTheOneFound
    BY <2>1
  <2> QED BY <2>1, <2>2, <2>3, <2>4, <2>5
<1>7. CASE UNCHANGED Lookup!vars
  BY <1>7 DEF Lookup!vars
<1> QED BY <1>1, <1>2, <1>3, <1>4, <1>5, <1>6, <1>7 DEF Lookup!Next

-----------------------------------------------------------------------------
(* The score board: what ScoreBoard_proofs says, of the variables of Parts. *)

\* The definitions there are those here; what they say is expanded on both sides.
LEMMA BoardAgree ==
  /\ BoardProof!Setup
  /\ Board!Init => BoardProof!Init
  /\ [Board!Next]_(Board!vars) => [BoardProof!Next]_(BoardProof!vars)
  /\ BoardProof!IInv => Board!TypeOK /\ Board!TablesAreUsed /\ Board!ReadyIsAnnounced
  /\ BoardProof!NobodyIsStranded => Board!NobodyIsStranded
<1>1. Board!GenerateSingle(Field) = BoardProof!GenerateSingle(Field)
  BY Zenon
  DEF Board!GenerateSingle, BoardProof!GenerateSingle, Board!AdvanceByes,
      BoardProof!AdvanceByes, Board!Knockout, BoardProof!Knockout, Board!FirstRound,
      BoardProof!FirstRound, Board!EmptyRound, BoardProof!EmptyRound, Board!EmptyMatch,
      BoardProof!EmptyMatch, Board!Pairing, BoardProof!Pairing, Board!SnakeSeed,
      BoardProof!SnakeSeed, Board!NextPow2, BoardProof!NextPow2, Board!Log2, BoardProof!Log2,
      Board!Nobody, BoardProof!Nobody, Board!FSets!FoldSet, BoardProof!FSets!FoldSet,
      Board!FSets!MapThenFoldSet, BoardProof!FSets!MapThenFoldSet, Board!Seqs!FlattenSeq,
      BoardProof!Seqs!FlattenSeq, Board!Advance, BoardProof!Advance, Board!Seat,
      BoardProof!Seat, Board!NextMatch, BoardProof!NextMatch, Board!NextSide,
      BoardProof!NextSide, Board!MatchAt, BoardProof!MatchAt, Board!Position,
      BoardProof!Position, Board!RoundOf, BoardProof!RoundOf, Board!Cardinality,
      BoardProof!Cardinality
<1>3. BoardProof!Setup
  BY PartsAssumption, RegistrationAssumption
  DEF PartsAssumption, RegistrationAssumption, BoardProof!Setup
<1>4. Board!Init => BoardProof!Init
  BY <1>1, Zenon
  DEF Board!Init, BoardProof!Init, Board!Messages, BoardProof!Messages, Board!Players,
      BoardProof!Players, Board!Idle, BoardProof!Idle, Board!PickAssignments,
      BoardProof!PickAssignments, Board!Labelled, BoardProof!Labelled, Board!Rank,
      BoardProof!Rank, Board!Tables, BoardProof!Tables, Board!NoTable, BoardProof!NoTable,
      Board!Occupied, BoardProof!Occupied, Board!ReadyMatches, BoardProof!ReadyMatches,
      Board!Ready, BoardProof!Ready, Board!Nobody, BoardProof!Nobody, Board!Cardinality,
      BoardProof!Cardinality
<1>5. [Board!Next]_(Board!vars) => [BoardProof!Next]_(BoardProof!vars)
  BY Zenon
  DEF Board!Next, BoardProof!Next, Board!Step, BoardProof!Step, Board!Score, BoardProof!Score,
      Board!Open, BoardProof!Open, Board!Commit, BoardProof!Commit, Board!CommitFails,
      BoardProof!CommitFails, Board!Reassign, BoardProof!Reassign, Board!Assign,
      BoardProof!Assign, Board!AssignFails, BoardProof!AssignFails, Board!Load,
      BoardProof!Load, Board!Send, BoardProof!Send, Board!Mark, BoardProof!Mark,
      Board!Abandon, BoardProof!Abandon, Board!End, BoardProof!End, Board!Answer,
      BoardProof!Answer, Board!Replace, BoardProof!Replace, Board!MarksAfter,
      BoardProof!MarksAfter, Board!Crossed, BoardProof!Crossed, Board!Locked,
      BoardProof!Locked, Board!Matches, BoardProof!Matches, Board!vars, BoardProof!vars,
      Board!rows, BoardProof!rows, Board!PickAssignments, BoardProof!PickAssignments,
      Board!Labelled, BoardProof!Labelled, Board!Rank, BoardProof!Rank, Board!Tables,
      BoardProof!Tables, Board!NoTable, BoardProof!NoTable, Board!Occupied,
      BoardProof!Occupied, Board!ReadyMatches, BoardProof!ReadyMatches, Board!Ready,
      BoardProof!Ready, Board!Idle, BoardProof!Idle, Board!Messages, BoardProof!Messages,
      Board!Players, BoardProof!Players, Board!ApplySingle, BoardProof!ApplySingle,
      Board!SetResult, BoardProof!SetResult, Board!Win, BoardProof!Win, Board!Sides,
      BoardProof!Sides, Board!Advance, BoardProof!Advance, Board!Seat, BoardProof!Seat,
      Board!NextMatch, BoardProof!NextMatch, Board!NextSide, BoardProof!NextSide,
      Board!MatchAt, BoardProof!MatchAt, Board!Position, BoardProof!Position, Board!RoundOf,
      BoardProof!RoundOf, Board!Cardinality, BoardProof!Cardinality, Board!Nobody,
      BoardProof!Nobody
<1>6. BoardProof!IInv => Board!TypeOK /\ Board!TablesAreUsed /\ Board!ReadyIsAnnounced
  <2>1. BoardProof!TypeOK => Board!TypeOK
    BY Zenon
    DEF Board!TypeOK, BoardProof!TypeOK, Board!Match, BoardProof!Match, Board!Stages,
        BoardProof!Stages, Board!Matches, BoardProof!Matches, Board!Tables, BoardProof!Tables,
        Board!NoTable, BoardProof!NoTable, Board!Pcs, BoardProof!Pcs
  <2>2. BoardProof!TablesAreUsed => Board!TablesAreUsed
    BY Zenon
    DEF Board!TablesAreUsed, BoardProof!TablesAreUsed, Board!TablesAreExclusive,
        BoardProof!TablesAreExclusive, Board!NoTableIsIdle, BoardProof!NoTableIsIdle,
        Board!TablesAreBusy, BoardProof!TablesAreBusy, Board!Quiet, BoardProof!Quiet,
        Board!InTurn, BoardProof!InTurn, Board!ReadyMatches, BoardProof!ReadyMatches,
        Board!Ready, BoardProof!Ready, Board!Nobody, BoardProof!Nobody, Board!NoTable,
        BoardProof!NoTable, Board!Tables, BoardProof!Tables, Board!Occupied,
        BoardProof!Occupied
  <2>3. BoardProof!ReadyIsAnnounced => Board!ReadyIsAnnounced
    BY Zenon
    DEF Board!ReadyIsAnnounced, BoardProof!ReadyIsAnnounced, Board!AllAreTold,
        BoardProof!AllAreTold, Board!Quiet, BoardProof!Quiet, Board!InTurn, BoardProof!InTurn,
        Board!ReadyMatches, BoardProof!ReadyMatches, Board!Ready, BoardProof!Ready,
        Board!Nobody, BoardProof!Nobody, Board!Players, BoardProof!Players, Board!Pairs,
        BoardProof!Pairs
  <2> QED BY <2>1, <2>2, <2>3, BoardProof!InvariantSays
<1>7. BoardProof!NobodyIsStranded => Board!NobodyIsStranded
  BY Zenon
  DEF Board!NobodyIsStranded, BoardProof!NobodyIsStranded,
      Board!PlayUncorrected!EveryoneHasOnePlace, BoardProof!PlayUncorrected!EveryoneHasOnePlace,
      Board!PlayUncorrected!SomeoneCanPlay, BoardProof!PlayUncorrected!SomeoneCanPlay,
      Board!PlayUncorrected!Over, BoardProof!PlayUncorrected!Over,
      Board!PlayUncorrected!Plays, BoardProof!PlayUncorrected!Plays,
      Board!PlayUncorrected!AllClosed, BoardProof!PlayUncorrected!AllClosed,
      Board!PlayUncorrected!Closed, BoardProof!PlayUncorrected!Closed,
      Board!PlayUncorrected!Final, BoardProof!PlayUncorrected!Final,
      Board!PlayUncorrected!Lives, BoardProof!PlayUncorrected!Lives,
      Board!PlayUncorrected!Losses, BoardProof!PlayUncorrected!Losses,
      Board!PlayUncorrected!Waiting, BoardProof!PlayUncorrected!Waiting,
      Board!PlayUncorrected!Entrants, BoardProof!PlayUncorrected!Entrants,
      Board!PlayUncorrected!Matches, BoardProof!PlayUncorrected!Matches,
      Board!PlayUncorrected!Lost, BoardProof!PlayUncorrected!Lost,
      Board!PlayUncorrected!Loser, BoardProof!PlayUncorrected!Loser,
      Board!PlayUncorrected!Players, BoardProof!PlayUncorrected!Players,
      Board!PlayUncorrected!Ready, BoardProof!PlayUncorrected!Ready,
      Board!PlayUncorrected!Nobody, BoardProof!PlayUncorrected!Nobody,
      Board!PlayUncorrected!Cardinality, BoardProof!PlayUncorrected!Cardinality,
      Board!Tournament, BoardProof!Tournament
<1> QED BY <1>3, <1>4, <1>5, <1>6, <1>7

\* So are those of the bracket that is played.
LEMMA BoardPlaysAlike ==
  /\ BoardProof!Play!Init => Board!Play!Init
  /\ BoardProof!PlaysOn => Board!PlaysOn
<1>1. Board!Tournament = BoardProof!Tournament
  BY Zenon DEF Board!Tournament, BoardProof!Tournament
<1>2. Board!Play!GenerateSingle(Field) = BoardProof!Play!GenerateSingle(Field)
  BY Zenon
  DEF Board!Play!GenerateSingle, BoardProof!Play!GenerateSingle, Board!Play!AdvanceByes,
      BoardProof!Play!AdvanceByes, Board!Play!Knockout, BoardProof!Play!Knockout,
      Board!Play!FirstRound, BoardProof!Play!FirstRound, Board!Play!EmptyRound,
      BoardProof!Play!EmptyRound, Board!Play!EmptyMatch, BoardProof!Play!EmptyMatch,
      Board!Play!Pairing, BoardProof!Play!Pairing, Board!Play!SnakeSeed,
      BoardProof!Play!SnakeSeed, Board!Play!NextPow2, BoardProof!Play!NextPow2,
      Board!Play!Log2, BoardProof!Play!Log2, Board!Play!Nobody, BoardProof!Play!Nobody,
      Board!Play!FSets!FoldSet, BoardProof!Play!FSets!FoldSet,
      Board!Play!FSets!MapThenFoldSet, BoardProof!Play!FSets!MapThenFoldSet,
      Board!Play!Seqs!FlattenSeq, BoardProof!Play!Seqs!FlattenSeq, Board!Play!Advance,
      BoardProof!Play!Advance, Board!Play!Seat, BoardProof!Play!Seat, Board!Play!NextMatch,
      BoardProof!Play!NextMatch, Board!Play!NextSide, BoardProof!Play!NextSide,
      Board!Play!MatchAt, BoardProof!Play!MatchAt, Board!Play!Position,
      BoardProof!Play!Position, Board!Play!RoundOf, BoardProof!Play!RoundOf,
      Board!Play!Cardinality, BoardProof!Play!Cardinality
<1>3. BoardProof!Play!Init => Board!Play!Init
  BY <1>1, <1>2
  DEF Board!Play!Init, BoardProof!Play!Init, Board!Play!GenerateBracket,
      BoardProof!Play!GenerateBracket, Board!Tournament
<1>4. \A x, win : Board!Play!ApplySingle(v1, x, win) = BoardProof!Play!ApplySingle(v1, x, win)
  <2>1. \A ms, x : Board!Play!Advance(ms, x) = BoardProof!Play!Advance(ms, x)
    BY Zenon
    DEF Board!Play!Advance, BoardProof!Play!Advance, Board!Play!Seat, BoardProof!Play!Seat,
        Board!Play!NextMatch, BoardProof!Play!NextMatch, Board!Play!NextSide,
        BoardProof!Play!NextSide, Board!Play!MatchAt, BoardProof!Play!MatchAt,
        Board!Play!Position, BoardProof!Play!Position, Board!Play!RoundOf,
        BoardProof!Play!RoundOf, Board!Play!Cardinality, BoardProof!Play!Cardinality
  <2>2. \A ms, x, win : Board!Play!SetResult(ms, x, win) = BoardProof!Play!SetResult(ms, x, win)
    BY Zenon DEF Board!Play!SetResult, BoardProof!Play!SetResult
  <2> QED BY <2>1, <2>2 DEF Board!Play!ApplySingle, BoardProof!Play!ApplySingle
<1>5. \A x, win :
        Board!Play!ApplyMatchResult(Board!Tournament.format, v1, x, win, Board!Tournament.field) =
        BoardProof!Play!ApplyMatchResult(Board!Tournament.format, v1, x, win, Board!Tournament.field)
  <2>1. Board!Tournament.format = "single"
    BY DEF Board!Tournament
  <2> QED BY <1>4, <2>1 DEF Board!Play!ApplyMatchResult, BoardProof!Play!ApplyMatchResult
<1>6. BoardProof!Play!Next => Board!Play!Next
  <2>1. \A x : BoardProof!Play!Playable(x) => Board!Play!Playable(x)
    BY Zenon
    DEF Board!Play!Playable, BoardProof!Play!Playable, Board!Play!IsFirstReady,
        BoardProof!Play!IsFirstReady, Board!Play!Matches, BoardProof!Play!Matches,
        Board!Play!Ready, BoardProof!Play!Ready, Board!Play!Nobody, BoardProof!Play!Nobody,
        Board!Tournament, BoardProof!Tournament
  <2>2. BoardProof!Play!Wins \subseteq Board!Play!Wins
    BY DEF Board!Play!Wins, BoardProof!Play!Wins, Board!Play!Sides, BoardProof!Play!Sides,
           Board!Play!Win, BoardProof!Play!Win, Board!Tournament, BoardProof!Tournament
  <2>3. BoardProof!Play!Matches = Board!Play!Matches
    BY Zenon DEF Board!Play!Matches, BoardProof!Play!Matches
  <2> QED BY <1>1, <1>5, <2>1, <2>2, <2>3, Zenon
          DEF Board!Play!Next, BoardProof!Play!Next, Board!Play!Score, BoardProof!Play!Score
<1>7. BoardProof!PlaysOn => Board!PlaysOn
  BY <1>6 DEF Board!PlaysOn, BoardProof!PlaysOn, Board!InTurn, BoardProof!InTurn
<1> QED BY <1>3, <1>7

LEMMA BoardInv ==
  ASSUME BoardProof!IInv, BoardProof!BracketsAreSound, [Board!Next]_(Board!vars)
  PROVE  BoardProof!IInv' /\ BoardProof!BracketsAreSound' /\ BoardProof!PlaysOn
<1>1. /\ BoardProof!Setup /\ [BoardProof!Next]_(BoardProof!vars)
      /\ Field \in Nat /\ Field >= 2
  BY BoardAgree DEF BoardProof!Setup
<1> QED BY <1>1, BoardProof!NextKeeps, BoardProof!SoundStep, BoardProof!StepPlays

-----------------------------------------------------------------------------
(* The takings of a club (ClubRecords).                                    *)

LEMMA RecordsBegin == ASSUME PartsAssumption, Records!Init PROVE Records!IInv
<1>1. Records!TypeOK
  BY DEF Records!Init, Records!TypeOK, Records!NoPost, PartsAssumption
<1> QED BY <1>1 DEF Records!Init, Records!IInv, Records!RowsAreSessions, Records!OldIsOutrun,
                    Records!NoPost

LEMMA RecordsInv ==
  ASSUME PartsAssumption, Records!IInv, [Records!Next]_(Records!vars)
  PROVE  Records!IInv'
<1> DEFINE rows == v1  over == v2  told == v3  toldShift == v4  shift == v5  record == v6
           post == v7
           Posted == [kind : {"none", "session", "shift"}, of : Nat, outrun : BOOLEAN]
           Fits(q, o, n) == CASE q.kind = "session" -> q.of \in o
                              [] q.kind = "shift" -> q.of \in 1..n
                              [] OTHER -> q = Records!NoPost
<1>a. v5 \in Nat
  <2>1. v5 \in 0..MaxShift /\ MaxShift \in Nat
    BY DEF Records!IInv, Records!TypeOK, PartsAssumption
  <2> QED BY <2>1
<1>b. Played \subseteq Nat BY DEF PartsAssumption
<1>c. ASSUME NEW k \in {"session", "shift"}, NEW n \in Nat, NEW x,
             x = [Records!NoPost EXCEPT !.kind = k, !.of = n]
      PROVE  x \in Posted /\ x.kind = k /\ x.of = n
  <2>1. x = [kind |-> k, of |-> n, outrun |-> FALSE] BY <1>c DEF Records!NoPost
  <2> QED BY <2>1
<1> USE DEF Records!IInv, Records!TypeOK, Records!RowsAreSessions, Records!OldIsOutrun
<1>1. Records!NoPost \in Posted /\ Records!NoPost.kind = "none" BY DEF Records!NoPost
<1>2. CASE UNCHANGED Records!vars
  BY <1>2 DEF Records!vars
<1>3. ASSUME NEW s \in Played, Records!Play(s) PROVE Records!IInv'
  <2> USE <1>3 DEF Records!Play
  <2>1. \A p \in Calls : Fits(post[p], over, shift) => Fits(post[p], over', shift)
    OBVIOUS
  <2> QED BY <2>1
<1>4. CASE Records!Work
  <2> USE <1>4 DEF Records!Work
  <2>1. shift' \in 0..MaxShift /\ shift' >= shift BY DEF PartsAssumption
  <2>2. \A p \in Calls : Fits(post[p], over, shift) => Fits(post[p], over, shift')
    BY <2>1
  <2> QED BY <2>1, <2>2
<1>5. ASSUME NEW p \in Calls, NEW s \in Played, Records!SendSession(p, s) PROVE Records!IInv'
  <2> USE <1>5 DEF Records!SendSession
  <2>1. post' = [post EXCEPT ![p] = [Records!NoPost EXCEPT !.kind = "session", !.of = s]] OBVIOUS
  <2>2. s \in Nat /\ post'[p] \in Posted /\ post'[p].kind = "session" /\ post'[p].of = s
    <3>1. post'[p] = [Records!NoPost EXCEPT !.kind = "session", !.of = s] BY <2>1
    <3>2. s \in Nat BY <1>b
    <3> HIDE DEF Posted
    <3>3. post'[p] \in Posted /\ post'[p].kind = "session" /\ post'[p].of = s BY <3>1, <3>2, <1>c
    <3> QED BY <3>2, <3>3
  <2>3. \A q \in Calls \ {p} : post'[q] = post[q] BY <2>1
  <2>4. post' \in [Calls -> Posted] BY <2>1, <2>2, <2>3
  <2>5. \A q \in Calls : Fits(post'[q], over, shift) BY <2>2, <2>3
  <2> QED BY <2>2, <2>3, <2>4, <2>5
<1>6. ASSUME NEW p \in Calls, Records!SendShift(p) PROVE Records!IInv'
  <2> USE <1>6 DEF Records!SendShift
  <2>1. post' = [post EXCEPT ![p] = [Records!NoPost EXCEPT !.kind = "shift", !.of = shift]] OBVIOUS
  <2>2. post'[p] \in Posted /\ post'[p].kind = "shift" /\ post'[p].of = shift
    <3>1. post'[p] = [Records!NoPost EXCEPT !.kind = "shift", !.of = shift] BY <2>1
    <3> QED BY <3>1, <1>a, <1>c
  <2>3. \A q \in Calls \ {p} : post'[q] = post[q] BY <2>1
  <2>4. post' \in [Calls -> Posted] BY <2>1, <2>2, <2>3
  <2>5. \A q \in Calls : Fits(post'[q], over, shift) BY <2>2, <2>3
  <2> QED BY <2>2, <2>3, <2>4, <2>5
<1>7. ASSUME NEW p \in Calls, NEW heard \in BOOLEAN, Records!Insert(p, heard) PROVE Records!IInv'
  <2> DEFINE s == post[p].of
  <2> USE <1>7 DEF Records!Insert
  <2>1. s \in over /\ s \in Played OBVIOUS
  <2>2. /\ rows' \in [Played -> Nat] /\ rows'[s] = 1
        /\ \A r \in Played \ {s} : rows'[r] = rows[r]
    BY <2>1
  <2>3. post' \in [Calls -> Posted] /\ \A q \in Calls : post'[q] \in {post[q], Records!NoPost}
    BY <1>1
  <2>4. \A q \in Calls : Fits(post'[q], over, shift) BY <1>1, <2>3
  <2>5. told' \subseteq told \cup {s} OBVIOUS
  <2> QED BY <1>1, <2>1, <2>2, <2>3, <2>4, <2>5
<1>8. ASSUME NEW p \in Calls, NEW heard \in BOOLEAN, Records!Upsert(p, heard) PROVE Records!IInv'
  <2> USE <1>8 DEF Records!Upsert, Records!Hears
  <2>1. record' = post[p].of /\ post[p].of \in 1..shift OBVIOUS
  <2>2. toldShift' \in 0..shift BY <2>1
  <2>3. \A q \in Calls : post'[q] =
          IF q = p THEN Records!NoPost
          ELSE IF post[q].kind = "shift" /\ post[q].of < post[p].of
               THEN [post[q] EXCEPT !.outrun = TRUE] ELSE post[q]
    OBVIOUS
  <2>4. ASSUME NEW q \in Calls
        PROVE  /\ post'[q] \in Posted /\ Fits(post'[q], over, shift)
               /\ post'[q].kind = "shift" /\ post'[q].of < record' => post'[q].outrun
    <3>1. post[q] \in Posted /\ Fits(post[q], over, shift) OBVIOUS
    <3>2. CASE q = p BY <1>1, <2>3, <3>2
    <3>3. CASE q # p /\ post[q].kind = "shift" /\ post[q].of < post[p].of
      <4>1. post'[q] = [post[q] EXCEPT !.outrun = TRUE] BY <2>3, <3>3
      <4>2. /\ post'[q] \in Posted /\ post'[q].kind = post[q].kind /\ post'[q].of = post[q].of
            /\ post'[q].outrun
        BY <3>1, <4>1
      <4> HIDE DEF Posted
      <4> QED BY <3>1, <3>3, <4>2
    <3>4. CASE q # p /\ ~(post[q].kind = "shift" /\ post[q].of < post[p].of)
      <4>1. post'[q] = post[q] BY <2>3, <3>4
      <4> QED BY <2>1, <3>1, <3>4, <4>1
    <3> QED BY <3>2, <3>3, <3>4
  <2>5. post' \in [Calls -> Posted] BY <2>4
  <2>6. Records!TypeOK'
    <3>1. v6' \in 0..shift BY <2>1
    <3>2. UNCHANGED <<v1, v2, v3, v5>> OBVIOUS
    <3> QED BY <2>2, <2>4, <2>5, <3>1, <3>2
  <2>7. Records!RowsAreSessions' OBVIOUS
  <2>8. Records!OldIsOutrun' BY <2>4
  <2> QED BY <2>6, <2>7, <2>8
<1>9. ASSUME NEW p \in Calls, Records!Lose(p) PROVE Records!IInv'
  <2> USE <1>9 DEF Records!Lose
  <2>1. post' \in [Calls -> Posted] /\ \A q \in Calls : post'[q] \in {post[q], Records!NoPost}
    BY <1>1
  <2>2. \A q \in Calls : Fits(post'[q], over, shift) BY <1>1, <2>1
  <2> QED BY <1>1, <2>1, <2>2
<1> QED BY <1>2, <1>3, <1>4, <1>5, <1>6, <1>7, <1>8, <1>9 DEF Records!Next

\* A step keeps the row of the shift ahead of what was told.
LEMMA RecordsKeepUp ==
  ASSUME PartsAssumption, Records!IInv, [Records!Next]_(Records!vars)
  PROVE  Records!KeepsUp
<1> USE DEF Records!IInv, Records!TypeOK, Records!OldIsOutrun, Records!KeepsUp
<1>1. ASSUME NEW p \in Calls, NEW heard \in BOOLEAN, Records!Upsert(p, heard) PROVE Records!KeepsUp
  <2>1. v6' = v7[p].of /\ v7[p].kind = "shift" /\ v7'[p] = Records!NoPost /\ v6' \in Nat
        /\ v4' \in {v4, v7[p].of}
    BY <1>1 DEF Records!Upsert, Records!Hears
  <2>2. v6' < v6 => v7[p].outrun BY <2>1
  <2> QED BY <2>1, <2>2
<1>2. CASE Records!vars' = Records!vars BY <1>2 DEF Records!vars
<1>3. v6 \in Nat BY DEF PartsAssumption
<1>4. ASSUME UNCHANGED <<v4, v6>> PROVE Records!KeepsUp BY <1>3, <1>4
<1>5. CASE Records!Next
  <2> HIDE DEF Records!IInv, Records!TypeOK, Records!OldIsOutrun, Records!KeepsUp
  <2>1. \/ \E p \in Calls, heard \in BOOLEAN : Records!Upsert(p, heard)
        \/ UNCHANGED <<v4, v6>>
    BY <1>5 DEF Records!Next, Records!Play, Records!Work, Records!SendSession,
                Records!SendShift, Records!Insert, Records!Lose
  <2> QED BY <1>1, <1>4, <2>1
<1> QED BY <1>2, <1>5

LEMMA CostsAdd ==
  ASSUME PartsAssumption, NEW S \in SUBSET Played
  PROVE  Records!MapThenSumSet(LAMBDA s : CostOf[s], S) = Total(CostOf, S)
<1> DEFINE it == CHOOSE f : f = [s \in SUBSET S |-> IF s = {} THEN 0 ELSE CostOf[Pick(s)] + f[s \ {Pick(s)}]]
<1>1. IsFiniteSet(S) /\ CostOf \in [Played -> Int]
  <2>1. IsFiniteSet(Played) /\ CostOf \in [Played -> Nat] BY DEF PartsAssumption
  <2>2. CostOf \in [Played -> Int] BY <2>1
  <2> QED BY <2>1, <2>2, FS_Subset
<1>2. AddsUp(it, CostOf, S) BY <1>1, FoldIsSum
<1>3. Records!MapThenSumSet(LAMBDA s : CostOf[s], S) = it[S]
  BY DEF Records!MapThenSumSet, Records!MapThenFoldSet, Pick
<1> HIDE DEF it
<1> QED BY <1>1, <1>2, <1>3, TotalIsSum

LEMMA RowsAdd ==
  ASSUME PartsAssumption, v1 \in [Played -> Nat], NEW S \in SUBSET Played,
         NEW w \in [Played -> Nat], \A s \in Played : w[s] = v1[s] * CostOf[s]
  PROVE  Records!Sum(S) = Total(w, S)
<1> DEFINE F(f) == [s \in SUBSET S |-> IF s = {} THEN 0 ELSE v1[Pick(s)] * CostOf[Pick(s)] + f[s \ {Pick(s)}]]
           G(f) == [s \in SUBSET S |-> IF s = {} THEN 0 ELSE w[Pick(s)] + f[s \ {Pick(s)}]]
           it == CHOOSE f : f = F(f)
<1>1. IsFiniteSet(S) /\ CostOf \in [Played -> Nat] BY FS_Subset DEF PartsAssumption
<1>2. w \in [Played -> Int] OBVIOUS
<1>3. \A f : F(f) = G(f)
  <2>1. \A s \in SUBSET S : s # {} => Pick(s) \in Played BY DEF Pick
  <2>2. \A s \in SUBSET S : s # {} => w[Pick(s)] = v1[Pick(s)] * CostOf[Pick(s)] BY <2>1
  <2> QED BY <2>2
<1>4. AddsUp(it, w, S)
  <2>1. PICK g \in [SUBSET S -> Int] : AddsUp(g, w, S) BY <1>1, <1>2, SumExists
  <2>2. g = G(g) BY <2>1 DEF AddsUp
  <2>3. g = F(g) BY <1>3, <2>2
  <2>4. it = F(it)
    <3> HIDE DEF F
    <3> QED BY <2>3
  <2>5. it = G(it) BY <1>3, <2>4
  <2> HIDE DEF it
  <2> QED BY <2>5 DEF AddsUp
<1>5. Records!Sum(S) = it[S]
  BY DEF Records!Sum, Records!MapThenSumSet, Records!MapThenFoldSet, Pick
<1> HIDE DEF it
<1> HIDE DEF F, G
<1>6. Total(w, S) = it[S]
  <2>1. S \in SUBSET Played /\ IsFiniteSet(S) BY <1>1
  <2> QED BY ONLY <1>2, <1>4, <2>1, TotalIsSum
<1> QED BY <1>2, <1>5, <1>6

LEMMA SummaryAdds ==
  ASSUME NEW D, NEW S, IsFiniteSet(D), NEW w \in [D -> Nat], Records!Summary(S) = w
  PROVE  Records!Takings(S) = Total(w, D)
<1>0. D \in SUBSET D /\ w \in [D -> Int] OBVIOUS
<1> DEFINE it == CHOOSE f : f = [s \in SUBSET D |-> IF s = {} THEN 0 ELSE w[Pick(s)] + f[s \ {Pick(s)}]]
<1>1. w \in [D -> Int] /\ DOMAIN w = D /\ D \in SUBSET D OBVIOUS
<1>2. AddsUp(it, w, D)
  <2>1. \A g : g = it => AddsUp(g, w, D) BY <1>0, FoldIsSum
  <2> QED BY <2>1
<1>3. Records!Takings(S) = it[D]
  BY <1>1 DEF Records!Takings, Records!MapThenSumSet, Records!MapThenFoldSet, Pick
<1> HIDE DEF it
<1> QED BY <1>1, <1>2, <1>3, TotalIsSum

LEMMA RecordsCardinality == \A S : Records!Cardinality(S) = Cardinality(S)
BY DEF Records!Cardinality, Cardinality

\* The days of the summary are the parts of what is kept.
LEMMA SummaryIsOfAll ==
  ASSUME NEW w \in [Played -> Nat], NEW S, NEW K \in SUBSET Played, IsFiniteSet(K),
         K = Records!Kept(S), \A T \in SUBSET Played : Records!Sum(T) = Total(w, T)
  PROVE  Records!Takings(S) = Total(w, K)
<1> DEFINE k == [s \in K |-> DayOf[s]]
           R == {DayOf[s] : s \in K}
           v == Records!Summary(S)
<1>1. k \in [K -> R] /\ \A s \in K : k[s] \in R
  OBVIOUS
<1>2. IsFiniteSet(R)
  <2>1. k \in Surjection(K, R)
    BY <1>1 DEF Surjection
  <2> QED BY <2>1, FS_Surjection
<1>3. \A r \in R : /\ Records!Kept(S \cap {r}) = {s \in K : k[s] = r}
                   /\ {s \in K : k[s] = r} \in SUBSET Played
  BY DEF Records!Kept
<1>4. v = [r \in R |-> Records!Sum(Records!Kept(S \cap {r}))]
  BY DEF Records!Summary
<1> HIDE DEF k, R, v
<1>5. \A r \in R : /\ v[r] = Total(w, {s \in K : k[s] = r})
                   /\ v[r] \in Nat
  <2> TAKE r \in R
  <2> DEFINE T == {s \in K : k[s] = r}
  <2>1. v[r] = Total(w, T) BY <1>3, <1>4
  <2>2. T \in SUBSET Played /\ IsFiniteSet(T) BY FS_Subset
  <2> HIDE DEF T
  <2>3. Total(w, T) \in Nat BY <2>2, TotalMonotone
  <2> QED BY <2>1, <2>3 DEF T
<1>6. v \in [R -> Nat] BY <1>4, <1>5
<1>7. Records!Takings(S) = Total(v, R) BY <1>2, <1>6, SummaryAdds DEF v
<1>8. Total(v, R) = Total(w, K)
  <2> DEFINE p == [r \in R |-> {s \in K : k[s] = r}]
  <2>1. /\ p \in [R -> SUBSET K] /\ \A r \in R, s \in K : s \in p[r] <=> k[s] = r
        /\ \A r \in R : v[r] = Total(w, p[r])
    BY <1>5
  <2> HIDE DEF p
  <2> QED BY <1>1, <1>2, <1>6, <2>1, TotalOfParts
<1> QED BY <1>7, <1>8

LEMMA ListIsAll ==
  ASSUME PartsAssumption, NEW S, NEW K \in SUBSET Played, IsFiniteSet(K), K = Records!Kept(S),
         Cardinality(K) <= ListLimit
  PROVE  Records!Listed(S) = K
<1>0. Played \subseteq Nat /\ ListLimit \in Nat BY DEF PartsAssumption
<1>1. ASSUME NEW s \in K PROVE Cardinality({r \in K : r > s}) < ListLimit
  <2>1. s \in Nat BY <1>0
  <2> DEFINE T == {r \in K : r > s}
  <2>2. T \in SUBSET (K \ {s}) BY <2>1
  <2>3. /\ Cardinality(K \ {s}) = Cardinality(K) - 1 /\ IsFiniteSet(K \ {s})
        /\ Cardinality(K) \in Nat
    BY FS_RemoveElement, FS_CardinalityType
  <2> HIDE DEF T
  <2>4. Cardinality(T) <= Cardinality(K \ {s}) /\ Cardinality(T) \in Nat
    BY <2>2, <2>3, FS_Subset, FS_CardinalityType
  <2> QED BY <1>0, <2>3, <2>4 DEF T
<1> QED BY <1>1, RecordsCardinality DEF Records!Listed

LEMMA ReportsAreTrue == ASSUME PartsAssumption, Records!IInv PROVE Records!TakingsAreTrue
<1>0. /\ v1 \in [Played -> Nat] /\ v2 \subseteq Played /\ v3 \subseteq v2 /\ IsFiniteSet(Played)
      /\ CostOf \in [Played -> Nat] /\ Records!RowsAreSessions
  BY DEF Records!IInv, Records!TypeOK, PartsAssumption
<1>1. PICK w : w = [s \in Played |-> v1[s] * CostOf[s]]
  OBVIOUS
<1>2. w \in [Played -> Nat] /\ \A S \in SUBSET Played : Records!Sum(S) = Total(w, S)
  <2>1. \A a, b \in Nat : a * b \in Nat OBVIOUS
  <2>2. \A s \in Played : v1[s] * CostOf[s] \in Nat BY <1>0, <2>1
  <2>3. w \in [Played -> Nat] /\ \A s \in Played : w[s] = v1[s] * CostOf[s] BY <1>1, <2>2
  <2> QED BY <1>0, <2>3, RowsAdd
<1>3. \A s \in Played : v1[s] > 0 => w[s] = CostOf[s] /\ s \in v2
  BY <1>0, <1>1 DEF Records!RowsAreSessions
<1>4. ASSUME NEW s \in v3 PROVE s \in Played /\ v1[s] > 0
  <2>1. s \in Played BY <1>0
  <2>2. v1[s] = 1 BY <1>0, <2>1 DEF Records!RowsAreSessions
  <2> QED BY <2>1, <2>2
<1> SUFFICES ASSUME NEW S \in Records!Periods
    PROVE  LET Ended == Records!MapThenSumSet(LAMBDA s : CostOf[s], {s \in v2 : DayOf[s] \in S})
               Told == Records!MapThenSumSet(LAMBDA s : CostOf[s], {s \in v3 : DayOf[s] \in S})
           IN  /\ Records!Takings(S) >= Told /\ Records!Takings(S) <= Ended
               /\ Records!Totals(S) <= Records!Takings(S)
               /\ Records!Cardinality(Records!Kept(S)) <= ListLimit
                    => Records!Totals(S) = Records!Takings(S)
  BY DEF Records!TakingsAreTrue
<1> DEFINE E == {s \in v2 : DayOf[s] \in S}
           T == {s \in v3 : DayOf[s] \in S}
           K == Records!Kept(S)
           L == Records!Listed(S)
<1>5. E \in SUBSET Played /\ T \in SUBSET Played BY <1>0
<1>6. K \in SUBSET Played /\ L \in SUBSET K BY DEF Records!Kept, Records!Listed
<1>7. /\ Records!MapThenSumSet(LAMBDA s : CostOf[s], E) = Total(CostOf, E)
      /\ Records!MapThenSumSet(LAMBDA s : CostOf[s], T) = Total(CostOf, T)
  <2> HIDE DEF E, T
  <2> QED BY <1>5, CostsAdd
<1>8. T \subseteq K /\ K \subseteq E
  BY <1>3, <1>4 DEF Records!Kept
<1>9. \A s \in K : w[s] = CostOf[s] /\ w[s] \in Nat
  BY <1>2, <1>3 DEF Records!Kept
<1> HIDE DEF E, T, K, L
<1>10. IsFiniteSet(E) /\ IsFiniteSet(T) /\ IsFiniteSet(K) /\ IsFiniteSet(L)
  BY <1>0, <1>5, <1>6, FS_Subset
<1>11. Records!Takings(S) = Total(w, K) BY <1>2, <1>6, <1>10, SummaryIsOfAll DEF K
<1>12. Records!Totals(S) = Total(w, L) BY <1>2, <1>6 DEF Records!Totals, L
<1>13. Total(CostOf, T) \in Nat /\ Total(CostOf, T) <= Total(w, K)
  <2>1. \A s \in T : CostOf[s] <= w[s] BY <1>8, <1>9
  <2> QED BY <1>0, <1>2, <1>5, <1>6, <1>8, <1>10, <2>1, TotalMonotone
<1>14. /\ Total(w, K) \in Nat /\ Total(CostOf, E) \in Nat
       /\ Total(w, K) <= Total(CostOf, E)
  <2>1. \A s \in K : w[s] <= CostOf[s] BY <1>9
  <2> QED BY <1>0, <1>2, <1>5, <1>6, <1>8, <1>10, <2>1, TotalMonotone
<1>15. Total(w, L) \in Nat /\ Total(w, L) <= Total(w, K)
  <2>1. L \in SUBSET Played /\ \A s \in L : w[s] <= w[s] BY <1>6, <1>9
  <2> QED BY <1>2, <1>6, <1>10, <2>1, TotalMonotone
<1>16. Cardinality(K) <= ListLimit => Total(w, L) = Total(w, K)
  BY <1>6, <1>10, ListIsAll DEF K, L
<1>17. Records!Cardinality(Records!Kept(S)) = Cardinality(K)
  BY RecordsCardinality DEF K
<1>18. /\ Records!Takings(S) >= Records!MapThenSumSet(LAMBDA s : CostOf[s], T)
       /\ Records!Takings(S) <= Records!MapThenSumSet(LAMBDA s : CostOf[s], E)
  BY <1>7, <1>11, <1>13, <1>14
<1> QED BY <1>11, <1>12, <1>14, <1>15, <1>16, <1>17, <1>18 DEF E, T

-----------------------------------------------------------------------------
(* The log of the gateway (ActivityLog).                                   *)

LEMMA GreatestOfRows ==
  ASSUME NEW S, IsFiniteSet(S), S \subseteq Nat, S # {}
  PROVE  /\ Activity!Max(S) \in S /\ \A y \in S : y <= Activity!Max(S)
         /\ Activity!Min(S) \in S /\ \A y \in S : Activity!Min(S) <= y
<1>1. PICK x \in S : \A y \in S : y <= x BY Greatest
<1>2. PICK z \in S : \A y \in S : z <= y BY BoardProof!LeastNatural
<1>3. \A a, b \in Nat : a <= b <=> b >= a OBVIOUS
<1>4. \A y \in S : x >= y BY <1>1, <1>3
<1>5. Activity!Max(S) \in S /\ \A y \in S : Activity!Max(S) >= y BY <1>4 DEF Activity!Max
<1>6. Activity!Min(S) \in S /\ \A y \in S : Activity!Min(S) <= y BY <1>2 DEF Activity!Min
<1> QED BY <1>3, <1>5, <1>6

LEMMA ActivityBegins == ASSUME PartsAssumption, Activity!Init PROVE Activity!TypeOK
BY EmptySeq, PartsAssumption DEF PartsAssumption, Activity!Init, Activity!TypeOK

LEMMA ActivityInv ==
  ASSUME PartsAssumption, Activity!TypeOK, [Activity!Next]_(Activity!vars)
  PROVE  Activity!TypeOK'
<1> DEFINE log == v1  now == v2  row(n) == [user : Users \cup {None}, at : 0..n]
<1>0. /\ now \in 0..LogHorizon /\ LogHorizon \in Nat /\ now \in Nat
      /\ log \in Seq(row(now)) /\ \A i, j \in DOMAIN log : i < j => log[i].at <= log[j].at
  BY DEF Activity!TypeOK, PartsAssumption
<1>1. CASE UNCHANGED Activity!vars
  BY <1>1 DEF Activity!vars, Activity!TypeOK
<1>2. CASE Activity!Tick
  <2>1. now' = now + 1 /\ now < LogHorizon /\ log' = log BY <1>2 DEF Activity!Tick
  <2>2. row(now) \subseteq row(now') BY <1>0, <2>1
  <2> HIDE DEF row
  <2>3. log' \in Seq(row(now')) BY <1>0, <2>1, <2>2
  <2>4. now' \in 0..LogHorizon BY <1>0, <2>1
  <2> QED BY <1>0, <2>1, <2>3, <2>4 DEF Activity!TypeOK, row
<1>3. CASE Activity!Purge
  <2> DEFINE m == Activity!Max(Activity!Old)
  <2>1. now' = now /\ log' = SubSeq(log, m + 1, Len(log)) /\ Activity!Old # {}
    BY <1>3 DEF Activity!Purge
  <2>2. m \in 1..Len(log)
    <3>1. Activity!Old \subseteq 1..Len(log) BY <1>0 DEF Activity!Old
    <3>2. IsFiniteSet(1..Len(log)) /\ 1..Len(log) \subseteq Nat BY <1>0, FS_Interval
    <3>3. IsFiniteSet(Activity!Old) /\ Activity!Old \subseteq Nat BY <3>1, <3>2, FS_Subset
    <3>4. m \in Activity!Old BY <2>1, <3>3, GreatestOfRows
    <3> QED BY <3>1, <3>4
  <2> HIDE DEF m, row
  <2>3. /\ log' \in Seq(row(now)) /\ Len(log') = Len(log) - m
        /\ \A i \in 1..Len(log) - m : log'[i] = log[m + i]
    BY <1>0, <2>1, <2>2, SubSeqProperties
  <2>4. \A i, j \in DOMAIN log' : i < j => log'[i].at <= log'[j].at
    <3>1. ASSUME NEW i \in DOMAIN log', NEW j \in DOMAIN log', i < j
          PROVE  log'[i].at <= log'[j].at
      <4>1. i \in 1..Len(log) - m /\ j \in 1..Len(log) - m BY <2>3, LenProperties
      <4>2. m + i \in DOMAIN log /\ m + j \in DOMAIN log /\ m + i < m + j
        BY <1>0, <2>2, <3>1, <4>1, LenProperties
      <4> QED BY <1>0, <2>3, <4>1, <4>2
    <3> QED BY <3>1
  <2> QED BY <1>0, <2>1, <2>3, <2>4 DEF Activity!TypeOK, row
<1>4. ASSUME NEW u \in Users \cup {None}, Activity!Record(u) PROVE Activity!TypeOK'
  <2>1. now' = now /\ log' = Append(log, [user |-> u, at |-> now]) BY <1>4 DEF Activity!Record
  <2>2. [user |-> u, at |-> now] \in row(now) BY <1>0
  <2>3. /\ log' \in Seq(row(now)) /\ Len(log') = Len(log) + 1 /\ Len(log) \in Nat
        /\ log'[Len(log) + 1].at = now
        /\ \A i \in 1..Len(log) : log'[i] = log[i] /\ log[i].at \in 0..now
    <3> HIDE DEF row
    <3>1. /\ log' \in Seq(row(now)) /\ Len(log') = Len(log) + 1 /\ Len(log) \in Nat
          /\ log'[Len(log) + 1] = [user |-> u, at |-> now]
          /\ \A i \in 1..Len(log) : log'[i] = log[i] /\ log[i] \in row(now)
      BY <1>0, <2>1, <2>2, AppendProperties, ElementOfSeq, LenProperties
    <3> QED BY <3>1 DEF row
  <2>4. \A i, j \in DOMAIN log' : i < j => log'[i].at <= log'[j].at
    <3>1. ASSUME NEW i \in DOMAIN log', NEW j \in DOMAIN log', i < j
          PROVE  log'[i].at <= log'[j].at
      <4>1. i \in 1..Len(log) + 1 /\ j \in 1..Len(log) + 1 /\ i \in 1..Len(log)
        BY <2>3, <3>1, LenProperties
      <4>2. CASE j = Len(log) + 1 BY <1>0, <2>3, <4>1, <4>2
      <4>3. CASE j # Len(log) + 1
        <5>1. j \in 1..Len(log) /\ j \in DOMAIN log /\ i \in DOMAIN log
          BY <2>3, <4>1, <4>3, <1>0, LenProperties
        <5> QED BY <1>0, <2>3, <3>1, <4>1, <5>1
      <4> QED BY <4>2, <4>3
    <3> QED BY <3>1
  <2> QED BY <1>0, <2>1, <2>3, <2>4 DEF Activity!TypeOK
<1> QED BY <1>1, <1>2, <1>3, <1>4 DEF Activity!Next

\* The rows of the week that have a user.
LEMMA RowsOfTheWeek ==
  ASSUME Activity!TypeOK
  PROVE  /\ IsFiniteSet(Activity!Ordered) /\ Activity!Ordered \subseteq Nat
         /\ \A i \in Activity!Ordered : v1[i].at \in Nat
         /\ \A i, j \in Activity!Ordered : i < j => v1[i].at <= v1[j].at
<1>1. /\ v1 \in Seq([user : Users \cup {None}, at : 0..v2]) /\ v2 \in Nat
      /\ \A i, j \in DOMAIN v1 : i < j => v1[i].at <= v1[j].at
  BY DEF Activity!TypeOK
<1>2. DOMAIN v1 = 1..Len(v1) /\ Len(v1) \in Nat BY <1>1, LenProperties
<1>3. IsFiniteSet(1..Len(v1)) BY <1>2, FS_Interval
<1>4. Activity!Ordered \subseteq DOMAIN v1 BY DEF Activity!Ordered
<1>5. \A i \in DOMAIN v1 : v1[i].at \in Nat
  <2>1. \A i \in DOMAIN v1 : v1[i] \in [user : Users \cup {None}, at : 0..v2]
    BY <1>1, ElementOfSeq, <1>2
  <2> QED BY <1>1, <2>1
<1> QED BY <1>1, <1>2, <1>3, <1>4, <1>5, FS_Subset

LEMMA ActivityCardinality == \A S : Activity!Cardinality(S) = Cardinality(S)
BY DEF Activity!Cardinality, Cardinality

\* A row that begins a session comes a pause after every row of its user before it.
LEMMA BeginsAfterPause ==
  ASSUME PartsAssumption, Activity!TypeOK, NEW i \in Activity!Ordered, NEW j \in Activity!Ordered,
         v1[i].user = v1[j].user, i < j, Activity!NewSession(j)
  PROVE  v1[j].at - v1[i].at > Pause
<1> DEFINE B == Activity!Before(j)  m == Activity!Max(B)
<1>1. i \in B /\ B \subseteq Activity!Ordered BY DEF Activity!Before
<1>2. m \in B /\ i <= m
  <2>1. IsFiniteSet(B) /\ B \subseteq Nat /\ B # {} BY <1>1, RowsOfTheWeek, FS_Subset
  <2> HIDE DEF B
  <2> QED BY <1>1, <2>1, GreatestOfRows
<1>3. v1[j].at - v1[m].at > Pause BY <1>1 DEF Activity!NewSession
<1> HIDE DEF m, B
<1>4. v1[i].at <= v1[m].at
  <2>1. i \in Nat /\ m \in Nat /\ m \in Activity!Ordered /\ v1[i].at \in Nat
    BY <1>1, <1>2, RowsOfTheWeek
  <2> QED BY <1>2, <2>1, RowsOfTheWeek
<1>5. v1[i].at \in Nat /\ v1[j].at \in Nat /\ v1[m].at \in Nat /\ Pause \in Nat
  BY <1>1, <1>2, RowsOfTheWeek DEF PartsAssumption
<1> QED BY <1>3, <1>4, <1>5

Begun(i) == {j \in Activity!Ordered : /\ v1[j].user = v1[i].user /\ v1[j].at <= v1[i].at
                                      /\ Activity!NewSession(j)}

LEMMA GroupCounts ==
  ASSUME Activity!TypeOK, NEW i
  PROVE  /\ Activity!Group(i) = Cardinality(Begun(i)) /\ IsFiniteSet(Begun(i))
         /\ Activity!Group(i) \in Nat
<1>1. IsFiniteSet(Begun(i)) BY RowsOfTheWeek, FS_Subset DEF Begun
<1>2. Activity!Group(i) = Cardinality(Begun(i)) BY ActivityCardinality DEF Activity!Group, Begun
<1> QED BY <1>1, <1>2, FS_CardinalityType

\* The groups of a user follow each other in time.
LEMMA GroupsGrow ==
  ASSUME PartsAssumption, Activity!TypeOK, NEW i \in Activity!Ordered, NEW j \in Activity!Ordered,
         v1[i].user = v1[j].user
  PROVE  /\ v1[i].at <= v1[j].at => Activity!Group(i) <= Activity!Group(j)
         /\ Activity!Group(i) < Activity!Group(j) => v1[j].at - v1[i].at > Pause
<1>0. /\ \A k \in Activity!Ordered : k \in Nat /\ v1[k].at \in Nat
      /\ \A k, n \in Activity!Ordered : k < n => v1[k].at <= v1[n].at
      /\ Pause \in Nat
  BY RowsOfTheWeek DEF PartsAssumption
<1>1. ASSUME NEW k \in Activity!Ordered, NEW n \in Activity!Ordered, Begun(k) \subseteq Begun(n)
      PROVE  Activity!Group(k) <= Activity!Group(n)
  BY <1>1, GroupCounts, FS_Subset
<1>2. ASSUME v1[i].at <= v1[j].at PROVE Activity!Group(i) <= Activity!Group(j)
  <2>1. Begun(i) \subseteq Begun(j) BY <1>0, <1>2 DEF Begun
  <2> QED BY <1>1, <2>1
<1>3. ASSUME Activity!Group(i) < Activity!Group(j) PROVE v1[j].at - v1[i].at > Pause
  <2>1. ~(Begun(j) \subseteq Begun(i))
    <3>1. Activity!Group(i) \in Nat /\ Activity!Group(j) \in Nat BY GroupCounts
    <3> QED BY <1>1, <1>3, <3>1
  <2>2. PICK k \in Begun(j) : k \notin Begun(i) BY <2>1
  <2>3. /\ k \in Activity!Ordered /\ v1[k].user = v1[i].user /\ Activity!NewSession(k)
        /\ v1[k].at <= v1[j].at /\ ~(v1[k].at <= v1[i].at)
    BY <2>2 DEF Begun
  <2>4. i < k BY <1>0, <2>3
  <2>5. v1[k].at - v1[i].at > Pause BY <2>3, <2>4, BeginsAfterPause
  <2>6. v1[i].at \in Nat /\ v1[j].at \in Nat /\ v1[k].at \in Nat BY <1>0, <2>3
  <2> QED BY <1>0, <2>3, <2>5, <2>6
<1> QED BY <1>2, <1>3

LEMMA BeginningIsNew ==
  ASSUME PartsAssumption, Activity!TypeOK, NEW i \in Activity!Ordered, NEW j \in Activity!Ordered,
         v1[i].user = v1[j].user, i < j, Activity!NewSession(j)
  PROVE  Activity!Group(i) < Activity!Group(j)
<1>1. v1[j].at - v1[i].at > Pause BY BeginsAfterPause
<1>2. v1[i].at \in Nat /\ v1[j].at \in Nat /\ Pause \in Nat BY RowsOfTheWeek DEF PartsAssumption
<1>3. j \in Begun(j) /\ j \notin Begun(i) BY <1>1, <1>2 DEF Begun
<1>4. Begun(i) \subseteq Begun(j)
  <2>1. \A k \in Activity!Ordered : v1[k].at \in Nat BY RowsOfTheWeek
  <2> QED BY <1>1, <1>2, <2>1 DEF Begun
<1>5. Cardinality(Begun(i)) < Cardinality(Begun(j))
  <2>1. Begun(i) # Begun(j) BY <1>3
  <2> QED BY <1>4, <2>1, GroupCounts, FS_Subset
<1> QED BY <1>5, GroupCounts

\* The rows that are shown as one session with row i, and the session.
Together(i) == {j \in Activity!Ordered : /\ v1[j].user = v1[i].user
                                         /\ Activity!Group(j) = Activity!Group(i)}

Stretch(i) == Activity!Session(Together(i))

LEMMA SessionsAreShown == Activity!Sessions = {Stretch(i) : i \in Activity!Ordered}
BY DEF Activity!Sessions, Stretch, Together

LEMMA StretchIs ==
  ASSUME Activity!TypeOK, NEW i \in Activity!Ordered
  PROVE  /\ Stretch(i).user = v1[i].user
         /\ Stretch(i).requests = Cardinality(Together(i))
         /\ \E f \in Together(i) : Stretch(i).startedAt = v1[f].at
         /\ \E l \in Together(i) : Stretch(i).lastSeenAt = v1[l].at
         /\ \A j \in Together(i) : Stretch(i).startedAt <= v1[j].at /\ v1[j].at <= Stretch(i).lastSeenAt
<1> DEFINE C == Together(i)  times == {v1[j].at : j \in C}
<1>1. i \in C /\ C \subseteq Activity!Ordered BY DEF Together
<1>2. IsFiniteSet(times) /\ times \subseteq Nat /\ times # {}
  <2>1. IsFiniteSet(C) BY <1>1, RowsOfTheWeek, FS_Subset
  <2> DEFINE g == [j \in C |-> v1[j].at]
  <2>2. g \in Surjection(C, times) BY DEF Surjection
  <2>3. IsFiniteSet(times)
    <3> HIDE DEF g, times
    <3> QED BY <2>1, <2>2, FS_Surjection
  <2> QED BY <1>1, <2>3, RowsOfTheWeek
<1>3. /\ Stretch(i) = [user |-> v1[CHOOSE j \in C : TRUE].user, startedAt |-> Activity!Min(times),
                       lastSeenAt |-> Activity!Max(times), requests |-> Cardinality(C)]
  BY ActivityCardinality DEF Stretch, Activity!Session
<1>4. v1[CHOOSE j \in C : TRUE].user = v1[i].user
  <2>1. (CHOOSE j \in C : TRUE) \in C BY <1>1
  <2> QED BY <2>1 DEF Together
<1>5. /\ Activity!Min(times) \in times /\ Activity!Max(times) \in times
      /\ \A t \in times : Activity!Min(times) <= t /\ t <= Activity!Max(times)
  <2> HIDE DEF times
  <2> QED BY <1>2, GreatestOfRows
<1>6. \A j \in C : v1[j].at \in times OBVIOUS
<1>7. \A t \in times : \E j \in C : t = v1[j].at OBVIOUS
<1> HIDE DEF times
<1> QED BY <1>3, <1>4, <1>5, <1>6, <1>7

\* Two sessions of a user are a pause apart.
LEMMA StretchesApart ==
  ASSUME PartsAssumption, Activity!TypeOK, NEW i \in Activity!Ordered, NEW j \in Activity!Ordered,
         v1[i].user = v1[j].user, Together(i) # Together(j)
  PROVE  \/ Stretch(i).startedAt - Stretch(j).lastSeenAt > Pause
         \/ Stretch(j).startedAt - Stretch(i).lastSeenAt > Pause
<1>1. Activity!Group(i) # Activity!Group(j) BY DEF Together
<1>2. Activity!Group(i) \in Nat /\ Activity!Group(j) \in Nat BY GroupCounts
<1>3. ASSUME NEW a \in Activity!Ordered, NEW b \in Activity!Ordered, v1[a].user = v1[b].user,
             Activity!Group(a) < Activity!Group(b)
      PROVE  Stretch(b).startedAt - Stretch(a).lastSeenAt > Pause
  <2>1. PICK f \in Together(b) : Stretch(b).startedAt = v1[f].at BY StretchIs
  <2>2. PICK l \in Together(a) : Stretch(a).lastSeenAt = v1[l].at BY StretchIs
  <2>3. /\ f \in Activity!Ordered /\ l \in Activity!Ordered /\ v1[l].user = v1[f].user
        /\ Activity!Group(l) < Activity!Group(f)
    BY <1>3 DEF Together
  <2> QED BY <2>1, <2>2, <2>3, GroupsGrow
<1>4. CASE Activity!Group(i) < Activity!Group(j) BY <1>3, <1>4
<1>5. CASE Activity!Group(j) < Activity!Group(i) BY <1>3, <1>5
<1> QED BY <1>1, <1>2, <1>4, <1>5

LEMMA StretchesDiffer ==
  ASSUME PartsAssumption, Activity!TypeOK, NEW i \in Activity!Ordered, NEW j \in Activity!Ordered,
         Stretch(i) = Stretch(j)
  PROVE  Together(i) = Together(j)
<1> SUFFICES ASSUME Together(i) # Together(j) PROVE FALSE OBVIOUS
<1>1. v1[i].user = v1[j].user BY StretchIs
<1>2. i \in Together(i) /\ j \in Together(j) BY DEF Together
<1>3. PICK f \in Together(i) : Stretch(i).startedAt = v1[f].at BY StretchIs
<1>4. PICK l \in Together(i) : Stretch(i).lastSeenAt = v1[l].at BY StretchIs
<1>5. v1[f].at <= v1[l].at BY <1>3, <1>4, StretchIs
<1>6. v1[f].at \in Nat /\ v1[l].at \in Nat /\ Pause \in Nat
  BY RowsOfTheWeek DEF Together, PartsAssumption
<1>7. v1[f].at - v1[l].at > Pause BY <1>1, <1>3, <1>4, StretchesApart
<1> QED BY <1>5, <1>6, <1>7

\* No pause lies within a session.
LEMMA StretchesHold ==
  ASSUME PartsAssumption, Activity!TypeOK, NEW i \in Activity!Ordered,
         NEW t \in Stretch(i).startedAt .. Stretch(i).lastSeenAt
  PROVE  \E j \in Activity!RowsOf(Stretch(i).user) : v1[j].at \in (t - Pause) .. t
<1> DEFINE Mine == Activity!RowsOf(v1[i].user)
<1>0. /\ \A k \in Activity!Ordered : k \in Nat /\ v1[k].at \in Nat
      /\ \A k, n \in Activity!Ordered : k < n => v1[k].at <= v1[n].at
      /\ Pause \in Nat /\ Stretch(i).user = v1[i].user
      /\ Mine \subseteq Activity!Ordered /\ \A k \in Mine : v1[k].user = v1[i].user
      /\ Together(i) \subseteq Mine /\ IsFiniteSet(Mine)
  <2>1. Mine \subseteq Activity!Ordered BY DEF Activity!RowsOf
  <2>2. IsFiniteSet(Mine) BY <2>1, RowsOfTheWeek, FS_Subset
  <2> QED BY <2>1, <2>2, RowsOfTheWeek, StretchIs DEF PartsAssumption, Activity!RowsOf, Together
<1> HIDE DEF Mine
<1>1. PICK f \in Together(i) : Stretch(i).startedAt = v1[f].at BY StretchIs
<1>2. PICK l \in Together(i) : Stretch(i).lastSeenAt = v1[l].at BY StretchIs
<1>3. /\ f \in Mine /\ l \in Mine /\ v1[f].at \in Nat /\ v1[l].at \in Nat
      /\ t \in Int /\ v1[f].at <= t /\ t <= v1[l].at
  BY <1>0, <1>1, <1>2
<1>4. PICK m \in Mine : v1[m].at <= t /\ \A k \in Mine : v1[k].at <= t => k <= m
  <2> DEFINE Past == {k \in Mine : v1[k].at <= t}
  <2>1. IsFiniteSet(Past) /\ Past \subseteq Nat /\ f \in Past BY <1>0, <1>3, FS_Subset
  <2>2. PICK x \in Past : \A y \in Past : y <= x
    <3> HIDE DEF Past
    <3> QED BY <2>1, Greatest
  <2> QED BY <2>2
<1>5. t - Pause <= v1[m].at
  <2>1. CASE t = v1[l].at
    <3>1. l <= m BY <1>3, <1>4, <2>1
    <3>2. v1[l].at <= v1[m].at BY <1>0, <1>3, <3>1
    <3> QED BY <1>0, <1>3, <2>1, <3>2
  <2>2. CASE t < v1[l].at
    <3> DEFINE Later == {k \in Mine : m < k}
    <3>1. l \in Later
      <4>1. ~(l <= m) BY <1>0, <1>3, <1>4, <2>2
      <4> QED BY <1>0, <1>3, <4>1
    <3>2. PICK n \in Later : \A k \in Later : n <= k
      <4>1. Later \subseteq Nat BY <1>0
      <4> HIDE DEF Later
      <4> QED BY <3>1, <4>1, BoardProof!LeastNatural
    <3>3. n \in Mine /\ m < n /\ n <= l /\ v1[n].at > t /\ n \in Nat /\ m \in Nat /\ v1[n].at \in Nat
      <4>1. ~(v1[n].at <= t) BY <1>0, <1>4, <3>2
      <4> QED BY <1>0, <1>3, <3>1, <3>2, <4>1
    <3>4. ~Activity!NewSession(n)
      <4> SUFFICES ASSUME Activity!NewSession(n) PROVE FALSE OBVIOUS
      <4>1. Activity!Group(m) < Activity!Group(n) BY <1>0, <3>3, BeginningIsNew
      <4>2. Activity!Group(f) <= Activity!Group(m)
        <5>1. f <= m BY <1>3, <1>4
        <5>2. v1[f].at <= v1[m].at BY <1>0, <1>3, <5>1
        <5> QED BY <1>0, <1>3, <5>2, GroupsGrow
      <4>3. Activity!Group(n) <= Activity!Group(l)
        <5>1. l \in Activity!Ordered /\ n \in Activity!Ordered BY <1>0, <1>3, <3>3
        <5>2. l \in Nat /\ v1[l].at \in Nat BY <1>0, <5>1
        <5>3. n = l \/ n < l BY <3>3, <5>2
        <5>4. v1[n].at <= v1[l].at BY <1>0, <3>3, <5>1, <5>2, <5>3
        <5> QED BY <1>0, <3>3, <5>1, <5>4, GroupsGrow
      <4>4. Activity!Group(f) = Activity!Group(l) BY DEF Together
      <4>5. /\ Activity!Group(f) \in Nat /\ Activity!Group(m) \in Nat /\ Activity!Group(n) \in Nat
        BY GroupCounts
      <4> QED BY <4>1, <4>2, <4>3, <4>4, <4>5
    <3>5. Activity!Before(n) # {} /\ v1[n].at - v1[Activity!Max(Activity!Before(n))].at <= Pause
      <4> DEFINE p == v1[Activity!Max(Activity!Before(n))].at
      <4>1. m \in Activity!Before(n) BY <1>0, <3>3 DEF Activity!Before
      <4>2. ~(v1[n].at - p > Pause) BY <3>4 DEF Activity!NewSession
      <4>3. p \in Nat
        <5>1. Activity!Before(n) \subseteq Activity!Ordered BY DEF Activity!Before
        <5>2. IsFiniteSet(Activity!Before(n)) /\ Activity!Before(n) \subseteq Nat
          BY <5>1, RowsOfTheWeek, FS_Subset
        <5>3. Activity!Max(Activity!Before(n)) \in Activity!Before(n)
          BY <4>1, <5>2, GreatestOfRows
        <5> QED BY <1>0, <5>1, <5>3
      <4> HIDE DEF p
      <4> QED BY <1>0, <3>3, <4>1, <4>2, <4>3 DEF p
    <3>6. Activity!Max(Activity!Before(n)) = m
      <4> DEFINE q == Activity!Max(Activity!Before(n))
      <4>1. \A k \in Activity!Before(n) : k \in Mine /\ k < n
        BY <1>0, <3>3 DEF Activity!Before, Activity!RowsOf, Mine
      <4>2. m \in Activity!Before(n) BY <1>0, <3>3 DEF Activity!Before
      <4>3. IsFiniteSet(Activity!Before(n)) /\ Activity!Before(n) \subseteq Nat
        <5>1. Activity!Before(n) \subseteq Mine BY <4>1
        <5> QED BY <1>0, <5>1, FS_Subset
      <4>4. q \in Activity!Before(n) /\ m <= q BY <3>5, <4>2, <4>3, GreatestOfRows
      <4> HIDE DEF q
      <4>5. q \in Nat /\ q < n /\ q \in Mine BY <4>1, <4>3, <4>4
      <4>6. ~(m < q) BY <3>2, <3>3, <4>5
      <4> QED BY <3>3, <4>4, <4>5, <4>6 DEF q
    <3> QED BY <1>0, <1>3, <3>3, <3>5, <3>6
  <2> QED BY <1>3, <2>1, <2>2
<1>6. v1[m].at \in (t - Pause) .. t BY <1>0, <1>3, <1>4, <1>5
<1> QED BY <1>0, <1>6 DEF Mine

LEMMA RequestsAdd ==
  ASSUME NEW D, IsFiniteSet(D), D = Activity!Sessions, NEW w \in [D -> Nat],
         \A s \in D : w[s] = s.requests
  PROVE  Activity!MapThenSumSet(LAMBDA s : s.requests, Activity!Sessions) = Total(w, D)
<1> DEFINE F(f) == [s \in SUBSET D |-> IF s = {} THEN 0 ELSE Pick(s).requests + f[s \ {Pick(s)}]]
           G(f) == [s \in SUBSET D |-> IF s = {} THEN 0 ELSE w[Pick(s)] + f[s \ {Pick(s)}]]
           it == CHOOSE f : f = F(f)
<1>1. D \in SUBSET D /\ w \in [D -> Int] OBVIOUS
<1>2. \A f : F(f) = G(f)
  <2>1. \A s \in SUBSET D : s # {} => w[Pick(s)] = Pick(s).requests BY DEF Pick
  <2> QED BY <2>1
<1>3. AddsUp(it, w, D)
  <2>1. PICK g \in [SUBSET D -> Int] : AddsUp(g, w, D) BY <1>1, SumExists
  <2>2. g = G(g) BY <2>1 DEF AddsUp
  <2>3. g = F(g) BY <1>2, <2>2
  <2>4. it = F(it)
    <3> HIDE DEF F
    <3> QED BY <2>3
  <2>5. it = G(it) BY <1>2, <2>4
  <2> HIDE DEF it
  <2> QED BY <2>5 DEF AddsUp
<1>4. Activity!MapThenSumSet(LAMBDA s : s.requests, Activity!Sessions) = it[D]
  BY DEF Activity!MapThenSumSet, Activity!MapThenFoldSet, Pick
<1> HIDE DEF it, F, G
<1>5. Total(w, D) = it[D] BY <1>1, <1>3, TotalIsSum
<1> QED BY <1>4, <1>5

\* Every request of the week is counted, in one session.
LEMMA RequestsAreCounted ==
  ASSUME PartsAssumption, Activity!TypeOK
  PROVE  Activity!MapThenSumSet(LAMBDA s : s.requests, Activity!Sessions)
           = Activity!Cardinality(Activity!Ordered)
<1> DEFINE O == Activity!Ordered
           S == Activity!Sessions
           k == [i \in O |-> Stretch(i)]
           p == [s \in S |-> {i \in O : Stretch(i) = s}]
           v == [s \in S |-> s.requests]
           one == [i \in O |-> 1]
<1>1. O \in SUBSET O /\ IsFiniteSet(O) /\ one \in [O -> Nat] /\ \A i \in O : one[i] = 1
  BY RowsOfTheWeek
<1>2. S = {Stretch(i) : i \in O} BY SessionsAreShown
<1>3. k \in [O -> S] /\ IsFiniteSet(S)
  <2>1. k \in Surjection(O, S) BY <1>2 DEF Surjection
  <2> HIDE DEF O, S, k
  <2> QED BY <1>1, <2>1, FS_Surjection DEF Surjection
<1>4. p \in [S -> SUBSET O] /\ \A s \in S, i \in O : i \in p[s] <=> k[i] = s
  OBVIOUS
<1>5. \A i \in O : p[Stretch(i)] = Together(i) /\ Stretch(i).requests = Cardinality(Together(i))
  <2> TAKE i \in O
  <2>1. Stretch(i) \in S BY <1>2
  <2>2. ASSUME NEW j \in O PROVE Stretch(j) = Stretch(i) <=> j \in Together(i)
    <3>1. ASSUME Stretch(j) = Stretch(i) PROVE j \in Together(i)
      <4>1. Together(j) = Together(i) BY <3>1, StretchesDiffer
      <4> QED BY <4>1 DEF Together
    <3>2. ASSUME j \in Together(i) PROVE Stretch(j) = Stretch(i)
      <4>1. Together(j) = Together(i) BY <3>2 DEF Together
      <4> QED BY <4>1 DEF Stretch
    <3> QED BY <3>1, <3>2
  <2>3. Together(i) \subseteq O BY DEF Together
  <2>4. p[Stretch(i)] = Together(i) BY <2>1, <2>2, <2>3
  <2> QED BY <2>4, StretchIs
<1>6. \A s \in S : v[s] = Cardinality(p[s]) /\ v[s] = s.requests
  <2> TAKE s \in S
  <2>1. PICK i \in O : s = Stretch(i) BY <1>2
  <2> QED BY <1>5, <2>1
<1>7. \A s \in S : Total(one, p[s]) = Cardinality(p[s]) /\ Cardinality(p[s]) \in Nat
  <2> TAKE s \in S
  <2>1. p[s] \in SUBSET O /\ IsFiniteSet(p[s]) BY <1>1, <1>4, FS_Subset
  <2> HIDE DEF O, S, p, one
  <2> QED BY <1>1, <2>1, TotalOfOnes, FS_CardinalityType
<1>8. v \in [S -> Nat] BY <1>6, <1>7
<1> HIDE DEF O, S, p, one, k, v
<1>9. Total(v, S) = Total(one, O)
  <2>1. \A s \in S : v[s] = Total(one, p[s]) BY <1>6, <1>7
  <2> QED BY <1>1, <1>3, <1>4, <1>8, <2>1, TotalOfParts
<1>10. Total(one, O) = Cardinality(O) BY <1>1, TotalOfOnes
<1>11. Activity!MapThenSumSet(LAMBDA s : s.requests, Activity!Sessions) = Total(v, S)
  BY <1>3, <1>6, <1>8, RequestsAdd DEF S
<1> QED BY <1>9, <1>10, <1>11, ActivityCardinality DEF O

LEMMA SessionsHold ==
  ASSUME PartsAssumption, Activity!TypeOK
  PROVE  Activity!SessionsAreStretches
<1>1. ASSUME NEW s \in Activity!Sessions, NEW t \in s.startedAt .. s.lastSeenAt
      PROVE  \E i \in Activity!RowsOf(s.user) : v1[i].at \in (t - Pause) .. t
  <2>1. PICK i \in Activity!Ordered : s = Stretch(i) BY SessionsAreShown
  <2> QED BY <1>1, <2>1, StretchesHold
<1>2. ASSUME NEW s \in Activity!Sessions, NEW r \in Activity!Sessions, s # r, s.user = r.user
      PROVE  s.startedAt - r.lastSeenAt > Pause \/ r.startedAt - s.lastSeenAt > Pause
  <2>1. PICK i \in Activity!Ordered : s = Stretch(i) BY SessionsAreShown
  <2>2. PICK j \in Activity!Ordered : r = Stretch(j) BY SessionsAreShown
  <2>3. v1[i].user = v1[j].user BY <1>2, <2>1, <2>2, StretchIs
  <2>4. Together(i) # Together(j) BY <1>2, <2>1, <2>2 DEF Stretch
  <2> QED BY <2>1, <2>2, <2>3, <2>4, StretchesApart
<1>3. ASSUME NEW list \in Activity!Answers
      PROVE  /\ list \subseteq Activity!Sessions
             /\ Activity!Cardinality(list) < SessionLimit => list = Activity!Sessions
  BY <1>3 DEF Activity!Answers
<1> SUFFICES ASSUME NEW list \in Activity!Answers
             PROVE  /\ Activity!Cardinality(list) < SessionLimit =>
                         Activity!MapThenSumSet(LAMBDA s : s.requests, list)
                           = Activity!Cardinality(Activity!Ordered)
                    /\ \A s \in list : \A t \in s.startedAt .. s.lastSeenAt :
                         \E i \in Activity!RowsOf(s.user) : v1[i].at \in (t - Pause) .. t
                    /\ \A s, r \in list : s # r /\ s.user = r.user =>
                         s.startedAt - r.lastSeenAt > Pause \/ r.startedAt - s.lastSeenAt > Pause
  BY DEF Activity!SessionsAreStretches
<1>4. ASSUME list = Activity!Sessions
      PROVE  Activity!MapThenSumSet(LAMBDA s : s.requests, list)
               = Activity!Cardinality(Activity!Ordered)
  BY <1>4, RequestsAreCounted
<1> QED BY <1>1, <1>2, <1>3, <1>4

-----------------------------------------------------------------------------
(* The scenes.                                                             *)

\* What is invariant of the scene that is played.
ScenesIInv ==
  /\ scene = "report" => Report!IInv
  /\ scene = "dashboard" => Dashboard!IInv
  /\ scene = "switch" => Switch!IInv
  /\ scene = "alerts" => Anomaly!IInv
  /\ scene = "token" => Token!IInv
  /\ scene = "link" => Link!IInv
  /\ scene = "lookup" => Lookup!IInv
  /\ scene = "reminders" => Reminder!IInv
  /\ scene = "board" => BoardProof!IInv /\ BoardProof!BracketsAreSound
  /\ scene = "hub" => Hub!IInv
  /\ scene = "cache" => Cache!IInv
  /\ scene = "settings" => Settings!IInv
  /\ scene = "tournament" => TheTournament!IInv
  /\ scene = "creation" => Creation!IInv
  /\ scene = "records" => Records!IInv
  /\ scene = "activity" => Activity!TypeOK

\* A scene begins with its part's first state ...
LEMMA ScenesBegin == ASSUME ScenesInit PROVE ScenesIInv
<1>1. ASSUME scene = "report" PROVE Report!IInv
  <2>1. Report!Init
    BY <1>1 DEF ScenesInit
  <2> QED BY <2>1 DEF Report!Init, Report!IInv, Report!TypeOK, Report!ShownIsSelected,
                      Report!Nothing, Report!NoAsk
<1>2. ASSUME scene = "dashboard" PROVE Dashboard!IInv
  <2>1. Dashboard!Init
    BY <1>2 DEF ScenesInit
  <2> USE DEF Dashboard!Init
  <2>2. v1 \in BOOLEAN /\ v2 \in BOOLEAN /\ v3 \in BOOLEAN /\ v7 \in BOOLEAN
        /\ v8 \in BOOLEAN /\ v9 \in BOOLEAN
    BY <2>1
  <2>3. Dashboard!TypeOK
    BY <2>1, <2>2, PartsAssumption DEF PartsAssumption, Dashboard!TypeOK
  <2>4. Dashboard!OneSocket /\ Dashboard!GoneIsQuiet
    BY <2>1 DEF Dashboard!OneSocket, Dashboard!GoneIsQuiet, Dashboard!Live
  <2> QED BY <2>3, <2>4 DEF Dashboard!IInv
<1>3. ASSUME scene = "switch" PROVE Switch!IInv
  <2>1. Switch!Init
    BY <1>3 DEF ScenesInit
  <2> USE DEF Switch!Init, Switch!Empty, Switch!Idle, Switch!Never
  <2>2. Switch!TypeOK
    <3>1. 0 \in Switch!Moments /\ v2 \in [active : BOOLEAN, expires : {-1} \cup 0..SwitchHorizon + 2]
      BY <2>1, PartsAssumption DEF PartsAssumption, Switch!Moments
    <3> QED BY <2>1, <3>1 DEF Switch!TypeOK, Switch!Ttl
  <2>3. Switch!MomentsAreKept
    BY <2>1 DEF Switch!MomentsAreKept
  <2>4. Switch!AnswersAreRecent /\ Switch!ReadIsTrue /\ Switch!CacheIsTrue
    BY <2>1 DEF Switch!AnswersAreRecent, Switch!ReadIsTrue, Switch!CacheIsTrue
  <2> QED BY <2>2, <2>3, <2>4 DEF Switch!IInv
<1>4. ASSUME scene = "alerts" PROVE Anomaly!IInv
  <2>1. Anomaly!Init
    BY <1>4 DEF ScenesInit
  <2> USE DEF Anomaly!Init, Anomaly!Idle, Anomaly!Pcs
  <2>2. 0 \in Anomaly!Moments /\ v3 \in Anomaly!Moments
    BY <2>1, PartsAssumption DEF PartsAssumption, Anomaly!Moments, Anomaly!Start
  <2>3. v5 \in 0..MaxFaults
    BY <2>1, RegistrationAssumption DEF RegistrationAssumption
  <2>4. Anomaly!TypeOK
    BY <2>1, <2>2, <2>3 DEF Anomaly!TypeOK
  <2>5. Anomaly!AlertsAreSpaced /\ Anomaly!ChecksAreShort /\ Anomaly!StampsAreClose
    BY <2>1 DEF Anomaly!AlertsAreSpaced, Anomaly!ChecksAreShort, Anomaly!StampsAreClose,
                Anomaly!Alerting, Anomaly!Logging, Anomaly!Telling
  <2> QED BY <2>4, <2>5 DEF Anomaly!IInv
<1>5. ASSUME scene = "token" PROVE Token!IInv
  <2>1. Token!Init
    BY <1>5 DEF ScenesInit
  <2> USE PartsAssumption
      DEF PartsAssumption, Token!Init, Token!Keys, Token!Times, Token!Never
  <2>2. /\ v4 \in [Processes -> Token!Caches]
        /\ \A p \in Processes : v4[p].key # 0 => v4[p].key = 1 /\ v4[p].since = 0
    BY SMTT(30), <2>1 DEF Token!NoKey, Token!Caches
  <2>3. /\ v5 \in [Calls -> Token!RequestTypes]
        /\ \A r \in Calls : v5[r].pc = "idle" /\ v5[r].token = 1 /\ v5[r].seen = 0
    <3>1. PICK p \in Processes : v5 = [r \in Calls |-> Token!Idle(p)]
      BY <2>1
    <3>2. Token!Idle(p) \in Token!RequestTypes
      BY DEF Token!Idle, Token!RequestTypes
    <3> QED BY <3>1, <3>2 DEF Token!Idle
  <2>4. Token!TypeOK
    BY <2>1, <2>2, <2>3 DEF Token!TypeOK
  <2>5. Token!KeysFollow
    BY <2>1 DEF Token!KeysFollow
  <2>6. Token!CachesAreTrue
    BY <2>1, <2>2 DEF Token!CachesAreTrue, Token!WasInUse
  <2>7. Token!RequestsAreTrue /\ Token!TakenIsRecent /\ Token!RefusedForAReason
    BY <2>1, <2>3 DEF Token!RequestsAreTrue, Token!TakenIsRecent, Token!RefusedForAReason,
                      Token!Judgements
  <2> QED BY <2>4, <2>5, <2>6, <2>7 DEF Token!IInv
<1>6. ASSUME scene = "link" PROVE Link!IInv
  <2>1. Link!Init
    BY <1>6 DEF ScenesInit
  <2> QED BY <2>1, PartsAssumption
          DEF PartsAssumption, Link!Init, Link!IInv, Link!TypeOK, Link!StartsAreWhole,
              Link!JudgedIsGood, Link!NoStart
<1>7. ASSUME scene = "lookup" PROVE Lookup!IInv
  <2>1. Lookup!Init
    BY <1>7 DEF ScenesInit
  <2> QED BY <2>1 DEF Lookup!Init, Lookup!IInv, Lookup!TypeOK, Lookup!Nobody
<1>8. ASSUME scene = "reminders" PROVE Reminder!IInv
  <2>1. Reminder!Init
    BY <1>8 DEF ScenesInit
  <2> QED BY <2>1, RemindersAreBounded, RemindersBegin
<1>9. ASSUME scene = "board" PROVE BoardProof!IInv /\ BoardProof!BracketsAreSound
  <2>1. Board!Init
    BY <1>9 DEF ScenesInit
  <2> QED BY <2>1, BoardAgree, BoardProof!InitKeeps, BoardProof!SoundStart
<1>10. /\ scene = "hub" => Hub!IInv
       /\ scene = "cache" => Cache!IInv
       /\ scene = "settings" => Settings!IInv
       /\ scene = "tournament" => TheTournament!IInv
       /\ scene = "creation" => Creation!IInv
       /\ scene = "records" => Records!IInv
       /\ scene = "activity" => Activity!TypeOK
  <2>1. /\ scene = "hub" => Hub!Init
        /\ scene = "cache" => Cache!Init
        /\ scene = "settings" => Settings!Init
        /\ scene = "tournament" => TheTournament!Init
        /\ scene = "creation" => Creation!Init
        /\ scene = "records" => Records!Init
        /\ scene = "activity" => Activity!Init
    BY DEF ScenesInit
  <2> QED BY <2>1, PartsAssumption, HubBegins, CacheBegins, SettingsBegins, TournamentBegins,
             CreationBegins, RecordsBegin, ActivityBegins
<1> QED BY <1>1, <1>2, <1>3, <1>4, <1>5, <1>6, <1>7, <1>8, <1>9, <1>10 DEF ScenesIInv

\* ... and its steps are its part's, or none.
LEMMA ScenesStay ==
  ASSUME [ScenesNext]_all
  PROVE  /\ scene' = scene
         /\ scene = "report" => [Report!Next]_(Report!vars)
         /\ scene = "dashboard" => [Dashboard!Next]_(Dashboard!vars)
         /\ scene = "switch" => [Switch!Next]_(Switch!vars)
         /\ scene = "alerts" => [Anomaly!Next]_(Anomaly!vars)
         /\ scene = "token" => [Token!Next]_(Token!vars)
         /\ scene = "link" => [Link!Next]_(Link!vars)
         /\ scene = "lookup" => [Lookup!Next]_(Lookup!vars)
         /\ scene = "reminders" => [Reminder!Next]_(Reminder!vars)
         /\ scene = "board" => [Board!Next]_(Board!vars)
         /\ scene = "hub" => [Hub!Next]_(Hub!vars)
         /\ scene = "cache" => [Cache!Next]_(Cache!vars)
         /\ scene = "settings" => [Settings!Next]_(Settings!vars)
         /\ scene = "tournament" => [TheTournament!Next]_(TheTournament!vars)
         /\ scene = "creation" => [Creation!Next]_(Creation!vars)
         /\ scene = "records" => [Records!Next]_(Records!vars)
         /\ scene = "activity" => [Activity!Next]_(Activity!vars)
<1>1. CASE UNCHANGED all
  <2>1. /\ UNCHANGED <<scene, v1, v2, v3, v4, v5, v6, v7, v8, v9>>
        /\ UNCHANGED <<v10, v11, v12, v13, v14>>
    BY <1>1 DEF all, slots, After2, After4, After5, After6, After7, After8, After9, After11
  <2>2. UNCHANGED Reminder!vars
    BY <2>1 DEF Reminder!vars, Reminder!world
  <2> QED BY <2>1, <2>2
          DEF Report!vars, Dashboard!vars, Dashboard!auth, Switch!vars, Anomaly!vars, Token!vars,
              Link!vars, Lookup!vars, Board!vars, Board!rows, Hub!vars, Hub!room, Cache!vars,
              Settings!vars, TheTournament!vars, Creation!vars, Records!vars, Activity!vars
<1>2. CASE ScenesNext
  <2>1. scene' = scene
    BY <1>2 DEF ScenesNext, Plays, slots
  <2>2. /\ scene = "report" => Report!Next
        /\ scene = "dashboard" => Dashboard!Next
        /\ scene = "switch" => Switch!Next
        /\ scene = "alerts" => Anomaly!Next
        /\ scene = "token" => Token!Next
        /\ scene = "link" => Link!Next
        /\ scene = "lookup" => Lookup!Next
        /\ scene = "reminders" => Reminder!Next
        /\ scene = "board" => Board!Next
        /\ scene = "hub" => Hub!Next
        /\ scene = "cache" => Cache!Next
        /\ scene = "settings" => Settings!Next
        /\ scene = "tournament" => TheTournament!Next
        /\ scene = "creation" => Creation!Next
        /\ scene = "records" => Records!Next
        /\ scene = "activity" => Activity!Next
    BY <1>2 DEF ScenesNext, Plays
  <2> QED BY <2>1, <2>2
<1> QED BY <1>1, <1>2

LEMMA ScenesGoOn == ASSUME ScenesIInv, [ScenesNext]_all PROVE ScenesIInv'
BY PartsAssumption, RemindersAreBounded, ScenesStay, ReportInv, DashboardInv, SwitchInv,
   AnomalyInv, TokenInv, LinkInv, LookupInv, RemindersInv, BoardInv, HubInv, CacheInv,
   SettingsInv, TournamentInv, CreationInv, RecordsInv, ActivityInv
DEF ScenesIInv

\* The invariant of every scene, of every behaviour.
THEOREM Invariance == ScenesSpec => []ScenesIInv
BY ScenesBegin, ScenesGoOn, PTL DEF ScenesSpec

-----------------------------------------------------------------------------
(* What the run checks.                                                    *)

\* While nothing loads, the report shown is that of the view selected, unless the
\* request that ended last was for a view left meanwhile (ClubReports.tsx 127-160).
THEOREM ReportIsSelected == ScenesSpec => []ShownIsSelected
<1>1. ScenesIInv => ShownIsSelected
  BY DEF ScenesIInv, ShownIsSelected, Report!IInv
<1> QED BY <1>1, Invariance, PTL

\* The dashboard has one connection, and none once its page has gone, for any
\* number of sockets and of bootstraps that wait (store/club.ts 98-268).
THEOREM SocketIsOne == ScenesSpec => []OneSocket
<1>1. ScenesIInv => OneSocket
  BY DEF ScenesIInv, OneSocket, Dashboard!IInv
<1> QED BY <1>1, Invariance, PTL

\* The switch of automation a payment sees was so a minute and a call before, or
\* later, and the key a process takes a token for was the auth service's an hour
\* before, or later (automation.ts 18-41, jwt-verifier.ts 17-31).
THEOREM AnswersStayRecent == ScenesSpec => []AnswersAreRecent
<1>1. ScenesIInv => AnswersAreRecent
  BY DEF ScenesIInv, AnswersAreRecent, Switch!IInv, Token!IInv
<1> QED BY <1>1, Invariance, PTL

\* However many checks cross, and whatever the cooldown and the unit of the clock,
\* alerts of errors keep the whole cooldown and alerts of traffic all of it but the
\* longest notice of errors (jobs.ts 80-103).
THEOREM AlertsStaySpaced == ScenesSpec => []AlertsAreSpaced
<1>1. ScenesIInv => AlertsAreSpaced
  BY DEF ScenesIInv, AlertsAreSpaced, Anomaly!IInv
<1> QED BY <1>1, Invariance, PTL

\* Users are reminded once of a tournament; and whoever was linked and registered as
\* its last two hours began has his reminder by its start, while nothing fails and
\* its date stays (scheduler.ts 43-86).
THEOREM RemindersStayRight == ScenesSpec => []RemindersAreRight
<1>1. ScenesIInv => RemindersAreRight
  BY RemindersRemind DEF ScenesIInv, RemindersAreRight, Reminder!IInv
<1> QED BY <1>1, Invariance, PTL

\* Nobody is stranded, for any field of two or more and whatever requests cross or
\* fail, while no score is corrected: who has not lost waits in one match, and some
\* match can be played until the final has been (single-elimination.ts 9-120).
THEOREM NobodyGetsStranded == ScenesSpec => []NobodyIsStranded
<1>1. ScenesIInv => NobodyIsStranded
  <2>1. ASSUME ScenesIInv, scene = "board" PROVE Board!NobodyIsStranded
    BY <2>1, BoardAgree, BoardProof!SoundSays DEF ScenesIInv
  <2> QED BY <2>1 DEF NobodyIsStranded
<1> QED BY <1>1, Invariance, PTL

\* Tables go to one ready match each while scores take turns, and none is idle while
\* a ready match waits, once nothing is under way, for any field and number of tables
\* (table-assign.ts 18-60).
THEOREM TablesStayUsed == ScenesSpec => []TablesAreUsed
<1>1. ScenesIInv => TablesAreUsed
  BY BoardAgree DEF ScenesIInv, TablesAreUsed
<1> QED BY <1>1, Invariance, PTL

\* The participants of every ready match have been told, once nothing is under way,
\* unless scores crossed or failed (tournament routes.ts 60-125).
THEOREM ReadyStaysAnnounced == ScenesSpec => []ReadyIsAnnounced
<1>1. ScenesIInv => ReadyIsAnnounced
  BY BoardAgree DEF ScenesIInv, ReadyIsAnnounced
<1> QED BY <1>1, Invariance, PTL

\* Scores that take turns implement BracketPlay: the rows begin as the generated
\* bracket, and every commit is a score of a match that may be played, faults and
\* corrections included (tournament routes.ts 500-560).
THEOREM BoardIsPlayed == ScenesSpec => PlaysTheBracket
<1>1. ScenesInit => (scene = "board" => Board!Play!Init)
  <2>1. ScenesInit /\ scene = "board" => Board!Init
    BY DEF ScenesInit
  <2> QED BY <2>1, BoardAgree, BoardPlaysAlike, BoardProof!InitPlays
<1>2. ASSUME ScenesIInv, [ScenesNext]_all
      PROVE  [scene = "board" => Board!PlaysOn]_slots
  BY <1>2, ScenesStay, BoardInv, BoardPlaysAlike DEF ScenesIInv
<1> QED BY <1>1, <1>2, Invariance, PTL DEF ScenesSpec, PlaysTheBracket

\* A chat is tied by a code that was asked for by its user, and that serves once
\* unless two commands carry it at the same moment (routes.ts 497-520).
THEOREM CodesAreSafe == ScenesSpec => CodesServeOnce
<1>1. ScenesIInv => (scene = "link" => Link!TypeOK)
  BY DEF ScenesIInv, Link!IInv
<1>2. ASSUME ScenesIInv, [ScenesNext]_all
      PROVE  [scene = "link" => Link!Serves]_slots
  BY <1>2, PartsAssumption, ScenesStay, LinkInv DEF ScenesIInv
<1> QED BY <1>1, <1>2, Invariance, PTL DEF ScenesSpec, CodesServeOnce

\* The room of a club has the desktop that is connected, and what a dashboard shows
\* goes back only when messages crossed, for any sockets, handlers and states
\* (ws-hub.ts 49-116, ws-route.ts 42-62, store/club.ts 111-120).
THEOREM HubStaysTrue == ScenesSpec => HubIsTrue
<1>1. ScenesIInv => (scene = "hub" => Hub!TypeOK /\ Hub!RoomIsTrue)
  BY DEF ScenesIInv, Hub!IInv
<1>2. ASSUME ScenesIInv, [ScenesNext]_all
      PROVE  [scene = "hub" => Hub!GoesForward]_slots
  BY <1>2, PartsAssumption, ScenesStay, HubInv DEF ScenesIInv
<1> QED BY <1>1, <1>2, Invariance, PTL DEF ScenesSpec, HubIsTrue

\* Both reports of a club count every session that has ended once, the shift on record
\* goes back only by a request that was outrun, and the sessions of the activity log
\* are the stretches without a pause: for any sessions, days, prices and limits, any
\* users and rows (club routes.ts 122-202, 275-370, admin routes.ts 292-321).
THEOREM RecordsStayTrue == ScenesSpec => RecordsAreTrue
<1>1. ScenesIInv =>
        /\ scene = "records" => Records!TypeOK /\ Records!TakingsAreTrue
        /\ scene = "activity" => Activity!TypeOK /\ Activity!SessionsAreStretches
  BY PartsAssumption, ReportsAreTrue, SessionsHold DEF ScenesIInv, Records!IInv
<1>2. ASSUME ScenesIInv, [ScenesNext]_all
      PROVE  [scene = "records" => Records!KeepsUp]_slots
  BY <1>2, PartsAssumption, ScenesStay, RecordsKeepUp DEF ScenesIInv
<1> QED BY <1>1, <1>2, Invariance, PTL DEF ScenesSpec, RecordsAreTrue

\* A tournament shown goes back only by an answer that was outrun, and whoever changed
\* it sees his change; a form of the settings changes what was typed in it, the avatar
\* is in the storage, and a tab shows what came of its last request, for any requests,
\* tabs, forms and texts (tournaments.ts 102-183, auth.ts 97-121, SettingsTab.tsx 46-66).
THEOREM StoresStayUp == ScenesSpec => StoresKeepUp
<1>1. ScenesIInv =>
        /\ scene = "cache" => Cache!TypeOK
        /\ scene = "settings" =>
             Settings!TypeOK /\ Settings!AvatarIsStored /\ Settings!EndedIsShown
  BY DEF ScenesIInv, Cache!IInv, Settings!IInv
<1>2. ASSUME ScenesIInv, [ScenesNext]_all
      PROVE  /\ [scene = "cache" => Cache!GoesForward /\ Cache!OwnChangeCame]_slots
             /\ [scene = "settings" => Settings!ChangesWhatWasTyped]_slots
  BY <1>2, PartsAssumption, ScenesStay, CacheInv, SettingsInv DEF ScenesIInv
<1> QED BY <1>1, <1>2, Invariance, PTL DEF ScenesSpec, StoresKeepUp

\* The account that is registered is the one of the phone that is registered, as long
\* as no lookup was answered late; what a tournament's page offers is done unless it was
\* old, to whom was meant; and a form creates a complete tournament, once
\* (TournamentDetail.tsx 404-436, 637-689, 945-1008, CreateTournamentWizard.tsx 148-194).
THEOREM PagesKeepTheirWord == ScenesSpec => PagesDoWhatTheyShow
<1>1. ScenesIInv =>
        /\ scene = "lookup" => Lookup!TypeOK
        /\ scene = "tournament" => TheTournament!TypeOK /\ TheTournament!OffersAreGood
        /\ scene = "creation" => /\ Creation!TypeOK /\ Creation!FormsAreComplete
                                 /\ Creation!CreatedOnce /\ Creation!WaitsForItsRequest
  BY DEF ScenesIInv, Lookup!IInv, TheTournament!IInv, Creation!IInv
<1>2. ASSUME ScenesIInv, [ScenesNext]_all
      PROVE  /\ [scene = "lookup" => Lookup!AddsTheOneFound]_slots
             /\ [scene = "tournament" => TheTournament!MarksWhatWasMeant]_slots
  BY <1>2, PartsAssumption, ScenesStay, LookupInv, TournamentInv DEF ScenesIInv
<1> QED BY <1>1, <1>2, Invariance, PTL DEF ScenesSpec, PagesDoWhatTheyShow
=============================================================================
