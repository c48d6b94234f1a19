------------------------- MODULE BracketPlay_proofs -------------------------
(***************************************************************************)
(* Proofs about BracketPlay.                                               *)
(***************************************************************************)
EXTENDS BracketPlay, FiniteSetTheorems, TLAPS

\* Lemmas of ScoreBoard_proofs about induction, powers of two and sequences serve
\* here; they speak of no board.
Board == INSTANCE ScoreBoard_proofs WITH
  Field <- 2, TableCount <- 0, Calls <- {}, Corrections <- FALSE, MaxScores <- 0,
  MaxFaults <- 0, board <- matches, table <- matches, notified <- {}, told <- {},
  saved <- {}, call <- {}, scores <- 0, faults <- 0, past <- {}

LEMMA FiniteAlike == \A S : IsFiniteSet(S) <=> Board!IsFiniteSet(S)
BY Zenon DEF IsFiniteSet, Board!IsFiniteSet

-----------------------------------------------------------------------------
(* Folds.                                                                  *)

\* A fold that takes the elements of a finite set one by one, in the order of pick,
\* is defined: its function exists, and there is one.
FoldIs(g, S, A, base, step, pick) ==
  /\ g \in [SUBSET S -> A]
  /\ \A s \in SUBSET S : g[s] = IF s = {} THEN base ELSE step[<<pick[s], g[s \ {pick[s]}]>>]
LEMMA FoldExists ==
  ASSUME NEW S, IsFiniteSet(S), NEW A, NEW base \in A, NEW step \in [S \X A -> A],
         NEW pick, \A s \in SUBSET S : s # {} => pick[s] \in s
  PROVE  \E g : FoldIs(g, S, A, base, step, pick)
<1> DEFINE Few(k) == {s \in SUBSET S : Cardinality(s) <= k}
           Good(g, k) == \A s \in Few(k) : g[s] = IF s = {} THEN base
                                                  ELSE step[<<pick[s], g[s \ {pick[s]}]>>]
           P == {k \in Nat : \E g \in [Few(k) -> A] : Good(g, k)}
<1>1. \A s \in SUBSET S : IsFiniteSet(s) /\ Cardinality(s) \in Nat
  BY FS_Subset, FS_CardinalityType
<1>2. ASSUME NEW s \in SUBSET S, s # {}
      PROVE  /\ pick[s] \in s /\ s \ {pick[s]} \in SUBSET S
             /\ Cardinality(s \ {pick[s]}) = Cardinality(s) - 1
  BY <1>1, <1>2, FS_RemoveElement
<1>3. 0 \in P
  <2> DEFINE g == [s \in Few(0) |-> base]
  <2>1. \A s \in Few(0) : s = {} BY <1>1, FS_EmptySet
  <2>2. g \in [Few(0) -> A] /\ Good(g, 0) BY <2>1
  <2> QED BY <2>2
<1>4. ASSUME NEW k \in Nat, k \in P PROVE k + 1 \in P
  <2>1. PICK g \in [Few(k) -> A] : Good(g, k) BY <1>4
  <2> DEFINE new(s) == IF s = {} THEN base ELSE step[<<pick[s], g[s \ {pick[s]}]>>]
             f == [s \in Few(k + 1) |-> new(s)]
  <2>2. \A s \in Few(k + 1) : s # {} => s \ {pick[s]} \in Few(k) BY <1>1, <1>2
  <2>3. \A s \in Few(k) : s \in Few(k + 1) /\ f[s] = g[s] BY <1>1, <2>1
  <2>4. f \in [Few(k + 1) -> A]
    <3>1. ASSUME NEW s \in Few(k + 1) PROVE new(s) \in A
      <4>1. CASE s = {} BY <4>1
      <4>2. CASE s # {}
        <5>1. g[s \ {pick[s]}] \in A BY <2>1, <2>2, <4>2
        <5>2. pick[s] \in S BY <1>2, <4>2
        <5> QED BY <4>2, <5>1, <5>2
      <4> QED BY <4>1, <4>2
    <3> HIDE DEF new
    <3> QED BY <3>1
  <2>5. Good(f, k + 1)
    <3>1. ASSUME NEW s \in Few(k + 1)
          PROVE  f[s] = IF s = {} THEN base ELSE step[<<pick[s], f[s \ {pick[s]}]>>]
      <4>1. CASE s = {} BY <4>1
      <4>2. CASE s # {}
        <5>1. f[s \ {pick[s]}] = g[s \ {pick[s]}] BY <2>2, <2>3, <4>2
        <5> QED BY <4>2, <5>1
      <4> QED BY <4>1, <4>2
    <3> QED BY <3>1
  <2>6. k + 1 \in Nat OBVIOUS
  <2> QED BY <2>4, <2>5, <2>6
<1> HIDE DEF P
<1>5. Nat \subseteq P BY <1>3, <1>4, Board!Induction
<1>6. Cardinality(S) \in P /\ \A s \in SUBSET S : Cardinality(s) <= Cardinality(S)
  BY <1>1, <1>5, FS_Subset
<1>7. Few(Cardinality(S)) = SUBSET S BY <1>6
<1> QED BY <1>6, <1>7 DEF P, FoldIs

-----------------------------------------------------------------------------
(* Standings.                                                              *)

\* In a finite set that is ordered, everyone has a place of his own.
Place(p, S, R) == Cardinality({q \in S : <<q, p>> \in R}) + 1
LEMMA PlacesAreTaken ==
  ASSUME NEW S, IsFiniteSet(S), NEW R,
         \A p \in S : <<p, p>> \notin R,
         \A p, q, r \in S : <<p, q>> \in R /\ <<q, r>> \in R => <<p, r>> \in R,
         \A p, q \in S : p # q => <<p, q>> \in R \/ <<q, p>> \in R
  PROVE  /\ Cardinality(S) \in Nat
         /\ \A p \in S : Place(p, S, R) \in 1..Cardinality(S)
         /\ \A p, q \in S : <<p, q>> \in R <=> Place(p, S, R) < Place(q, S, R)
         /\ \A p, q \in S : Place(p, S, R) = Place(q, S, R) => p = q
         /\ \A k \in 1..Cardinality(S) : \E p \in S : Place(p, S, R) = k
<1> DEFINE rank == [p \in S |-> Place(p, S, R)]
           above(p) == {q \in S : <<q, p>> \in R}
           card == Cardinality(S)
<1>1. card \in Nat BY FS_CardinalityType
<1>2. ASSUME NEW p \in S
      PROVE  /\ IsFiniteSet(above(p)) /\ Cardinality(above(p)) \in Nat
             /\ Cardinality(above(p)) < card
  <2>1. above(p) \in SUBSET S /\ above(p) # S OBVIOUS
  <2> HIDE DEF above, card
  <2>2. /\ IsFiniteSet(above(p)) /\ Cardinality(above(p)) <= card
        /\ card = Cardinality(above(p)) => S = above(p)
    BY <2>1, FS_Subset, Zenon DEF card
  <2>3. Cardinality(above(p)) \in Nat BY <2>2, FS_CardinalityType
  <2> QED BY <1>1, <2>1, <2>2, <2>3
<1>3. ASSUME NEW p \in S, NEW q \in S, <<p, q>> \in R
      PROVE  Cardinality(above(p)) < Cardinality(above(q))
  <2>1. above(p) \in SUBSET above(q) /\ p \in above(q) /\ p \notin above(p) BY <1>3
  <2>2. IsFiniteSet(above(q)) /\ Cardinality(above(p)) \in Nat /\ Cardinality(above(q)) \in Nat
    BY <1>2
  <2> HIDE DEF above
  <2>3. /\ Cardinality(above(p)) <= Cardinality(above(q))
        /\ Cardinality(above(q)) = Cardinality(above(p)) => above(q) = above(p)
    BY <2>1, <2>2, FS_Subset, Zenon
  <2> QED BY <2>1, <2>2, <2>3
<1>4. \A p \in S : rank[p] = Cardinality(above(p)) + 1 BY DEF Place
<1>40. \A p \in S : rank[p] = Place(p, S, R) OBVIOUS
<1> HIDE DEF above, card, rank
<1>5. \A p \in S : rank[p] \in 1..card BY <1>1, <1>2, <1>4
<1>6. \A p, q \in S : <<p, q>> \in R <=> rank[p] < rank[q]
  <2> SUFFICES ASSUME NEW p \in S, NEW q \in S PROVE <<p, q>> \in R <=> rank[p] < rank[q]
    OBVIOUS
  <2>1. Cardinality(above(p)) \in Nat /\ Cardinality(above(q)) \in Nat BY <1>2
  <2>2. CASE <<p, q>> \in R BY <1>3, <1>4, <2>1, <2>2
  <2>3. CASE <<p, q>> \notin R
    <3>1. CASE p = q BY <2>3, <3>1, <1>5
    <3>2. CASE p # q
      <4>1. <<q, p>> \in R BY <2>3, <3>2
      <4> QED BY <1>3, <1>4, <2>1, <2>3, <4>1
    <3> QED BY <3>1, <3>2
  <2> QED BY <2>2, <2>3
<1>7. \A p, q \in S : rank[p] = rank[q] => p = q BY <1>5, <1>6
<1>8. ASSUME NEW k \in 1..card, \A p \in S : rank[p] # k PROVE FALSE
  <2> DEFINE U == 1..card
             T == U \ {k}
  <2>1. IsFiniteSet(U) /\ Cardinality(U) = card /\ k \in U BY <1>1, FS_Interval
  <2> HIDE DEF U
  <2>2. IsFiniteSet(T) /\ Cardinality(T) = card - 1 BY <2>1, FS_RemoveElement
  <2>3. rank \in [S -> T] BY <1>5, <1>8 DEF U, rank
  <2> HIDE DEF T
  <2>4. Cardinality(T) < Cardinality(S) BY <1>1, <2>2 DEF card
  <2>5. \E p, q \in S : p # q /\ rank[p] = rank[q] BY <2>2, <2>3, <2>4, FS_PigeonHole
  <2> QED BY <1>7, <2>5
<1> QED BY <1>1, <1>40, <1>5, <1>6, <1>7, <1>8 DEF card

\* Keys that tell everyone apart, and how many come first.
InThatOrder(key) ==
  /\ \A p \in DOMAIN key : ~Above(key[p], key[p])
  /\ \A p, q, r \in DOMAIN key :
       Above(key[p], key[q]) /\ Above(key[q], key[r]) => Above(key[p], key[r])
  /\ \A p, q \in DOMAIN key : p # q => Above(key[p], key[q]) \/ Above(key[q], key[p])
Before(key, p) == Cardinality({q \in DOMAIN key : Above(key[q], key[p])}) + 1

\* Keys of numbers whose last entries differ are in order.
Keys == {<<a, b, c>> : a \in Int, b \in Int, c \in Int}

LEMMA KeysAreOrdered ==
  ASSUME NEW key, \A p \in DOMAIN key : key[p] \in Keys,
         \A p, q \in DOMAIN key : p # q => key[p][3] # key[q][3]
  PROVE  InThatOrder(key)
<1> DEFINE More(a, b) == \/ a[1] > b[1]
                         \/ a[1] = b[1] /\ a[2] > b[2]
                         \/ a[1] = b[1] /\ a[2] = b[2] /\ a[3] > b[3]
<1>1. ASSUME NEW a \in Keys, NEW b \in Keys PROVE Above(a, b) <=> More(a, b)
  <2>1. DOMAIN a = {1, 2, 3} /\ a[1] \in Int /\ a[2] \in Int /\ a[3] \in Int BY DEF Keys
  <2>2. b[1] \in Int /\ b[2] \in Int /\ b[3] \in Int BY DEF Keys
  <2>3. 1..(1 - 1) = {} /\ 1..(2 - 1) = {1} /\ 1..(3 - 1) = {1, 2} OBVIOUS
  <2> QED BY <2>1, <2>2, <2>3 DEF Above
<1>2. \A a \in Keys : a[1] \in Int /\ a[2] \in Int /\ a[3] \in Int BY DEF Keys
<1> QED BY <1>1, <1>2 DEF InThatOrder

\* The domain of keys in order is ranked: everyone once, the greater key first.
LEMMA RankedIs ==
  ASSUME NEW key, IsFiniteSet(DOMAIN key), InThatOrder(key),
         NEW n, n = Cardinality(DOMAIN key)
  PROVE  /\ n \in Nat /\ Ranked(key) \in [1..n -> DOMAIN key]
         /\ \A i, j \in 1..n : i < j <=> Above(key[Ranked(key)[i]], key[Ranked(key)[j]])
         /\ \A i, j \in 1..n : Ranked(key)[i] = Ranked(key)[j] => i = j
         /\ \A p \in DOMAIN key : \E i \in 1..n : Ranked(key)[i] = p
         /\ \A i \in 1..n : Before(key, Ranked(key)[i]) = i
         /\ \A p, q \in DOMAIN key : Before(key, p) = Before(key, q) => p = q
<1> DEFINE S == DOMAIN key
           R == {u \in S \X S : Above(key[u[1]], key[u[2]])}
           rank(p) == Place(p, S, R)
           place(p) == Cardinality({q \in S : Above(key[q], key[p])}) + 1
           res == Ranked(key)
<1>1. \A p, q \in S : <<p, q>> \in R <=> Above(key[p], key[q]) OBVIOUS
<1>2. /\ \A p \in S : <<p, p>> \notin R
      /\ \A p, q, r \in S : <<p, q>> \in R /\ <<q, r>> \in R => <<p, r>> \in R
      /\ \A p, q \in S : p # q => <<p, q>> \in R \/ <<q, p>> \in R
  <2>1. /\ \A p \in S : ~Above(key[p], key[p])
        /\ \A p, q, r \in S :
              Above(key[p], key[q]) /\ Above(key[q], key[r]) => Above(key[p], key[r])
        /\ \A p, q \in S : p # q => Above(key[p], key[q]) \/ Above(key[q], key[p])
    BY DEF InThatOrder
  <2> HIDE DEF R
  <2> QED BY <1>1, <2>1
<1>3. \A p \in S : rank(p) = place(p)
  <2> SUFFICES ASSUME NEW p \in S
               PROVE  {q \in S : <<q, p>> \in R} = {q \in S : Above(key[q], key[p])}
    BY DEF Place
  <2> QED BY <1>1 DEF Place
<1> HIDE DEF R
<1>4. /\ n \in Nat
      /\ \A p \in S : rank(p) \in 1..n
      /\ \A p, q \in S : <<p, q>> \in R <=> rank(p) < rank(q)
      /\ \A p, q \in S : rank(p) = rank(q) => p = q
      /\ \A k \in 1..n : \E p \in S : rank(p) = k
  <2>1. IsFiniteSet(S) /\ n = Cardinality(S) OBVIOUS
  <2> HIDE DEF S
  <2> QED BY <1>2, <2>1, PlacesAreTaken
<1>5. res = [i \in 1..n |-> CHOOSE p \in S : place(p) = i] BY DEF Ranked
<1>11. \A p \in S : place(p) = Before(key, p) BY DEF Before
<1> HIDE DEF rank, place, res
<1>6. ASSUME NEW i \in 1..n PROVE res[i] \in S /\ rank(res[i]) = i
  <2>1. \E p \in S : place(p) = i BY <1>3, <1>4
  <2>2. (CHOOSE p \in S : place(p) = i) \in S /\ place(CHOOSE p \in S : place(p) = i) = i
    BY <2>1
  <2> QED BY <1>3, <1>5, <2>2
<1>7. res \in [1..n -> S] BY <1>5, <1>6
<1>8. ASSUME NEW p \in S PROVE \E i \in 1..n : res[i] = p
  <2>1. rank(p) \in 1..n BY <1>4
  <2>2. res[rank(p)] = p BY <1>4, <1>6, <2>1
  <2> QED BY <2>1, <2>2
<1>9. \A i, j \in 1..n : res[i] = res[j] => i = j BY <1>6
<1>10. ASSUME NEW i \in 1..n, NEW j \in 1..n PROVE i < j <=> Above(key[res[i]], key[res[j]])
  <2>1. res[i] \in S /\ res[j] \in S /\ rank(res[i]) = i /\ rank(res[j]) = j BY <1>6
  <2>2. <<res[i], res[j]>> \in R <=> i < j BY <1>4, <2>1
  <2> QED BY <1>1, <2>1, <2>2
<1>12. \A i \in 1..n : Before(key, res[i]) = i BY <1>3, <1>6, <1>11
<1>13. \A p, q \in S : Before(key, p) = Before(key, q) => p = q BY <1>3, <1>4, <1>11
<1> QED BY <1>4, <1>7, <1>8, <1>9, <1>10, <1>12, <1>13 DEF res

\* The balance is a number.
SumBy(ms, xs) == FSets!MapThenSumSet(LAMBDA x : ms[x].by, xs)
LEMMA SumIs ==
  ASSUME NEW xs, IsFiniteSet(xs), NEW ms, \A x \in xs : ms[x].by \in Nat
  PROVE  SumBy(ms, xs) \in Nat
<1> DEFINE pick == [s \in SUBSET xs |-> CHOOSE x \in s : TRUE]
           step == [u \in xs \X Nat |-> ms[u[1]].by + u[2]]
           F(f) == [s \in SUBSET xs |-> IF s = {} THEN 0
                      ELSE ms[CHOOSE x \in s : TRUE].by + f[s \ {CHOOSE x \in s : TRUE}]]
           it == CHOOSE f : f = F(f)
<1>1. \A s \in SUBSET xs : s # {} => pick[s] \in s OBVIOUS
<1>2. step \in [xs \X Nat -> Nat] OBVIOUS
<1>3. PICK g : FoldIs(g, xs, Nat, 0, step, pick)
  <2> HIDE DEF pick, step
  <2>1. 0 \in Nat OBVIOUS
  <2> QED BY <1>1, <1>2, <2>1, FoldExists
<1>4. g = F(g)
  <2>1. ASSUME NEW s \in SUBSET xs
        PROVE  g[s] = IF s = {} THEN 0 ELSE ms[CHOOSE x \in s : TRUE].by
                                            + g[s \ {CHOOSE x \in s : TRUE}]
    BY <1>1, <1>3 DEF FoldIs
  <2> QED BY <1>3, <2>1 DEF FoldIs
<1>5. it = F(it) BY <1>4
<1>6. SumBy(ms, xs) = it[xs]
  BY DEF SumBy, FSets!MapThenSumSet, FSets!MapThenFoldSet
<1> DEFINE P == {s \in SUBSET xs : it[s] \in Nat}
<1>7. ASSUME NEW T \in SUBSET xs, \A U \in SUBSET T : U # T => U \in P PROVE T \in P
  <2>1. it[T] = IF T = {} THEN 0 ELSE ms[CHOOSE x \in T : TRUE].by
                                       + it[T \ {CHOOSE x \in T : TRUE}]
    BY <1>5
  <2> HIDE DEF it
  <2>2. CASE T = {} BY <2>1, <2>2
  <2>3. CASE T # {}
    <3>1. (CHOOSE x \in T : TRUE) \in T BY <2>3
    <3>2. it[T \ {CHOOSE x \in T : TRUE}] \in Nat BY <1>7, <3>1
    <3> QED BY <2>1, <2>3, <3>1, <3>2
  <2> QED BY <2>2, <2>3
<1> HIDE DEF P
<1>8. SUBSET xs \subseteq P BY <1>7, FiniteAlike, Board!SubsetInduction
<1> QED BY <1>6, <1>8 DEF P

LEMMA StandingKeys ==
  ASSUME NEW ms, NEW xs, IsFiniteSet(xs), \A x \in xs : ms[x].by \in Nat,
         NEW players, players \subseteq Int,
         NEW key, key = [p \in players |->
                           <<Cardinality(Won(ms, xs, p)), Balance(ms, xs, p), -p>>]
  PROVE  InThatOrder(key) /\ \A p \in players : key[p] \in Keys
<1>1. ASSUME NEW p \in players PROVE key[p] \in Keys /\ key[p][3] = -p
  <2>1. /\ IsFiniteSet(Won(ms, xs, p)) /\ Won(ms, xs, p) \subseteq xs
        /\ IsFiniteSet(Lost(ms, xs, p)) /\ Lost(ms, xs, p) \subseteq xs
    BY FS_Subset DEF Won, Lost
  <2>2. Cardinality(Won(ms, xs, p)) \in Nat BY <2>1, FS_CardinalityType
  <2>3. SumBy(ms, Won(ms, xs, p)) \in Nat /\ SumBy(ms, Lost(ms, xs, p)) \in Nat
    BY <2>1, SumIs
  <2>4. Balance(ms, xs, p) = SumBy(ms, Won(ms, xs, p)) - SumBy(ms, Lost(ms, xs, p))
    BY DEF Balance, SumBy
  <2>5. Balance(ms, xs, p) \in Int /\ Cardinality(Won(ms, xs, p)) \in Int /\ -p \in Int
    BY <2>2, <2>3, <2>4
  <2>6. \A a, b, c \in Int : <<a, b, c>> \in Keys /\ <<a, b, c>>[3] = c BY DEF Keys
  <2>7. key[p] = <<Cardinality(Won(ms, xs, p)), Balance(ms, xs, p), -p>> OBVIOUS
  <2> QED BY <2>5, <2>6, <2>7
<1>2. \A p, q \in DOMAIN key : p # q => key[p][3] # key[q][3]
  <2>1. \A i, j \in Int : -i = -j => i = j OBVIOUS
  <2>2. DOMAIN key = players OBVIOUS
  <2> QED BY <1>1, <2>1, <2>2
<1> QED BY <1>1, <1>2, KeysAreOrdered

-----------------------------------------------------------------------------
(* The places of a league.                                                 *)

LEMMA SameHead ==
  ASSUME NEW z, NEW a1, NEW a2, NEW a3, NEW b1, NEW b2, NEW b3, ~(z > z)
  PROVE  Above(<<z, a1, a2, a3>>, <<z, b1, b2, b3>>) <=> Above(<<a1, a2, a3>>, <<b1, b2, b3>>)
<1>1. /\ DOMAIN <<z, a1, a2, a3>> = {1, 2, 3, 4} /\ DOMAIN <<a1, a2, a3>> = {1, 2, 3}
      /\ 1..(1 - 1) = {} /\ 1..(2 - 1) = {1} /\ 1..(3 - 1) = {1, 2} /\ 1..(4 - 1) = {1, 2, 3}
  OBVIOUS
<1> QED BY <1>1 DEF Above

\* The keys of participants give each of them a place.
InPlaces(key, n) ==
  /\ Ranked(key) \in [1..n -> 1..n]
  /\ \A i \in 1..n : Before(key, Ranked(key)[i]) = i
  /\ \A p, q \in 1..n : Before(key, p) = Before(key, q) => p = q

LEMMA PlacesAreTheirs ==
  ASSUME NEW n \in Nat, IsFiniteSet(1..n), Cardinality(1..n) = n,
         NEW key, DOMAIN key = 1..n, InThatOrder(key)
  PROVE  InPlaces(key, n)
<1> DEFINE m == Cardinality(DOMAIN key)
<1>1. m = n /\ IsFiniteSet(DOMAIN key) OBVIOUS
<1> HIDE DEF m
<1>2. m = Cardinality(DOMAIN key) BY DEF m
<1>3. /\ Ranked(key) \in [1..m -> DOMAIN key]
      /\ \A i \in 1..m : Before(key, Ranked(key)[i]) = i
      /\ \A p, q \in DOMAIN key : Before(key, p) = Before(key, q) => p = q
  BY <1>1, <1>2, RankedIs
<1> QED BY <1>1, <1>3 DEF InPlaces

\* Nobody is out before the last place, so places are those of the standings.
LEMMA PlacementsAre ==
  ASSUME NEW ms, NEW n \in Nat, IsFiniteSet(DOMAIN ms), \A x \in DOMAIN ms : ms[x].by \in Nat,
         \A x \in DOMAIN ms : ms[x].round \in Nat /\ ms[x].round <= Infinity,
         \E x \in DOMAIN ms : Closed(ms[x])
  PROVE  Placements(ms, n) = Standings(ms, DOMAIN ms, 1..n)
<1> DEFINE D == DOMAIN ms
           short == [p \in 1..n |-> <<Cardinality(Won(ms, D, p)), Balance(ms, D, p), -p>>]
           long == [p \in 1..n |-> <<ExitRound(ms, p), Cardinality(Won(ms, D, p)),
                                      Balance(ms, D, p), -p>>]
<1>1. ASSUME NEW p PROVE ExitRound(ms, p) = Infinity
  <2> DEFINE T == {Infinity} \cup {ms[x].round : x \in Lost(ms, D, p)}
  <2>1. \A t \in T : t \in Nat /\ t <= Infinity BY DEF Lost, Infinity
  <2>2. Infinity \in T /\ \A t \in T : Infinity >= t BY <2>1 DEF Infinity
  <2>3. (CHOOSE t \in T : \A u \in T : t >= u) = Infinity
    <3> DEFINE m == CHOOSE t \in T : \A u \in T : t >= u
    <3>1. m \in T /\ m >= Infinity BY <2>2
    <3> HIDE DEF m, T
    <3> QED BY <2>1, <3>1 DEF Infinity, m
  <2> QED BY <2>3 DEF ExitRound, FSets!Max
<1>2. InThatOrder(short)
  <2>1. 1..n \subseteq Int OBVIOUS
  <2> HIDE DEF short
  <2> QED BY <2>1, StandingKeys DEF short
<1>3. \A p, q \in 1..n : Above(long[p], long[q]) <=> Above(short[p], short[q])
  BY <1>1, SameHead DEF Infinity
<1>13. DOMAIN long = 1..n /\ DOMAIN short = 1..n OBVIOUS
<1>14. IsFiniteSet(1..n) /\ Cardinality(1..n) = n
  <2> DEFINE one == 1
  <2>1. one \in Int /\ n \in Int OBVIOUS
  <2> HIDE DEF one
  <2>2. IsFiniteSet(one..n) /\ Cardinality(one..n) = IF one > n THEN 0 ELSE n - one + 1
    BY <2>1, FS_Interval
  <2>3. (IF one > n THEN 0 ELSE n - one + 1) = n BY DEF one
  <2> QED BY <2>2, <2>3 DEF one
<1>4. DOMAIN long = 1..n /\ DOMAIN short = 1..n /\ IsFiniteSet(1..n) /\ Cardinality(1..n) = n
  BY <1>13, <1>14
<1>5. Placements(ms, n) = Ranked(long) /\ Standings(ms, D, 1..n) = Ranked(short)
  BY DEF Placements, Standings
<1> HIDE DEF long, short, D
<1>6. InThatOrder(long) BY <1>2, <1>3, <1>4 DEF InThatOrder
<1>7. \A p \in 1..n : Before(long, p) = Before(short, p)
  <2> SUFFICES ASSUME NEW p \in 1..n
               PROVE  {q \in 1..n : Above(long[q], long[p])} = {q \in 1..n : Above(short[q], short[p])}
    BY <1>4 DEF Before
  <2> QED BY <1>3
<1>8. InPlaces(long, n) BY <1>4, <1>6, PlacesAreTheirs
<1>9. InPlaces(short, n) BY <1>2, <1>4, PlacesAreTheirs
<1>10. \A i \in 1..n : Ranked(long)[i] = Ranked(short)[i]
  <2> SUFFICES ASSUME NEW i \in 1..n PROVE Ranked(long)[i] = Ranked(short)[i] OBVIOUS
  <2>1. Ranked(long)[i] \in 1..n /\ Before(long, Ranked(long)[i]) = i BY <1>8 DEF InPlaces
  <2>2. Ranked(short)[i] \in 1..n /\ Before(short, Ranked(short)[i]) = i BY <1>9 DEF InPlaces
  <2> QED BY <1>7, <1>9, <2>1, <2>2 DEF InPlaces
<1>11. Ranked(long) = Ranked(short) BY <1>8, <1>9, <1>10 DEF InPlaces
<1> QED BY <1>5, <1>11 DEF D

-----------------------------------------------------------------------------
(* Results and rounds.                                                     *)

Result == [side : Sides, by : Nat]

LEMMA ResultIs ==
  ASSUME NEW D, NEW ms \in [D -> Match], NEW x \in D, NEW win \in Result,
         NEW done, done = SetResult(ms, x, win)
  PROVE  /\ done \in [D -> Match]
         /\ \A y \in D \ {x} : done[y] = ms[y]
         /\ done[x].status = "completed" /\ done[x].by = win.by
         /\ done[x].winner = IF win.side = 1 THEN ms[x].p1 ELSE ms[x].p2
         /\ done[x].p1 = ms[x].p1 /\ done[x].p2 = ms[x].p2
         /\ done[x].stage = ms[x].stage /\ done[x].round = ms[x].round
  BY DEF SetResult, Match, Result

LEMMA PairingIs ==
  ASSUME NEW stage \in Stages, NEW r \in Nat, NEW a \in Nat, NEW b \in Nat
  PROVE  LET m == Pairing(stage, r, a, b) IN
         /\ m \in Match /\ m.stage = stage /\ m.round = r /\ m.p1 = a /\ m.p2 = b
         /\ m.status = IF a = Nobody \/ b = Nobody THEN "bye" ELSE "pending"
         /\ m.winner = IF a = Nobody THEN b ELSE IF b = Nobody THEN a ELSE Nobody
         /\ m.by = 0
  BY DEF Pairing, EmptyMatch, Match, Nobody

\* The least of some numbers.
LEMMA MinIs ==
  ASSUME NEW T, T \subseteq Nat, T # {}
  PROVE  FSets!Min(T) \in T /\ \A t \in T : FSets!Min(T) <= t
  BY Board!LeastNatural DEF FSets!Min

LEMMA MaxIs ==
  ASSUME NEW T, T \subseteq Nat, IsFiniteSet(T), T # {}
  PROVE  FSets!Max(T) \in T /\ \A t \in T : t <= FSets!Max(T)
<1> DEFINE P == {U \in SUBSET T : U = {} \/ \E x \in U : \A y \in U : y <= x}
<1>1. ASSUME NEW V \in SUBSET T, \A U \in SUBSET V : U # V => U \in P PROVE V \in P
  <2>1. CASE V = {} BY <2>1
  <2>2. CASE V # {}
    <3>1. PICK z \in V : TRUE BY <2>2
    <3>2. V \ {z} \in P BY <1>1, <3>1
    <3>3. CASE V \ {z} = {} BY <3>1, <3>3
    <3>4. CASE V \ {z} # {}
      <4>1. PICK x \in V \ {z} : \A y \in V \ {z} : y <= x BY <3>2, <3>4
      <4>2. x \in Nat /\ z \in Nat /\ \A y \in V : y \in Nat BY <4>1
      <4>3. CASE z <= x BY <4>1, <4>3
      <4>4. CASE x <= z
        <5>1. \A y \in V : y <= z BY <4>1, <4>2, <4>4
        <5> QED BY <5>1, <3>1
      <4> QED BY <4>2, <4>3, <4>4
    <3> QED BY <3>3, <3>4
  <2> QED BY <2>1, <2>2
<1> HIDE DEF P
<1>2. SUBSET T \subseteq P BY <1>1, FiniteAlike, Board!SubsetInduction
<1>3. T \in P BY <1>2
<1>4. \E x \in T : \A y \in T : y <= x BY <1>3 DEF P
<1>5. \E x \in T : \A y \in T : x >= y BY <1>4
<1> QED BY <1>5 DEF FSets!Max

-----------------------------------------------------------------------------
(* A round of swiss.                                                       *)

\* An order of the first n participants.
Orders(order, n) ==
  /\ order \in [1..n -> 1..n]
  /\ \A i, j \in 1..n : order[i] = order[j] => i = j
  /\ \A p \in 1..n : \E i \in 1..n : order[i] = p

\* f tells the pairs after each place of the order.
PairsUp(f, round, order, met, n) ==
  /\ f \in [0..n -> Seq(Match)]
  /\ f[0] = <<>>
  /\ \A k \in 1..n : f[k] = PairNext(round, order, met, f[k - 1], order[k])

\* Someone free, the first who was not met if there is one, or nobody if all are used.
IsPartner(b, order, met, used, a, n) ==
  /\ b \in 0..n
  /\ b # Nobody => b \in 1..n /\ b \notin used /\ b # a
  /\ b = Nobody => \A p \in 1..n : p \in used \/ p = a
  /\ \A i, j \in 1..n :
       order[i] = b /\ order[j] \notin used /\ order[j] # a /\ {a, order[j]} \notin met
       => {a, b} \notin met /\ i <= j
LEMMA PartnerIs ==
  ASSUME NEW n \in Nat, NEW order, Orders(order, n), NEW met, NEW used, NEW a
  PROVE  IsPartner(Partner(order, met, used, a), order, met, used, a, n)
<1> DEFINE b == Partner(order, met, used, a)
           free == {i \in 1..n : order[i] \notin used \cup {a}}
           fresh == {i \in free : {a, order[i]} \notin met}
           T == IF fresh = {} THEN free ELSE fresh
           first == FSets!Min(T)
<1>1. DOMAIN order = 1..n BY DEF Orders
<1>2. b = IF free = {} THEN Nobody ELSE order[first] BY <1>1, Zenon DEF Partner
<1>5. /\ free \subseteq 1..n /\ fresh \subseteq free
      /\ \A i \in 1..n : i \in free <=> order[i] \notin used /\ order[i] # a
      /\ \A i \in 1..n : i \in fresh <=> i \in free /\ {a, order[i]} \notin met
  OBVIOUS
<1> HIDE DEF b, free, fresh, T, first
<1>3. CASE free = {}
  <2>1. b = 0 BY <1>2, <1>3 DEF Nobody
  <2>2. \A p \in 1..n : p \in used \/ p = a BY <1>3, <1>5 DEF Orders
  <2>3. \A i \in 1..n : order[i] # 0 BY DEF Orders
  <2>4. IsPartner(b, order, met, used, a, n) BY <2>1, <2>2, <2>3 DEF Nobody, IsPartner
  <2> QED BY <2>4 DEF b
<1>4. CASE free # {}
  <2>1. T \subseteq Nat /\ T # {}
    <3> 1..n \subseteq Nat OBVIOUS
    <3>1. CASE fresh = {} BY <1>4, <1>5, <3>1 DEF T
    <3>2. CASE fresh # {} BY <1>5, <3>2 DEF T
    <3> QED BY <3>1, <3>2
  <2>2. first \in T /\ \A t \in T : first <= t BY <2>1, MinIs DEF first
  <2>3. b = order[first] /\ first \in free BY <1>2, <1>4, <1>5, <2>2 DEF T
  <2>4. b \in 1..n /\ b \notin used /\ b # a /\ first \in 1..n BY <1>5, <2>3 DEF Orders
  <2>5. ASSUME NEW i \in 1..n, NEW j \in 1..n, order[i] = b, order[j] \notin used,
               order[j] # a, {a, order[j]} \notin met
        PROVE  {a, b} \notin met /\ i <= j
    <3>1. j \in fresh BY <1>5, <2>5
    <3>2. T = fresh BY <3>1 DEF T
    <3>3. first \in fresh /\ first <= j BY <2>2, <3>1, <3>2
    <3>4. i = first BY <2>3, <2>4, <2>5 DEF Orders
    <3> QED BY <1>5, <2>3, <2>4, <3>3, <3>4
  <2>6. b # Nobody /\ b \in 0..n BY <2>4 DEF Nobody
  <2>7. IsPartner(b, order, met, used, a, n) BY <2>4, <2>5, <2>6 DEF IsPartner
  <2> QED BY <2>7 DEF b
<1> QED BY <1>3, <1>4

LEMMA PairNextIs ==
  ASSUME NEW n \in Nat, NEW order, Orders(order, n), NEW met, NEW round \in Nat,
         NEW acc \in Seq(Match), NEW a \in 1..n
  PROVE  PairNext(round, order, met, acc, a) \in Seq(Match)
<1> DEFINE b == Partner(order, met, Seated(acc), a)
           m == Pairing("main", round, a, b)
<1>1. b \in Nat
  <2>1. IsPartner(b, order, met, Seated(acc), a, n) BY PartnerIs
  <2> QED BY <2>1 DEF IsPartner
<1> HIDE DEF b
<1>2. "main" \in Stages /\ a \in Nat BY DEF Stages
<1>3. m \in Match BY <1>1, <1>2, PairingIs
<1> HIDE DEF m
<1>4. Append(acc, m) \in Seq(Match) BY <1>3
<1> QED BY <1>4 DEF PairNext, m, b

\* The pairs of a round are put together from the top of the standings.
LEMMA SwissFold ==
  ASSUME NEW ms, NEW n \in Nat, NEW round \in Nat, NEW order,
         order = Standings(ms, DOMAIN ms, 1..n), Orders(order, n)
  PROVE  \E f : PairsUp(f, round, order, Met(ms), n) /\ SwissPairings(ms, n, round) = f[n]
<1> DEFINE S == 1..n
           A == Seq(Match)
           met == Met(ms)
           pick == [s \in SUBSET S |-> FSets!Max(s)]
           step == [u \in S \X A |-> PairNext(round, order, met, u[2], order[u[1]])]
           F(g) == [s \in SUBSET S |-> IF s = {} THEN <<>>
                      ELSE PairNext(round, order, met, g[s \ {FSets!Max(s)}], order[FSets!Max(s)])]
           it == CHOOSE g : g = F(g)
<1>1. IsFiniteSet(S) /\ \A s \in SUBSET S : IsFiniteSet(s) /\ s \subseteq Nat
  <2>1. IsFiniteSet(S) BY FS_Interval
  <2>2. S \subseteq Nat OBVIOUS
  <2> HIDE DEF S
  <2> QED BY <2>1, <2>2, FS_Subset
<1>2. \A s \in SUBSET S : s # {} => pick[s] \in s BY <1>1, MaxIs
<1>3. step \in [S \X A -> A]
  <2>1. \A k \in S : order[k] \in 1..n BY DEF Orders
  <2> HIDE DEF S, A
  <2>2. ASSUME NEW k \in S, NEW acc \in A
        PROVE  PairNext(round, order, met, acc, order[k]) \in A
    BY <2>1, PairNextIs DEF A
  <2> QED BY <2>2
<1>4. PICK g : FoldIs(g, S, A, <<>>, step, pick)
  <2> HIDE DEF pick, step
  <2>1. <<>> \in A OBVIOUS
  <2> HIDE DEF S, A
  <2> QED BY <1>1, <1>2, <1>3, <2>1, FoldExists
<1>5. g = F(g)
  <2>1. ASSUME NEW s \in SUBSET S
        PROVE  g[s] = IF s = {} THEN <<>>
                      ELSE PairNext(round, order, met, g[s \ {FSets!Max(s)}], order[FSets!Max(s)])
    <3>1. CASE s = {} BY <1>4, <3>1 DEF FoldIs
    <3>2. CASE s # {}
      <4>1. pick[s] = FSets!Max(s) /\ FSets!Max(s) \in S BY <1>2, <3>2
      <4>2. g[s \ {FSets!Max(s)}] \in A BY <1>4 DEF FoldIs
      <4>3. g[s] = step[<<FSets!Max(s), g[s \ {FSets!Max(s)}]>>]
        BY <1>4, <3>2, <4>1 DEF FoldIs
      <4> QED BY <3>2, <4>1, <4>2, <4>3
    <3> QED BY <3>1, <3>2
  <2> QED BY <1>4, <2>1 DEF FoldIs
<1>6. it = F(it) BY <1>5
<1>7. DOMAIN order = S BY DEF Orders
<1>8. SwissPairings(ms, n, round) = it[S]
  BY <1>7 DEF SwissPairings, Seqs!FoldLeft, Seqs!MapThenFoldSet, Seqs!Max, FSets!Max
<1>9. \A s \in SUBSET S : it[s] \in A
  <2> DEFINE P == {s \in SUBSET S : it[s] \in A}
  <2>1. ASSUME NEW T \in SUBSET S, \A U \in SUBSET T : U # T => U \in P PROVE T \in P
    <3>1. it[T] = IF T = {} THEN <<>>
                  ELSE PairNext(round, order, met, it[T \ {FSets!Max(T)}], order[FSets!Max(T)])
      BY <1>6
    <3> HIDE DEF it
    <3>2. CASE T = {}
      <4>1. it[T] = <<>> BY <3>1, <3>2
      <4>2. <<>> \in A OBVIOUS
      <4> QED BY <4>1, <4>2
    <3>3. CASE T # {}
      <4>1. FSets!Max(T) \in T BY <1>2, <3>3
      <4>2. it[T \ {FSets!Max(T)}] \in A BY <2>1, <4>1
      <4>3. order[FSets!Max(T)] \in 1..n BY <4>1 DEF Orders
      <4>4. it[T] \in A BY <3>1, <3>3, <4>2, <4>3, PairNextIs
      <4> QED BY <4>4
    <3> QED BY <3>2, <3>3
  <2> HIDE DEF P, S
  <2>2. SUBSET S \subseteq P BY <1>1, <2>1, FiniteAlike, Board!SubsetInduction
  <2> QED BY <2>2 DEF P
<1> DEFINE f == [k \in 0..n |-> it[1..k]]
<1>10. ASSUME NEW k \in 0..n PROVE (1..k) \in SUBSET S OBVIOUS
<1>11. ASSUME NEW k \in 1..n
       PROVE  FSets!Max(1..k) = k /\ (1..k) \ {k} = 1..(k - 1) /\ (1..k) # {} /\ k - 1 \in 0..n
  <2>1. FSets!Max(1..k) \in 1..k /\ \A t \in 1..k : t <= FSets!Max(1..k)
    <3> DEFINE T == 1..k
    <3>4. k \in Nat \ {0} OBVIOUS
    <3>5. 1 \in T /\ \A t \in T : t \in Nat BY <3>4
    <3>1. k \in Int /\ 1 \in Int /\ T \subseteq Nat /\ T # {} BY <3>4, <3>5
    <3>3. IsFiniteSet(T) BY <3>1, FS_Interval
    <3> HIDE DEF T
    <3>2. FSets!Max(T) \in T /\ \A t \in T : t <= FSets!Max(T) BY <3>1, <3>3, MaxIs
    <3> QED BY <3>2 DEF T
  <2> QED BY <2>1
<1>12. ASSUME NEW s \in SUBSET S
       PROVE  it[s] = IF s = {} THEN <<>>
                      ELSE PairNext(round, order, met, it[s \ {FSets!Max(s)}], order[FSets!Max(s)])
  BY <1>6
<1> HIDE DEF it
<1>13. f \in [0..n -> A] BY <1>9, <1>10
<1>14. f[0] = <<>>
  <2>1. it[{}] = <<>> BY <1>12
  <2>2. 1..0 = {} OBVIOUS
  <2> QED BY <2>1, <2>2
<1>15. ASSUME NEW k \in 1..n PROVE f[k] = PairNext(round, order, met, f[k - 1], order[k])
  <2>1. it[1..k] = PairNext(round, order, met, it[(1..k) \ {FSets!Max(1..k)}], order[FSets!Max(1..k)])
    BY <1>10, <1>11, <1>12
  <2>2. it[1..k] = PairNext(round, order, met, it[1..(k - 1)], order[k]) BY <1>11, <2>1
  <2> QED BY <1>11, <2>2
<1> HIDE DEF f, met
<1>16. PairsUp(f, round, order, met, n) BY <1>13, <1>14, <1>15 DEF PairsUp
<1>17. f[n] = it[S] BY DEF f
<1> QED BY <1>8, <1>16, <1>17 DEF met

\* Pairs of a swiss tournament: two participants, or one with a bye.
Pairs(ms, n) ==
  \A x \in DOMAIN ms :
    /\ ms[x].stage = "main" /\ ms[x].p1 \in 1..n /\ ms[x].p2 \in 0..n /\ ms[x].p1 # ms[x].p2
    /\ ms[x].status = "bye" <=> ms[x].p2 = Nobody
    /\ ms[x].status = "bye" => ms[x].winner = ms[x].p1
    /\ ms[x].status = "completed" => ms[x].winner \in {ms[x].p1, ms[x].p2}

\* Nobody sits twice in a round.
Apart(ms) == \A x, y \in DOMAIN ms :
  x # y /\ ms[x].round = ms[y].round => Players(ms[x]) \cap Players(ms[y]) = {}

\* A round has at most one bye.
OneBye(ms) == \A x, y \in DOMAIN ms :
  ms[x].p2 = Nobody /\ ms[y].p2 = Nobody /\ ms[x].round = ms[y].round => x = y

\* The matches of a round that is put together: whoever has a bye is the last one.
InRound(acc, n, round) ==
  /\ acc \in Seq(Match) /\ Pairs(acc, n) /\ Apart(acc) /\ OneBye(acc)
  /\ \A x \in DOMAIN acc : acc[x].round = round
  /\ \A x \in DOMAIN acc : acc[x].p2 = Nobody => \A p \in 1..n : p \in Seated(acc)

\* What a step of the pairing adds.
Joins(new, acc, a, b) ==
  /\ DOMAIN new = DOMAIN acc \cup {Len(acc) + 1}
  /\ \A x \in DOMAIN acc : new[x] = acc[x]
  /\ new[Len(acc) + 1].p1 = a /\ new[Len(acc) + 1].p2 = b

Adds(new, acc, a, order, met, n) ==
  \/ a \in Seated(acc) /\ new = acc
  \/ /\ a \notin Seated(acc)
     /\ \E b : /\ IsPartner(b, order, met, Seated(acc), a, n)
               /\ Joins(new, acc, a, b)
               /\ Seated(new) = Seated(acc) \cup ({a, b} \ {Nobody})

LEMMA AppendIs ==
  ASSUME NEW acc \in Seq(Match), NEW m \in Match, NEW new, new = Append(acc, m)
  PROVE  /\ new \in Seq(Match) /\ DOMAIN new = DOMAIN acc \cup {Len(acc) + 1}
         /\ Len(acc) + 1 \notin DOMAIN acc
         /\ \A x \in DOMAIN acc : new[x] = acc[x]
         /\ new[Len(acc) + 1] = m
OBVIOUS

LEMMA SeatedIs == \A ms, p : p \in Seated(ms) <=> \E x \in DOMAIN ms : p \in Players(ms[x])
BY DEF Seated

LEMMA PairNextSays ==
  ASSUME NEW n \in Nat, NEW order, Orders(order, n), NEW met, NEW round \in Nat,
         NEW acc, InRound(acc, n, round), NEW a \in 1..n,
         NEW new, new = PairNext(round, order, met, acc, a)
  PROVE  InRound(new, n, round) /\ Adds(new, acc, a, order, met, n)
<1> USE DEF Adds
<1>1. CASE a \in Seated(acc) BY <1>1 DEF PairNext
<1>2. CASE a \notin Seated(acc)
  <2> DEFINE b == Partner(order, met, Seated(acc), a)
             m == Pairing("main", round, a, b)
             z == Len(acc) + 1
  <2>1. IsPartner(b, order, met, Seated(acc), a, n) BY PartnerIs
  <2>2. new = Append(acc, m) BY <1>2 DEF PairNext
  <2> HIDE DEF b
  <2>3. b \in 0..n /\ b # a /\ b \notin Seated(acc) /\ a # 0 /\ a \in Nat /\ b \in Nat
    <3>1. 0 \notin Seated(acc) BY DEF Seated, Players, Nobody
    <3> QED BY <2>1, <3>1 DEF IsPartner, Nobody
  <2>4. /\ m \in Match /\ m.stage = "main" /\ m.round = round /\ m.p1 = a /\ m.p2 = b
        /\ m.status = IF a = Nobody \/ b = Nobody THEN "bye" ELSE "pending"
        /\ m.winner = IF a = Nobody THEN b ELSE IF b = Nobody THEN a ELSE Nobody
    <3>1. "main" \in Stages BY DEF Stages
    <3> QED BY <2>3, <3>1, PairingIs
  <2> HIDE DEF m
  <2>5. /\ new \in Seq(Match) /\ DOMAIN new = DOMAIN acc \cup {z} /\ z \notin DOMAIN acc
        /\ \A x \in DOMAIN acc : new[x] = acc[x]
        /\ new[z] = m
    BY <2>2, <2>4, AppendIs DEF InRound
  <2> HIDE DEF z
  <2>6. Joins(new, acc, a, b) BY <2>4, <2>5 DEF Joins, z
  <2>7. Players(m) = {a, b} \ {Nobody} BY <2>4 DEF Players
  <2>8. Seated(new) = Seated(acc) \cup ({a, b} \ {Nobody})
    <3>1. \A p : p \in Seated(new) <=> \E x \in DOMAIN new : p \in Players(new[x])
      BY SeatedIs
    <3>2. \A p : p \in Seated(acc) <=> \E x \in DOMAIN acc : p \in Players(acc[x])
      BY SeatedIs
    <3>3. \A p : p \in Seated(new) <=> p \in Seated(acc) \/ p \in Players(m)
      BY <2>5, <3>1, <3>2
    <3> QED BY <2>7, <3>3
  <2>9. Pairs(new, n)
    <3> SUFFICES ASSUME NEW x \in DOMAIN new
                 PROVE  /\ new[x].stage = "main" /\ new[x].p1 \in 1..n /\ new[x].p2 \in 0..n
                        /\ new[x].p1 # new[x].p2
                        /\ new[x].status = "bye" <=> new[x].p2 = Nobody
                        /\ new[x].status = "bye" => new[x].winner = new[x].p1
                        /\ new[x].status = "completed" => new[x].winner \in {new[x].p1, new[x].p2}
      BY DEF Pairs
    <3>1. CASE x \in DOMAIN acc BY <2>5, <3>1 DEF InRound, Pairs
    <3>2. CASE x = z BY <2>3, <2>4, <2>5, <3>2 DEF Nobody
    <3> QED BY <2>5, <3>1, <3>2
  <2>10. Apart(new)
    <3>1. \A x \in DOMAIN acc : Players(acc[x]) \subseteq Seated(acc) BY DEF Seated
    <3>2. Players(m) \cap Seated(acc) = {} BY <1>2, <2>3, <2>7
    <3> SUFFICES ASSUME NEW x \in DOMAIN new, NEW y \in DOMAIN new, x # y,
                        new[x].round = new[y].round
                 PROVE  Players(new[x]) \cap Players(new[y]) = {}
      BY DEF Apart
    <3>3. CASE x \in DOMAIN acc /\ y \in DOMAIN acc BY <2>5, <3>3 DEF InRound, Apart
    <3>4. CASE x = z /\ y \in DOMAIN acc BY <2>5, <3>1, <3>2, <3>4
    <3>5. CASE y = z /\ x \in DOMAIN acc BY <2>5, <3>1, <3>2, <3>5
    <3> QED BY <2>5, <3>3, <3>4, <3>5
  <2>11. \A x \in DOMAIN new : new[x].round = round BY <2>4, <2>5 DEF InRound
  <2>13. \A x \in DOMAIN acc : acc[x].p2 # Nobody BY <1>2 DEF InRound
  <2>14. OneBye(new) BY <2>5, <2>13 DEF OneBye
  <2>15. b = Nobody => \A p \in 1..n : p \in Seated(new) BY <2>1, <2>3, <2>8 DEF IsPartner, Nobody
  <2>16. \A x \in DOMAIN new : new[x].p2 = Nobody => \A p \in 1..n : p \in Seated(new)
    BY <2>4, <2>5, <2>13, <2>15
  <2>12. InRound(new, n, round) BY <2>5, <2>9, <2>10, <2>11, <2>14, <2>16 DEF InRound
  <2> QED BY <1>2, <2>1, <2>6, <2>8, <2>12
<1> QED BY <1>1, <1>2

\* A round of swiss seats everyone once.
LEMMA SwissRoundIs ==
  ASSUME NEW n \in Nat, NEW order, Orders(order, n), NEW met, NEW round \in Nat,
         NEW f, PairsUp(f, round, order, met, n)
  PROVE  /\ \A k \in 0..n : InRound(f[k], n, round)
         /\ \A k \in 0..n : \A i \in 1..k : order[i] \in Seated(f[k])
         /\ \A k \in 1..n : Adds(f[k], f[k - 1], order[k], order, met, n)
         /\ Seated(f[n]) = 1..n
<1> DEFINE P == {k \in Nat : k <= n => /\ InRound(f[k], n, round)
                                       /\ \A i \in 1..k : order[i] \in Seated(f[k])}
<1>1. 0 \in P
  <2>1. InRound(<<>>, n, round) BY DEF InRound, Pairs, Apart, OneBye
  <2> QED BY <2>1 DEF PairsUp
<1>2. ASSUME NEW k \in Nat, k \in P PROVE k + 1 \in P
  <2> SUFFICES ASSUME k + 1 <= n
               PROVE  /\ InRound(f[k + 1], n, round)
                      /\ \A i \in 1..(k + 1) : order[i] \in Seated(f[k + 1])
    OBVIOUS
  <2> DEFINE acc == f[k]
             new == f[k + 1]
             a == order[k + 1]
  <2>1. InRound(acc, n, round) /\ \A i \in 1..k : order[i] \in Seated(acc) BY <1>2
  <2>2. new = PairNext(round, order, met, acc, a) /\ a \in 1..n
    <3>1. k + 1 \in 1..n /\ (k + 1) - 1 = k OBVIOUS
    <3> QED BY <3>1 DEF PairsUp, Orders
  <2> HIDE DEF acc, new, a
  <2>3. InRound(new, n, round) /\ Adds(new, acc, a, order, met, n)
    BY <2>1, <2>2, PairNextSays
  <2>4. Seated(acc) \subseteq Seated(new) /\ a \in Seated(new) BY <2>2, <2>3 DEF Adds, Nobody
  <2>5. ASSUME NEW i \in 1..(k + 1) PROVE order[i] \in Seated(new)
    <3>1. CASE i \in 1..k BY <2>1, <2>4, <3>1
    <3>2. CASE i = k + 1 BY <2>4, <3>2 DEF a
    <3> QED BY <3>1, <3>2
  <2> QED BY <2>3, <2>5 DEF new
<1> HIDE DEF P
<1>3. Nat \subseteq P BY <1>1, <1>2, Board!Induction
<1>4. \A k \in 0..n : k \in P BY <1>3
<1>5. \A k \in 0..n : InRound(f[k], n, round) /\ \A i \in 1..k : order[i] \in Seated(f[k])
  BY <1>4 DEF P
<1>6. Seated(f[n]) = 1..n
  <2>1. n \in 0..n OBVIOUS
  <2>2. \A p \in 1..n : p \in Seated(f[n]) BY <1>5, <2>1 DEF Orders
  <2>3. \A p \in Seated(f[n]) : p \in 1..n
    <3>1. \A x \in DOMAIN f[n] : f[n][x].p1 \in 1..n /\ f[n][x].p2 \in 0..n
      BY <1>5, <2>1 DEF InRound, Pairs
    <3> QED BY <3>1, SeatedIs DEF Players, Nobody
  <2> QED BY <2>2, <2>3
<1>7. ASSUME NEW k \in 1..n PROVE Adds(f[k], f[k - 1], order[k], order, met, n)
  <2>1. InRound(f[k - 1], n, round)
    <3>1. k - 1 \in 0..n OBVIOUS
    <3> QED BY <1>5, <3>1
  <2>2. f[k] = PairNext(round, order, met, f[k - 1], order[k]) BY DEF PairsUp
  <2>3. order[k] \in 1..n BY DEF Orders
  <2> QED BY <2>1, <2>2, <2>3, PairNextSays
<1> QED BY <1>5, <1>6, <1>7

\* Half of the field has won and half has not: whoever won has met one who did not,
\* the winners come first, and no pair meets again.
LEMMA WinnersFirst ==
  ASSUME NEW n \in Nat, NEW order, Orders(order, n), NEW met, NEW round \in Nat,
         NEW f, PairsUp(f, round, order, met, n), NEW W \in SUBSET (1..n),
         \A i, j \in 1..n : order[i] \in W /\ order[j] \notin W => i < j,
         \A p, q \in W : p # q => {p, q} \notin met,
         \A p, q \in (1..n) \ W : p # q => {p, q} \notin met,
         \A p \in W : \E q \in (1..n) \ W : {p, q} \notin met
  PROVE  \A x \in DOMAIN f[n] : f[n][x].p2 # Nobody => {f[n][x].p1, f[n][x].p2} \notin met
<1> DEFINE New(ms) == \A x \in DOMAIN ms : ms[x].p2 # Nobody => {ms[x].p1, ms[x].p2} \notin met
           Half(ms) == Seated(ms) \subseteq W \/ W \subseteq Seated(ms)
           P == {k \in Nat : k <= n => New(f[k]) /\ Half(f[k])}
<1>0. /\ \A k \in 0..n : InRound(f[k], n, round) /\ \A i \in 1..k : order[i] \in Seated(f[k])
      /\ \A k \in 1..n : Adds(f[k], f[k - 1], order[k], order, met, n)
  BY SwissRoundIs
<1>1. 0 \in P BY DEF PairsUp, Seated
<1>2. ASSUME NEW k \in Nat, k \in P PROVE k + 1 \in P
  <2> SUFFICES ASSUME k + 1 <= n PROVE New(f[k + 1]) /\ Half(f[k + 1])
    OBVIOUS
  <2> DEFINE acc == f[k]
             new == f[k + 1]
             a == order[k + 1]
  <2>1. /\ InRound(acc, n, round) /\ \A i \in 1..k : order[i] \in Seated(acc)
        /\ New(acc) /\ Half(acc)
    <3>1. k \in 0..n OBVIOUS
    <3> QED BY <1>0, <1>2, <3>1
  <2>2. Adds(new, acc, a, order, met, n) /\ a \in 1..n /\ k + 1 \in 1..n
    <3>1. k + 1 \in 1..n /\ (k + 1) - 1 = k OBVIOUS
    <3>2. Adds(f[k + 1], f[(k + 1) - 1], order[k + 1], order, met, n) BY <1>0, <3>1
    <3> QED BY <3>1, <3>2 DEF Orders
  <2>3. a = order[k + 1] OBVIOUS
  <2> HIDE DEF acc, new, a, New, Half, P
  <2>4. \/ a \in Seated(acc) /\ new = acc
        \/ /\ a \notin Seated(acc)
           /\ \E b : /\ IsPartner(b, order, met, Seated(acc), a, n)
                     /\ Joins(new, acc, a, b)
                     /\ Seated(new) = Seated(acc) \cup ({a, b} \ {Nobody})
    BY <2>2 DEF Adds
  <2> USE DEF New, Half
  <2>5. CASE a \in Seated(acc) /\ new = acc BY <2>1, <2>5 DEF new
  <2>6. CASE a \notin Seated(acc)
    <3>1. PICK b : /\ IsPartner(b, order, met, Seated(acc), a, n)
                   /\ Joins(new, acc, a, b)
                   /\ Seated(new) = Seated(acc) \cup ({a, b} \ {Nobody})
      BY <2>4, <2>6
    <3>2. Half(new) /\ (b # Nobody => {a, b} \notin met)
      <4>1. CASE a \in W
        \* Nobody but winners is seated yet.
        <5>1. Seated(acc) \subseteq W BY <2>1, <2>6, <4>1
        <5>2. CASE \E w \in W \ Seated(acc) : w # a
          <6>1. PICK w \in W \ Seated(acc) : w # a BY <5>2
          <6>2. {a, w} \notin met BY <4>1, <6>1
          <6>3. PICK j \in 1..n : order[j] = w BY <6>1 DEF Orders
          <6>4. b # Nobody BY <3>1, <6>1 DEF IsPartner
          <6>5. b \in 1..n BY <3>1, <6>4 DEF IsPartner
          <6>6. PICK i \in 1..n : order[i] = b BY <6>5 DEF Orders
          <6>7. {a, b} \notin met /\ i <= j BY <3>1, <6>1, <6>2, <6>3, <6>6 DEF IsPartner
          <6>8. b \in W
            <7>1. CASE b \notin W
              <8>1. j < i BY <6>1, <6>3, <6>6, <7>1
              <8> QED BY <6>7, <8>1
            <7> QED BY <7>1
          <6>9. Seated(new) \subseteq W BY <3>1, <4>1, <5>1, <6>8
          <6> QED BY <6>7, <6>9
        <5>3. CASE \A w \in W \ Seated(acc) : w = a
          <6>1. W \subseteq Seated(new) BY <2>2, <3>1, <5>3 DEF Nobody
          <6>2. PICK q \in (1..n) \ W : {a, q} \notin met BY <4>1
          <6>3. q \notin Seated(acc) /\ q # a BY <4>1, <5>1, <6>2
          <6>4. PICK j \in 1..n : order[j] = q BY <6>2 DEF Orders
          <6>5. b # Nobody BY <3>1, <6>2, <6>3 DEF IsPartner
          <6>6. b \in 1..n BY <3>1, <6>5 DEF IsPartner
          <6>7. PICK i \in 1..n : order[i] = b BY <6>6 DEF Orders
          <6>8. {a, b} \notin met BY <3>1, <6>2, <6>3, <6>4, <6>7 DEF IsPartner
          <6> QED BY <6>1, <6>8
        <5> QED BY <5>2, <5>3
      <4>2. CASE a \notin W
        \* All who won come before.
        <5>1. W \subseteq Seated(acc)
          <6> SUFFICES ASSUME NEW w \in W PROVE w \in Seated(acc) OBVIOUS
          <6>1. PICK i \in 1..n : order[i] = w BY DEF Orders
          <6>2. i < k + 1 BY <2>2, <2>3, <4>2, <6>1
          <6>3. i \in 1..k BY <6>2
          <6> QED BY <2>1, <6>1, <6>3
        <5>2. W \subseteq Seated(new) BY <3>1, <5>1
        <5>3. ASSUME b # Nobody PROVE {a, b} \notin met
          <6>1. b \in 1..n /\ b \notin Seated(acc) /\ b # a BY <3>1, <5>3 DEF IsPartner
          <6> QED BY <2>2, <4>2, <5>1, <6>1
        <5> QED BY <5>2, <5>3
      <4> QED BY <4>1, <4>2
    <3>3. New(new)
      <4> SUFFICES ASSUME NEW x \in DOMAIN new, new[x].p2 # Nobody
                   PROVE  {new[x].p1, new[x].p2} \notin met
        OBVIOUS
      <4>1. CASE x \in DOMAIN acc BY <2>1, <3>1, <4>1 DEF Joins
      <4>2. CASE x = Len(acc) + 1 BY <3>1, <3>2, <4>2 DEF Joins
      <4> QED BY <3>1, <4>1, <4>2 DEF Joins
    <3> QED BY <3>2, <3>3 DEF new
  <2> QED BY <2>4, <2>5, <2>6
<1> HIDE DEF P
<1>3. n \in P BY <1>1, <1>2, Board!Induction
<1> QED BY <1>3 DEF P

\* Everyone has exactly one left whom he has not met: they are paired.
Mates(mate, met, n) ==
  /\ mate \in [1..n -> 1..n]
  /\ \A p \in 1..n : mate[p] # p /\ mate[mate[p]] = p
  /\ \A p, q \in 1..n : p # q => ({p, q} \notin met <=> q = mate[p])
LEMMA MatesPair ==
  ASSUME NEW n \in Nat, NEW order, Orders(order, n), NEW met, NEW round \in Nat,
         NEW f, PairsUp(f, round, order, met, n), NEW mate, Mates(mate, met, n)
  PROVE  \A x \in DOMAIN f[n] : f[n][x].p2 # Nobody => {f[n][x].p1, f[n][x].p2} \notin met
<1> DEFINE New(ms) == \A x \in DOMAIN ms : ms[x].p2 # Nobody => {ms[x].p1, ms[x].p2} \notin met
           Mated(ms) == \A p \in 1..n : p \in Seated(ms) => mate[p] \in Seated(ms)
           P == {k \in Nat : k <= n => New(f[k]) /\ Mated(f[k])}
<1>10. /\ mate \in [1..n -> 1..n]
       /\ \A p \in 1..n : mate[p] # p /\ mate[mate[p]] = p
       /\ \A p, q \in 1..n : p # q => ({p, q} \notin met <=> q = mate[p])
  BY DEF Mates
<1>0. /\ \A k \in 0..n : InRound(f[k], n, round) /\ \A i \in 1..k : order[i] \in Seated(f[k])
      /\ \A k \in 1..n : Adds(f[k], f[k - 1], order[k], order, met, n)
  BY SwissRoundIs
<1>1. 0 \in P BY DEF PairsUp, Seated
<1>2. ASSUME NEW k \in Nat, k \in P PROVE k + 1 \in P
  <2> SUFFICES ASSUME k + 1 <= n PROVE New(f[k + 1]) /\ Mated(f[k + 1])
    OBVIOUS
  <2> DEFINE acc == f[k]
             new == f[k + 1]
             a == order[k + 1]
  <2>1. InRound(acc, n, round) /\ New(acc) /\ Mated(acc)
    <3>1. k \in 0..n OBVIOUS
    <3>2. InRound(acc, n, round) BY <1>0, <3>1
    <3> HIDE DEF New, Mated
    <3>3. New(f[k]) /\ Mated(f[k]) BY ONLY k \in Nat, k + 1 <= n, n \in Nat, <1>2
    <3> QED BY <3>2, <3>3
  <2>2. Adds(new, acc, a, order, met, n) /\ a \in 1..n /\ k + 1 \in 1..n
    <3>1. k + 1 \in 1..n /\ (k + 1) - 1 = k OBVIOUS
    <3>2. Adds(f[k + 1], f[(k + 1) - 1], order[k + 1], order, met, n) BY <1>0, <3>1
    <3> QED BY <3>1, <3>2 DEF Orders
  <2> HIDE DEF acc, new, a, New, Mated, P
  <2>4. \/ a \in Seated(acc) /\ new = acc
        \/ /\ a \notin Seated(acc)
           /\ \E b : /\ IsPartner(b, order, met, Seated(acc), a, n)
                     /\ Joins(new, acc, a, b)
                     /\ Seated(new) = Seated(acc) \cup ({a, b} \ {Nobody})
    BY <2>2 DEF Adds
  <2> USE DEF New, Mated
  <2>5. CASE a \in Seated(acc) /\ new = acc BY <2>1, <2>5 DEF new
  <2>6. CASE a \notin Seated(acc)
    <3>1. PICK b : /\ IsPartner(b, order, met, Seated(acc), a, n)
                   /\ Joins(new, acc, a, b)
                   /\ Seated(new) = Seated(acc) \cup ({a, b} \ {Nobody})
      BY <2>4, <2>6
    <3>2. mate[a] \in 1..n /\ mate[a] # a /\ mate[a] \notin Seated(acc) /\ {a, mate[a]} \notin met
      <4>1. mate[a] \in 1..n /\ mate[a] # a /\ mate[mate[a]] = a BY <1>10, <2>2
      <4> QED BY <1>10, <2>1, <2>2, <2>6, <4>1
    <3>3. PICK j \in 1..n : order[j] = mate[a] BY <3>2 DEF Orders
    <3>4. b # Nobody BY <3>1, <3>2 DEF IsPartner
    <3>5. b \in 1..n /\ b # a BY <3>1, <3>4 DEF IsPartner
    <3>6. PICK i \in 1..n : order[i] = b BY <3>5 DEF Orders
    <3>7. {a, b} \notin met BY <3>1, <3>2, <3>3, <3>6 DEF IsPartner
    <3>8. b = mate[a] BY <1>10, <2>2, <3>5, <3>7
    <3>9. Mated(new)
      <4> SUFFICES ASSUME NEW p \in 1..n, p \in Seated(new) PROVE mate[p] \in Seated(new)
        OBVIOUS
      <4>1. CASE p \in Seated(acc) BY <2>1, <3>1, <4>1
      <4>2. CASE p = a BY <3>1, <3>4, <3>8, <4>2
      <4>3. CASE p = b BY <1>10, <2>2, <3>1, <3>8, <4>3 DEF Nobody
      <4> QED BY <3>1, <4>1, <4>2, <4>3
    <3>10. New(new)
      <4> SUFFICES ASSUME NEW x \in DOMAIN new, new[x].p2 # Nobody
                   PROVE  {new[x].p1, new[x].p2} \notin met
        OBVIOUS
      <4>1. CASE x \in DOMAIN acc BY <2>1, <3>1, <4>1 DEF Joins
      <4>2. CASE x = Len(acc) + 1 BY <3>1, <3>7, <4>2 DEF Joins
      <4> QED BY <3>1, <4>1, <4>2 DEF Joins
    <3> QED BY <3>9, <3>10 DEF new
  <2> QED BY <2>4, <2>5, <2>6
<1> HIDE DEF P
<1>3. n \in P BY <1>1, <1>2, Board!Induction
<1> QED BY <1>3 DEF P

LEMMA StandingsOrder ==
  ASSUME NEW ms \in Seq(Match), NEW n \in Nat,
         NEW order, order = Standings(ms, DOMAIN ms, 1..n)
  PROVE  /\ Orders(order, n)
         /\ \A p, q \in 1..n, i, j \in 1..n :
              /\ Won(ms, DOMAIN ms, p) # {} /\ Won(ms, DOMAIN ms, q) = {}
              /\ order[i] = p /\ order[j] = q
              => i < j
<1> DEFINE D == DOMAIN ms
           key == [p \in 1..n |-> <<Cardinality(Won(ms, D, p)), Balance(ms, D, p), -p>>]
<1>1. IsFiniteSet(D) /\ \A x \in D : ms[x].by \in Nat
  <2>1. D = 1..Len(ms) /\ Len(ms) \in Nat OBVIOUS
  <2>2. IsFiniteSet(1..Len(ms)) BY <2>1, FS_Interval
  <2>3. \A x \in D : ms[x] \in Match OBVIOUS
  <2> QED BY <2>1, <2>2, <2>3 DEF Match
<1>2. DOMAIN key = 1..n /\ IsFiniteSet(1..n) /\ Cardinality(1..n) = n /\ 1..n \subseteq Int
  BY FS_Interval
<1>3. order = Ranked(key) BY DEF Standings
<1>4. \A p \in 1..n : key[p] = <<Cardinality(Won(ms, D, p)), Balance(ms, D, p), -p>> OBVIOUS
<1>40. key = [p \in 1..n |-> <<Cardinality(Won(ms, D, p)), Balance(ms, D, p), -p>>] OBVIOUS
<1> HIDE DEF key, D
<1>5. InThatOrder(key) /\ \A p \in 1..n : key[p] \in Keys BY <1>1, <1>2, <1>40, StandingKeys
<1>6. /\ Ranked(key) \in [1..n -> DOMAIN key]
      /\ \A i, j \in 1..n : i < j <=> Above(key[Ranked(key)[i]], key[Ranked(key)[j]])
      /\ \A i, j \in 1..n : Ranked(key)[i] = Ranked(key)[j] => i = j
      /\ \A p \in DOMAIN key : \E i \in 1..n : Ranked(key)[i] = p
  BY <1>2, <1>5, RankedIs
<1>7. Orders(order, n) BY <1>2, <1>3, <1>6 DEF Orders
<1>8. ASSUME NEW p \in 1..n, NEW q \in 1..n, NEW i \in 1..n, NEW j \in 1..n,
             Won(ms, D, p) # {}, Won(ms, D, q) = {}, order[i] = p, order[j] = q
      PROVE  i < j
  <2>1. Cardinality(Won(ms, D, p)) \in Nat /\ Cardinality(Won(ms, D, p)) # 0
    <3>1. IsFiniteSet(Won(ms, D, p)) BY <1>1, FS_Subset DEF Won
    <3> QED BY <1>8, <3>1, FS_CardinalityType, FS_EmptySet
  <2>2. Cardinality(Won(ms, D, q)) = 0 BY <1>8, FS_EmptySet
  <2>3. key[p][1] > key[q][1] /\ DOMAIN key[p] = {1, 2, 3} BY <1>4, <2>1, <2>2
  <2>4. Above(key[p], key[q])
    <3>1. 1..(1 - 1) = {} OBVIOUS
    <3> QED BY <2>3, <3>1 DEF Above
  <2> QED BY <1>3, <1>6, <1>8, <2>4
<1> QED BY <1>7, <1>8 DEF D

\* What a round of the standings is.
LEMMA PairingsAre ==
  ASSUME NEW ms \in Seq(Match), NEW n \in Nat, NEW round \in Nat,
         NEW new, new = SwissPairings(ms, n, round)
  PROVE  InRound(new, n, round) /\ Seated(new) = 1..n
<1> DEFINE order == Standings(ms, DOMAIN ms, 1..n)
<1>1. order = Standings(ms, DOMAIN ms, 1..n) OBVIOUS
<1> HIDE DEF order
<1>2. Orders(order, n) BY <1>1, StandingsOrder
<1>3. PICK f : PairsUp(f, round, order, Met(ms), n) /\ SwissPairings(ms, n, round) = f[n]
  BY <1>1, <1>2, SwissFold
<1>4. n \in 0..n OBVIOUS
<1> QED BY <1>2, <1>3, <1>4, SwissRoundIs

\* A swiss tournament: whole rounds, all but the last one closed.
Swiss(ms, n, last) ==
  /\ ms \in Seq(Match) /\ Pairs(ms, n) /\ Apart(ms) /\ OneBye(ms)
  /\ last \in 1..SwissRounds(n)
  /\ \A x \in DOMAIN ms : ms[x].round \in 1..last
  /\ \A r \in 1..last, p \in 1..n : \E x \in DOMAIN ms : ms[x].round = r /\ p \in Players(ms[x])
  /\ \A x \in DOMAIN ms : ms[x].round < last => Closed(ms[x])

\* In round 2 nobody meets the opponent of round 1, and four never meet again.
NotAgain(ms, n) == \A x, y \in DOMAIN ms :
  /\ x # y /\ ms[x].p2 # Nobody /\ ms[y].p2 # Nobody
  /\ n = 4 \/ (ms[x].round = 1 /\ ms[y].round = 2)
  => Players(ms[x]) # Players(ms[y])

SwissInv(ms, n) == (\E last : Swiss(ms, n, last)) /\ (n >= 4 => NotAgain(ms, n))

LEMMA SwissRoundsAre ==
  ASSUME NEW n \in Nat, n >= 2
  PROVE  /\ SwissRounds(n) \in Nat /\ SwissRounds(n) >= 3
         /\ SwissRounds(n) = 3 \/ SwissRounds(n) <= n
         /\ n = 4 => SwissRounds(n) = 3
<1>1. PICK h \in Nat \ {0} : /\ NextPow2(n) = 2 ^ h /\ Log2(2 ^ h) = h
                             /\ n <= 2 ^ h /\ 2 ^ h < 2 * n
  <2>1. \E h \in Nat \ {0} : /\ Board!NextPow2(n) = 2 ^ h /\ Board!Log2(2 ^ h) = h
                             /\ n <= 2 ^ h /\ 2 ^ h < 2 * n
    BY Board!SizeIsPower
  <2> QED BY <2>1 DEF NextPow2, Log2, Board!NextPow2, Board!Log2
<1>2. h - 1 \in Nat /\ (h - 1) + 1 = h OBVIOUS
<1>3. 2 ^ (h - 1) \in Nat /\ 2 ^ h = 2 * 2 ^ (h - 1) /\ h - 1 < 2 ^ (h - 1)
  BY <1>2, Board!PowerDoubles, Board!PowersAreLarge
<1>4. h <= n BY <1>1, <1>2, <1>3
<1>5. SwissRounds(n) = FSets!Max({3, h}) BY <1>1 DEF SwissRounds
<1>6. FSets!Max({3, h}) \in {3, h} /\ \A t \in {3, h} : t <= FSets!Max({3, h})
  <2> DEFINE T == {3, h}
  <2>1. T \subseteq Nat /\ T # {} OBVIOUS
  <2>2. IsFiniteSet(T)
    <3>1. IsFiniteSet({3}) BY FS_Singleton
    <3>2. IsFiniteSet({3} \cup {h}) BY <3>1, FS_AddElement
    <3>3. T = {3} \cup {h} OBVIOUS
    <3> QED BY <3>2, <3>3
  <2> HIDE DEF T
  <2>3. FSets!Max(T) \in T /\ \A t \in T : t <= FSets!Max(T) BY <2>1, <2>2, MaxIs
  <2> QED BY <2>3 DEF T
<1>7. n = 4 => h <= 3
  <2> SUFFICES ASSUME n = 4, h > 3 PROVE FALSE OBVIOUS
  <2>1. h - 2 \in Nat /\ (h - 2) + 1 = h - 1 /\ h - 3 \in Nat /\ (h - 3) + 1 = h - 2 OBVIOUS
  <2>2. /\ 2 ^ (h - 1) = 2 * 2 ^ (h - 2) /\ 2 ^ (h - 2) = 2 * 2 ^ (h - 3)
        /\ 2 ^ (h - 2) \in Nat /\ 2 ^ (h - 3) \in Nat /\ h - 3 < 2 ^ (h - 3)
    BY <2>1, Board!PowerDoubles, Board!PowersAreLarge
  <2> QED BY <1>1, <1>3, <2>1, <2>2
<1> QED BY <1>4, <1>5, <1>6, <1>7

\* Who was met was met in a match.
LEMMA MetIs == \A ms, s : s \in Met(ms) <=> \E x \in DOMAIN ms : s = Players(ms[x])
BY DEF Met

Adjoined(all, ms, new, k) ==
  /\ all \in Seq(Match) /\ k = Len(ms)
  /\ \A x \in DOMAIN ms : x \in DOMAIN all /\ all[x] = ms[x]
  /\ \A y \in DOMAIN new : k + y \in DOMAIN all /\ all[k + y] = new[y] /\ k + y \notin DOMAIN ms
  /\ \A z \in DOMAIN all : z \in DOMAIN ms \/ \E y \in DOMAIN new : z = k + y
LEMMA AppendedIs ==
  ASSUME NEW ms \in Seq(Match), NEW new \in Seq(Match)
  PROVE  Adjoined(ms \o new, ms, new, Len(ms))
<1> DEFINE all == ms \o new
           k == Len(ms)
<1>1. /\ all \in Seq(Match) /\ Len(all) = Len(ms) + Len(new)
      /\ \A x \in 1..Len(ms) : all[x] = ms[x]
      /\ \A y \in 1..Len(new) : all[Len(ms) + y] = new[y]
  OBVIOUS
<1>2. DOMAIN ms = 1..Len(ms) /\ DOMAIN new = 1..Len(new) /\ DOMAIN all = 1..Len(all)
      /\ Len(ms) \in Nat /\ Len(new) \in Nat
  BY <1>1
<1>3. ASSUME NEW z \in DOMAIN all, z \notin DOMAIN ms
      PROVE  \E y \in DOMAIN new : z = Len(ms) + y
  <2>1. z - Len(ms) \in DOMAIN new /\ z = Len(ms) + (z - Len(ms)) BY <1>1, <1>2, <1>3
  <2> QED BY <2>1
<1> HIDE DEF all
<1>4. Adjoined(all, ms, new, k) BY <1>1, <1>2, <1>3 DEF Adjoined
<1> QED BY <1>4 DEF all

\* A match without a bye is of two.
LEMMA PairOf ==
  ASSUME NEW n \in Nat, NEW ms, Pairs(ms, n), NEW x \in DOMAIN ms, ms[x].p2 # Nobody
  PROVE  /\ Players(ms[x]) = {ms[x].p1, ms[x].p2} /\ ms[x].p1 # ms[x].p2
         /\ ms[x].p1 \in 1..n /\ ms[x].p2 \in 1..n
         /\ \A p \in Players(ms[x]) : \E o \in 1..n : o # p /\ Players(ms[x]) = {p, o}
<1>1. /\ ms[x].p1 \in 1..n /\ ms[x].p2 \in 1..n /\ ms[x].p1 # ms[x].p2
      /\ Players(ms[x]) = {ms[x].p1, ms[x].p2}
  BY DEF Pairs, Players, Nobody
<1>2. ASSUME NEW p \in Players(ms[x]) PROVE \E o \in 1..n : o # p /\ Players(ms[x]) = {p, o}
  <2>1. CASE p = ms[x].p1 BY <1>1, <2>1
  <2>2. CASE p = ms[x].p2
    <3>1. {ms[x].p1, ms[x].p2} = {p, ms[x].p1} BY <2>2
    <3> QED BY <1>1, <2>2, <3>1
  <2> QED BY <1>1, <2>1, <2>2
<1> QED BY <1>1, <1>2

\* Every participant of an even round has an opponent.
LEMMA NoByes ==
  ASSUME NEW ms, NEW last, Swiss(ms, 4, last)
  PROVE  \A x \in DOMAIN ms : ms[x].p2 # Nobody
<1> SUFFICES ASSUME NEW x \in DOMAIN ms, ms[x].p2 = Nobody PROVE FALSE OBVIOUS
<1> DEFINE r == ms[x].round
           a == ms[x].p1
<1>1. r \in 1..last /\ a \in 1..4 /\ Players(ms[x]) = {a} BY DEF Swiss, Pairs, Players, Nobody
<1>2. ASSUME NEW p \in 1..4, p # a
      PROVE  \E q \in 1..4 : /\ q # p /\ q # a
                             /\ \E y \in DOMAIN ms : ms[y].round = r /\ Players(ms[y]) = {p, q}
  <2>1. PICK y \in DOMAIN ms : ms[y].round = r /\ p \in Players(ms[y]) BY <1>1 DEF Swiss
  <2>2. y # x BY <1>1, <1>2, <2>1
  <2>3. ms[y].p2 # Nobody BY <2>1, <2>2 DEF Swiss, OneBye
  <2>4. /\ ms[y].p1 \in 1..4 /\ ms[y].p2 \in 1..4 /\ ms[y].p1 # ms[y].p2
        /\ Players(ms[y]) = {ms[y].p1, ms[y].p2}
    BY <2>3 DEF Swiss, Pairs, Players, Nobody
  <2>5. a \notin Players(ms[y]) BY <1>1, <2>1, <2>2 DEF Swiss, Apart
  <2> QED BY <2>1, <2>4, <2>5
<1>3. ASSUME NEW p, NEW q, NEW s, NEW y \in DOMAIN ms, NEW z \in DOMAIN ms,
             ms[y].round = r, Players(ms[y]) = {p, q}, ms[z].round = r, Players(ms[z]) = {p, s}
      PROVE  q = s \/ q = p \/ s = p
  <2>1. y = z BY <1>3 DEF Swiss, Apart
  <2> QED BY <1>3, <2>1
<1>4. PICK b \in 1..4 : b # a BY <1>1
<1>5. PICK c \in 1..4 : c # a /\ c # b /\ \E y \in DOMAIN ms : ms[y].round = r /\ Players(ms[y]) = {b, c}
  BY <1>2, <1>4
<1>6. PICK d \in 1..4 : d # a /\ d # b /\ d # c BY <1>1, <1>4, <1>5
<1>7. PICK e \in 1..4 : e # d /\ e # a /\ \E y \in DOMAIN ms : ms[y].round = r /\ Players(ms[y]) = {d, e}
  BY <1>2, <1>6
<1>8. e = b \/ e = c BY <1>1, <1>4, <1>5, <1>6, <1>7
<1>9. PICK y \in DOMAIN ms : ms[y].round = r /\ Players(ms[y]) = {b, c} BY <1>5
<1>10. PICK z \in DOMAIN ms : ms[z].round = r /\ Players(ms[z]) = {d, e} BY <1>7
<1>11. y = z BY <1>8, <1>9, <1>10 DEF Swiss, Apart
<1> QED BY <1>6, <1>9, <1>10, <1>11

\* The opponents of round 2 are others than those of round 1.
LEMMA SecondRound ==
  ASSUME NEW n \in Nat, n >= 4, NEW ms, Swiss(ms, n, 1), \A x \in DOMAIN ms : Closed(ms[x]),
         NEW new, new = SwissPairings(ms, n, 2)
  PROVE  \A x \in DOMAIN new : new[x].p2 # Nobody => {new[x].p1, new[x].p2} \notin Met(ms)
<1> DEFINE order == Standings(ms, DOMAIN ms, 1..n)
           D == DOMAIN ms
           W == {p \in 1..n : Won(ms, D, p) # {}}
<1>0. order = Standings(ms, DOMAIN ms, 1..n) OBVIOUS
<1> HIDE DEF order
<1>1. /\ Orders(order, n)
      /\ \A p, q \in 1..n, i, j \in 1..n :
           Won(ms, DOMAIN ms, p) # {} /\ Won(ms, DOMAIN ms, q) = {} /\ order[i] = p /\ order[j] = q
           => i < j
  BY <1>0, StandingsOrder DEF Swiss
<1>2. PICK f : PairsUp(f, 2, order, Met(ms), n) /\ SwissPairings(ms, n, 2) = f[n]
  BY <1>0, <1>1, SwissFold DEF Swiss
<1>3. \A i, j \in 1..n : order[i] \in W /\ order[j] \notin W => i < j
  <2> SUFFICES ASSUME NEW i \in 1..n, NEW j \in 1..n, order[i] \in W, order[j] \notin W PROVE i < j
    OBVIOUS
  <2>1. order[i] \in 1..n /\ order[j] \in 1..n BY <1>1 DEF Orders
  <2> QED BY <1>1, <2>1
\* In round 1 everyone is in one match, and it has one winner.
<1>4. \A x, y \in D : ms[x].round = 1 /\ ms[y].round = 1 BY DEF Swiss
<1>5. ASSUME NEW x \in D, NEW y \in D, NEW p, p \in Players(ms[x]), p \in Players(ms[y]) PROVE x = y
  BY <1>4, <1>5 DEF Swiss, Apart
<1>6. ASSUME NEW p \in W
      PROVE  \E x \in D : /\ ms[x].status = "completed" /\ ms[x].winner = p /\ p \in Players(ms[x])
                          /\ ms[x].p2 # Nobody
  <2>1. PICK x \in D : ms[x].status = "completed" /\ ms[x].winner = p BY DEF Won
  <2>2. p \in Players(ms[x]) BY <2>1 DEF Swiss, Pairs, Players, Nobody
  <2> QED BY <2>1, <2>2 DEF Swiss, Pairs
<1>7. \A p, q \in W : p # q => {p, q} \notin Met(ms)
  <2> SUFFICES ASSUME NEW p \in W, NEW q \in W, p # q, {p, q} \in Met(ms) PROVE FALSE OBVIOUS
  <2>1. PICK x \in D : Players(ms[x]) = {p, q} BY MetIs
  <2>2. PICK y \in D : ms[y].winner = p /\ p \in Players(ms[y]) BY <1>6
  <2>3. PICK z \in D : ms[z].winner = q /\ q \in Players(ms[z]) BY <1>6
  <2>4. x = y /\ x = z BY <1>5, <2>1, <2>2, <2>3
  <2> QED BY <2>2, <2>3, <2>4
<1>8. \A p, q \in (1..n) \ W : p # q => {p, q} \notin Met(ms)
  <2> SUFFICES ASSUME NEW p \in (1..n) \ W, NEW q \in (1..n) \ W, p # q, {p, q} \in Met(ms)
               PROVE FALSE
    OBVIOUS
  <2>1. PICK x \in D : Players(ms[x]) = {p, q} BY MetIs
  <2>2. ms[x].p2 # Nobody BY <2>1 DEF Players
  <2>3. ms[x].status = "completed" BY <2>2 DEF Swiss, Pairs, Closed
  <2>4. ms[x].winner \in {p, q} BY <2>1, <2>2, <2>3 DEF Swiss, Pairs, Players, Nobody
  <2> QED BY <2>3, <2>4 DEF Won
<1>9. \A p \in W : \E q \in (1..n) \ W : {p, q} \notin Met(ms)
  <2> SUFFICES ASSUME NEW p \in W PROVE \E q \in (1..n) \ W : {p, q} \notin Met(ms) OBVIOUS
  <2>1. PICK x \in D : ms[x].winner = p /\ p \in Players(ms[x]) /\ ms[x].p2 # Nobody BY <1>6
  <2>2. PICK o \in 1..n : o # p /\ Players(ms[x]) = {p, o} BY <2>1, PairOf DEF Swiss
  <2>3. ASSUME NEW q \in (1..n) \ W, q # p, q # o PROVE {p, q} \notin Met(ms)
    <3> SUFFICES ASSUME {p, q} \in Met(ms) PROVE FALSE OBVIOUS
    <3>1. PICK y \in D : Players(ms[y]) = {p, q} BY MetIs
    <3>2. x = y BY <1>5, <2>1, <3>1
    <3> QED BY <2>2, <2>3, <3>1, <3>2
  <2>4. PICK c \in 1..n : c # p /\ c # o
    <3>1. 1 \in 1..n /\ 2 \in 1..n /\ 3 \in 1..n OBVIOUS
    <3> QED BY <3>1
  <2>5. CASE c \notin W BY <2>3, <2>4, <2>5
  <2>6. CASE c \in W
    <3>1. PICK y \in D : ms[y].winner = c /\ c \in Players(ms[y]) /\ ms[y].p2 # Nobody BY <1>6, <2>6
    <3>0. Pairs(ms, n) BY DEF Swiss
    <3>6. \A u \in Players(ms[y]) : \E v \in 1..n : v # u /\ Players(ms[y]) = {u, v}
      BY <3>0, <3>1, PairOf
    <3>2. PICK d \in 1..n : d # c /\ Players(ms[y]) = {c, d} BY <3>1, <3>6
    <3>3. x # y BY <2>2, <2>4, <3>1
    <3>4. d # p /\ d # o BY <1>5, <2>2, <3>2, <3>3
    <3>5. d \notin W
      <4> SUFFICES ASSUME d \in W PROVE FALSE OBVIOUS
      <4>1. PICK z \in D : ms[z].winner = d /\ d \in Players(ms[z]) BY <1>6
      <4>2. z = y BY <1>5, <3>2, <4>1
      <4> QED BY <3>1, <3>2, <4>1, <4>2
    <3> QED BY <2>3, <3>2, <3>4, <3>5
  <2> QED BY <2>5, <2>6
<1>10. W \in SUBSET (1..n) OBVIOUS
<1> HIDE DEF W, D
<1>11. \A x \in DOMAIN f[n] : f[n][x].p2 # Nobody => {f[n][x].p1, f[n][x].p2} \notin Met(ms)
  BY <1>1, <1>2, <1>3, <1>7, <1>8, <1>9, <1>10, WinnersFirst
<1> QED BY <1>2, <1>11

\* Four have met all others after three rounds: in the third everyone has one left.
LEMMA ThirdRound ==
  ASSUME NEW ms, Swiss(ms, 4, 2), NotAgain(ms, 4), NEW new, new = SwissPairings(ms, 4, 3)
  PROVE  \A x \in DOMAIN new : new[x].p2 # Nobody => {new[x].p1, new[x].p2} \notin Met(ms)
<1> DEFINE order == Standings(ms, DOMAIN ms, 1..4)
           D == DOMAIN ms
           Meet(r, p, q) == \E x \in D : ms[x].round = r /\ Players(ms[x]) = {p, q}
           foe(r, p) == CHOOSE q \in 1..4 : q # p /\ Meet(r, p, q)
           mate == [p \in 1..4 |-> CHOOSE q \in 1..4 : q # p /\ q # foe(1, p) /\ q # foe(2, p)]
<1>0. order = Standings(ms, DOMAIN ms, 1..4) OBVIOUS
<1>1. Orders(order, 4) BY StandingsOrder DEF Swiss
<1> HIDE DEF order
<1>2. PICK f : PairsUp(f, 3, order, Met(ms), 4) /\ SwissPairings(ms, 4, 3) = f[4]
  <2> DEFINE n == 4  round == 3
  <2>1. n \in Nat /\ round \in Nat /\ order = Standings(ms, DOMAIN ms, 1..n) /\ Orders(order, n)
    BY <1>0, <1>1
  <2> HIDE DEF n, round
  <2>2. \E f : PairsUp(f, round, order, Met(ms), n) /\ SwissPairings(ms, n, round) = f[n]
    BY <2>1, SwissFold
  <2> QED BY <2>2 DEF n, round
<1>3. \A x \in D : /\ ms[x].p2 # Nobody /\ Players(ms[x]) = {ms[x].p1, ms[x].p2}
                   /\ ms[x].p1 # ms[x].p2 /\ ms[x].p1 \in 1..4 /\ ms[x].p2 \in 1..4
                   /\ \A p \in Players(ms[x]) : \E o \in 1..4 : o # p /\ Players(ms[x]) = {p, o}
  <2> SUFFICES ASSUME NEW x \in D
               PROVE  /\ ms[x].p2 # Nobody /\ Players(ms[x]) = {ms[x].p1, ms[x].p2}
                      /\ ms[x].p1 # ms[x].p2 /\ ms[x].p1 \in 1..4 /\ ms[x].p2 \in 1..4
                      /\ \A p \in Players(ms[x]) : \E o \in 1..4 : o # p /\ Players(ms[x]) = {p, o}
    OBVIOUS
  <2>1. ms[x].p2 # Nobody BY NoByes
  <2>2. Pairs(ms, 4) /\ 4 \in Nat BY DEF Swiss
  <2> QED BY <2>1, <2>2, PairOf
<1>4. ASSUME NEW r \in 1..2, NEW p \in 1..4 PROVE \E q \in 1..4 : q # p /\ Meet(r, p, q)
  <2>1. PICK x \in D : ms[x].round = r /\ p \in Players(ms[x]) BY DEF Swiss
  <2> QED BY <1>3, <2>1
<1>5. ASSUME NEW r \in 1..2, NEW p \in 1..4, NEW q \in 1..4, NEW s \in 1..4,
             p # q, p # s, Meet(r, p, q), Meet(r, p, s)
      PROVE  q = s
  <2>1. PICK x \in D : ms[x].round = r /\ Players(ms[x]) = {p, q} BY <1>5
  <2>2. PICK y \in D : ms[y].round = r /\ Players(ms[y]) = {p, s} BY <1>5
  <2>3. x = y BY <2>1, <2>2 DEF Swiss, Apart
  <2> QED BY <1>5, <2>1, <2>2, <2>3
<1>6. ASSUME NEW p \in 1..4, NEW q \in 1..4, Meet(1, p, q), Meet(2, p, q) PROVE FALSE
  <2>1. PICK x \in D : ms[x].round = 1 /\ Players(ms[x]) = {p, q} BY <1>6
  <2>2. PICK y \in D : ms[y].round = 2 /\ Players(ms[y]) = {p, q} BY <1>6
  <2>3. x # y BY <2>1, <2>2
  <2> QED BY <1>3, <2>1, <2>2, <2>3 DEF NotAgain
<1>7. ASSUME NEW p, NEW q, {p, q} \in Met(ms) PROVE Meet(1, p, q) \/ Meet(2, p, q)
  <2>1. PICK x \in D : Players(ms[x]) = {p, q} BY <1>7, MetIs
  <2>2. ms[x].round = 1 \/ ms[x].round = 2 BY DEF Swiss
  <2> QED BY <2>1, <2>2
<1>8. \A r, p, q : Meet(r, p, q) => {p, q} \in Met(ms) BY MetIs
<1>9. \A r, p, q : Meet(r, p, q) => Meet(r, q, p)
  <2> SUFFICES ASSUME NEW r, NEW p, NEW q, Meet(r, p, q) PROVE Meet(r, q, p) OBVIOUS
  <2>1. PICK x \in D : ms[x].round = r /\ Players(ms[x]) = {p, q} OBVIOUS
  <2>2. Players(ms[x]) = {q, p} BY <2>1
  <2> QED BY <2>1, <2>2
<1> HIDE DEF D, Meet
<1>10. \A r \in 1..2, p \in 1..4 : foe(r, p) \in 1..4 /\ foe(r, p) # p /\ Meet(r, p, foe(r, p))
  BY <1>4
<1> HIDE DEF foe
<1>11. \A r \in 1..2, p, q \in 1..4 : p # q => (Meet(r, p, q) <=> q = foe(r, p))
  BY <1>5, <1>10
<1>12. \A p \in 1..4 : foe(1, p) # foe(2, p) /\ foe(1, p) # p /\ foe(2, p) # p
                       /\ foe(1, p) \in 1..4 /\ foe(2, p) \in 1..4
  BY <1>6, <1>10
<1>13. ASSUME NEW p \in 1..4
       PROVE  /\ mate[p] \in 1..4 /\ mate[p] # p /\ mate[p] # foe(1, p) /\ mate[p] # foe(2, p)
              /\ \A q \in 1..4 : q # p /\ q # foe(1, p) /\ q # foe(2, p) => q = mate[p]
  <2>1. PICK q \in 1..4 : q # p /\ q # foe(1, p) /\ q # foe(2, p) BY <1>12
  <2>2. mate[p] \in 1..4 /\ mate[p] # p /\ mate[p] # foe(1, p) /\ mate[p] # foe(2, p) BY <2>1
  <2> HIDE DEF mate
  <2>3. \A u \in 1..4 : u # p /\ u # foe(1, p) /\ u # foe(2, p) => u = mate[p] BY <1>12, <2>2
  <2> QED BY <2>2, <2>3
<1>14. mate \in [1..4 -> 1..4] BY <1>13
<1> HIDE DEF mate
<1>15. \A p \in 1..4 : mate[p] # p /\ mate[mate[p]] = p
  <2> SUFFICES ASSUME NEW p \in 1..4 PROVE mate[mate[p]] = p BY <1>13
  <2>1. mate[p] \in 1..4 /\ mate[p] # p BY <1>13
  <2>2. p # foe(1, mate[p]) /\ p # foe(2, mate[p])
    <3>1. ASSUME NEW r \in 1..2, p = foe(r, mate[p]) PROVE FALSE
      <4>1. Meet(r, mate[p], p) BY <1>11, <2>1, <3>1
      <4>2. Meet(r, p, mate[p]) BY <1>9, <4>1
      <4>3. mate[p] = foe(r, p) BY <1>11, <2>1, <4>2
      <4>4. r = 1 \/ r = 2 OBVIOUS
      <4> QED BY <1>13, <4>3, <4>4
    <3> QED BY <3>1
  <2> QED BY <1>13, <2>1, <2>2
<1>16. \A p, q \in 1..4 : p # q => ({p, q} \notin Met(ms) <=> q = mate[p])
  <2> SUFFICES ASSUME NEW p \in 1..4, NEW q \in 1..4, p # q
               PROVE  {p, q} \notin Met(ms) <=> q = mate[p]
    OBVIOUS
  <2>1. {p, q} \in Met(ms) <=> q = foe(1, p) \/ q = foe(2, p)
    <3>1. {p, q} \in Met(ms) <=> Meet(1, p, q) \/ Meet(2, p, q) BY <1>7, <1>8
    <3> QED BY <1>11, <3>1
  <2> QED BY <1>13, <2>1
<1>17. \A x \in DOMAIN f[4] : f[4][x].p2 # Nobody => {f[4][x].p1, f[4][x].p2} \notin Met(ms)
  <2> DEFINE n == 4  round == 3
  <2>1. /\ n \in Nat /\ round \in Nat /\ Orders(order, n)
        /\ PairsUp(f, round, order, Met(ms), n)
    BY <1>1, <1>2
  <2>2. Mates(mate, Met(ms), n) BY <1>14, <1>15, <1>16 DEF Mates
  <2> HIDE DEF n, round
  <2>3. \A x \in DOMAIN f[n] : f[n][x].p2 # Nobody => {f[n][x].p1, f[n][x].p2} \notin Met(ms)
    BY <2>1, <2>2, MatesPair
  <2> QED BY <2>3 DEF n
<1> QED BY <1>2, <1>17

\* A new round follows when the last one is closed.
LEMMA RoundAppended ==
  ASSUME NEW n \in Nat, n >= 2, NEW ms, NEW last \in Nat, NEW new, NEW all, NEW k,
         ms \in Seq(Match), Pairs(ms, n), Apart(ms), OneBye(ms), last + 1 \in 1..SwissRounds(n),
         \A x \in DOMAIN ms : ms[x].round \in 1..last /\ Closed(ms[x]),
         \A r \in 1..last, p \in 1..n : \E x \in DOMAIN ms : ms[x].round = r /\ p \in Players(ms[x]),
         InRound(new, n, last + 1), Seated(new) = 1..n, Adjoined(all, ms, new, k)
  PROVE  Swiss(all, n, last + 1)
<1> DEFINE D == DOMAIN ms
           E == DOMAIN new
<1>1. /\ all \in Seq(Match)
      /\ \A x \in D : x \in DOMAIN all /\ all[x] = ms[x]
      /\ \A y \in E : k + y \in DOMAIN all /\ all[k + y] = new[y]
      /\ \A z \in DOMAIN all : z \in D \/ \E y \in E : z = k + y
      /\ \A y \in E : k + y \notin D
  BY DEF Adjoined
<1>2. \A y \in E : new[y].round = last + 1 BY DEF InRound
<1>3. Pairs(new, n) /\ Apart(new) /\ OneBye(new) BY DEF InRound
<1> HIDE DEF D, E
<1>4. Pairs(all, n)
  <2> SUFFICES ASSUME NEW z \in DOMAIN all
               PROVE  /\ all[z].stage = "main" /\ all[z].p1 \in 1..n /\ all[z].p2 \in 0..n
                      /\ all[z].p1 # all[z].p2
                      /\ all[z].status = "bye" <=> all[z].p2 = Nobody
                      /\ all[z].status = "bye" => all[z].winner = all[z].p1
                      /\ all[z].status = "completed" => all[z].winner \in {all[z].p1, all[z].p2}
    BY DEF Pairs
  <2>1. CASE z \in D BY <1>1, <2>1 DEF Pairs, D
  <2>2. CASE \E y \in E : z = k + y
    <3>1. PICK y \in E : all[z] = new[y] BY <1>1, <2>2
    <3> QED BY <1>3, <3>1 DEF Pairs, E
  <2> QED BY <1>1, <2>1, <2>2
<1>5. Apart(all) /\ OneBye(all)
  <2> SUFFICES ASSUME NEW u \in DOMAIN all, NEW v \in DOMAIN all, u # v, all[u].round = all[v].round
               PROVE  /\ Players(all[u]) \cap Players(all[v]) = {}
                      /\ ~(all[u].p2 = Nobody /\ all[v].p2 = Nobody)
    <3>1. Apart(all) <=> \A u, v \in DOMAIN all : u # v /\ all[u].round = all[v].round =>
                           Players(all[u]) \cap Players(all[v]) = {}
      BY DEF Apart
    <3>2. OneBye(all) <=> \A u, v \in DOMAIN all : all[u].p2 = Nobody /\ all[v].p2 = Nobody
                            /\ all[u].round = all[v].round => u = v
      BY DEF OneBye
    <3> QED BY <3>1, <3>2
  <2>1. CASE u \in D /\ v \in D
    <3>1. all[u] = ms[u] /\ all[v] = ms[v] BY <1>1, <2>1
    <3>2. Players(ms[u]) \cap Players(ms[v]) = {} BY <2>1, <3>1 DEF Apart, D
    <3>3. ~(ms[u].p2 = Nobody /\ ms[v].p2 = Nobody) BY <2>1, <3>1 DEF OneBye, D
    <3> QED BY <3>1, <3>2, <3>3
  <2>2. CASE u \in D /\ \E y \in E : v = k + y
    <3>1. PICK y \in E : v = k + y BY <2>2
    <3>2. all[u].round \in 1..last /\ all[v].round = last + 1 BY <1>1, <1>2, <2>2, <3>1 DEF D
    <3> QED BY <3>2
  <2>3. CASE v \in D /\ \E y \in E : u = k + y
    <3>1. PICK y \in E : u = k + y BY <2>3
    <3>2. all[v].round \in 1..last /\ all[u].round = last + 1 BY <1>1, <1>2, <2>3, <3>1 DEF D
    <3> QED BY <3>2
  <2>4. CASE (\E y \in E : u = k + y) /\ (\E y \in E : v = k + y)
    <3>1. PICK x \in E, y \in E : u = k + x /\ v = k + y BY <2>4
    <3>2. all[u] = new[x] /\ all[v] = new[y] /\ x # y BY <1>1, <3>1
    <3> QED BY <1>3, <3>2 DEF Apart, OneBye, E
  <2> QED BY <1>1, <2>1, <2>2, <2>3, <2>4
<1>6. ASSUME NEW z \in DOMAIN all
      PROVE  all[z].round \in 1..(last + 1) /\ (all[z].round < last + 1 => Closed(all[z]))
  <2>1. CASE z \in D BY <1>1, <2>1 DEF D
  <2>2. CASE \E y \in E : z = k + y
    <3>1. PICK y \in E : all[z] = new[y] BY <1>1, <2>2
    <3>2. all[z].round = last + 1 BY <1>2, <3>1
    <3> QED BY <3>2
  <2> QED BY <1>1, <2>1, <2>2
<1>7. ASSUME NEW r \in 1..(last + 1), NEW p \in 1..n
      PROVE  \E z \in DOMAIN all : all[z].round = r /\ p \in Players(all[z])
  <2>1. CASE r \in 1..last
    <3>1. PICK x \in D : ms[x].round = r /\ p \in Players(ms[x]) BY <2>1 DEF D
    <3> QED BY <1>1, <3>1
  <2>2. CASE r = last + 1
    <3>1. PICK y \in E : p \in Players(new[y]) BY SeatedIs DEF E
    <3>2. k + y \in DOMAIN all /\ all[k + y] = new[y] /\ new[y].round = last + 1 BY <1>1, <1>2
    <3> QED BY <2>2, <3>1, <3>2
  <2> QED BY <2>1, <2>2
<1> QED BY <1>1, <1>4, <1>5, <1>6, <1>7 DEF Swiss

LEMMA SwissStart ==
  ASSUME NEW n \in Nat, n >= 2, NEW ms, ms = SwissPairings(<<>>, n, 1)
  PROVE  SwissInv(ms, n)
<1>1. InRound(ms, n, 1) /\ Seated(ms) = 1..n
  <2>1. <<>> \in Seq(Match) /\ 1 \in Nat OBVIOUS
  <2> QED BY <2>1, PairingsAre
<1>2. SwissRounds(n) \in Nat /\ SwissRounds(n) >= 3 BY SwissRoundsAre
<1>3. Swiss(ms, n, 1)
  <2>1. ASSUME NEW r \in 1..1, NEW p \in 1..n
        PROVE  \E x \in DOMAIN ms : ms[x].round = r /\ p \in Players(ms[x])
    <3>1. PICK x \in DOMAIN ms : p \in Players(ms[x]) BY <1>1, SeatedIs
    <3> QED BY <1>1, <3>1 DEF InRound
  <2>2. 1 \in 1..SwissRounds(n) BY <1>2
  <2>3. \A x \in DOMAIN ms : ms[x].round \in 1..1 /\ ~(ms[x].round < 1) BY <1>1 DEF InRound
  <2> QED BY <1>1, <2>1, <2>2, <2>3 DEF Swiss, InRound
<1>4. NotAgain(ms, n)
  <2> SUFFICES ASSUME NEW x \in DOMAIN ms, NEW y \in DOMAIN ms, x # y, ms[x].p2 # Nobody
               PROVE  Players(ms[x]) # Players(ms[y])
    BY DEF NotAgain
  <2>1. ms[x].round = ms[y].round BY <1>1 DEF InRound
  <2>2. Players(ms[x]) \cap Players(ms[y]) = {} BY <1>1, <2>1 DEF InRound, Apart
  <2>3. ms[x].p2 \in Players(ms[x]) BY DEF Players
  <2> QED BY <2>2, <2>3
<1> QED BY <1>3, <1>4 DEF SwissInv

LEMMA SwissScored ==
  ASSUME NEW n \in Nat, NEW ms, SwissInv(ms, n), NEW x \in DOMAIN ms, NEW win \in Result,
         Ready(ms[x]) \/ ms[x].status = "completed", NEW done, done = SetResult(ms, x, win)
  PROVE  SwissInv(done, n)
<1>1. PICK last : Swiss(ms, n, last) BY DEF SwissInv
<1>2. ms \in Seq(Match) /\ ms \in [DOMAIN ms -> Match] BY <1>1 DEF Swiss
<1>3. /\ done \in [DOMAIN ms -> Match]
      /\ \A y \in DOMAIN ms \ {x} : done[y] = ms[y]
      /\ done[x].status = "completed"
      /\ done[x].winner = IF win.side = 1 THEN ms[x].p1 ELSE ms[x].p2
      /\ done[x].p1 = ms[x].p1 /\ done[x].p2 = ms[x].p2
      /\ done[x].stage = ms[x].stage /\ done[x].round = ms[x].round
  BY <1>2, ResultIs
<1>4. done \in Seq(Match)
  <2>1. DOMAIN done = 1..Len(ms) /\ Len(ms) \in Nat BY <1>2, <1>3
  <2> QED BY <1>3, <2>1
<1>5. DOMAIN done = DOMAIN ms BY <1>3
<1>6. \A y \in DOMAIN ms : /\ done[y].p1 = ms[y].p1 /\ done[y].p2 = ms[y].p2
                           /\ done[y].stage = ms[y].stage /\ done[y].round = ms[y].round
  BY <1>3
<1>7. \A y \in DOMAIN ms : Players(done[y]) = Players(ms[y]) BY <1>6 DEF Players
<1>8. ms[x].p2 # Nobody BY <1>1 DEF Swiss, Pairs, Ready
<1>9. Pairs(done, n)
  <2> SUFFICES ASSUME NEW y \in DOMAIN ms
               PROVE  /\ done[y].stage = "main" /\ done[y].p1 \in 1..n /\ done[y].p2 \in 0..n
                      /\ done[y].p1 # done[y].p2
                      /\ done[y].status = "bye" <=> done[y].p2 = Nobody
                      /\ done[y].status = "bye" => done[y].winner = done[y].p1
                      /\ done[y].status = "completed" => done[y].winner \in {done[y].p1, done[y].p2}
    BY <1>5 DEF Pairs
  <2>1. CASE y = x BY <1>1, <1>3, <1>8, <2>1 DEF Swiss, Pairs
  <2>2. CASE y # x
    <3>1. done[y] = ms[y] BY <1>3, <2>2
    <3>2. Pairs(ms, n) BY <1>1 DEF Swiss
    <3> QED BY <3>1, <3>2 DEF Pairs
  <2> QED BY <2>1, <2>2
<1>14. Apart(ms) /\ OneBye(ms) BY <1>1 DEF Swiss
<1>15. Apart(done) BY <1>5, <1>6, <1>7, <1>14 DEF Apart
<1>16. OneBye(done) BY <1>5, <1>6, <1>14 DEF OneBye
<1>10. Apart(done) /\ OneBye(done) BY <1>15, <1>16
<1>11. \A y \in DOMAIN done : done[y].round < last => Closed(done[y])
  BY <1>1, <1>3, <1>5 DEF Swiss, Closed
<1>12. Swiss(done, n, last)
  <2>1. last \in 1..SwissRounds(n) BY <1>1 DEF Swiss
  <2>2. \A y \in DOMAIN done : done[y].round \in 1..last BY <1>1, <1>5, <1>6 DEF Swiss
  <2>3. \A r \in 1..last, p \in 1..n :
          \E y \in DOMAIN done : done[y].round = r /\ p \in Players(done[y])
    <3> SUFFICES ASSUME NEW r \in 1..last, NEW p \in 1..n
                 PROVE  \E y \in DOMAIN ms : done[y].round = r /\ p \in Players(done[y])
      BY <1>5
    <3>1. PICK y \in DOMAIN ms : ms[y].round = r /\ p \in Players(ms[y]) BY <1>1 DEF Swiss
    <3> QED BY <1>6, <1>7, <3>1
  <2> QED BY <1>4, <1>9, <1>10, <1>11, <2>1, <2>2, <2>3 DEF Swiss
<1>13. n >= 4 => NotAgain(done, n) BY <1>5, <1>6, <1>7 DEF SwissInv, NotAgain
<1> QED BY <1>12, <1>13 DEF SwissInv

LEMMA SwissGoesOn ==
  ASSUME NEW n \in Nat, n >= 2, NEW ms, SwissInv(ms, n)
  PROVE  SwissInv(NextSwissRound(ms, n), n)
<1>1. PICK last : Swiss(ms, n, last) BY DEF SwissInv
<1>2. /\ SwissRounds(n) \in Nat /\ last \in Nat /\ last >= 1 /\ last <= SwissRounds(n)
      /\ (n = 4 => SwissRounds(n) = 3)
  BY <1>1, SwissRoundsAre DEF Swiss
<1>3. LastRound(ms) = last
  <2> DEFINE T == {ms[x].round : x \in DOMAIN ms}
  <2>1. T \subseteq 1..last BY <1>1 DEF Swiss
  <2>2. last \in T
    <3>1. 1 \in 1..n /\ last \in 1..last BY <1>2
    <3>2. \E x \in DOMAIN ms : ms[x].round = last BY <1>1, <3>1 DEF Swiss
    <3> QED BY <3>2
  <2>3. IsFiniteSet(T)
    <3>1. IsFiniteSet(1..last) BY <1>2, FS_Interval
    <3> QED BY <2>1, <3>1, FS_Subset
  <2>4. LastRound(ms) = FSets!Max(T) BY DEF LastRound
  <2> HIDE DEF T
  <2>7. T \subseteq Nat /\ T # {} BY <1>2, <2>1, <2>2
  <2>5. FSets!Max(T) \in T /\ \A t \in T : t <= FSets!Max(T) BY <2>3, <2>7, MaxIs
  <2>6. FSets!Max(T) \in 1..last /\ last <= FSets!Max(T) BY <2>1, <2>2, <2>5
  <2> QED BY <1>2, <2>4, <2>6
<1> DEFINE goes == last < SwissRounds(n) /\ \A x \in RoundOf(ms, "main", last) : Closed(ms[x])
<1>4. CASE ~goes
  <2>1. NextSwissRound(ms, n) = ms BY <1>3, <1>4 DEF NextSwissRound
  <2> QED BY <2>1
<1>5. CASE goes
  <2> DEFINE new == SwissPairings(ms, n, last + 1)
             all == ms \o new
  <2>1. NextSwissRound(ms, n) = all BY <1>3, <1>5 DEF NextSwissRound
  <2>2. InRound(new, n, last + 1) /\ Seated(new) = 1..n
    <3>1. ms \in Seq(Match) /\ last + 1 \in Nat BY <1>1, <1>2 DEF Swiss
    <3> QED BY <3>1, PairingsAre
  <2>3. \A x \in DOMAIN ms : ms[x].round \in 1..last /\ Closed(ms[x])
    <3> SUFFICES ASSUME NEW x \in DOMAIN ms PROVE ms[x].round \in 1..last /\ Closed(ms[x])
      OBVIOUS
    <3>1. ms[x].round \in 1..last /\ ms[x].stage = "main" BY <1>1 DEF Swiss, Pairs
    <3>2. CASE ms[x].round < last BY <1>1, <3>1, <3>2 DEF Swiss
    <3>3. CASE ms[x].round = last BY <1>5, <3>1, <3>3 DEF RoundOf
    <3> QED BY <1>2, <3>1, <3>2, <3>3
  <2>4. Swiss(all, n, last + 1)
    <3>1. /\ ms \in Seq(Match) /\ Pairs(ms, n) /\ Apart(ms) /\ OneBye(ms)
          /\ \A r \in 1..last, p \in 1..n :
               \E x \in DOMAIN ms : ms[x].round = r /\ p \in Players(ms[x])
      BY <1>1 DEF Swiss
    <3>2. last + 1 \in 1..SwissRounds(n) /\ last \in Nat BY <1>2, <1>5
    <3>3. Adjoined(all, ms, new, Len(ms)) BY <2>2, <3>1, AppendedIs DEF InRound
    <3> HIDE DEF new, all
    <3> QED BY <2>2, <2>3, <3>1, <3>2, <3>3, RoundAppended
  <2>5. ASSUME n >= 4 PROVE NotAgain(all, n)
    <3>1. CASE n = 4 \/ last = 1
      <4>1. \A y \in DOMAIN new : new[y].p2 # Nobody => {new[y].p1, new[y].p2} \notin Met(ms)
        <5>1. CASE last = 1
          <6>1. Swiss(ms, n, 1) /\ new = SwissPairings(ms, n, 2) BY <1>1, <5>1
          <6> HIDE DEF new
          <6> QED BY <2>3, <2>5, <6>1, SecondRound
        <5>2. CASE last # 1
          <6>1. last = 2 /\ n = 4 BY <1>2, <1>5, <3>1, <5>2
          <6>2. Swiss(ms, 4, 2) /\ new = SwissPairings(ms, 4, 3) /\ NotAgain(ms, 4)
            BY <1>1, <6>1 DEF SwissInv
          <6> HIDE DEF new
          <6> QED BY <6>2, ThirdRound
        <5> QED BY <5>1, <5>2
      <4> HIDE DEF new, all
      <4>2. ASSUME NEW x \in DOMAIN ms, NEW y \in DOMAIN new, new[y].p2 # Nobody
            PROVE  Players(ms[x]) # Players(new[y])
        <5>1. Players(new[y]) = {new[y].p1, new[y].p2} BY <2>2, <4>2, PairOf DEF InRound
        <5>2. Players(new[y]) \notin Met(ms) BY <4>1, <4>2, <5>1
        <5> QED BY <5>2, MetIs
      <4>3. /\ \A x \in DOMAIN ms : x \in DOMAIN all /\ all[x] = ms[x]
            /\ \A y \in DOMAIN new : all[Len(ms) + y] = new[y]
            /\ \A z \in DOMAIN all : z \in DOMAIN ms \/ \E y \in DOMAIN new : z = Len(ms) + y
        <5>1. new \in Seq(Match) /\ ms \in Seq(Match) BY <1>1, <2>2 DEF InRound, Swiss
        <5>2. Adjoined(all, ms, new, Len(ms)) BY <5>1, AppendedIs DEF all
        <5> QED BY <5>2 DEF Adjoined
      <4> SUFFICES ASSUME NEW u \in DOMAIN all, NEW v \in DOMAIN all, u # v,
                          all[u].p2 # Nobody, all[v].p2 # Nobody,
                          n = 4 \/ (all[u].round = 1 /\ all[v].round = 2)
                   PROVE  Players(all[u]) # Players(all[v])
        BY DEF NotAgain
      <4>4. CASE u \in DOMAIN ms /\ v \in DOMAIN ms
        BY <2>5, <4>3, <4>4 DEF SwissInv, NotAgain
      <4>5. CASE u \in DOMAIN ms /\ \E y \in DOMAIN new : v = Len(ms) + y BY <4>2, <4>3, <4>5
      <4>6. CASE v \in DOMAIN ms /\ \E y \in DOMAIN new : u = Len(ms) + y BY <4>2, <4>3, <4>6
      <4>7. CASE (\E y \in DOMAIN new : u = Len(ms) + y) /\ (\E y \in DOMAIN new : v = Len(ms) + y)
        <5>1. all[u].round = last + 1 /\ all[v].round = last + 1 BY <2>2, <4>3, <4>7 DEF InRound
        <5>2. Players(all[u]) \cap Players(all[v]) = {} BY <2>4, <5>1 DEF Swiss, Apart
        <5>3. all[u].p2 \in Players(all[u]) BY DEF Players
        <5> QED BY <5>2, <5>3
      <4> QED BY <4>3, <4>4, <4>5, <4>6, <4>7
    <3>2. CASE n # 4 /\ last # 1
      <4>1. last + 1 > 2 BY <1>2, <3>2
      <4> HIDE DEF new, all
      <4>2. /\ \A x \in DOMAIN ms : x \in DOMAIN all /\ all[x] = ms[x]
            /\ \A y \in DOMAIN new : all[Len(ms) + y] = new[y]
            /\ \A z \in DOMAIN all : z \in DOMAIN ms \/ \E y \in DOMAIN new : z = Len(ms) + y
        <5>1. new \in Seq(Match) /\ ms \in Seq(Match) BY <1>1, <2>2 DEF InRound, Swiss
        <5>2. Adjoined(all, ms, new, Len(ms)) BY <5>1, AppendedIs DEF all
        <5> QED BY <5>2 DEF Adjoined
      <4> SUFFICES ASSUME NEW u \in DOMAIN all, NEW v \in DOMAIN all, u # v,
                          all[u].p2 # Nobody, all[v].p2 # Nobody,
                          all[u].round = 1, all[v].round = 2
                   PROVE  Players(all[u]) # Players(all[v])
        BY <3>2 DEF NotAgain
      <4>3. u \in DOMAIN ms /\ v \in DOMAIN ms
        <5>1. \A y \in DOMAIN new : new[y].round = last + 1 BY <2>2 DEF InRound
        <5> QED BY <4>1, <4>2, <5>1
      <4> QED BY <2>5, <4>2, <4>3 DEF SwissInv, NotAgain
    <3> QED BY <3>1, <3>2
  <2> QED BY <2>1, <2>4, <2>5 DEF SwissInv
<1> QED BY <1>4, <1>5

-----------------------------------------------------------------------------
(* Round robin.                                                            *)

\* Division by the size of a round.
LEMMA RoundsOf ==
  ASSUME NEW h \in Nat \ {0}
  PROVE  /\ \A q \in Nat, j \in 0..(h - 1) : (q * h + j) \div h = q /\ (q * h + j) % h = j
         /\ \A m \in Nat, y \in Nat : y < m * h =>
              /\ y \div h \in 0..(m - 1) /\ y % h \in 0..(h - 1)
              /\ y = (y \div h) * h + (y % h)
         /\ \A m, q \in Nat, j \in 0..(h - 1) : q < m => q * h + j < m * h
<1>1. ASSUME NEW y \in Nat
      PROVE  y \div h \in Nat /\ y % h \in 0..(h - 1) /\ y = (y \div h) * h + (y % h)
  <2>1. y \div h \in Nat OBVIOUS
  <2>2. y % h \in 0..(h - 1) OBVIOUS
  <2>3. y = (y \div h) * h + (y % h) OBVIOUS
  <2> QED BY <2>1, <2>2, <2>3
<1>2. ASSUME NEW m \in Nat, NEW q \in Nat, NEW j \in Nat, q < m, j < h PROVE q * h + j < m * h
  <2>1. m - q - 1 \in Nat /\ m = q + 1 + (m - q - 1) BY <1>2
  <2>2. m * h = q * h + h + (m - q - 1) * h /\ (m - q - 1) * h \in Nat BY <2>1
  <2>3. q * h \in Nat /\ m * h \in Nat OBVIOUS
  <2> QED BY <1>2, <2>2, <2>3
<1>3. ASSUME NEW q \in Nat, NEW p \in Nat, NEW j \in 0..(h - 1), NEW k \in 0..(h - 1),
             q * h + j = p * h + k
      PROVE  q = p /\ j = k
  <2>1. q * h \in Nat /\ p * h \in Nat OBVIOUS
  <2>2. ~(q < p) BY <1>2, <1>3, <2>1
  <2>3. ~(p < q) BY <1>2, <1>3, <2>1
  <2>4. p = q BY <2>2, <2>3
  <2> QED BY <1>3, <2>1, <2>4
<1>4. ASSUME NEW q \in Nat, NEW j \in 0..(h - 1)
      PROVE  (q * h + j) \div h = q /\ (q * h + j) % h = j
  <2> DEFINE y == q * h + j
  <2>1. y \in Nat OBVIOUS
  <2>2. y \div h \in Nat /\ y % h \in 0..(h - 1) /\ q * h + j = (y \div h) * h + (y % h)
    BY <1>1, <2>1
  <2> DEFINE p == y \div h
             k == y % h
  <2>3. p \in Nat /\ k \in 0..(h - 1) /\ q * h + j = p * h + k BY <2>2
  <2> HIDE DEF y, p, k
  <2>4. q = p /\ j = k BY <1>3, <2>3
  <2> QED BY <2>4 DEF y, p, k
<1>5. ASSUME NEW m \in Nat, NEW y \in Nat, y < m * h PROVE y \div h \in 0..(m - 1)
  <2>1. y \div h \in Nat /\ y % h \in 0..(h - 1) /\ y = (y \div h) * h + (y % h) BY <1>1
  <2> DEFINE q == y \div h
  <2> HIDE DEF q
  <2>2. q \in Nat /\ y >= q * h BY <2>1 DEF q
  <2>3. CASE q >= m
    <3>1. q - m \in Nat /\ q = m + (q - m) BY <2>2, <2>3
    <3>2. q * h = m * h + (q - m) * h /\ (q - m) * h \in Nat BY <3>1
    <3>3. m * h \in Nat /\ q * h \in Nat BY <2>2
    <3> QED BY <1>5, <2>2, <3>2, <3>3
  <2> QED BY <2>2, <2>3 DEF q
<1>6. \A m \in Nat, y \in Nat : y < m * h =>
        /\ y \div h \in 0..(m - 1) /\ y % h \in 0..(h - 1)
        /\ y = (y \div h) * h + (y % h)
  BY <1>1, <1>5
<1>7. \A m, q \in Nat, j \in 0..(h - 1) : q < m => q * h + j < m * h
  <2>1. \A j \in 0..(h - 1) : j \in Nat /\ j < h OBVIOUS
  <2> QED BY <1>2, <2>1
<1> QED BY <1>4, <1>6, <1>7

\* The place of who has number i (from 0) in the circle of 2 * h.
PlaceOf(h, r, i) ==
  IF i = 0 THEN 0 ELSE IF i - 1 + r <= 2 * h - 1 THEN i - 1 + r ELSE i - 1 + r - (2 * h - 1)

LEMMA CircleIs ==
  ASSUME NEW h \in Nat \ {0}, NEW r \in 1..(2 * h - 1), NEW k \in 0..(2 * h - 1)
  PROVE  /\ CirclePlace(2 * h, r, k) \in 0..(2 * h - 1)
         /\ \A i \in 0..(2 * h - 1) : /\ PlaceOf(h, r, i) \in 0..(2 * h - 1)
                                      /\ CirclePlace(2 * h, r, k) = i <=> k = PlaceOf(h, r, i)
<1> DEFINE m == 2 * h - 1
<1>1. m \in Nat \ {0} /\ 2 * h - 1 = m OBVIOUS
<1> HIDE DEF m
<1>2. \A q \in Nat, j \in 0..(m - 1) : (q * m + j) % m = j BY <1>1, RoundsOf
<1>3. CASE k = 0
  <2>1. CirclePlace(2 * h, r, k) = 0 BY <1>3 DEF CirclePlace
  <2> QED BY <1>1, <1>3, <2>1 DEF PlaceOf
<1>4. CASE k # 0 /\ r <= k
  <2>1. k - r \in 0..(m - 1) /\ 1 \in Nat /\ k - r + 2 * h - 1 = 1 * m + (k - r) BY <1>1, <1>4
  <2>2. (1 * m + (k - r)) % m = k - r BY <1>2, <2>1
  <2>3. CirclePlace(2 * h, r, k) = 1 + ((k - r + 2 * h - 1) % m) BY <1>1, <1>4 DEF CirclePlace
  <2>4. CirclePlace(2 * h, r, k) = 1 + (k - r) BY <2>1, <2>2, <2>3
  <2> QED BY <1>1, <1>4, <2>4 DEF PlaceOf
<1>5. CASE k # 0 /\ k < r
  <2>1. k - r + m \in 0..(m - 1) /\ 0 \in Nat /\ k - r + 2 * h - 1 = 0 * m + (k - r + m)
    BY <1>1, <1>5
  <2>2. (0 * m + (k - r + m)) % m = k - r + m BY <1>2, <2>1
  <2>3. CirclePlace(2 * h, r, k) = 1 + ((k - r + 2 * h - 1) % m) BY <1>1, <1>5 DEF CirclePlace
  <2>4. CirclePlace(2 * h, r, k) = 1 + (k - r + m) BY <2>1, <2>2, <2>3
  <2> QED BY <1>1, <1>5, <2>4 DEF PlaceOf
<1> QED BY <1>3, <1>4, <1>5

\* Two sit opposite to each other in exactly one round.
LEMMA Opposite ==
  ASSUME NEW h \in Nat \ {0}, NEW i \in 0..(2 * h - 1), NEW j \in 0..(2 * h - 1), i # j
  PROVE  /\ \E r \in 1..(2 * h - 1) : PlaceOf(h, r, i) + PlaceOf(h, r, j) = 2 * h - 1
         /\ \A r, s \in 1..(2 * h - 1) :
              /\ PlaceOf(h, r, i) + PlaceOf(h, r, j) = 2 * h - 1
              /\ PlaceOf(h, s, i) + PlaceOf(h, s, j) = 2 * h - 1
              => r = s
<1> DEFINE m == 2 * h - 1
<1>1. ASSUME NEW r \in 1..m, NEW s \in 1..m, PlaceOf(h, r, i) + PlaceOf(h, r, j) = m,
             PlaceOf(h, s, i) + PlaceOf(h, s, j) = m
      PROVE  r = s
  BY <1>1 DEF PlaceOf
<1>2. \E r \in 1..m : PlaceOf(h, r, i) + PlaceOf(h, r, j) = m
  <2>1. CASE i = 0
    <3>1. m + 1 - j \in 1..m BY <2>1
    <3>2. PlaceOf(h, m + 1 - j, i) + PlaceOf(h, m + 1 - j, j) = m BY <2>1 DEF PlaceOf
    <3> QED BY <3>1, <3>2
  <2>2. CASE j = 0
    <3>1. m + 1 - i \in 1..m BY <2>2
    <3>2. PlaceOf(h, m + 1 - i, i) + PlaceOf(h, m + 1 - i, j) = m BY <2>2 DEF PlaceOf
    <3> QED BY <3>1, <3>2
  <2>3. CASE i # 0 /\ j # 0
    <3>0. \A s \in Nat : \E u \in Nat : s = 2 * u \/ s = 2 * u + 1
      <4>1. \A s \in Nat : s \div 2 \in Nat /\ (s = 2 * (s \div 2) \/ s = 2 * (s \div 2) + 1)
        OBVIOUS
      <4> QED BY <4>1
    <3>1. PICK u \in Nat : i + j = 2 * u \/ i + j = 2 * u + 1
      <4>1. i + j \in Nat OBVIOUS
      <4> QED BY <3>0, <4>1
    <3>2. CASE i + j = 2 * u
      <4>1. m + 1 - u \in 1..m BY <2>3, <3>2
      <4>2. PlaceOf(h, m + 1 - u, i) + PlaceOf(h, m + 1 - u, j) = m BY <2>3, <3>2 DEF PlaceOf
      <4> QED BY <4>1, <4>2
    <3>3. CASE i + j = 2 * u + 1 /\ i + j <= m
      <4>1. h - u \in 1..m BY <2>3, <3>3
      <4>2. PlaceOf(h, h - u, i) + PlaceOf(h, h - u, j) = m BY <2>3, <3>3 DEF PlaceOf
      <4> QED BY <4>1, <4>2
    <3>4. CASE i + j = 2 * u + 1 /\ i + j > m
      <4>1. 3 * h - 1 - u \in 1..m BY <2>3, <3>4
      <4>2. PlaceOf(h, 3 * h - 1 - u, i) + PlaceOf(h, 3 * h - 1 - u, j) = m
        BY <2>3, <3>4 DEF PlaceOf
      <4> QED BY <4>1, <4>2
    <3> QED BY <3>1, <3>2, <3>3, <3>4
  <2> QED BY <2>1, <2>2, <2>3
<1> QED BY <1>1, <1>2

-----------------------------------------------------------------------------
\* Who has number i (from 0) among the players: the odd one out is nobody.
Person(players, i) == IF i < Len(players) THEN players[i + 1] ELSE Nobody

\* The match of two opposite places, and its number.
RobinPair(stage, players, h, r, j) ==
  LET a == Person(players, CirclePlace(2 * h, r, j))
      b == Person(players, CirclePlace(2 * h, r, 2 * h - 1 - j))
  IN IF a = Nobody THEN Pairing(stage, r, b, a) ELSE Pairing(stage, r, a, b)
Number(h, r, j) == (r - 1) * h + j + 1

\* A match of that stage and round between a and b, where one may be nobody.
Between(m, stage, r, a, b) ==
  m \in Match /\ m.stage = stage /\ m.round = r /\ Players(m) = {a, b} \ {Nobody}

\* The players of a round robin: as many as its circle has places, or one fewer.
Circle(players, h) ==
  /\ Len(players) \in {2 * h - 1, 2 * h}
  /\ players \in [1..Len(players) -> Nat \ {0}]
  /\ \A i, j \in 1..Len(players) : players[i] = players[j] => i = j

LEMMA PersonIs ==
  ASSUME NEW h \in Nat \ {0}, NEW players, Circle(players, h)
  PROVE  /\ \A i \in 0..(2 * h - 1) : Person(players, i) \in Nat
         /\ \A i \in 0..(2 * h - 1) : Person(players, i) # Nobody <=> i < Len(players)
         /\ \A i, j \in 0..(2 * h - 1) : Person(players, i) = Person(players, j) => i = j
         /\ \A i \in 0..(2 * h - 1) : Person(players, i) # Nobody =>
              \E k \in 1..Len(players) : players[k] = Person(players, i)
         /\ \A k \in 1..Len(players) : \E i \in 0..(2 * h - 1) :
              players[k] = Person(players, i) /\ Person(players, i) # Nobody
<1> DEFINE N == Len(players)
<1>0. N = 2 * h - 1 \/ N = 2 * h BY DEF Circle
<1>1. N \in Nat /\ N >= 2 * h - 1 /\ N <= 2 * h
  <2> HIDE DEF N
  <2> QED BY <1>0
<1>2. \A i \in 0..(2 * h - 1) : i < N => i + 1 \in 1..N BY <1>1
<1>3. \A k \in 1..N : k - 1 \in 0..(2 * h - 1) /\ k - 1 < N /\ (k - 1) + 1 = k BY <1>1
<1>4. \A k \in 1..N : players[k] \in Nat /\ players[k] # 0 BY DEF Circle
<1>5. \A i, j \in 1..N : players[i] = players[j] => i = j BY DEF Circle
<1> HIDE DEF N
<1>6. \A i \in 0..(2 * h - 1) : Person(players, i) = IF i < N THEN players[i + 1] ELSE 0
  BY DEF Person, Nobody, N
<1>7. \A i \in 0..(2 * h - 1) : Person(players, i) \in Nat /\ (Person(players, i) # 0 <=> i < N)
  BY <1>2, <1>4, <1>6
<1>8. ASSUME NEW i \in 0..(2 * h - 1), NEW j \in 0..(2 * h - 1),
             Person(players, i) = Person(players, j)
      PROVE  i = j
  <2>1. CASE i < N
    <3>1. j < N BY <1>7, <1>8, <2>1
    <3>2. i + 1 = j + 1 BY <1>2, <1>5, <1>6, <1>8, <2>1, <3>1
    <3> QED BY <3>2
  <2>2. CASE ~(i < N)
    <3>1. ~(j < N) BY <1>7, <1>8, <2>2
    <3> QED BY <1>1, <2>2, <3>1
  <2> QED BY <2>1, <2>2
<1>9. ASSUME NEW k \in 1..N
      PROVE  \E i \in 0..(2 * h - 1) : players[k] = Person(players, i) /\ Person(players, i) # 0
  <2>1. Person(players, k - 1) = players[k] BY <1>3, <1>6
  <2> QED BY <1>3, <1>4, <2>1
<1>10. \A i \in 0..(2 * h - 1) : Person(players, i) # 0 =>
         \E k \in 1..N : players[k] = Person(players, i)
  BY <1>2, <1>6
<1> QED BY <1>7, <1>8, <1>9, <1>10 DEF N, Nobody

LEMMA BetweenIs ==
  ASSUME NEW stage \in Stages, NEW r \in Nat, NEW a \in Nat, NEW b \in Nat
  PROVE  Between(Pairing(stage, r, a, b), stage, r, a, b)
<1> DEFINE m == Pairing(stage, r, a, b)
<1>1. m \in Match /\ m.stage = stage /\ m.round = r /\ m.p1 = a /\ m.p2 = b BY PairingIs
<1> HIDE DEF m
<1>2. Between(m, stage, r, a, b) BY <1>1 DEF Between, Players
<1> QED BY <1>2 DEF m

\* The matches of a round robin: round r seats opposite places.
LEMMA RoundRobinIs ==
  ASSUME NEW h \in Nat \ {0}, NEW players, Circle(players, h), NEW stage \in Stages,
         NEW ms, ms = RoundRobin(stage, players)
  PROVE  /\ ms \in Seq(Match)
         /\ \A r \in 1..(2 * h - 1), j \in 0..(h - 1) :
              /\ Number(h, r, j) \in DOMAIN ms
              /\ Between(ms[Number(h, r, j)], stage, r, Person(players, CirclePlace(2 * h, r, j)),
                         Person(players, CirclePlace(2 * h, r, 2 * h - 1 - j)))
         /\ \A x \in DOMAIN ms : \E r \in 1..(2 * h - 1), j \in 0..(h - 1) : x = Number(h, r, j)
<1> DEFINE N == Len(players)
           m == 2 * h - 1
           all == m * h
<1>0. N = 2 * h - 1 \/ N = 2 * h BY DEF Circle
<1>1. N + (N % 2) = 2 * h /\ (2 * h) \div 2 = h /\ m \in Nat \ {0}
  <2> HIDE DEF N
  <2>1. (2 * h - 1) % 2 = 1 /\ (2 * h) % 2 = 0 /\ (2 * h) \div 2 = h OBVIOUS
  <2> QED BY <1>0, <2>1
<1>2. ms = [x \in 1..all |-> RobinPair(stage, players, h, 1 + ((x - 1) \div h), (x - 1) % h)]
  BY <1>1 DEF RoundRobin, RobinPair, Person
<1> HIDE DEF N
<1>3. all \in Nat BY <1>1
<1>4. /\ \A q \in Nat, j \in 0..(h - 1) : (q * h + j) \div h = q /\ (q * h + j) % h = j
      /\ \A y \in Nat : y < m * h =>
              /\ y \div h \in 0..(m - 1) /\ y % h \in 0..(h - 1)
              /\ y = (y \div h) * h + (y % h)
      /\ \A q \in Nat, j \in 0..(h - 1) : q < m => q * h + j < m * h
  BY <1>1, RoundsOf
<1> HIDE DEF all, m
<1>5. ASSUME NEW r \in 1..m, NEW j \in 0..(h - 1)
      PROVE  /\ Between(RobinPair(stage, players, h, r, j), stage, r,
                        Person(players, CirclePlace(2 * h, r, j)),
                        Person(players, CirclePlace(2 * h, r, 2 * h - 1 - j)))
             /\ RobinPair(stage, players, h, r, j) \in Match
  <2> DEFINE a == Person(players, CirclePlace(2 * h, r, j))
             b == Person(players, CirclePlace(2 * h, r, 2 * h - 1 - j))
  <2>1. j \in 0..(2 * h - 1) /\ 2 * h - 1 - j \in 0..(2 * h - 1) /\ r \in 1..(2 * h - 1)
    BY DEF m
  <2>2. a \in Nat /\ b \in Nat
    <3>1. /\ CirclePlace(2 * h, r, j) \in 0..(2 * h - 1)
          /\ CirclePlace(2 * h, r, 2 * h - 1 - j) \in 0..(2 * h - 1)
      BY <2>1, CircleIs
    <3> QED BY <3>1, PersonIs
  <2>3. RobinPair(stage, players, h, r, j) =
          IF a = Nobody THEN Pairing(stage, r, b, a) ELSE Pairing(stage, r, a, b)
    BY DEF RobinPair
  <2> HIDE DEF a, b
  <2>4. /\ Between(Pairing(stage, r, a, b), stage, r, a, b)
        /\ Between(Pairing(stage, r, b, a), stage, r, b, a)
    BY <2>1, <2>2, BetweenIs
  <2>5. Between(RobinPair(stage, players, h, r, j), stage, r, a, b)
    BY <2>3, <2>4 DEF Between
  <2> QED BY <2>5 DEF a, b, Between
<1>6. \A x \in 1..all : x - 1 \in Nat /\ x - 1 < all /\ 1 + ((x - 1) \div h) \in 1..m
                        /\ (x - 1) % h \in 0..(h - 1)
  <2> SUFFICES ASSUME NEW x \in 1..all
               PROVE  /\ x - 1 \in Nat /\ x - 1 < all /\ 1 + ((x - 1) \div h) \in 1..m
                      /\ (x - 1) % h \in 0..(h - 1)
    OBVIOUS
  <2> DEFINE y == x - 1
  <2>1. y \in Nat /\ y < all BY <1>3
  <2> HIDE DEF y
  <2>2. y \div h \in 0..(m - 1) /\ y % h \in 0..(h - 1) BY <1>4, <2>1 DEF all
  <2>3. 1 + (y \div h) \in 1..m BY <1>1, <2>2
  <2> QED BY <2>1, <2>2, <2>3 DEF y
<1>7. ms \in Seq(Match)
  <2>1. ms \in [1..all -> Match] BY <1>2, <1>5, <1>6
  <2> QED BY <1>3, <2>1
<1>8. ASSUME NEW r \in 1..m, NEW j \in 0..(h - 1)
      PROVE  /\ Number(h, r, j) \in 1..all
             /\ ms[Number(h, r, j)] = RobinPair(stage, players, h, r, j)
  <2> DEFINE q == r - 1
             y == q * h + j
  <2>1. q \in Nat /\ q < m /\ 1 + q = r BY <1>1
  <2>3. Number(h, r, j) = y + 1 BY DEF Number
  <2> HIDE DEF q
  <2>6. y \div h = q /\ y % h = j BY <1>4, <2>1
  <2>7. y < all BY <1>4, <2>1 DEF all
  <2>8. y \in Nat BY <2>1
  <2>2. y \in Nat /\ y < all /\ y \div h = q /\ y % h = j BY <2>6, <2>7, <2>8
  <2> HIDE DEF y
  <2>4. y + 1 \in 1..all /\ (y + 1) - 1 = y BY <1>3, <2>2
  <2>5. ms[y + 1] = RobinPair(stage, players, h, 1 + (y \div h), y % h) BY <1>2, <2>4
  <2> QED BY <2>1, <2>2, <2>3, <2>4, <2>5 DEF q
<1>9. ASSUME NEW x \in 1..all
      PROVE  \E r \in 1..m, j \in 0..(h - 1) : x = Number(h, r, j)
  <2> DEFINE y == x - 1
  <2>1. y \in Nat /\ y < m * h /\ x = y + 1 BY <1>3 DEF all
  <2>2. y \div h \in 0..(m - 1) /\ y % h \in 0..(h - 1) /\ y = (y \div h) * h + (y % h)
    BY <1>4, <2>1
  <2> DEFINE q == y \div h
             j == y % h
  <2>3. q \in 0..(m - 1) /\ j \in 0..(h - 1) /\ y = q * h + j BY <2>2
  <2> HIDE DEF q, j, y
  <2>4. q + 1 \in 1..m /\ (q + 1) - 1 = q BY <1>1, <2>3
  <2>5. x = Number(h, q + 1, j) BY <2>1, <2>3, <2>4 DEF Number
  <2> QED BY <2>3, <2>4, <2>5
<1>10. DOMAIN ms = 1..all BY <1>2
<1> QED BY <1>5, <1>7, <1>8, <1>9, <1>10 DEF m

-----------------------------------------------------------------------------
\* Every round of the matches seats everyone of S once, and every two meet once.
League(ms, xs, S) ==
  /\ \A x \in xs : Players(ms[x]) \subseteq S
  /\ \A x \in xs, p \in S : \E y \in xs : ms[y].round = ms[x].round /\ p \in Players(ms[y])
  /\ \A p \in S : \A x, y \in xs :
       ms[x].round = ms[y].round /\ p \in Players(ms[x]) /\ p \in Players(ms[y]) => x = y
  /\ \A p, q \in S : p # q => \E x \in xs : Players(ms[x]) = {p, q}
  /\ \A p, q \in S : p # q => \A x, y \in xs :
       Players(ms[x]) = {p, q} /\ Players(ms[y]) = {p, q} => x = y

LEMMA RobinIsLeague ==
  ASSUME NEW h \in Nat \ {0}, NEW players, Circle(players, h), NEW stage \in Stages,
         NEW ms, ms = RoundRobin(stage, players)
  PROVE  League(ms, DOMAIN ms, {players[i] : i \in 1..Len(players)})
<1> DEFINE m == 2 * h - 1
           S == {players[i] : i \in 1..Len(players)}
           who(i) == Person(players, i)
           at(r, k) == CirclePlace(2 * h, r, k)
<1>1. m \in Nat \ {0} /\ m >= h OBVIOUS
<1>2. /\ \A i \in 0..m : who(i) \in Nat
      /\ \A i, j \in 0..m : who(i) = who(j) => i = j
      /\ \A i \in 0..m : who(i) # Nobody => who(i) \in S
      /\ \A p \in S : \E i \in 0..m : p = who(i) /\ who(i) # Nobody
  <2>1. \A i \in 0..m : who(i) # Nobody => \E k \in 1..Len(players) : players[k] = who(i)
    BY PersonIs
  <2>2. \A k \in 1..Len(players) : \E i \in 0..m : players[k] = who(i) /\ who(i) # Nobody
    BY PersonIs
  <2>3. \A i \in 0..m : who(i) \in Nat BY PersonIs
  <2>4. \A i, j \in 0..m : who(i) = who(j) => i = j BY PersonIs
  <2> HIDE DEF m, who
  <2>5. \A i \in 0..m : who(i) # Nobody => who(i) \in S BY <2>1
  <2>6. \A p \in S : \E i \in 0..m : p = who(i) /\ who(i) # Nobody BY <2>2
  <2> QED BY <2>3, <2>4, <2>5, <2>6
<1>3. /\ \A r \in 1..m, j \in 0..(h - 1) :
           /\ Number(h, r, j) \in DOMAIN ms
           /\ Between(ms[Number(h, r, j)], stage, r, who(at(r, j)), who(at(r, m - j)))
      /\ \A x \in DOMAIN ms : \E r \in 1..m, j \in 0..(h - 1) : x = Number(h, r, j)
  BY RoundRobinIs
<1>4. /\ \A r \in 1..m, k \in 0..m : at(r, k) \in 0..m
      /\ \A r \in 1..m, i \in 0..m : PlaceOf(h, r, i) \in 0..m
      /\ \A r \in 1..m, i, k \in 0..m : at(r, k) = i <=> k = PlaceOf(h, r, i)
  <2>1. 0 \in 0..m BY <1>1
  <2>2. \A r \in 1..m, k \in 0..m : at(r, k) \in 0..m BY CircleIs
  <2>3. \A r \in 1..m, i \in 0..m : PlaceOf(h, r, i) \in 0..m BY <2>1, CircleIs
  <2>4. \A r \in 1..m, i, k \in 0..m : at(r, k) = i <=> k = PlaceOf(h, r, i) BY CircleIs
  <2> QED BY <2>2, <2>3, <2>4
<1>5. ASSUME NEW i \in 0..m, NEW j \in 0..m, i # j
      PROVE  /\ \E r \in 1..m : PlaceOf(h, r, i) + PlaceOf(h, r, j) = m
             /\ \A r, s \in 1..m : PlaceOf(h, r, i) + PlaceOf(h, r, j) = m
                                   /\ PlaceOf(h, s, i) + PlaceOf(h, s, j) = m => r = s
  BY <1>5, Opposite
<1> HIDE DEF m, S, who, at
<1>6. ASSUME NEW r \in 1..m, NEW j \in 0..(h - 1), NEW i \in 0..m, who(i) # Nobody
      PROVE  /\ ms[Number(h, r, j)].round = r
             /\ who(i) \in Players(ms[Number(h, r, j)]) <=> PlaceOf(h, r, i) \in {j, m - j}
  <2> DEFINE x == Number(h, r, j)
  <2>1. ms[x].round = r /\ Players(ms[x]) = {who(at(r, j)), who(at(r, m - j))} \ {Nobody}
    BY <1>3 DEF Between
  <2>2. j \in 0..m /\ m - j \in 0..m BY <1>1
  <2>3. who(i) = who(at(r, j)) <=> j = PlaceOf(h, r, i) BY <1>2, <1>4, <2>2
  <2>4. who(i) = who(at(r, m - j)) <=> m - j = PlaceOf(h, r, i) BY <1>2, <1>4, <2>2
  <2> HIDE DEF x
  <2>5. who(i) \in Players(ms[x]) <=> PlaceOf(h, r, i) \in {j, m - j} BY <1>6, <2>1, <2>3, <2>4
  <2> QED BY <2>1, <2>5 DEF x
<1>7. \A r \in 1..m, j \in 0..(h - 1) : Players(ms[Number(h, r, j)]) \subseteq S
  <2> SUFFICES ASSUME NEW r \in 1..m, NEW j \in 0..(h - 1)
               PROVE  Players(ms[Number(h, r, j)]) \subseteq S
    OBVIOUS
  <2>1. Players(ms[Number(h, r, j)]) = {who(at(r, j)), who(at(r, m - j))} \ {Nobody}
    BY <1>3 DEF Between
  <2>2. at(r, j) \in 0..m /\ at(r, m - j) \in 0..m
    <3>1. j \in 0..m /\ m - j \in 0..m BY <1>1
    <3> QED BY <1>4, <3>1
  <2> QED BY <1>2, <2>1, <2>2
<1>8. ASSUME NEW k \in 0..m
      PROVE  \E j \in 0..(h - 1) : k \in {j, m - j}
  <2>1. CASE k <= h - 1 BY <2>1
  <2>2. CASE k > h - 1
    <3>1. m - k \in 0..(h - 1) /\ m - (m - k) = k BY <2>2 DEF m
    <3> QED BY <3>1
  <2> QED BY <2>1, <2>2
<1>9. ASSUME NEW r \in 1..m, NEW p \in S
      PROVE  \E j \in 0..(h - 1) : p \in Players(ms[Number(h, r, j)])
  <2>1. PICK i \in 0..m : p = who(i) /\ who(i) # Nobody BY <1>2
  <2>2. PICK j \in 0..(h - 1) : PlaceOf(h, r, i) \in {j, m - j} BY <1>4, <1>8
  <2> QED BY <1>6, <2>1, <2>2
<1>10. ASSUME NEW r \in 1..m, NEW j \in 0..(h - 1), NEW l \in 0..(h - 1), NEW p \in S,
              p \in Players(ms[Number(h, r, j)]), p \in Players(ms[Number(h, r, l)])
       PROVE  j = l
  <2>1. PICK i \in 0..m : p = who(i) /\ who(i) # Nobody BY <1>2
  <2>2. PlaceOf(h, r, i) \in {j, m - j} /\ PlaceOf(h, r, i) \in {l, m - l}
    BY <1>6, <1>10, <2>1
  <2> QED BY <2>2 DEF m
<1>11. ASSUME NEW p \in S, NEW q \in S, p # q
       PROVE  \E r \in 1..m, j \in 0..(h - 1) : Players(ms[Number(h, r, j)]) = {p, q}
  <2>1. PICK i \in 0..m : p = who(i) /\ who(i) # Nobody BY <1>2
  <2>2. PICK k \in 0..m : q = who(k) /\ who(k) # Nobody BY <1>2
  <2>3. i # k BY <1>11, <2>1, <2>2
  <2>4. PICK r \in 1..m : PlaceOf(h, r, i) + PlaceOf(h, r, k) = m BY <1>5, <2>3
  <2>5. PlaceOf(h, r, i) \in 0..m /\ PlaceOf(h, r, k) \in 0..m BY <1>4
  <2>6. PICK j \in 0..(h - 1) : PlaceOf(h, r, i) \in {j, m - j} BY <1>8, <2>5
  <2>7. PlaceOf(h, r, k) \in {j, m - j} BY <1>1, <2>4, <2>5, <2>6
  <2>8. p \in Players(ms[Number(h, r, j)]) /\ q \in Players(ms[Number(h, r, j)])
    BY <1>6, <2>1, <2>2, <2>6, <2>7
  <2>9. Players(ms[Number(h, r, j)]) = {who(at(r, j)), who(at(r, m - j))} \ {Nobody}
    BY <1>3 DEF Between
  <2>10. Players(ms[Number(h, r, j)]) = {p, q} BY <1>11, <2>8, <2>9
  <2> QED BY <2>10
<1>12. ASSUME NEW p \in S, NEW q \in S, p # q, NEW r \in 1..m, NEW j \in 0..(h - 1),
              NEW s \in 1..m, NEW l \in 0..(h - 1), Players(ms[Number(h, r, j)]) = {p, q},
              Players(ms[Number(h, s, l)]) = {p, q}
       PROVE  r = s /\ j = l
  <2>1. PICK i \in 0..m : p = who(i) /\ who(i) # Nobody BY <1>2
  <2>2. PICK k \in 0..m : q = who(k) /\ who(k) # Nobody BY <1>2
  <2>3. i # k BY <1>12, <2>1, <2>2
  <2>4. ASSUME NEW t \in 1..m, NEW o \in 0..(h - 1), Players(ms[Number(h, t, o)]) = {p, q}
        PROVE  PlaceOf(h, t, i) + PlaceOf(h, t, k) = m
    <3>1. PlaceOf(h, t, i) \in {o, m - o} /\ PlaceOf(h, t, k) \in {o, m - o}
      BY <1>6, <2>1, <2>2, <2>4
    <3>2. PlaceOf(h, t, i) # PlaceOf(h, t, k)
      <4>1. PlaceOf(h, t, i) \in 0..m BY <1>4
      <4>2. /\ at(t, PlaceOf(h, t, i)) = i <=> PlaceOf(h, t, i) = PlaceOf(h, t, i)
            /\ at(t, PlaceOf(h, t, i)) = k <=> PlaceOf(h, t, i) = PlaceOf(h, t, k)
        BY <1>4, <4>1
      <4> QED BY <2>3, <4>2
    <3> QED BY <1>1, <3>1, <3>2
  <2>5. r = s BY <1>5, <1>12, <2>3, <2>4
  <2> QED BY <1>10, <1>12, <2>5
<1>13. \A x \in DOMAIN ms : Players(ms[x]) \subseteq S BY <1>3, <1>7
<1>14. ASSUME NEW x \in DOMAIN ms, NEW p \in S
       PROVE  \E y \in DOMAIN ms : ms[y].round = ms[x].round /\ p \in Players(ms[y])
  <2>1. PICK r \in 1..m, j \in 0..(h - 1) : x = Number(h, r, j) BY <1>3
  <2>2. PICK l \in 0..(h - 1) : p \in Players(ms[Number(h, r, l)]) BY <1>9
  <2>3. ms[x].round = r /\ ms[Number(h, r, l)].round = r BY <1>3, <2>1 DEF Between
  <2>4. Number(h, r, l) \in DOMAIN ms BY <1>3
  <2> QED BY <2>2, <2>3, <2>4
<1>15. ASSUME NEW p \in S, NEW x \in DOMAIN ms, NEW y \in DOMAIN ms, ms[x].round = ms[y].round,
              p \in Players(ms[x]), p \in Players(ms[y])
       PROVE  x = y
  <2>1. PICK r \in 1..m, j \in 0..(h - 1) : x = Number(h, r, j) BY <1>3
  <2>2. PICK s \in 1..m, l \in 0..(h - 1) : y = Number(h, s, l) BY <1>3
  <2>3. ms[x].round = r /\ ms[y].round = s BY <1>3, <2>1, <2>2 DEF Between
  <2>4. j = l BY <1>10, <1>15, <2>1, <2>2, <2>3
  <2> QED BY <1>15, <2>1, <2>2, <2>3, <2>4
<1>16. ASSUME NEW p \in S, NEW q \in S, p # q
       PROVE  \E x \in DOMAIN ms : Players(ms[x]) = {p, q}
  BY <1>3, <1>11, <1>16
<1>17. ASSUME NEW p \in S, NEW q \in S, p # q, NEW x \in DOMAIN ms, NEW y \in DOMAIN ms,
              Players(ms[x]) = {p, q}, Players(ms[y]) = {p, q}
       PROVE  x = y
  <2>1. PICK r \in 1..m, j \in 0..(h - 1) : x = Number(h, r, j) BY <1>3
  <2>2. PICK s \in 1..m, l \in 0..(h - 1) : y = Number(h, s, l) BY <1>3
  <2>3. r = s /\ j = l BY <1>12, <1>17, <2>1, <2>2
  <2> QED BY <2>1, <2>2, <2>3
<1> DEFINE xs == DOMAIN ms
<1>18. League(ms, xs, S)
  <2>1. \A x \in xs : Players(ms[x]) \subseteq S BY <1>13
  <2>2. \A x \in xs, p \in S : \E y \in xs : ms[y].round = ms[x].round /\ p \in Players(ms[y])
    BY <1>14
  <2>3. \A p \in S : \A x, y \in xs :
          ms[x].round = ms[y].round /\ p \in Players(ms[x]) /\ p \in Players(ms[y]) => x = y
    BY <1>15
  <2>4. \A p, q \in S : p # q => \E x \in xs : Players(ms[x]) = {p, q} BY <1>16
  <2>5. \A p, q \in S : p # q => \A x, y \in xs :
          Players(ms[x]) = {p, q} /\ Players(ms[y]) = {p, q} => x = y
    BY <1>17
  <2> HIDE DEF xs
  <2> QED BY <2>1, <2>2, <2>3, <2>4, <2>5 DEF League
<1> QED BY <1>18 DEF S

-----------------------------------------------------------------------------
(* What the invariants of leagues count.                                   *)

LEMMA OnlyOne ==
  ASSUME NEW S, NEW x, x \in S, \A y \in S : y = x
  PROVE  Cardinality(S) = 1
<1>1. S = {x} OBVIOUS
<1> QED BY <1>1, FS_Singleton

LEMMA AtMostOne ==
  ASSUME NEW S, \A x, y \in S : x = y
  PROVE  Cardinality(S) <= 1
<1>1. CASE S = {}
  <2>1. Cardinality(S) = 0 BY <1>1, FS_EmptySet
  <2> QED BY <2>1
<1>2. CASE S # {}
  <2>1. PICK x : x \in S BY <1>2
  <2>2. Cardinality(S) = 1 BY <2>1, OnlyOne
  <2> QED BY <2>2
<1> QED BY <1>1, <1>2

\* A league is what EveryoneMeetsOnce asks of the matches of a stage.
LEMMA LeagueSays ==
  ASSUME NEW xs, xs # {}, NEW S, League(matches, xs, S)
  PROVE  /\ UNION {Players(matches[x]) : x \in xs} = S
         /\ SeatsEveryone(xs, S)
         /\ \A p, q \in S : p # q => Meetings(xs, p, q) = 1
<1>1. UNION {Players(matches[x]) : x \in xs} = S
  <2>1. \A x \in xs : Players(matches[x]) \subseteq S BY DEF League
  <2>2. \A p \in S : \E x \in xs : p \in Players(matches[x]) BY DEF League
  <2> QED BY <2>1, <2>2
<1>2. SeatsEveryone(xs, S)
  <2> SUFFICES ASSUME NEW z \in xs, NEW p \in S
               PROVE  Cardinality({x \in xs : /\ matches[x].round = matches[z].round
                                              /\ p \in Players(matches[x])}) = 1
    BY DEF SeatsEveryone
  <2> DEFINE T == {x \in xs : matches[x].round = matches[z].round /\ p \in Players(matches[x])}
  <2>1. PICK y \in xs : matches[y].round = matches[z].round /\ p \in Players(matches[y])
    BY DEF League
  <2>2. y \in T BY <2>1
  <2>3. \A x \in T : x = y BY <2>1 DEF League
  <2> HIDE DEF T
  <2>4. Cardinality(T) = 1 BY <2>2, <2>3, OnlyOne
  <2> QED BY <2>4 DEF T
<1>3. ASSUME NEW p \in S, NEW q \in S, p # q PROVE Meetings(xs, p, q) = 1
  <2> DEFINE T == {x \in xs : Players(matches[x]) = {p, q}}
  <2>1. PICK y \in xs : Players(matches[y]) = {p, q} BY <1>3 DEF League
  <2>2. y \in T BY <2>1
  <2>3. \A x \in T : x = y BY <1>3, <2>1 DEF League
  <2>4. Meetings(xs, p, q) = Cardinality(T) BY DEF Meetings
  <2> HIDE DEF T
  <2>5. Cardinality(T) = 1 BY <2>2, <2>3, OnlyOne
  <2> QED BY <2>4, <2>5
<1> QED BY <1>1, <1>2, <1>3

\* Swiss rounds are what EveryoneMeetsOnce and PlacesFollowStandings ask.
LEMMA SwissSays ==
  ASSUME NEW n \in Nat, n >= 2, SwissInv(matches, n)
  PROVE  /\ matches \in Seq(Match)
         /\ \A x \in DOMAIN matches : matches[x].round \in Nat /\ matches[x].round <= SwissRounds(n)
         /\ SeatsEveryone(DOMAIN matches, 1..n)
         /\ n >= 4 => \A p, q \in 1..n : p # q =>
              Meetings({x \in DOMAIN matches : matches[x].round <= 2 \/ n = 4}, p, q) <= 1
<1>1. PICK last : Swiss(matches, n, last) BY DEF SwissInv
<1>2. SwissRounds(n) \in Nat /\ last \in 1..SwissRounds(n) /\ matches \in Seq(Match)
  BY <1>1, SwissRoundsAre DEF Swiss
<1>3. \A x \in DOMAIN matches : matches[x].round \in 1..last BY <1>1 DEF Swiss
<1>4. SeatsEveryone(DOMAIN matches, 1..n)
  <2> SUFFICES ASSUME NEW r \in {matches[x].round : x \in DOMAIN matches}, NEW p \in 1..n
               PROVE  Cardinality({x \in DOMAIN matches : /\ matches[x].round = r
                                                          /\ p \in Players(matches[x])}) = 1
    BY DEF SeatsEveryone
  <2> DEFINE T == {x \in DOMAIN matches : matches[x].round = r /\ p \in Players(matches[x])}
  <2>1. r \in 1..last BY <1>3
  <2>2. PICK y \in DOMAIN matches : matches[y].round = r /\ p \in Players(matches[y])
    BY <1>1, <2>1 DEF Swiss
  <2>3. y \in T BY <2>2
  <2>4. ASSUME NEW x \in T PROVE x = y
    <3>1. matches[x].round = matches[y].round /\ p \in Players(matches[x]) \cap Players(matches[y])
          /\ x \in DOMAIN matches
      BY <2>2
    <3>2. Apart(matches) BY <1>1 DEF Swiss
    <3> QED BY <3>1, <3>2 DEF Apart
  <2> HIDE DEF T
  <2>5. Cardinality(T) = 1 BY <2>3, <2>4, OnlyOne
  <2> QED BY <2>5 DEF T
<1>5. ASSUME n >= 4, NEW p \in 1..n, NEW q \in 1..n, p # q
      PROVE  Meetings({x \in DOMAIN matches : matches[x].round <= 2 \/ n = 4}, p, q) <= 1
  <2> DEFINE early == {x \in DOMAIN matches : matches[x].round <= 2 \/ n = 4}
             T == {x \in early : Players(matches[x]) = {p, q}}
  <2>1. ASSUME NEW x \in T, NEW y \in T, x # y PROVE FALSE
    <3>1. /\ x \in DOMAIN matches /\ y \in DOMAIN matches
          /\ (matches[x].round <= 2 \/ n = 4) /\ (matches[y].round <= 2 \/ n = 4)
          /\ Players(matches[x]) = {p, q} /\ Players(matches[y]) = {p, q}
      OBVIOUS
    <3>2. matches[x].p2 # Nobody /\ matches[y].p2 # Nobody
      BY <1>5, <3>1 DEF Players, Nobody
    <3>3. matches[x].round \in Nat \ {0} /\ matches[y].round \in Nat \ {0} BY <1>2, <1>3, <3>1
    <3>4. NotAgain(matches, n) BY <1>5 DEF SwissInv
    <3>5. CASE matches[x].round = matches[y].round
      <4>1. Apart(matches) /\ p \in Players(matches[x]) \cap Players(matches[y])
        BY <1>1, <3>1 DEF Swiss
      <4> QED BY <2>1, <3>1, <3>5, <4>1 DEF Apart
    <3>6. CASE n = 4 BY <2>1, <3>1, <3>2, <3>4, <3>6 DEF NotAgain
    <3>7. CASE matches[x].round = 1 /\ matches[y].round = 2
      BY <2>1, <3>1, <3>2, <3>4, <3>7 DEF NotAgain
    <3>8. CASE matches[y].round = 1 /\ matches[x].round = 2
      BY <2>1, <3>1, <3>2, <3>4, <3>8 DEF NotAgain
    <3> QED BY <3>1, <3>3, <3>5, <3>6, <3>7, <3>8
  <2>2. Meetings(early, p, q) = Cardinality(T) BY DEF Meetings
  <2> HIDE DEF T
  <2>3. Cardinality(T) <= 1 BY <2>1, AtMostOne
  <2> QED BY <2>2, <2>3
<1> QED BY <1>2, <1>3, <1>4, <1>5

-----------------------------------------------------------------------------
(* Groups: sequences of matches one after the other.                       *)

\* The sequences seqs lie in all, the i-th one after its first k[i] matches.
Blocks(all, seqs, k, n) ==
  /\ all \in Seq(Match) /\ k \in [1..n -> Nat]
  /\ \A i \in 1..n : \A y \in DOMAIN seqs[i] :
       k[i] + y \in DOMAIN all /\ all[k[i] + y] = seqs[i][y]
  /\ \A z \in DOMAIN all : \E i \in 1..n : \E y \in DOMAIN seqs[i] : z = k[i] + y

LEMMA BlocksAre ==
  ASSUME NEW n \in Nat \ {0}, NEW seqs \in [1..n -> Seq(Match)],
         NEW all, all = Seqs!FlattenSeq(seqs)
  PROVE  \E k : Blocks(all, seqs, k, n)
<1>1. PICK f \in [1..n -> Seq(Match)] : Board!Chain(f, seqs, n) /\ Board!Seqs!FlattenSeq(seqs) = f[n]
  BY Board!Flattened
<1>2. all = f[n] BY <1>1 DEF Seqs!FlattenSeq, Board!Seqs!FlattenSeq
<1>3. /\ f[1] = seqs[1]
      /\ \A i \in 1..n : i # 1 => f[i] = f[i - 1] \o seqs[i]
  <2>1. 1 \in 1..n OBVIOUS
  <2> QED BY <1>1, <2>1 DEF Board!Chain, Board!Join
<1> DEFINE P == {i \in Nat : i \in 1..n => \E k : Blocks(f[i], seqs, k, i)}
<1>4. 0 \in P OBVIOUS
<1>5. ASSUME NEW i \in Nat, i \in P PROVE i + 1 \in P
  <2> SUFFICES ASSUME i + 1 \in 1..n PROVE \E k : Blocks(f[i + 1], seqs, k, i + 1)
    OBVIOUS
  <2>1. CASE i = 0
    <3> DEFINE k == [j \in 1..1 |-> 0]
    <3>1. f[1] = seqs[1] /\ f[1] \in Seq(Match) /\ k \in [1..1 -> Nat] /\ k[1] = 0
      BY <1>1, <1>3, <2>1
    <3> HIDE DEF k
    <3>2. \A y \in DOMAIN f[1] : 0 + y = y BY <3>1
    <3>3. \A j \in 1..1 : j = 1 OBVIOUS
    <3>4. \A y \in DOMAIN seqs[1] : k[1] + y \in DOMAIN f[1] /\ f[1][k[1] + y] = seqs[1][y]
      BY <3>1, <3>2
    <3>5. \A z \in DOMAIN f[1] : \E y \in DOMAIN seqs[1] : z = k[1] + y BY <3>1, <3>2
    <3>6. Blocks(f[1], seqs, k, 1) BY <3>1, <3>3, <3>4, <3>5 DEF Blocks
    <3> QED BY <2>1, <3>6
  <2>2. CASE i # 0
    <3>1. i \in 1..n /\ (i + 1) - 1 = i /\ i + 1 # 1 BY <2>2
    <3>2. PICK k : Blocks(f[i], seqs, k, i) BY <1>5, <3>1
    <3> DEFINE old == f[i]
               last == seqs[i + 1]
               new == f[i + 1]
               at == Len(old)
               l == [j \in 1..(i + 1) |-> IF j = i + 1 THEN at ELSE k[j]]
    <3>3. new = old \o last /\ old \in Seq(Match) /\ last \in Seq(Match) BY <1>1, <1>3, <3>1
    <3>4. Adjoined(new, old, last, at) BY <3>3, AppendedIs
    <3>5. Blocks(old, seqs, k, i) BY <3>2
    <3>6. at \in Nat BY <3>3
    <3> HIDE DEF old, new, at
    <3>7. l \in [1..(i + 1) -> Nat] BY <3>5, <3>6 DEF Blocks
    <3>8. ASSUME NEW j \in 1..(i + 1), NEW y \in DOMAIN seqs[j]
          PROVE  l[j] + y \in DOMAIN new /\ new[l[j] + y] = seqs[j][y]
      <4>1. CASE j = i + 1
        <5>1. l[j] = at /\ seqs[j] = last BY <4>1
        <5> QED BY <3>4, <3>8, <5>1 DEF Adjoined
      <4>2. CASE j # i + 1
        <5>1. j \in 1..i /\ l[j] = k[j] BY <4>2
        <5>2. k[j] + y \in DOMAIN old /\ old[k[j] + y] = seqs[j][y] BY <3>5, <3>8, <5>1 DEF Blocks
        <5> QED BY <3>4, <5>1, <5>2 DEF Adjoined
      <4> QED BY <4>1, <4>2
    <3>9. ASSUME NEW z \in DOMAIN new
          PROVE  \E j \in 1..(i + 1) : \E y \in DOMAIN seqs[j] : z = l[j] + y
      <4>1. CASE z \in DOMAIN old
        <5>1. PICK j \in 1..i : \E y \in DOMAIN seqs[j] : z = k[j] + y BY <3>5, <4>1 DEF Blocks
        <5>2. j \in 1..(i + 1) /\ l[j] = k[j] OBVIOUS
        <5> QED BY <5>1, <5>2
      <4>2. CASE \E y \in DOMAIN last : z = at + y
        <5>1. i + 1 \in 1..(i + 1) /\ l[i + 1] = at OBVIOUS
        <5> QED BY <4>2, <5>1
      <4> QED BY <3>4, <4>1, <4>2 DEF Adjoined
    <3>10. new \in Seq(Match) BY <3>4 DEF Adjoined
    <3> HIDE DEF l
    <3>11. Blocks(new, seqs, l, i + 1) BY <3>7, <3>8, <3>9, <3>10 DEF Blocks
    <3> QED BY <3>11 DEF new
  <2> QED BY <2>1, <2>2
<1> HIDE DEF P
<1>6. Nat \subseteq P BY <1>4, <1>5, Board!Induction
<1>7. n \in P /\ n \in 1..n BY <1>6
<1> QED BY <1>2, <1>7 DEF P

\* Every member has one place of the list.
Listed(order, S) ==
  /\ Len(order) = Cardinality(S) /\ Len(order) \in Nat
  /\ order \in [1..Len(order) -> S]
  /\ \A i, j \in 1..Len(order) : order[i] = order[j] => i = j
  /\ \A p \in S : \E i \in 1..Len(order) : order[i] = p

\* The members of a group, in the order of their seeds.
LEMMA InOrderIs ==
  ASSUME NEW S, S \subseteq Nat \ {0}, IsFiniteSet(S), NEW order, order = InOrder(S)
  PROVE  Listed(order, S)
<1> DEFINE R == {u \in S \X S : u[1] < u[2]}
           c == Cardinality(S)
           below(p) == Cardinality({q \in S : q < p})
<1>1. \A p \in S : p \in Nat /\ p # 0 OBVIOUS
<1>2. \A p, q \in S : <<p, q>> \in R <=> p < q OBVIOUS
<1>3. /\ \A p \in S : <<p, p>> \notin R
      /\ \A p, q, r \in S : <<p, q>> \in R /\ <<q, r>> \in R => <<p, r>> \in R
      /\ \A p, q \in S : p # q => <<p, q>> \in R \/ <<q, p>> \in R
  <2> HIDE DEF R
  <2> QED BY <1>1, <1>2
<1>4. ASSUME NEW p \in S PROVE Place(p, S, R) = below(p) + 1
  <2>1. {q \in S : <<q, p>> \in R} = {q \in S : q < p}
    <3> HIDE DEF R
    <3> QED BY <1>2
  <2> HIDE DEF R
  <2> QED BY <2>1 DEF Place
<1> HIDE DEF R
<1>5. /\ c \in Nat /\ \A p \in S : Place(p, S, R) \in 1..c
      /\ \A p, q \in S : Place(p, S, R) = Place(q, S, R) => p = q
      /\ \A k \in 1..c : \E p \in S : Place(p, S, R) = k
  <2> HIDE DEF c
  <2> QED BY <1>3, PlacesAreTaken DEF c
<1>6. order = [i \in 1..c |-> CHOOSE p \in S : below(p) = i - 1] BY DEF InOrder
<1>7. \A p \in S : below(p) \in Nat
  <2>1. \A p \in S : {q \in S : q < p} \subseteq S OBVIOUS
  <2>2. \A p \in S : IsFiniteSet({q \in S : q < p}) BY <2>1, FS_Subset
  <2> QED BY <2>2, FS_CardinalityType
<1> HIDE DEF c, below
<1>8. ASSUME NEW i \in 1..c PROVE order[i] \in S /\ below(order[i]) = i - 1
  <2>1. PICK p \in S : Place(p, S, R) = i BY <1>5
  <2>2. below(p) = i - 1 BY <1>4, <1>7, <2>1
  <2> QED BY <1>6, <2>2
<1>9. Len(order) = c /\ order \in [1..c -> S] BY <1>5, <1>6, <1>8
<1>10. \A i, j \in 1..c : order[i] = order[j] => i = j BY <1>8
<1>11. ASSUME NEW p \in S PROVE \E i \in 1..c : order[i] = p
  <2>1. below(p) + 1 \in 1..c BY <1>4, <1>5
  <2> DEFINE i == below(p) + 1
  <2>2. i \in 1..c /\ i - 1 = below(p) BY <1>7, <2>1
  <2> HIDE DEF i
  <2>3. order[i] \in S /\ below(order[i]) = below(p) BY <1>8, <2>2
  <2>4. order[i] = p BY <1>4, <1>5, <2>3
  <2> QED BY <2>2, <2>4
<1> QED BY <1>5, <1>9, <1>10, <1>11 DEF c, Listed

\* The members of group g.
Group(n, g) == {p \in 1..n : GroupOf(p, GroupCount(n)) = g}

\* Every participant is in one of at most four groups, every group has two or more.
LEMMA GroupsAre ==
  ASSUME NEW n \in Nat, n >= 4, GroupCount(n) <= 4
  PROVE  /\ GroupCount(n) \in 2..4 /\ 2 * GroupCount(n) <= n
         /\ \A p \in 1..n : GroupOf(p, GroupCount(n)) \in 1..GroupCount(n)
         /\ \A g \in 1..GroupCount(n) : \E p, q \in Group(n, g) : p # q
<1> DEFINE G == GroupCount(n)
           T == {2, (n + 2) \div 4}
<1>1. (n + 2) \div 4 \in Nat /\ 4 * ((n + 2) \div 4) <= n + 2 OBVIOUS
<1>2. G \in T /\ 2 <= G
  <2>1. T \subseteq Nat /\ T # {} /\ 2 \in T BY <1>1
  <2>2. IsFiniteSet(T)
    <3> DEFINE a == (n + 2) \div 4
    <3>1. IsFiniteSet({2}) BY FS_Singleton
    <3>2. IsFiniteSet({2} \cup {a}) BY <3>1, FS_AddElement
    <3>3. T = {2} \cup {a} OBVIOUS
    <3> QED BY <3>2, <3>3
  <2>3. G = FSets!Max(T) BY DEF GroupCount
  <2> HIDE DEF T
  <2>4. FSets!Max(T) \in T /\ \A t \in T : t <= FSets!Max(T) BY <2>1, <2>2, MaxIs
  <2> QED BY <2>1, <2>3, <2>4
<1>3. G \in 2..4 /\ 2 * G <= n
  <2>1. G <= 4 OBVIOUS
  <2> HIDE DEF G
  <2> QED BY <1>1, <1>2, <2>1
<1> HIDE DEF G
<1>4. ASSUME NEW p \in 1..n PROVE GroupOf(p, G) \in 1..G
  <2> DEFINE i == (p - 1) % (2 * G)
  <2>1. i \in 0..(2 * G - 1)
    <3>1. p - 1 \in Nat /\ 2 * G \in Nat /\ 2 * G > 0 BY <1>3
    <3> HIDE DEF i
    <3>2. \A a \in Nat, b \in Nat : b > 0 => a % b \in 0..(b - 1) OBVIOUS
    <3> QED BY <3>1, <3>2 DEF i
  <2>2. GroupOf(p, G) = IF i < G THEN i + 1 ELSE 2 * G - i BY DEF GroupOf
  <2> HIDE DEF i
  <2> QED BY <1>3, <2>1, <2>2
<1>5. ASSUME NEW g \in 1..G
      PROVE  /\ g \in 1..n /\ 2 * G + 1 - g \in 1..n /\ g # 2 * G + 1 - g
             /\ GroupOf(g, G) = g /\ GroupOf(2 * G + 1 - g, G) = g
  <2>1. \A a, b \in Nat : a < b => a % b = a
    BY SMT
  <2>2. g - 1 \in Nat /\ 2 * G - g \in Nat /\ 2 * G \in Nat /\ g - 1 < 2 * G /\ 2 * G - g < 2 * G
    BY <1>3
  <2>3. (g - 1) % (2 * G) = g - 1 /\ (2 * G + 1 - g) - 1 = 2 * G - g
        /\ (2 * G - g) % (2 * G) = 2 * G - g
    BY <2>1, <2>2
  <2>4. GroupOf(g, G) = g BY <1>3, <2>3 DEF GroupOf
  <2>5. GroupOf(2 * G + 1 - g, G) = g BY <1>3, <2>3 DEF GroupOf
  <2> QED BY <1>3, <2>4, <2>5
<1>6. \A g \in 1..G : \E p, q \in Group(n, g) : p # q BY <1>5 DEF Group, G
<1> QED BY <1>3, <1>4, <1>6 DEF G

-----------------------------------------------------------------------------
(* The generated groups.                                                   *)

LEMMA StagesAre ==
  /\ \A g \in 1..4 : GroupStages[g] \in Stages /\ GroupStages[g] # "playoff"
  /\ \A g, o \in 1..4 : GroupStages[g] = GroupStages[o] => g = o
  /\ "main" \in Stages /\ "playoff" \in Stages /\ "main" # "playoff"
<1>1. /\ GroupStages[1] = "group:A" /\ GroupStages[2] = "group:B"
      /\ GroupStages[3] = "group:C" /\ GroupStages[4] = "group:D"
  BY DEF GroupStages
<1>2. \A g \in 1..4 : g = 1 \/ g = 2 \/ g = 3 \/ g = 4 OBVIOUS
<1> HIDE DEF GroupStages
<1>3. \A g \in 1..4 : GroupStages[g] \in Stages /\ GroupStages[g] # "playoff"
  BY <1>1, <1>2 DEF Stages
<1>4. \A g, o \in 1..4 : GroupStages[g] = GroupStages[o] => g = o BY <1>1, <1>2
<1>5. "main" \in Stages /\ "playoff" \in Stages /\ "main" # "playoff" BY DEF Stages
<1> QED BY <1>3, <1>4, <1>5

\* Anyone meets in a circle.
LEMMA CircleFits ==
  ASSUME NEW players, Len(players) \in Nat \ {0},
         players \in [1..Len(players) -> Nat \ {0}],
         \A i, j \in 1..Len(players) : players[i] = players[j] => i = j
  PROVE  \E h \in Nat \ {0} : Circle(players, h)
<1> DEFINE N == Len(players)
<1>1. \E h \in Nat \ {0} : N = 2 * h - 1 \/ N = 2 * h
  <2>1. \A m \in Nat \ {0} : (m + 1) \div 2 \in Nat \ {0}
                             /\ (m = 2 * ((m + 1) \div 2) - 1 \/ m = 2 * ((m + 1) \div 2))
    OBVIOUS
  <2>2. N \in Nat \ {0} OBVIOUS
  <2> HIDE DEF N
  <2> QED BY <2>1, <2>2
<1>2. PICK h \in Nat \ {0} : N = 2 * h - 1 \/ N = 2 * h BY <1>1
<1>3. Circle(players, h) BY <1>2 DEF Circle
<1> QED BY <1>3

\* A league stays one among other matches.
LEMMA LeagueMoves ==
  ASSUME NEW ms \in Seq(Match), NEW S, League(ms, DOMAIN ms, S), NEW all, NEW k \in Nat,
         \A y \in DOMAIN ms : all[k + y] = ms[y],
         NEW xs, \A x : x \in xs <=> \E y \in DOMAIN ms : x = k + y
  PROVE  League(all, xs, S)
<1>0. /\ \A p \in S : \A x, y \in DOMAIN ms :
           ms[x].round = ms[y].round /\ p \in Players(ms[x]) /\ p \in Players(ms[y]) => x = y
      /\ \A p, q \in S : p # q => \A x, y \in DOMAIN ms :
           Players(ms[x]) = {p, q} /\ Players(ms[y]) = {p, q} => x = y
  BY DEF League
<1>1. \A y \in DOMAIN ms : y \in Nat OBVIOUS
<1>2. \A x \in xs : \E y \in DOMAIN ms : x = k + y /\ all[x] = ms[y] OBVIOUS
<1>3. \A y \in DOMAIN ms : k + y \in xs OBVIOUS
<1>4. \A x \in xs : Players(all[x]) \subseteq S
  <2> SUFFICES ASSUME NEW x \in xs PROVE Players(all[x]) \subseteq S OBVIOUS
  <2>1. PICK y \in DOMAIN ms : all[x] = ms[y] BY <1>2
  <2> QED BY <2>1 DEF League
<1>5. ASSUME NEW x \in xs, NEW p \in S
      PROVE  \E z \in xs : all[z].round = all[x].round /\ p \in Players(all[z])
  <2>1. PICK y \in DOMAIN ms : all[x] = ms[y] BY <1>2
  <2>2. PICK w \in DOMAIN ms : ms[w].round = ms[y].round /\ p \in Players(ms[w]) BY DEF League
  <2> QED BY <1>3, <2>1, <2>2
<1>6. ASSUME NEW p \in S, NEW x \in xs, NEW z \in xs, all[x].round = all[z].round,
             p \in Players(all[x]), p \in Players(all[z])
      PROVE  x = z
  <2>1. PICK y \in DOMAIN ms : x = k + y /\ all[x] = ms[y] BY <1>2
  <2>2. PICK w \in DOMAIN ms : z = k + w /\ all[z] = ms[w] BY <1>2
  <2>3. y = w BY <1>0, <1>6, <2>1, <2>2
  <2> QED BY <2>1, <2>2, <2>3
<1>7. ASSUME NEW p \in S, NEW q \in S, p # q PROVE \E x \in xs : Players(all[x]) = {p, q}
  <2>1. PICK y \in DOMAIN ms : Players(ms[y]) = {p, q} BY <1>7 DEF League
  <2> QED BY <1>3, <2>1
<1>8. ASSUME NEW p \in S, NEW q \in S, p # q, NEW x \in xs, NEW z \in xs,
             Players(all[x]) = {p, q}, Players(all[z]) = {p, q}
      PROVE  x = z
  <2>1. PICK y \in DOMAIN ms : x = k + y /\ all[x] = ms[y] BY <1>2
  <2>2. PICK w \in DOMAIN ms : z = k + w /\ all[z] = ms[w] BY <1>2
  <2>3. Players(ms[y]) = {p, q} /\ Players(ms[w]) = {p, q} BY <1>8, <2>1, <2>2
  <2> DEFINE pair == {p, q}
  <2>4. \A v1, v2 \in DOMAIN ms : Players(ms[v1]) = pair /\ Players(ms[v2]) = pair => v1 = v2
    BY <1>8 DEF League
  <2>5. Players(ms[y]) = pair /\ Players(ms[w]) = pair BY <2>3
  <2> HIDE DEF pair
  <2>6. y = w BY <2>4, <2>5
  <2> QED BY <2>1, <2>2, <2>6
<1>9. \A x \in xs, p \in S : \E y \in xs : all[y].round = all[x].round /\ p \in Players(all[y])
  BY <1>5
<1>10. \A p \in S : \A x, y \in xs :
         all[x].round = all[y].round /\ p \in Players(all[x]) /\ p \in Players(all[y]) => x = y
  BY <1>6
<1>11. \A p, q \in S : p # q => \E x \in xs : Players(all[x]) = {p, q} BY <1>7
<1>12. \A p, q \in S : p # q => \A x, y \in xs :
         Players(all[x]) = {p, q} /\ Players(all[y]) = {p, q} => x = y
  BY <1>8
<1> QED BY <1>4, <1>9, <1>10, <1>11, <1>12 DEF League

\* A group is a league of its members.
LEMMA GroupIsLeague ==
  ASSUME NEW n \in Nat, n >= 4, GroupCount(n) <= 4, NEW g \in 1..GroupCount(n),
         NEW ms, ms = RoundRobin(GroupStages[g], GroupMembers(n, g))
  PROVE  /\ ms \in Seq(Match) /\ League(ms, DOMAIN ms, Group(n, g))
         /\ \A x \in DOMAIN ms : ms[x].stage = GroupStages[g] /\ ms[x].round # 0
<1> DEFINE S == Group(n, g)
           players == GroupMembers(n, g)
<1>1. g \in 1..4 /\ \E p, q \in S : p # q BY GroupsAre
<1>2. S \subseteq 1..n BY DEF Group
<1>3. IsFiniteSet(S) /\ S \subseteq Nat \ {0}
  <2>1. IsFiniteSet(1..n) BY FS_Interval
  <2>2. IsFiniteSet(S) BY <1>2, <2>1, FS_Subset
  <2> QED BY <1>2, <2>2
<1>4. players = InOrder(S) BY DEF GroupMembers, Group
<1> HIDE DEF S, players
<1>5. /\ Len(players) = Cardinality(S) /\ Len(players) \in Nat
      /\ players \in [1..Len(players) -> S]
      /\ \A i, j \in 1..Len(players) : players[i] = players[j] => i = j
      /\ \A p \in S : \E i \in 1..Len(players) : players[i] = p
  <2>1. Listed(players, S) BY <1>3, <1>4, InOrderIs
  <2> QED BY <2>1 DEF Listed
<1>15. {players[i] : i \in 1..Len(players)} = S BY <1>5
<1>6. Len(players) # 0 BY <1>1, <1>3, <1>5, FS_EmptySet
<1>7. players \in [1..Len(players) -> Nat \ {0}] BY <1>3, <1>5
<1>8. PICK h \in Nat \ {0} : Circle(players, h)
  <2>1. Len(players) \in Nat \ {0} BY <1>5, <1>6
  <2> QED BY <1>5, <1>7, <2>1, CircleFits
<1>9. GroupStages[g] \in Stages BY <1>1, StagesAre
<1> DEFINE stage == GroupStages[g]
<1>10. ms = RoundRobin(stage, players) BY DEF players
<1>11. stage \in Stages BY <1>9
<1> HIDE DEF stage
<1>12. League(ms, DOMAIN ms, S) BY <1>8, <1>10, <1>11, <1>15, RobinIsLeague
<1>13. /\ ms \in Seq(Match)
       /\ \A r \in 1..(2 * h - 1), j \in 0..(h - 1) :
            Between(ms[Number(h, r, j)], stage, r, Person(players, CirclePlace(2 * h, r, j)),
                    Person(players, CirclePlace(2 * h, r, 2 * h - 1 - j)))
       /\ \A x \in DOMAIN ms : \E r \in 1..(2 * h - 1), j \in 0..(h - 1) : x = Number(h, r, j)
  BY <1>8, <1>10, <1>11, RoundRobinIs
<1>14. ASSUME NEW x \in DOMAIN ms PROVE ms[x].stage = stage /\ ms[x].round # 0
  <2>1. PICK r \in 1..(2 * h - 1), j \in 0..(h - 1) : x = Number(h, r, j) BY <1>13
  <2>2. ms[x].stage = stage /\ ms[x].round = r BY <1>13, <2>1 DEF Between
  <2> QED BY <2>2
<1> QED BY <1>12, <1>13, <1>14 DEF S, stage

\* A round of matches nobody is in yet.
Unfilled(ms, stage, r, c) ==
  /\ ms \in Seq(Match) /\ DOMAIN ms = 1..c
  /\ \A x \in 1..c : /\ ms[x].stage = stage /\ ms[x].round = r
                     /\ Players(ms[x]) = {} /\ ms[x].winner = Nobody

\* The rounds of a knockout that waits for its participants.
LEMMA EmptyRoundIs ==
  ASSUME NEW stage \in Stages, NEW r \in Nat, NEW c \in Nat,
         NEW ms, ms = EmptyRound(stage, r, c)
  PROVE  Unfilled(ms, stage, r, c)
<1> DEFINE m == EmptyMatch(stage, r)
<1>1. m \in Match BY DEF EmptyMatch, Match, Nobody
<1>2. m.stage = stage /\ m.round = r /\ Players(m) = {} /\ m.winner = Nobody
  BY DEF EmptyMatch, Players
<1>3. ms = [x \in 1..c |-> m] BY DEF EmptyRound
<1> HIDE DEF m
<1> QED BY <1>1, <1>2, <1>3 DEF Unfilled

\* A playoff nobody is in yet: at least n seats in round 1, whose matches follow each other.
PlayoffFits(all, n, size) ==
  /\ all \in Seq(Match)
  /\ \A x \in DOMAIN all : /\ all[x].stage = "playoff" /\ all[x].round \in Nat \ {0}
                           /\ Players(all[x]) = {} /\ all[x].winner = Nobody
  /\ \E half \in Nat, k \in Nat :
       /\ size = 2 * half /\ n <= size
       /\ \A x : x \in DOMAIN all /\ all[x].round = 1 <=> x \in (k + 1)..(k + half)

LEMMA PlayoffIs ==
  ASSUME NEW n \in Nat, n >= 2, NEW size, size = NextPow2(n),
         NEW all, all = Seqs!FlattenSeq([r \in 1..Log2(size) |->
                          EmptyRound("playoff", r, size \div 2 ^ r)])
  PROVE  PlayoffFits(all, n, size)
<1>1. PICK h \in Nat \ {0} : size = 2 ^ h /\ Log2(2 ^ h) = h /\ n <= 2 ^ h
  <2>1. PICK h \in Nat \ {0} : Board!NextPow2(n) = 2 ^ h /\ Board!Log2(2 ^ h) = h /\ n <= 2 ^ h
    BY Board!SizeIsPower
  <2>2. NextPow2(n) = 2 ^ h BY <2>1 DEF NextPow2, Board!NextPow2
  <2>3. Log2(2 ^ h) = h BY <2>1 DEF Log2, Board!Log2
  <2> QED BY <2>1, <2>2, <2>3
<1>2. \A r \in Nat : 2 ^ r \in Nat /\ 2 ^ r > 0
  <2>1. \A r \in Nat : 2 ^ r \in Nat BY Board!PowerDoubles
  <2> QED BY <2>1, Board!PowersAreLarge
<1>3. \A a \in Nat, b \in Nat : b > 0 => a \div b \in Nat OBVIOUS
<1>4. PICK half \in Nat : size = 2 * half /\ size \div 2 ^ 1 = half
  <2>1. h - 1 \in Nat /\ (h - 1) + 1 = h OBVIOUS
  <2> DEFINE k == h - 1
             half == 2 ^ k
  <2>2. k \in Nat /\ k + 1 = h BY <2>1
  <2> HIDE DEF k
  <2>3. half \in Nat /\ size = 2 * half BY <1>1, <2>2, Board!PowerDoubles
  <2>4. 2 ^ 1 = 2
    <3>1. 2 ^ 0 = 1 BY Board!PowerOfZero
    <3> DEFINE z == 0
    <3>2. z \in Nat /\ z + 1 = 1 OBVIOUS
    <3>3. 2 ^ z = 1 BY <3>1
    <3> HIDE DEF z
    <3>4. 2 ^ (z + 1) = 2 * 2 ^ z BY <3>2, Board!PowerDoubles
    <3> QED BY <3>2, <3>3, <3>4
  <2> HIDE DEF half
  <2>5. \A a \in Nat : (2 * a) \div 2 = a OBVIOUS
  <2> QED BY <2>3, <2>4, <2>5
<1> DEFINE count(r) == size \div 2 ^ r
           seqs == [r \in 1..h |-> EmptyRound("playoff", r, count(r))]
<1>5. \A r \in 1..h : count(r) \in Nat
  <2>1. size \in Nat BY <1>1, <1>2
  <2> QED BY <1>2, <1>3, <2>1
<1>6. count(1) = half BY <1>4
<1>7. all = Seqs!FlattenSeq(seqs) BY <1>1
<1> HIDE DEF count
<1>8. ASSUME NEW r \in 1..h
      PROVE  /\ seqs[r] \in Seq(Match) /\ DOMAIN seqs[r] = 1..count(r)
             /\ \A y \in 1..count(r) : /\ seqs[r][y].stage = "playoff" /\ seqs[r][y].round = r
                                       /\ Players(seqs[r][y]) = {} /\ seqs[r][y].winner = Nobody
  <2> DEFINE stage == "playoff"
             c == count(r)
             ms == seqs[r]
  <2>1. ms = EmptyRound(stage, r, c) BY <1>8
  <2>2. stage \in Stages /\ r \in Nat /\ c \in Nat BY <1>5, StagesAre
  <2> HIDE DEF seqs, stage, c, ms
  <2>3. Unfilled(ms, stage, r, c) BY <2>1, <2>2, EmptyRoundIs
  <2> QED BY <2>3 DEF stage, c, ms, Unfilled
<1>9. seqs \in [1..h -> Seq(Match)] BY <1>8
<1> HIDE DEF seqs
<1>10. PICK k : Blocks(all, seqs, k, h) BY <1>7, <1>9, BlocksAre
<1>11. all \in Seq(Match) BY <1>10 DEF Blocks
<1>12. ASSUME NEW x \in DOMAIN all
       PROVE  \E r \in 1..h : /\ \E y \in 1..count(r) : x = k[r] + y
                              /\ all[x].stage = "playoff" /\ all[x].round = r
                              /\ Players(all[x]) = {} /\ all[x].winner = Nobody
  <2>1. PICK r \in 1..h : \E y \in DOMAIN seqs[r] : x = k[r] + y BY <1>10 DEF Blocks
  <2>2. PICK y \in DOMAIN seqs[r] : x = k[r] + y BY <2>1
  <2>3. all[x] = seqs[r][y] BY <1>10, <2>2 DEF Blocks
  <2>4. y \in 1..count(r) BY <1>8, <2>2
  <2> DEFINE seq == seqs[r]
  <2>6. \A z \in 1..count(r) : /\ seq[z].stage = "playoff" /\ seq[z].round = r
                               /\ Players(seq[z]) = {} /\ seq[z].winner = Nobody
    BY <1>8
  <2> DEFINE m == seq[y]
  <2>7. m.stage = "playoff" /\ m.round = r /\ Players(m) = {} /\ m.winner = Nobody
    <3> HIDE DEF seq
    <3> QED BY <2>4, <2>6
  <2>8. all[x] = m BY <2>3
  <2> HIDE DEF m
  <2>5. /\ all[x].stage = "playoff" /\ all[x].round = r
        /\ Players(all[x]) = {} /\ all[x].winner = Nobody
    BY <2>7, <2>8
  <2> QED BY <2>2, <2>4, <2>5
<1>13. 1 \in 1..h /\ k[1] \in Nat BY <1>10 DEF Blocks
<1>14. ASSUME NEW x, x \in DOMAIN all, all[x].round = 1
       PROVE  x \in (k[1] + 1)..(k[1] + half)
  <2>1. \E y \in 1..count(1) : x = k[1] + y BY <1>12, <1>14
  <2> QED BY <1>6, <1>13, <2>1
<1>15. ASSUME NEW x, x \in (k[1] + 1)..(k[1] + half)
       PROVE  x \in DOMAIN all /\ all[x].round = 1
  <2> DEFINE y == x - k[1]
  <2>1. y \in 1..half /\ x = k[1] + y BY <1>13, <1>15
  <2> HIDE DEF y
  <2>2. y \in DOMAIN seqs[1] /\ y \in 1..count(1) BY <1>6, <1>8, <1>13, <2>1
  <2>3. x \in DOMAIN all /\ all[x] = seqs[1][y] BY <1>10, <1>13, <2>1, <2>2 DEF Blocks
  <2> QED BY <1>8, <1>13, <2>2, <2>3
<1>16. n <= size BY <1>1
<1>17. \A x \in DOMAIN all : /\ all[x].stage = "playoff" /\ all[x].round \in Nat \ {0}
                             /\ Players(all[x]) = {} /\ all[x].winner = Nobody
  BY <1>12
<1>18. \A x : x \in DOMAIN all /\ all[x].round = 1 <=> x \in (k[1] + 1)..(k[1] + half)
  BY <1>14, <1>15
<1> QED BY <1>4, <1>11, <1>13, <1>16, <1>17, <1>18 DEF PlayoffFits

\* Rounds are counted from 1.
Counted(ms) == \A x \in DOMAIN ms : ms[x].round # 0

\* A league for each group, and a playoff whose first round has a seat for everyone
\* who advances.
GroupsFit(ms, n) ==
  /\ \A g \in 1..GroupCount(n) :
       League(ms, {x \in DOMAIN ms : ms[x].stage = GroupStages[g]}, Group(n, g))
  /\ \A x \in DOMAIN ms : \/ ms[x].stage = "playoff"
                          \/ \E g \in 1..GroupCount(n) : ms[x].stage = GroupStages[g]
  /\ \E half \in Nat, k \in Nat :
       /\ NextPow2(2 * GroupCount(n)) = 2 * half /\ 2 * GroupCount(n) <= 2 * half
       /\ RoundOf(ms, "playoff", 1) = (k + 1)..(k + half)
  /\ Counted(ms)

\* What GenerateGroups makes; nobody is in the playoff yet.
LEMMA GroupsGenerated ==
  ASSUME NEW n \in Nat, n >= 4, GroupCount(n) <= 4, NEW ms, ms = GenerateGroups(n)
  PROVE  /\ ms \in Seq(Match) /\ GroupsFit(ms, n)
         /\ \A x \in DOMAIN ms : ms[x].stage = "playoff" =>
              Players(ms[x]) = {} /\ ms[x].winner = Nobody
<1> DEFINE G == GroupCount(n)
           size == NextPow2(2 * G)
           league(g) == RoundRobin(GroupStages[g], GroupMembers(n, g))
           seqs == [g \in 1..G |-> league(g)]
           first == Seqs!FlattenSeq(seqs)
           then == Seqs!FlattenSeq([r \in 1..Log2(size) |-> EmptyRound("playoff", r, size \div 2 ^ r)])
<1>1. G \in 2..4 BY GroupsAre
<1>2. \A g \in 1..G : /\ league(g) \in Seq(Match) /\ League(league(g), DOMAIN league(g), Group(n, g))
                      /\ \A x \in DOMAIN league(g) : /\ league(g)[x].stage = GroupStages[g]
                                                     /\ league(g)[x].round # 0
  BY GroupIsLeague
<1>3. ms = first \o then BY DEF GenerateGroups
<1>4. /\ then \in Seq(Match)
      /\ \A x \in DOMAIN then : /\ then[x].stage = "playoff" /\ then[x].round \in Nat \ {0}
                                /\ Players(then[x]) = {} /\ then[x].winner = Nobody
      /\ \E half \in Nat, k \in Nat :
           /\ size = 2 * half /\ 2 * G <= size
           /\ \A x : x \in DOMAIN then /\ then[x].round = 1 <=> x \in (k + 1)..(k + half)
  <2> DEFINE m == 2 * G
  <2>1. m \in Nat /\ m >= 2 /\ size = NextPow2(m) BY <1>1
  <2>3. then = Seqs!FlattenSeq([r \in 1..Log2(size) |-> EmptyRound("playoff", r, size \div 2 ^ r)])
    OBVIOUS
  <2> HIDE DEF m, size, then
  <2>2. PlayoffFits(then, m, size) BY <2>1, <2>3, PlayoffIs
  <2> QED BY <2>2 DEF m, PlayoffFits
<1> HIDE DEF G, league, then, size
<1>5. seqs \in [1..G -> Seq(Match)] /\ G \in Nat \ {0} BY <1>1, <1>2
<1>6. \A g \in 1..G : seqs[g] = league(g) OBVIOUS
<1> HIDE DEF seqs
<1>7. PICK k : Blocks(first, seqs, k, G) BY <1>5, BlocksAre
<1> HIDE DEF first
<1>8. first \in Seq(Match) BY <1>7 DEF Blocks
<1>9. Adjoined(ms, first, then, Len(first)) BY <1>3, <1>4, <1>8, AppendedIs
<1>10. ms \in Seq(Match) BY <1>9 DEF Adjoined
<1>11. ASSUME NEW g \in 1..G, NEW y \in DOMAIN league(g)
       PROVE  k[g] + y \in DOMAIN ms /\ ms[k[g] + y] = league(g)[y]
  <2>1. k[g] + y \in DOMAIN first /\ first[k[g] + y] = league(g)[y]
    BY <1>6, <1>7, <1>11 DEF Blocks
  <2> QED BY <1>9, <2>1 DEF Adjoined
<1>12. ASSUME NEW x \in DOMAIN ms
       PROVE  \/ \E y \in DOMAIN then : x = Len(first) + y /\ ms[x] = then[y]
              \/ \E g \in 1..G : \E y \in DOMAIN league(g) : x = k[g] + y /\ ms[x] = league(g)[y]
  <2>1. CASE x \in DOMAIN first
    <3>1. PICK g \in 1..G : \E y \in DOMAIN league(g) : x = k[g] + y
      BY <1>6, <1>7, <2>1 DEF Blocks
    <3> QED BY <1>11, <3>1
  <2>2. CASE \E y \in DOMAIN then : x = Len(first) + y BY <1>9, <2>2 DEF Adjoined
  <2> QED BY <1>9, <2>1, <2>2 DEF Adjoined
<1>13. \A g \in 1..G : g \in 1..4 BY <1>1
<1>14. ASSUME NEW x \in DOMAIN ms
       PROVE  /\ \/ ms[x].stage = "playoff" /\ Players(ms[x]) = {} /\ ms[x].winner = Nobody
                 \/ \E g \in 1..G : ms[x].stage = GroupStages[g]
              /\ ms[x].round # 0
  <2>1. CASE \E y \in DOMAIN then : ms[x] = then[y] BY <1>4, <2>1
  <2>2. CASE \E g \in 1..G : \E y \in DOMAIN league(g) : ms[x] = league(g)[y] BY <1>2, <2>2
  <2> QED BY <1>12, <2>1, <2>2
<1>15. ASSUME NEW g \in 1..G
       PROVE  League(ms, {x \in DOMAIN ms : ms[x].stage = GroupStages[g]}, Group(n, g))
  <2> DEFINE xs == {x \in DOMAIN ms : ms[x].stage = GroupStages[g]}
             at == k[g]
             old == league(g)
  <2>1. ASSUME NEW x, x \in xs PROVE \E y \in DOMAIN old : x = at + y
    <3>1. x \in DOMAIN ms /\ ms[x].stage = GroupStages[g] BY <2>1
    <3>2. ~ \E y \in DOMAIN then : ms[x] = then[y] BY <1>4, <1>13, <3>1, StagesAre
    <3>3. PICK o \in 1..G : \E y \in DOMAIN league(o) : x = k[o] + y /\ ms[x] = league(o)[y]
      BY <1>12, <3>1, <3>2
    <3>4. GroupStages[o] = GroupStages[g] BY <1>2, <3>1, <3>3
    <3>5. o = g BY <1>13, <3>4, StagesAre
    <3> QED BY <3>3, <3>5
  <2>2. ASSUME NEW x, NEW y \in DOMAIN old, x = at + y PROVE x \in xs
    BY <1>2, <1>11, <2>2
  <2>3. \A x : x \in xs <=> \E y \in DOMAIN old : x = at + y BY <2>1, <2>2
  <2>4. old \in Seq(Match) /\ League(old, DOMAIN old, Group(n, g)) BY <1>2
  <2>5. at \in Nat BY <1>7 DEF Blocks
  <2>6. \A y \in DOMAIN old : ms[at + y] = old[y] BY <1>11
  <2> HIDE DEF xs, at, old
  <2>7. League(ms, xs, Group(n, g)) BY <2>3, <2>4, <2>5, <2>6, LeagueMoves
  <2> QED BY <2>7 DEF xs
<1>16. \E half \in Nat, j \in Nat :
         /\ size = 2 * half /\ 2 * G <= 2 * half
         /\ RoundOf(ms, "playoff", 1) = (j + 1)..(j + half)
  <2>1. PICK half \in Nat, j \in Nat :
          /\ size = 2 * half /\ 2 * G <= size
          /\ \A x : x \in DOMAIN then /\ then[x].round = 1 <=> x \in (j + 1)..(j + half)
    BY <1>4
  <2> DEFINE at == Len(first) + j
  <2>2. Len(first) \in Nat /\ at \in Nat BY <1>8
  <2>3. ASSUME NEW x \in RoundOf(ms, "playoff", 1) PROVE x \in (at + 1)..(at + half)
    <3>1. x \in DOMAIN ms /\ ms[x].stage = "playoff" /\ ms[x].round = 1 BY DEF RoundOf
    <3>2. ~ \E g \in 1..G : \E y \in DOMAIN league(g) : ms[x] = league(g)[y]
      BY <1>2, <1>13, <3>1, StagesAre
    <3>3. PICK y \in DOMAIN then : x = Len(first) + y /\ ms[x] = then[y] BY <1>12, <3>1, <3>2
    <3>4. y \in (j + 1)..(j + half) BY <2>1, <3>1, <3>3
    <3> QED BY <2>2, <3>3, <3>4
  <2>4. ASSUME NEW x \in (at + 1)..(at + half) PROVE x \in RoundOf(ms, "playoff", 1)
    <3> DEFINE y == x - Len(first)
    <3>1. y \in (j + 1)..(j + half) /\ x = Len(first) + y BY <2>2, <2>4
    <3> HIDE DEF y
    <3>2. y \in DOMAIN then /\ then[y].round = 1 /\ then[y].stage = "playoff" BY <1>4, <2>1, <3>1
    <3>3. x \in DOMAIN ms /\ ms[x] = then[y] BY <1>9, <3>1, <3>2 DEF Adjoined
    <3> QED BY <3>2, <3>3 DEF RoundOf
  <2>5. RoundOf(ms, "playoff", 1) = (at + 1)..(at + half) BY <2>3, <2>4
  <2> HIDE DEF at
  <2> QED BY <2>1, <2>2, <2>5
<1>17. ASSUME NEW x \in DOMAIN ms, ms[x].stage = "playoff"
       PROVE  Players(ms[x]) = {} /\ ms[x].winner = Nobody
  BY <1>13, <1>14, <1>17, StagesAre
<1>18. \A x \in DOMAIN ms : \/ ms[x].stage = "playoff"
                           \/ \E g \in 1..G : ms[x].stage = GroupStages[g]
  BY <1>14
<1>19. Counted(ms) BY <1>14 DEF Counted
<1>20. GroupsFit(ms, n) BY <1>15, <1>16, <1>18, <1>19 DEF GroupsFit, G, size
<1> QED BY <1>10, <1>17, <1>20

-----------------------------------------------------------------------------
(* Scores of leagues.                                                      *)

\* Matches keep their stage and round, and who sits in a match of a league stays.
Keeps(new, old) ==
  /\ DOMAIN new = DOMAIN old
  /\ \A x \in DOMAIN old : /\ new[x].stage = old[x].stage /\ new[x].round = old[x].round
                           /\ old[x].stage # "playoff" => Players(new[x]) = Players(old[x])

\* Only later rounds of the playoff change.
Spares(new, old) ==
  /\ DOMAIN new = DOMAIN old
  /\ \A x \in DOMAIN old : /\ new[x].stage = old[x].stage /\ new[x].round = old[x].round
                           /\ old[x].stage # "playoff" \/ old[x].round = 1 => new[x] = old[x]

LEMMA KeepsOn ==
  ASSUME NEW a, NEW b, NEW c, Keeps(a, b), Keeps(b, c)
  PROVE  Keeps(a, c)
BY DEF Keeps

LEMMA SparesOn ==
  ASSUME NEW a, NEW b, NEW c, Spares(a, b), Spares(b, c)
  PROVE  Spares(a, c)
BY DEF Spares

LEMMA SparesKeep ==
  ASSUME NEW a, NEW b, Spares(a, b)
  PROVE  Keeps(a, b)
BY DEF Spares, Keeps

\* A league keeps its seats.
LEMMA LeagueKept ==
  ASSUME NEW old, NEW new, NEW xs, NEW S, League(old, xs, S),
         \A x \in xs : new[x].round = old[x].round /\ Players(new[x]) = Players(old[x])
  PROVE  League(new, xs, S)
<1>1. /\ \A x \in xs : Players(old[x]) \subseteq S
      /\ \A x \in xs, p \in S : \E y \in xs : old[y].round = old[x].round /\ p \in Players(old[y])
  BY DEF League
<1>2. \A p \in S : \A x, y \in xs :
        old[x].round = old[y].round /\ p \in Players(old[x]) /\ p \in Players(old[y]) => x = y
  BY DEF League
<1>3. \A p, q \in S : p # q => \E x \in xs : Players(old[x]) = {p, q} BY DEF League
<1>4. \A p, q \in S : p # q => \A x, y \in xs :
        Players(old[x]) = {p, q} /\ Players(old[y]) = {p, q} => x = y
  BY DEF League
<1>5. /\ \A x \in xs : Players(new[x]) \subseteq S
      /\ \A x \in xs, p \in S : \E y \in xs : new[y].round = new[x].round /\ p \in Players(new[y])
  BY <1>1
<1>6. \A p \in S : \A x, y \in xs :
        new[x].round = new[y].round /\ p \in Players(new[x]) /\ p \in Players(new[y]) => x = y
  BY <1>2
<1>7. \A p, q \in S : p # q => \E x \in xs : Players(new[x]) = {p, q}
  <2> SUFFICES ASSUME NEW p \in S, NEW q \in S, p # q PROVE \E x \in xs : Players(new[x]) = {p, q}
    OBVIOUS
  <2>1. PICK x \in xs : Players(old[x]) = {p, q} BY <1>3
  <2>2. Players(new[x]) = {p, q} BY <2>1
  <2> QED BY <2>2
<1>8. \A p, q \in S : p # q => \A x, y \in xs :
        Players(new[x]) = {p, q} /\ Players(new[y]) = {p, q} => x = y
  <2> SUFFICES ASSUME NEW p \in S, NEW q \in S, p # q, NEW x \in xs, NEW y \in xs,
                      Players(new[x]) = {p, q}, Players(new[y]) = {p, q}
               PROVE  x = y
    OBVIOUS
  <2>1. Players(old[x]) = {p, q} /\ Players(old[y]) = {p, q} OBVIOUS
  <2> QED BY <1>4, <2>1
<1> QED BY <1>5, <1>6, <1>7, <1>8 DEF League

\* A score changes one match, and nobody's seat.
LEMMA ResultKeeps ==
  ASSUME NEW ms \in Seq(Match), NEW x \in DOMAIN ms, NEW win \in Result,
         NEW done, done = SetResult(ms, x, win)
  PROVE  /\ done \in Seq(Match) /\ DOMAIN done = DOMAIN ms /\ Keeps(done, ms)
         /\ \A y \in DOMAIN ms \ {x} : done[y] = ms[y]
         /\ \A y \in DOMAIN ms : Players(done[y]) = Players(ms[y])
         /\ done[x].status = "completed"
<1>1. ms \in [DOMAIN ms -> Match] OBVIOUS
<1>2. /\ done \in [DOMAIN ms -> Match]
      /\ \A y \in DOMAIN ms \ {x} : done[y] = ms[y]
      /\ done[x].status = "completed"
      /\ done[x].p1 = ms[x].p1 /\ done[x].p2 = ms[x].p2
      /\ done[x].stage = ms[x].stage /\ done[x].round = ms[x].round
  BY <1>1, ResultIs
<1>3. done \in Seq(Match)
  <2>1. DOMAIN done = 1..Len(ms) /\ Len(ms) \in Nat BY <1>2
  <2> QED BY <1>2, <2>1
<1>4. \A y \in DOMAIN ms : /\ Players(done[y]) = Players(ms[y])
                           /\ done[y].stage = ms[y].stage /\ done[y].round = ms[y].round
  BY <1>2 DEF Players
<1> QED BY <1>2, <1>3, <1>4 DEF Keeps

\* A seat of a match that is taken.
Taken(m, side, player) ==
  IF side = 1 THEN [m EXCEPT !.p1 = player] ELSE [m EXCEPT !.p2 = player]
LEMMA TakenIs ==
  ASSUME NEW m \in Match, NEW side, NEW player \in Nat
  PROVE  /\ Taken(m, side, player) \in Match
         /\ Taken(m, side, player).stage = m.stage /\ Taken(m, side, player).round = m.round
BY DEF Taken, Match

LEMMA AdvanceSpares ==
  ASSUME NEW D, NEW ms \in [D -> Match], NEW x \in D, ms[x].stage = "playoff", Counted(ms),
         NEW new, new = Advance(ms, x)
  PROVE  new \in [D -> Match] /\ Spares(new, ms)
<1> DEFINE T == NextMatch(ms, x)
           side == NextSide(ms, x)
           player == ms[x].winner
<1>1. new = [y \in D |-> IF y \notin T THEN ms[y] ELSE Taken(ms[y], side, player)]
  BY DEF Advance, Seat, Taken
<1>2. T \subseteq {y \in D : ms[y].stage = "playoff" /\ ms[y].round = ms[x].round + 1}
  BY DEF NextMatch, MatchAt, RoundOf
<1>3. player \in Nat /\ ms[x].round \in Nat /\ ms[x].round # 0 BY DEF Match, Counted
<1> HIDE DEF T, side, player
<1>4. ASSUME NEW y \in D
      PROVE  /\ new[y] \in Match /\ new[y].stage = ms[y].stage /\ new[y].round = ms[y].round
             /\ (ms[y].stage # "playoff" \/ ms[y].round = 1) => new[y] = ms[y]
  <2>1. CASE y \notin T BY <1>1, <2>1
  <2>2. CASE y \in T
    <3>1. ms[y].stage = "playoff" /\ ms[y].round # 1 BY <1>2, <1>3, <2>2
    <3>2. new[y] = Taken(ms[y], side, player) BY <1>1, <2>2
    <3>3. ms[y] \in Match OBVIOUS
    <3>4. /\ Taken(ms[y], side, player) \in Match
          /\ Taken(ms[y], side, player).stage = ms[y].stage
          /\ Taken(ms[y], side, player).round = ms[y].round
      BY <1>3, <3>3, TakenIs
    <3> QED BY <3>1, <3>2, <3>4
  <2> QED BY <2>1, <2>2
<1>5. DOMAIN new = D /\ DOMAIN ms = D BY <1>1
<1>6. new \in [D -> Match] BY <1>1, <1>4
<1>7. Spares(new, ms) BY <1>4, <1>5 DEF Spares
<1> QED BY <1>6, <1>7

\* So do all byes of the playoff together.
LEMMA ByesSpare ==
  ASSUME NEW D, IsFiniteSet(D), NEW ms \in [D -> Match], Counted(ms),
         NEW new, new = AdvanceByes(ms, "playoff")
  PROVE  new \in [D -> Match] /\ Spares(new, ms)
<1> DEFINE xs == {x \in DOMAIN ms : ms[x].stage = "playoff" /\ ms[x].winner # Nobody}
           A == {f \in [D -> Match] : Spares(f, ms)}
           pick == [s \in SUBSET xs |-> CHOOSE x \in s : TRUE]
           step == [u \in xs \X A |-> Advance(u[2], u[1])]
           F(f) == [s \in SUBSET xs |-> IF s = {} THEN ms
                      ELSE Advance(f[s \ {CHOOSE x \in s : TRUE}], CHOOSE x \in s : TRUE)]
           it == CHOOSE f : f = F(f)
<1>1. \A s \in SUBSET xs : s # {} => pick[s] \in s OBVIOUS
<1>2. IsFiniteSet(xs) /\ xs \subseteq D
  <2>1. xs \subseteq D OBVIOUS
  <2> QED BY <2>1, FS_Subset
<1>3. ASSUME NEW f \in A, NEW x \in xs PROVE Advance(f, x) \in A
  <2>1. f \in [D -> Match] /\ Spares(f, ms) /\ x \in D /\ ms[x].stage = "playoff" OBVIOUS
  <2>2. f[x].stage = "playoff" /\ Counted(f) BY <2>1 DEF Spares, Counted
  <2> DEFINE g == Advance(f, x)
  <2> HIDE DEF xs
  <2>3. g \in [D -> Match] /\ Spares(g, f) BY <2>1, <2>2, AdvanceSpares
  <2>4. Spares(g, ms) BY <2>1, <2>3, SparesOn
  <2> QED BY <2>3, <2>4
<1>4. ms \in A BY DEF Spares
<1>5. step \in [xs \X A -> A]
  <2> HIDE DEF xs, A
  <2> QED BY <1>3
<1>6. PICK g : FoldIs(g, xs, A, ms, step, pick)
  <2> HIDE DEF pick, step, xs, A
  <2> QED BY <1>1, <1>2, <1>4, <1>5, FoldExists
<1>7. g = F(g)
  <2> HIDE DEF xs, A
  <2>1. ASSUME NEW s \in SUBSET xs
        PROVE  g[s] = IF s = {} THEN ms
                      ELSE Advance(g[s \ {CHOOSE x \in s : TRUE}], CHOOSE x \in s : TRUE)
    <3>1. CASE s = {} BY <1>6, <3>1 DEF FoldIs
    <3>2. CASE s # {}
      <4> DEFINE x == CHOOSE x \in s : TRUE
                 t == s \ {x}
      <4>1. x \in s /\ pick[s] = x /\ x \in xs BY <3>2
      <4>2. t \in SUBSET xs OBVIOUS
      <4>3. g[t] \in A BY <1>6, <4>2 DEF FoldIs
      <4>4. g[s] = step[<<x, g[t]>>] BY <1>6, <3>2, <4>1 DEF FoldIs
      <4> HIDE DEF x, t
      <4>5. step[<<x, g[t]>>] = Advance(g[t], x) BY <4>1, <4>3
      <4> QED BY <3>2, <4>4, <4>5 DEF x, t
    <3> QED BY <3>1, <3>2
  <2> QED BY <1>6, <2>1 DEF FoldIs
<1>8. it = F(it) BY <1>7
<1>9. new = it[xs]
  BY DEF AdvanceByes, FSets!FoldSet, FSets!MapThenFoldSet
<1> DEFINE P == {s \in SUBSET xs : it[s] \in A}
<1>10. ASSUME NEW T \in SUBSET xs, \A U \in SUBSET T : U # T => U \in P PROVE T \in P
  <2>1. it[T] = IF T = {} THEN ms
                ELSE Advance(it[T \ {CHOOSE x \in T : TRUE}], CHOOSE x \in T : TRUE)
    BY <1>8
  <2> HIDE DEF it, xs, A
  <2>2. CASE T = {} BY <1>4, <2>1, <2>2
  <2>3. CASE T # {}
    <3> DEFINE x == CHOOSE x \in T : TRUE
               f == it[T \ {x}]
    <3>1. x \in T /\ x \in xs BY <2>3
    <3>2. T \ {x} \in P BY <1>10, <3>1
    <3>3. f \in A BY <3>2
    <3>4. it[T] = Advance(f, x) BY <2>1, <2>3
    <3> HIDE DEF x, f
    <3>5. Advance(f, x) \in A BY <1>3, <3>1, <3>3
    <3> QED BY <3>4, <3>5
  <2> QED BY <2>2, <2>3
<1> HIDE DEF P, xs, A, it
<1>11. SUBSET xs \subseteq P BY <1>2, <1>10, FiniteAlike, Board!SubsetInduction
<1>12. new \in A BY <1>9, <1>11 DEF P
<1> QED BY <1>12 DEF A

-----------------------------------------------------------------------------
(* The playoff takes the best of the groups.                               *)

\* Matches of a tournament with groups.
Grouped(ms, n) == ms \in Seq(Match) /\ Keeps(ms, GenerateGroups(n))

LEMMA GroupedIs ==
  ASSUME NEW n \in Nat, n >= 4, GroupCount(n) <= 4, NEW ms, Grouped(ms, n)
  PROVE  GroupsFit(ms, n)
<1> DEFINE gen == GenerateGroups(n)
<1>1. GroupsFit(gen, n) BY GroupsGenerated
<1>2. Keeps(ms, gen) BY DEF Grouped
<1> HIDE DEF gen
<1>3. RoundOf(ms, "playoff", 1) = RoundOf(gen, "playoff", 1) BY <1>2 DEF Keeps, RoundOf
<1>4. ASSUME NEW g \in 1..GroupCount(n)
      PROVE  League(ms, {x \in DOMAIN ms : ms[x].stage = GroupStages[g]}, Group(n, g))
  <2> DEFINE S == Group(n, g)
             xs == {x \in DOMAIN gen : gen[x].stage = GroupStages[g]}
  <2>1. GroupStages[g] # "playoff"
    <3>1. g \in 1..4 BY GroupsAre
    <3> QED BY <3>1, StagesAre
  <2>2. League(gen, xs, S) BY <1>1 DEF GroupsFit
  <2>3. \A x \in xs : ms[x].round = gen[x].round /\ Players(ms[x]) = Players(gen[x])
    BY <1>2, <2>1 DEF Keeps
  <2>4. {x \in DOMAIN ms : ms[x].stage = GroupStages[g]} = xs BY <1>2 DEF Keeps
  <2> HIDE DEF xs, S
  <2>5. League(ms, xs, S) BY <2>2, <2>3, LeagueKept
  <2> QED BY <2>4, <2>5 DEF S
<1>5. \A x \in DOMAIN ms : \/ ms[x].stage = "playoff"
                           \/ \E g \in 1..GroupCount(n) : ms[x].stage = GroupStages[g]
  BY <1>1, <1>2 DEF Keeps, GroupsFit
<1>6. Counted(ms) BY <1>1, <1>2 DEF Keeps, Counted, GroupsFit
<1>7. \E half \in Nat, k \in Nat :
        /\ NextPow2(2 * GroupCount(n)) = 2 * half /\ 2 * GroupCount(n) <= 2 * half
        /\ RoundOf(ms, "playoff", 1) = (k + 1)..(k + half)
  BY <1>1, <1>3 DEF GroupsFit
<1> QED BY <1>4, <1>5, <1>6, <1>7 DEF GroupsFit

\* The two first of a standing: nobody behind them has won more matches.
LEMMA TopTwo ==
  ASSUME NEW ms \in Seq(Match), NEW xs, xs \subseteq DOMAIN ms, NEW S, S \subseteq Nat,
         IsFiniteSet(S), \E p, q \in S : p # q, NEW order, order = Standings(ms, xs, S)
  PROVE  /\ order[1] \in S /\ order[2] \in S /\ order[1] # order[2]
         /\ \A p \in {order[1], order[2]}, q \in S \ {order[1], order[2]} :
              Cardinality(Won(ms, xs, p)) >= Cardinality(Won(ms, xs, q))
<1> DEFINE key == [p \in S |-> <<Cardinality(Won(ms, xs, p)), Balance(ms, xs, p), -p>>]
           n == Cardinality(S)
<1>1. IsFiniteSet(xs) /\ \A x \in xs : ms[x].by \in Nat
  <2>1. DOMAIN ms = 1..Len(ms) /\ Len(ms) \in Nat OBVIOUS
  <2>2. IsFiniteSet(DOMAIN ms) BY <2>1, FS_Interval
  <2>3. IsFiniteSet(xs) BY <2>2, FS_Subset
  <2>4. \A x \in DOMAIN ms : ms[x] \in Match OBVIOUS
  <2>5. \A m \in Match : m.by \in Nat BY DEF Match
  <2> QED BY <2>3, <2>4, <2>5
<1>2. S \subseteq Int OBVIOUS
<1>3. InThatOrder(key) /\ \A p \in S : key[p] \in Keys
  <2> DEFINE k == key
  <2>1. k = [p \in S |-> <<Cardinality(Won(ms, xs, p)), Balance(ms, xs, p), -p>>] OBVIOUS
  <2> HIDE DEF k
  <2>2. InThatOrder(k) /\ \A p \in S : k[p] \in Keys BY <1>1, <1>2, <2>1, StandingKeys
  <2> QED BY <2>2 DEF k
<1>4. DOMAIN key = S /\ order = Ranked(key) BY DEF Standings
<1>5. \A p \in S : key[p][1] = Cardinality(Won(ms, xs, p)) BY DEF key
<1> HIDE DEF key
<1>6. /\ n \in Nat /\ order \in [1..n -> S]
      /\ \A i, j \in 1..n : i < j <=> Above(key[order[i]], key[order[j]])
      /\ \A i, j \in 1..n : order[i] = order[j] => i = j
      /\ \A p \in S : \E i \in 1..n : order[i] = p
  <2> HIDE DEF n
  <2>1. n = Cardinality(DOMAIN key) BY <1>4 DEF n
  <2> QED BY <1>3, <1>4, <2>1, RankedIs
<1> HIDE DEF n
<1>7. n >= 2
  <2>1. PICK p \in S, q \in S : p # q OBVIOUS
  <2>2. PICK i \in 1..n : order[i] = p BY <1>6
  <2>3. PICK j \in 1..n : order[j] = q BY <1>6
  <2> QED BY <1>6, <2>1, <2>2, <2>3
<1>8. 1 \in 1..n /\ 2 \in 1..n BY <1>6, <1>7
<1>9. ASSUME NEW i \in 1..2, NEW q \in S \ {order[1], order[2]}
      PROVE  Cardinality(Won(ms, xs, order[i])) >= Cardinality(Won(ms, xs, q))
  <2>1. PICK j \in 1..n : order[j] = q BY <1>6
  <2>2. i \in 1..n /\ i < j BY <1>6, <1>8, <1>9, <2>1
  <2>3. Above(key[order[i]], key[q]) /\ order[i] \in S BY <1>6, <2>1, <2>2
  <2> DEFINE a == key[order[i]]
             b == key[q]
  <2>4. a \in Keys /\ b \in Keys /\ Above(a, b) BY <1>3, <2>3
  <2>5. a[1] = Cardinality(Won(ms, xs, order[i])) /\ b[1] = Cardinality(Won(ms, xs, q))
    BY <1>5, <2>3
  <2> HIDE DEF a, b
  <2>6. DOMAIN a = 1..3 /\ a[1] \in Int /\ b[1] \in Int BY <2>4 DEF Keys
  <2>7. PICK m \in 1..3 : a[m] > b[m] /\ \A l \in 1..(m - 1) : a[l] = b[l] BY <2>4, <2>6 DEF Above
  <2>8. a[1] >= b[1]
    <3>1. CASE m = 1 BY <2>6, <2>7, <3>1
    <3>2. CASE m # 1
      <4>1. 1 \in 1..(m - 1) BY <3>2
      <4> QED BY <2>6, <2>7, <4>1
    <3> QED BY <3>1, <3>2
  <2> QED BY <2>5, <2>8
<1>10. order[1] \in S /\ order[2] \in S /\ order[1] # order[2] BY <1>6, <1>8
<1> QED BY <1>9, <1>10

\* Nobody outside in has won more matches of his group than somebody inside, and
\* two of the group are inside: what TheBestAdvance asks of a group.
Best(ms, n, g, in) ==
  LET xs == {x \in DOMAIN ms : ms[x].stage = GroupStages[g]}
  IN /\ Cardinality(Group(n, g) \cap in) = 2
     /\ \A p \in Group(n, g) \cap in, q \in Group(n, g) \ in :
          Cardinality(Won(ms, xs, p)) >= Cardinality(Won(ms, xs, q))

\* The advancers are two of each group.
LEMMA AdvancersAre ==
  ASSUME NEW n \in Nat, n >= 4, GroupCount(n) <= 4, NEW ms, Grouped(ms, n),
         NEW adv, adv = Advancers(ms, GroupCount(n)),
         NEW in, in = {adv[s] : s \in 1..(2 * GroupCount(n))}
  PROVE  /\ adv \in [1..(2 * GroupCount(n)) -> 1..n]
         /\ \A g \in 1..GroupCount(n) : Best(ms, n, g, in)
<1> DEFINE G == GroupCount(n)
           group(g) == {x \in DOMAIN ms : ms[x].stage = GroupStages[g]}
           table(g) == Standings(ms, group(g), UNION {Players(ms[x]) : x \in group(g)})
           rank(g) == Standings(ms, group(g), Group(n, g))
<1>1. /\ G \in 2..4
      /\ \A g \in 1..G : \E p, q \in Group(n, g) : p # q
      /\ \A g \in 1..G : League(ms, group(g), Group(n, g))
  BY GroupsAre, GroupedIs DEF GroupsFit
<1>2. ms \in Seq(Match) BY DEF Grouped
<1>3. \A g \in 1..G : Group(n, g) \subseteq 1..n /\ IsFiniteSet(Group(n, g))
  <2>1. IsFiniteSet(1..n) BY FS_Interval
  <2>2. \A g \in 1..G : Group(n, g) \subseteq 1..n BY DEF Group
  <2> QED BY <2>1, <2>2, FS_Subset
<1>4. \A g, o \in 1..G : g # o => Group(n, g) \cap Group(n, o) = {} BY DEF Group
<1>5. ASSUME NEW g \in 1..G PROVE table(g) = rank(g)
  <2> DEFINE S == Group(n, g)
             xs == group(g)
             U == UNION {Players(ms[x]) : x \in xs}
  <2>1. League(ms, xs, S) /\ \E p, q \in S : p # q BY <1>1
  <2> HIDE DEF S, xs
  <2>2. \A x \in xs : Players(ms[x]) \subseteq S BY <2>1 DEF League
  <2>3. xs # {} BY <2>1 DEF League
  <2>4. \A p \in S : \E x \in xs : p \in Players(ms[x]) BY <2>1, <2>3 DEF League
  <2>5. U = S BY <2>2, <2>4
  <2> QED BY <2>5 DEF S, xs
<1>6. ASSUME NEW g \in 1..G
      PROVE  /\ rank(g)[1] \in Group(n, g) /\ rank(g)[2] \in Group(n, g) /\ rank(g)[1] # rank(g)[2]
             /\ \A p \in {rank(g)[1], rank(g)[2]}, q \in Group(n, g) \ {rank(g)[1], rank(g)[2]} :
                  Cardinality(Won(ms, group(g), p)) >= Cardinality(Won(ms, group(g), q))
  <2> DEFINE S == Group(n, g)
             xs == group(g)
             order == rank(g)
  <2>1. order = Standings(ms, xs, S) /\ xs \subseteq DOMAIN ms OBVIOUS
  <2>2. IsFiniteSet(S) /\ S \subseteq Nat /\ \E p, q \in S : p # q
    <3>1. S \subseteq 1..n BY <1>3
    <3>2. 1..n \subseteq Nat OBVIOUS
    <3> QED BY <1>1, <1>3, <3>1, <3>2
  <2> HIDE DEF S, xs, order
  <2>3. /\ order[1] \in S /\ order[2] \in S /\ order[1] # order[2]
        /\ \A p \in {order[1], order[2]}, q \in S \ {order[1], order[2]} :
             Cardinality(Won(ms, xs, p)) >= Cardinality(Won(ms, xs, q))
    BY <1>2, <2>1, <2>2, TopTwo
  <2> QED BY <2>3 DEF S, xs, order
<1>7. adv = [s \in 1..(2 * G) |-> IF s <= G THEN table(s)[1] ELSE table(s - G)[2]]
  BY DEF Advancers
<1> HIDE DEF G, table, group, rank
<1>8. \A s \in 1..(2 * G) : (s <= G => s \in 1..G) /\ (~(s <= G) => s - G \in 1..G) BY <1>1
<1>9. \A s \in 1..(2 * G) : adv[s] = IF s <= G THEN rank(s)[1] ELSE rank(s - G)[2]
  BY <1>5, <1>7, <1>8
<1>10. adv \in [1..(2 * G) -> 1..n]
  <2>1. ASSUME NEW s \in 1..(2 * G) PROVE adv[s] \in 1..n
    BY <1>3, <1>6, <1>8, <1>9
  <2> QED BY <1>7, <2>1
<1>11. ASSUME NEW g \in 1..G PROVE Best(ms, n, g, in)
  <2> DEFINE a == rank(g)[1]
             b == rank(g)[2]
             S == Group(n, g)
  <2>1. a \in S /\ b \in S /\ a # b BY <1>6
  <2>2. a \in in /\ b \in in
    <3>1. g \in 1..(2 * G) /\ g <= G /\ g + G \in 1..(2 * G) /\ ~(g + G <= G) /\ (g + G) - G = g
      BY <1>1
    <3>2. adv[g] = a /\ adv[g + G] = b BY <1>9, <3>1
    <3>3. in = {adv[s] : s \in 1..(2 * G)} BY DEF G
    <3> QED BY <3>1, <3>2, <3>3
  <2>3. ASSUME NEW p \in S, p \in in PROVE p = a \/ p = b
    <3>1. PICK s \in 1..(2 * G) : p = adv[s] BY <2>3 DEF G
    <3>2. CASE s <= G
      <4>1. s \in 1..G /\ p = rank(s)[1] BY <1>8, <1>9, <3>1, <3>2
      <4>2. p \in Group(n, s) BY <1>6, <4>1
      <4>3. s = g BY <1>4, <2>3, <4>1, <4>2
      <4> QED BY <4>1, <4>3
    <3>3. CASE ~(s <= G)
      <4>1. s - G \in 1..G /\ p = rank(s - G)[2] BY <1>8, <1>9, <3>1, <3>3
      <4>2. p \in Group(n, s - G) BY <1>6, <4>1
      <4>3. s - G = g BY <1>4, <2>3, <4>1, <4>2
      <4> QED BY <4>1, <4>3
    <3> QED BY <3>2, <3>3
  <2>4. \A p \in {a, b}, q \in S \ {a, b} :
          Cardinality(Won(ms, group(g), p)) >= Cardinality(Won(ms, group(g), q))
    BY <1>6
  <2> HIDE DEF a, b, S
  <2>5. S \cap in = {a, b} /\ S \ in = S \ {a, b} BY <2>1, <2>2, <2>3
  <2>6. Cardinality({a, b}) = 2
    <3>1. IsFiniteSet({a}) /\ Cardinality({a}) = 1 BY FS_Singleton
    <3> DEFINE one == {a}
    <3>2. b \notin one BY <2>1
    <3>3. IsFiniteSet(one) /\ Cardinality(one) = 1 BY <3>1
    <3>4. one \cup {b} = {a, b} OBVIOUS
    <3> HIDE DEF one
    <3>5. Cardinality(one \cup {b}) = 2 BY <3>2, <3>3, FS_AddElement
    <3> QED BY <3>4, <3>5
  <2> QED BY <2>4, <2>5, <2>6 DEF Best, S, group
<1> QED BY <1>10, <1>11 DEF G

\* The seats of a round of half matches: every number from 1 to n has one.
SeatsAll(seat, n, half) ==
  /\ \A k \in 0..(2 * half - 1) : seat[k] \in 0..n
  /\ \A s \in 1..n : \E j \in 0..(half - 1) : seat[2 * j] = s \/ seat[2 * j + 1] = s

\* The seats the snake fills.
LEMMA SnakeIs ==
  ASSUME NEW n \in Nat, NEW half \in Nat, n <= 2 * half,
         NEW seat, seat = SnakeSeed(n, 2 * half)
  PROVE  SeatsAll(seat, n, half)
<1> DEFINE at(k) == IF k % 2 = 0 THEN k \div 2 ELSE 2 * half - 1 - (k \div 2)
<1>1. seat = [k \in 0..(2 * half - 1) |-> IF at(k) < n THEN at(k) + 1 ELSE Nobody]
  BY DEF SnakeSeed
<1>2. \A k \in 0..(2 * half - 1) : at(k) \in Nat OBVIOUS
<1>3. \A j \in 0..(half - 1) : /\ 2 * j \in 0..(2 * half - 1) /\ at(2 * j) = j
                               /\ 2 * j + 1 \in 0..(2 * half - 1)
                               /\ at(2 * j + 1) = 2 * half - 1 - j
  <2>1. \A j \in Nat : /\ (2 * j) % 2 = 0 /\ (2 * j) \div 2 = j
                       /\ (2 * j + 1) % 2 = 1 /\ (2 * j + 1) \div 2 = j
    OBVIOUS
  <2>2. \A j \in 0..(half - 1) : j \in Nat /\ 2 * j \in 0..(2 * half - 1)
                                 /\ 2 * j + 1 \in 0..(2 * half - 1)
    OBVIOUS
  <2> QED BY <2>1, <2>2
<1> HIDE DEF at
<1>4. \A k \in 0..(2 * half - 1) : seat[k] \in 0..n BY <1>1, <1>2 DEF Nobody
<1>5. ASSUME NEW s \in 1..n
      PROVE  \E j \in 0..(half - 1) : seat[2 * j] = s \/ seat[2 * j + 1] = s
  <2>1. CASE s <= half
    <3> DEFINE j == s - 1
    <3>1. j \in 0..(half - 1) /\ j < n /\ j + 1 = s BY <2>1
    <3> HIDE DEF j
    <3>2. seat[2 * j] = s BY <1>1, <1>3, <3>1
    <3> QED BY <3>1, <3>2
  <2>2. CASE s > half
    <3> DEFINE j == 2 * half - s
               i == 2 * half - 1 - j
    <3>1. j \in 0..(half - 1) /\ i < n /\ i + 1 = s BY <2>2
    <3>2. 2 * j + 1 \in 0..(2 * half - 1) /\ at(2 * j + 1) = i BY <1>3, <3>1
    <3> HIDE DEF i, j
    <3>3. seat[2 * j + 1] = s BY <1>1, <3>1, <3>2
    <3> QED BY <3>1, <3>3
  <2> QED BY <2>1, <2>2
<1> QED BY <1>4, <1>5 DEF SeatsAll

\* Who sits in round 1 of the playoff.
In(ms) == UNION {Players(ms[x]) : x \in RoundOf(ms, "playoff", 1)}
LEMMA InIs == \A ms, p : p \in In(ms) <=> \E x \in RoundOf(ms, "playoff", 1) : p \in Players(ms[x])
BY DEF In

\* The numbers of round 1 follow each other.
LEMMA FirstPositions ==
  ASSUME NEW ms, NEW half \in Nat, NEW k \in Nat,
         RoundOf(ms, "playoff", 1) = (k + 1)..(k + half), NEW x \in RoundOf(ms, "playoff", 1)
  PROVE  Position(ms, x) = x - k - 1 /\ x - k - 1 \in 0..(half - 1)
<1>1. ms[x].stage = "playoff" /\ ms[x].round = 1 BY DEF RoundOf
<1>2. x \in (k + 1)..(k + half) OBVIOUS
<1>3. {y \in (k + 1)..(k + half) : y < x} = (k + 1)..(x - 1) BY <1>2
<1>4. Position(ms, x) = Cardinality((k + 1)..(x - 1)) BY <1>1, <1>3 DEF Position
<1>5. Cardinality((k + 1)..(x - 1)) = x - k - 1
  <2>1. k + 1 \in Int /\ x - 1 \in Int BY <1>2
  <2>2. Cardinality((k + 1)..(x - 1)) = IF k + 1 > x - 1 THEN 0 ELSE (x - 1) - (k + 1) + 1
    BY <2>1, FS_Interval
  <2> QED BY <1>2, <2>2
<1> QED BY <1>2, <1>4, <1>5

\* Round 1 of the playoff, once it is filled.
Filled(ms, G) ==
  LET first == RoundOf(ms, "playoff", 1)
      seat == SnakeSeed(2 * G, NextPow2(2 * G))
      advancers == Advancers(ms, G)
      at(k) == IF seat[k] = Nobody THEN Nobody ELSE advancers[seat[k]]
  IN [x \in DOMAIN ms |->
        IF x \notin first THEN ms[x]
        ELSE Pairing("playoff", 1, at(2 * Position(ms, x)), at(2 * Position(ms, x) + 1))]

LEMMA FilledIs ==
  ASSUME NEW n \in Nat, n >= 4, GroupCount(n) <= 4, NEW ms, Grouped(ms, n),
         NEW new, new = Filled(ms, GroupCount(n))
  PROVE  /\ new \in [DOMAIN ms -> Match] /\ Keeps(new, ms)
         /\ \A x \in DOMAIN ms : ms[x].stage # "playoff" => new[x] = ms[x]
         /\ In(new) = {Advancers(ms, GroupCount(n))[s] : s \in 1..(2 * GroupCount(n))}
<1> DEFINE G == GroupCount(n)
           m == 2 * G
           first == RoundOf(ms, "playoff", 1)
           size == NextPow2(m)
           seat == SnakeSeed(m, size)
           adv == Advancers(ms, G)
           at(k) == IF seat[k] = Nobody THEN Nobody ELSE adv[seat[k]]
           pair(x) == Pairing("playoff", 1, at(2 * Position(ms, x)), at(2 * Position(ms, x) + 1))
<1>1. PICK half \in Nat, k \in Nat : size = 2 * half /\ m <= 2 * half /\ first = (k + 1)..(k + half)
  BY GroupedIs DEF GroupsFit
<1>2. G \in 2..4 /\ m \in Nat /\ adv \in [1..m -> 1..n]
  <2>1. G \in 2..4 BY GroupsAre
  <2> DEFINE in == {adv[s] : s \in 1..(2 * GroupCount(n))}
             a == adv
  <2>2. in = {a[s] : s \in 1..(2 * GroupCount(n))} /\ a = Advancers(ms, GroupCount(n)) OBVIOUS
  <2> HIDE DEF in, a
  <2>3. a \in [1..(2 * GroupCount(n)) -> 1..n] BY <2>2, AdvancersAre
  <2> QED BY <2>1, <2>3 DEF a
<1>3. new = [x \in DOMAIN ms |-> IF x \notin first THEN ms[x] ELSE pair(x)] BY DEF Filled
<1>4. ms \in Seq(Match) BY DEF Grouped
<1>5. first \subseteq DOMAIN ms /\ \A x \in first : ms[x].stage = "playoff" /\ ms[x].round = 1
  BY DEF RoundOf
<1>6. \A x \in first : Position(ms, x) = x - k - 1 /\ x - k - 1 \in 0..(half - 1)
  <2>1. RoundOf(ms, "playoff", 1) = (k + 1)..(k + half) BY <1>1
  <2> QED BY <2>1, FirstPositions
<1>7. /\ \A i \in 0..(2 * half - 1) : seat[i] \in 0..m
      /\ \A s \in 1..m : \E j \in 0..(half - 1) : seat[2 * j] = s \/ seat[2 * j + 1] = s
  <2> HIDE DEF m
  <2>1. seat = SnakeSeed(m, 2 * half) BY <1>1
  <2>2. m \in Nat /\ half \in Nat /\ m <= 2 * half BY <1>1, <1>2
  <2> DEFINE it == seat
  <2>3. it = SnakeSeed(m, 2 * half) BY <2>1
  <2> HIDE DEF it
  <2>4. SeatsAll(it, m, half) BY <2>2, <2>3, SnakeIs
  <2> QED BY <2>4 DEF it, SeatsAll
<1> HIDE DEF G, m, first, size, seat, adv
<1>8. ASSUME NEW i \in 0..(2 * half - 1)
      PROVE  at(i) \in Nat /\ (at(i) # Nobody => \E s \in 1..m : at(i) = adv[s])
  <2>1. CASE seat[i] = Nobody BY <2>1 DEF Nobody
  <2>2. CASE seat[i] # Nobody
    <3>1. seat[i] \in 1..m BY <1>2, <1>7, <2>2 DEF Nobody
    <3>2. at(i) = adv[seat[i]] /\ adv[seat[i]] \in 1..n BY <1>2, <2>2, <3>1
    <3> QED BY <3>1, <3>2
  <2> QED BY <2>1, <2>2
<1>9. \A i \in 0..(2 * half - 1), s \in 1..m : seat[i] = s => at(i) = adv[s] /\ at(i) # Nobody
  BY <1>2 DEF Nobody
<1>10. \A x \in first : pair(x) = Pairing("playoff", 1, at(2 * (x - k - 1)), at(2 * (x - k - 1) + 1))
  BY <1>6
<1>11. \A x \in first : 2 * (x - k - 1) \in 0..(2 * half - 1)
                        /\ 2 * (x - k - 1) + 1 \in 0..(2 * half - 1)
  BY <1>6
<1> HIDE DEF at, pair
<1>12. ASSUME NEW x \in first
       PROVE  LET a == at(2 * (x - k - 1))
                  b == at(2 * (x - k - 1) + 1)
              IN /\ pair(x) \in Match /\ pair(x).stage = "playoff" /\ pair(x).round = 1
                 /\ Players(pair(x)) = {a, b} \ {Nobody}
  <2> DEFINE a == at(2 * (x - k - 1))
             b == at(2 * (x - k - 1) + 1)
  <2>1. a \in Nat /\ b \in Nat BY <1>8, <1>11
  <2>2. pair(x) = Pairing("playoff", 1, a, b) BY <1>10
  <2> HIDE DEF a, b
  <2>3. "playoff" \in Stages /\ 1 \in Nat BY StagesAre
  <2>4. Between(Pairing("playoff", 1, a, b), "playoff", 1, a, b) BY <2>1, <2>3, BetweenIs
  <2>5. /\ pair(x) \in Match /\ pair(x).stage = "playoff" /\ pair(x).round = 1
        /\ Players(pair(x)) = {a, b} \ {Nobody}
    BY <2>2, <2>4 DEF Between
  <2> QED BY <2>5 DEF a, b
<1>13. \A x \in DOMAIN ms : new[x] = IF x \notin first THEN ms[x] ELSE pair(x) BY <1>3
<1>14. new \in [DOMAIN ms -> Match] BY <1>3, <1>4, <1>12
<1>15. \A x \in DOMAIN ms : /\ new[x].stage = ms[x].stage /\ new[x].round = ms[x].round
                            /\ ms[x].stage # "playoff" => new[x] = ms[x]
  BY <1>5, <1>12, <1>13
<1>16. DOMAIN new = DOMAIN ms BY <1>3
<1>17. Keeps(new, ms) BY <1>15, <1>16 DEF Keeps
<1>18. RoundOf(new, "playoff", 1) = first BY <1>15, <1>16 DEF RoundOf, first
<1>19. ASSUME NEW p, p \in In(new) PROVE \E s \in 1..m : p = adv[s]
  <2>1. PICK x \in first : p \in Players(new[x]) BY <1>18, <1>19, InIs
  <2>2. new[x] = pair(x) BY <1>5, <1>13, <2>1
  <2>3. p # Nobody /\ (p = at(2 * (x - k - 1)) \/ p = at(2 * (x - k - 1) + 1))
    BY <1>12, <2>1, <2>2
  <2> QED BY <1>8, <1>11, <2>3
<1>20. ASSUME NEW s \in 1..m PROVE adv[s] \in In(new)
  <2>1. PICK j \in 0..(half - 1) : seat[2 * j] = s \/ seat[2 * j + 1] = s BY <1>7
  <2> DEFINE x == k + 1 + j
  <2>2. x \in first /\ x - k - 1 = j BY <1>1, <2>1
  <2> HIDE DEF x
  <2>3. 2 * j \in 0..(2 * half - 1) /\ 2 * j + 1 \in 0..(2 * half - 1) BY <2>1
  <2>4. adv[s] \in {at(2 * j), at(2 * j + 1)} /\ adv[s] # Nobody
    <3>1. CASE seat[2 * j] = s BY <1>9, <2>3, <3>1
    <3>2. CASE seat[2 * j + 1] = s BY <1>9, <2>3, <3>2
    <3> QED BY <2>1, <3>1, <3>2
  <2>5. Players(pair(x)) = {at(2 * j), at(2 * j + 1)} \ {Nobody} BY <1>12, <2>2
  <2>6. adv[s] \in Players(new[x]) BY <1>5, <1>13, <2>2, <2>4, <2>5
  <2> QED BY <1>18, <2>2, <2>6, InIs
<1>21. In(new) = {adv[s] : s \in 1..m} BY <1>19, <1>20
<1> QED BY <1>14, <1>15, <1>17, <1>21 DEF G, m, adv

LEMMA BestAlike ==
  ASSUME NEW ms, NEW new, Keeps(new, ms), NEW n, NEW g \in 1..4, NEW in,
         \A x \in DOMAIN ms : ms[x].stage # "playoff" => new[x] = ms[x], Best(ms, n, g, in)
  PROVE  Best(new, n, g, in)
<1> DEFINE xs == {x \in DOMAIN ms : ms[x].stage = GroupStages[g]}
<1>1. {x \in DOMAIN new : new[x].stage = GroupStages[g]} = xs BY DEF Keeps
<1>2. \A x \in xs : new[x] = ms[x] BY StagesAre
<1> HIDE DEF xs
<1>3. \A p : Won(new, xs, p) = Won(ms, xs, p) BY <1>2 DEF Won
<1> QED BY <1>1, <1>3 DEF Best, xs

\* What FillPlayoff does.
LEMMA FillIs ==
  ASSUME NEW n \in Nat, n >= 4, GroupCount(n) <= 4, NEW ms, Grouped(ms, n),
         NEW new, new = FillPlayoff(ms, GroupCount(n))
  PROVE  /\ Grouped(new, n) /\ Keeps(new, ms)
         /\ \A x \in DOMAIN ms : ms[x].stage # "playoff" => new[x] = ms[x]
         /\ \/ new = ms /\ (~GroupsDone(ms) \/ In(ms) # {})
            \/ GroupsDone(new) /\ \A g \in 1..GroupCount(n) : Best(new, n, g, In(new))
<1> DEFINE G == GroupCount(n)
           filled == Filled(ms, G)
           first == RoundOf(ms, "playoff", 1)
<1>1. CASE ~GroupsDone(ms) \/ \E x \in first : Players(ms[x]) # {}
  <2>1. new = ms BY <1>1 DEF FillPlayoff
  <2>2. ~GroupsDone(ms) \/ In(ms) # {}
    <3>1. CASE \E x \in first : Players(ms[x]) # {}
      <4>1. PICK x \in first : \E p : p \in Players(ms[x]) BY <3>1
      <4> QED BY <4>1, InIs
    <3> QED BY <1>1, <3>1
  <2>3. Keeps(ms, ms) BY DEF Keeps
  <2> QED BY <2>1, <2>2, <2>3
<1>2. CASE GroupsDone(ms) /\ ~ \E x \in first : Players(ms[x]) # {}
  <2>1. new = AdvanceByes(filled, "playoff") BY <1>2 DEF FillPlayoff, Filled
  <2>2. /\ filled \in [DOMAIN ms -> Match] /\ Keeps(filled, ms)
        /\ \A x \in DOMAIN ms : ms[x].stage # "playoff" => filled[x] = ms[x]
        /\ In(filled) = {Advancers(ms, G)[s] : s \in 1..(2 * G)}
    BY FilledIs
  <2> HIDE DEF filled
  <2>3. Counted(ms) /\ ms \in Seq(Match) /\ Keeps(ms, GenerateGroups(n))
    BY GroupedIs DEF Grouped, GroupsFit
  <2>4. Counted(filled) BY <2>2, <2>3 DEF Counted, Keeps
  <2>5. DOMAIN ms = 1..Len(ms) /\ Len(ms) \in Nat /\ IsFiniteSet(DOMAIN ms)
    <3>1. DOMAIN ms = 1..Len(ms) /\ Len(ms) \in Nat BY <2>3
    <3> QED BY <3>1, FS_Interval
  <2>6. new \in [DOMAIN ms -> Match] /\ Spares(new, filled)
    <3> DEFINE D == DOMAIN ms
    <3>1. filled \in [D -> Match] /\ IsFiniteSet(D) BY <2>2, <2>5
    <3> HIDE DEF D
    <3>2. new \in [D -> Match] /\ Spares(new, filled) BY <2>1, <2>4, <3>1, ByesSpare
    <3> QED BY <3>2 DEF D
  <2>7. Keeps(new, ms) BY <2>2, <2>6, KeepsOn, SparesKeep
  <2>8. \A x \in DOMAIN ms : ms[x].stage # "playoff" => new[x] = ms[x]
    BY <2>2, <2>6 DEF Spares, Keeps
  <2>9. new \in Seq(Match) BY <2>5, <2>6
  <2>10. Grouped(new, n)
    <3> DEFINE gen == GenerateGroups(n)
    <3>1. Keeps(ms, gen) BY <2>3
    <3> HIDE DEF gen
    <3>2. Keeps(new, gen) BY <2>7, <3>1, KeepsOn
    <3> QED BY <2>9, <3>2 DEF Grouped, gen
  <2>11. GroupsDone(new) BY <1>2, <2>7, <2>8 DEF GroupsDone, Keeps
  <2>12. In(new) = In(filled)
    <3>1. /\ RoundOf(new, "playoff", 1) = RoundOf(filled, "playoff", 1)
          /\ \A x \in RoundOf(filled, "playoff", 1) : new[x] = filled[x]
      BY <2>6 DEF Spares, RoundOf
    <3>2. \A p : p \in In(new) <=> p \in In(filled) BY <3>1, InIs
    <3> QED BY <3>2
  <2>13. ASSUME NEW g \in 1..G PROVE Best(new, n, g, In(new))
    <3> DEFINE in == In(new)
    <3>1. in = {Advancers(ms, G)[s] : s \in 1..(2 * G)} BY <2>2, <2>12
    <3>2. G \in 2..4 /\ g \in 1..4 BY GroupsAre
    <3> HIDE DEF in
    <3>3. Best(ms, n, g, in) BY <3>1, AdvancersAre
    <3>4. Best(new, n, g, in) BY <2>7, <2>8, <3>2, <3>3, BestAlike
    <3> QED BY <3>4 DEF in
  <2> QED BY <2>7, <2>8, <2>10, <2>11, <2>13
<1> QED BY <1>1, <1>2

\* Groups, and what their playoff has taken while no score is corrected.
GroupsInv(ms, n, strict) ==
  /\ Grouped(ms, n)
  /\ strict /\ In(ms) # {} =>
       GroupsDone(ms) /\ \A g \in 1..GroupCount(n) : Best(ms, n, g, In(ms))

LEMMA GroupsStart ==
  ASSUME NEW n \in Nat, n >= 4, GroupCount(n) <= 4, NEW strict, NEW ms, ms = GenerateGroups(n)
  PROVE  GroupsInv(ms, n, strict)
<1>1. /\ ms \in Seq(Match)
      /\ \A x \in DOMAIN ms : ms[x].stage = "playoff" => Players(ms[x]) = {}
  BY GroupsGenerated
<1>3. Keeps(ms, ms) BY DEF Keeps
<1>4. In(ms) = {}
  <2>1. \A x \in RoundOf(ms, "playoff", 1) : Players(ms[x]) = {} BY <1>1 DEF RoundOf
  <2>2. \A p : p \notin In(ms) BY <2>1, InIs
  <2> QED BY <2>2
<1> QED BY <1>1, <1>3, <1>4 DEF GroupsInv, Grouped

LEMMA GroupsScored ==
  ASSUME NEW n \in Nat, n >= 4, GroupCount(n) <= 4, NEW strict, NEW ms,
         GroupsInv(ms, n, strict), NEW x \in DOMAIN ms, NEW win \in Result,
         Ready(ms[x]) \/ (~strict /\ ms[x].status = "completed"),
         NEW new, new = ApplyGroups(ms, x, win, GroupCount(n))
  PROVE  GroupsInv(new, n, strict)
<1> DEFINE done == SetResult(ms, x, win)
           gen == GenerateGroups(n)
<1>1. Grouped(ms, n) /\ ms \in Seq(Match) /\ Keeps(ms, gen) /\ Counted(ms)
  BY GroupedIs DEF GroupsInv, Grouped, GroupsFit
<1>2. /\ done \in Seq(Match) /\ DOMAIN done = DOMAIN ms /\ Keeps(done, ms)
      /\ \A y \in DOMAIN ms \ {x} : done[y] = ms[y]
      /\ \A y \in DOMAIN ms : Players(done[y]) = Players(ms[y])
  BY <1>1, ResultKeeps
<1>3. Grouped(done, n)
  <2> HIDE DEF done, gen
  <2>1. Keeps(done, gen) BY <1>1, <1>2, KeepsOn
  <2> QED BY <1>2, <2>1 DEF Grouped, gen
<1>4. In(done) = In(ms)
  <2> HIDE DEF done
  <2>1. RoundOf(done, "playoff", 1) = RoundOf(ms, "playoff", 1) BY <1>2 DEF Keeps, RoundOf
  <2>2. \A y \in RoundOf(ms, "playoff", 1) : y \in DOMAIN ms BY DEF RoundOf
  <2>3. \A p : p \in In(done) <=> p \in In(ms) BY <1>2, <2>1, <2>2, InIs
  <2> QED BY <2>3
<1>5. \A g \in 1..GroupCount(n) : g \in 1..4 BY GroupsAre
<1>6. CASE ms[x].stage = "playoff"
  <2>1. new = Advance(done, x) BY <1>6 DEF ApplyGroups, ApplySingle
  <2> HIDE DEF done
  <2>2. done[x].stage = "playoff" /\ Counted(done) BY <1>1, <1>2, <1>6 DEF Keeps, Counted
  <2> DEFINE D == DOMAIN ms
  <2>3. done \in [D -> Match] /\ x \in D BY <1>2
  <2>4. D = 1..Len(ms) /\ Len(ms) \in Nat BY <1>1
  <2> HIDE DEF D
  <2>5. new \in [D -> Match] /\ Spares(new, done) BY <2>1, <2>2, <2>3, AdvanceSpares
  <2>6. new \in Seq(Match) BY <2>4, <2>5
  <2>7. Keeps(new, gen) /\ Keeps(new, ms)
    <3> HIDE DEF gen
    <3>1. Keeps(new, ms) BY <1>2, <2>5, SparesKeep, KeepsOn
    <3> QED BY <1>1, <3>1, KeepsOn
  <2>8. \A y \in DOMAIN ms : ms[y].stage # "playoff" => new[y] = ms[y]
    BY <1>2, <1>6, <2>5 DEF Spares, Keeps
  <2>9. In(new) = In(ms)
    <3>1. /\ RoundOf(new, "playoff", 1) = RoundOf(done, "playoff", 1)
          /\ \A y \in RoundOf(done, "playoff", 1) : new[y] = done[y]
      BY <2>5 DEF Spares, RoundOf
    <3>2. \A p : p \in In(new) <=> p \in In(done) BY <3>1, InIs
    <3> QED BY <1>4, <3>2
  <2>10. ASSUME strict, In(new) # {}
         PROVE  GroupsDone(new) /\ \A g \in 1..GroupCount(n) : Best(new, n, g, In(new))
    <3>1. GroupsDone(ms) /\ \A g \in 1..GroupCount(n) : Best(ms, n, g, In(new))
      BY <2>9, <2>10 DEF GroupsInv
    <3>2. GroupsDone(new) BY <2>7, <2>8, <3>1 DEF GroupsDone, Keeps
    <3>3. ASSUME NEW g \in 1..GroupCount(n) PROVE Best(new, n, g, In(new))
      <4> DEFINE in == In(new)
      <4>1. Best(ms, n, g, in) BY <3>1
      <4> HIDE DEF in
      <4>2. Best(new, n, g, in) BY <1>5, <2>7, <2>8, <4>1, BestAlike
      <4> QED BY <4>2 DEF in
    <3> QED BY <3>2, <3>3
  <2>11. Grouped(new, n) BY <2>6, <2>7 DEF Grouped
  <2> QED BY <2>10, <2>11 DEF GroupsInv
<1>7. CASE ms[x].stage # "playoff"
  <2>1. new = FillPlayoff(done, GroupCount(n)) BY <1>7 DEF ApplyGroups
  <2> HIDE DEF done
  <2>2. /\ Grouped(new, n)
        /\ \/ new = done /\ (~GroupsDone(done) \/ In(done) # {})
           \/ GroupsDone(new) /\ \A g \in 1..GroupCount(n) : Best(new, n, g, In(new))
    BY <1>3, <2>1, FillIs
  <2>3. ASSUME strict, In(new) # {}, new = done PROVE FALSE
    <3>1. GroupsDone(ms) BY <1>4, <2>3 DEF GroupsInv
    <3>2. Closed(ms[x]) BY <1>7, <3>1 DEF GroupsDone
    <3> QED BY <2>3, <3>2 DEF Closed, Ready
  <2> QED BY <2>2, <2>3 DEF GroupsInv
<1> QED BY <1>6, <1>7

-----------------------------------------------------------------------------
(* Round robin of all participants.                                        *)

RobinInv(ms, n) == ms \in Seq(Match) /\ Keeps(ms, RoundRobin("main", Seeds(n)))

LEMMA RobinIs ==
  ASSUME NEW n \in Nat, n >= 2, NEW ms, ms = RoundRobin("main", Seeds(n))
  PROVE  /\ ms \in Seq(Match) /\ League(ms, DOMAIN ms, 1..n)
         /\ \A x \in DOMAIN ms : ms[x].stage = "main" /\ ms[x].round \in 1..n
<1> DEFINE players == Seeds(n)
           stage == "main"
<1>1. /\ Len(players) = n /\ players \in [1..n -> Nat \ {0}]
      /\ \A i \in 1..n : players[i] = i
  BY DEF Seeds
<1>2. ms = RoundRobin(stage, players) /\ stage \in Stages BY StagesAre
<1> HIDE DEF players, stage
<1>3. PICK h \in Nat \ {0} : Circle(players, h)
  <2>1. /\ Len(players) \in Nat \ {0} /\ players \in [1..Len(players) -> Nat \ {0}]
        /\ \A i, j \in 1..Len(players) : players[i] = players[j] => i = j
    BY <1>1
  <2> QED BY <2>1, CircleFits
<1>4. League(ms, DOMAIN ms, {players[i] : i \in 1..Len(players)}) BY <1>2, <1>3, RobinIsLeague
<1>5. {players[i] : i \in 1..Len(players)} = 1..n BY <1>1
<1>6. /\ ms \in Seq(Match)
      /\ \A r \in 1..(2 * h - 1), j \in 0..(h - 1) :
           Between(ms[Number(h, r, j)], stage, r, Person(players, CirclePlace(2 * h, r, j)),
                   Person(players, CirclePlace(2 * h, r, 2 * h - 1 - j)))
      /\ \A x \in DOMAIN ms : \E r \in 1..(2 * h - 1), j \in 0..(h - 1) : x = Number(h, r, j)
  BY <1>2, <1>3, RoundRobinIs
<1>7. 2 * h - 1 <= n BY <1>1, <1>3 DEF Circle
<1>8. ASSUME NEW x \in DOMAIN ms PROVE ms[x].stage = stage /\ ms[x].round \in 1..n
  <2>1. PICK r \in 1..(2 * h - 1), j \in 0..(h - 1) : x = Number(h, r, j) BY <1>6
  <2>2. ms[x].stage = stage /\ ms[x].round = r BY <1>6, <2>1 DEF Between
  <2> QED BY <1>7, <2>2
<1>9. League(ms, DOMAIN ms, 1..n) BY <1>4, <1>5
<1> QED BY <1>6, <1>8, <1>9 DEF stage

LEMMA RobinSays ==
  ASSUME NEW n \in Nat, n >= 2, NEW ms, RobinInv(ms, n)
  PROVE  /\ ms \in Seq(Match)
         /\ \A x \in DOMAIN ms : ms[x].stage = "main" /\ ms[x].round \in 1..n
         /\ League(ms, {x \in DOMAIN ms : ms[x].stage = "main"}, 1..n)
<1> DEFINE gen == RoundRobin("main", Seeds(n))
           S == 1..n
           stage == "main"
<1>1. /\ gen \in Seq(Match) /\ League(gen, DOMAIN gen, S)
      /\ \A x \in DOMAIN gen : gen[x].stage = stage /\ gen[x].round \in 1..n
  BY RobinIs
<1>2. ms \in Seq(Match) /\ Keeps(ms, gen) BY DEF RobinInv
<1>3. stage # "playoff" BY StagesAre
<1> HIDE DEF gen, S, stage
<1>4. {x \in DOMAIN ms : ms[x].stage = stage} = DOMAIN gen BY <1>1, <1>2 DEF Keeps
<1>5. League(ms, {x \in DOMAIN ms : ms[x].stage = stage}, S)
  <2> DEFINE xs == DOMAIN gen
  <2>1. League(gen, xs, S) BY <1>1
  <2>2. \A x \in xs : ms[x].round = gen[x].round /\ Players(ms[x]) = Players(gen[x])
    BY <1>1, <1>2, <1>3 DEF Keeps
  <2>3. {x \in DOMAIN ms : ms[x].stage = stage} = xs BY <1>4
  <2> HIDE DEF xs
  <2>4. League(ms, xs, S) BY <2>1, <2>2, LeagueKept
  <2> QED BY <2>3, <2>4
<1>6. \A x \in DOMAIN ms : ms[x].stage = stage /\ ms[x].round \in 1..n BY <1>1, <1>2 DEF Keeps
<1> QED BY <1>2, <1>5, <1>6 DEF S, stage

LEMMA RobinScored ==
  ASSUME NEW n \in Nat, NEW ms, RobinInv(ms, n), NEW x \in DOMAIN ms, NEW win \in Result,
         NEW done, done = SetResult(ms, x, win)
  PROVE  RobinInv(done, n)
<1> DEFINE gen == RoundRobin("main", Seeds(n))
<1>1. ms \in Seq(Match) /\ Keeps(ms, gen) BY DEF RobinInv
<1>2. done \in Seq(Match) /\ Keeps(done, ms) BY <1>1, ResultKeeps
<1> HIDE DEF gen
<1>3. Keeps(done, gen) BY <1>1, <1>2, KeepsOn
<1> QED BY <1>2, <1>3 DEF RobinInv, gen

-----------------------------------------------------------------------------
(* The invariant of leagues.                                               *)

Inv ==
  /\ tournament \in Tournaments
  /\ Plays({"round-robin"}) => RobinInv(matches, tournament.field)
  /\ Plays({"swiss"}) => SwissInv(matches, tournament.field)
  /\ Plays({"groups"}) => GroupsInv(matches, tournament.field, ~tournament.corrections)

\* What is assumed of a tournament.
LEMMA TournamentIs ==
  ASSUME NEW t \in Tournaments
  PROVE  /\ t.field \in Nat /\ t.field >= 2 /\ t.field <= Infinity
         /\ t.format = "groups" => t.field >= 4 /\ GroupCount(t.field) <= 4
         /\ t.margins \subseteq Nat
<1>1. t \in Tournament /\ t.field >= MinParticipants(t.format) BY PlayAssumption
<1>2. t.field \in Nat /\ t.margins \subseteq Nat BY <1>1 DEF Tournament
<1>3. t.field <= Infinity /\ (t.format = "groups" => GroupCount(t.field) <= Len(GroupStages))
  BY BoundAssumption
<1>4. Len(GroupStages) = 4 BY DEF GroupStages
<1>5. t.field >= 2 /\ (t.format = "groups" => t.field >= 4) BY <1>1, <1>2 DEF MinParticipants
<1> QED BY <1>2, <1>3, <1>4, <1>5

LEMMA InitKeeps == Init => Inv
<1> SUFFICES ASSUME Init PROVE Inv OBVIOUS
<1> DEFINE n == tournament.field
<1>1. tournament \in Tournaments /\ matches = GenerateBracket(tournament.format, n) BY DEF Init
<1>2. /\ n \in Nat /\ n >= 2
      /\ tournament.format = "groups" => n >= 4 /\ GroupCount(n) <= 4
  BY <1>1, TournamentIs
<1> HIDE DEF n
<1>3. ASSUME Plays({"round-robin"}) PROVE RobinInv(matches, n)
  <2>1. matches = RoundRobin("main", Seeds(n)) BY <1>1, <1>3 DEF Plays, GenerateBracket
  <2>2. Keeps(matches, matches) BY DEF Keeps
  <2>3. matches \in Seq(Match) BY <1>2, <2>1, RobinIs
  <2> QED BY <2>1, <2>2, <2>3 DEF RobinInv
<1>4. ASSUME Plays({"swiss"}) PROVE SwissInv(matches, n)
  <2>1. matches = SwissPairings(<<>>, n, 1) BY <1>1, <1>4 DEF Plays, GenerateBracket
  <2> QED BY <1>2, <2>1, SwissStart
<1>5. ASSUME Plays({"groups"}) PROVE GroupsInv(matches, n, ~tournament.corrections)
  <2>1. matches = GenerateGroups(n) /\ tournament.format = "groups"
    BY <1>1, <1>5 DEF Plays, GenerateBracket
  <2> DEFINE strict == ~tournament.corrections
  <2> HIDE DEF strict
  <2>2. GroupsInv(matches, n, strict) BY <1>2, <2>1, GroupsStart
  <2> QED BY <2>2 DEF strict
<1> QED BY <1>1, <1>3, <1>4, <1>5 DEF Inv, n

LEMMA ScoreKeeps ==
  ASSUME Inv, NEW x \in Matches, NEW win \in Wins, Score(x, win)
  PROVE  Inv'
<1> DEFINE n == tournament.field
           strict == ~tournament.corrections
<1>1. /\ tournament \in Tournaments /\ tournament' = tournament /\ x \in DOMAIN matches
      /\ matches' = ApplyMatchResult(tournament.format, matches, x, win, n)
  BY DEF Inv, Score, Matches
<1>2. /\ n \in Nat /\ n >= 2 /\ tournament.margins \subseteq Nat
      /\ tournament.format = "groups" => n >= 4 /\ GroupCount(n) <= 4
  BY <1>1, TournamentIs
<1>3. win \in Result
  <2>1. CASE tournament.pace = "scripted"
    <3>1. win = Win(1, 2) BY <2>1 DEF Wins
    <3> QED BY <3>1 DEF Win, Result, Sides
  <2>2. CASE tournament.pace # "scripted"
    <3>1. PICK side \in Sides, by \in tournament.margins : win = Win(side, by) BY <2>2 DEF Wins
    <3> QED BY <1>2, <3>1 DEF Win, Result
  <2> QED BY <2>1, <2>2
<1>4. Ready(matches[x]) \/ (~strict /\ matches[x].status = "completed") BY DEF Score, Playable
<1> DEFINE ms == matches
           new == matches'
<1>5. ASSUME Plays({"round-robin"}) PROVE RobinInv(new, n)
  <2>1. new = SetResult(ms, x, win) /\ RobinInv(ms, n) /\ x \in DOMAIN ms
    BY <1>1, <1>5 DEF Plays, ApplyMatchResult, Inv
  <2> HIDE DEF n, ms, new
  <2> QED BY <1>2, <1>3, <2>1, RobinScored
<1>6. ASSUME Plays({"swiss"}) PROVE SwissInv(new, n)
  <2> DEFINE done == SetResult(ms, x, win)
  <2>1. /\ new = NextSwissRound(done, n) /\ SwissInv(ms, n) /\ x \in DOMAIN ms
        /\ Ready(ms[x]) \/ ms[x].status = "completed"
    BY <1>1, <1>4, <1>6 DEF Plays, ApplyMatchResult, Inv
  <2> HIDE DEF n, ms, new
  <2>2. SwissInv(done, n) BY <1>2, <1>3, <2>1, SwissScored
  <2> HIDE DEF done
  <2>3. SwissInv(NextSwissRound(done, n), n) BY <1>2, <2>2, SwissGoesOn
  <2> QED BY <2>1, <2>3
<1>7. ASSUME Plays({"groups"}) PROVE GroupsInv(new, n, strict)
  <2>1. /\ new = ApplyGroups(ms, x, win, GroupCount(n)) /\ GroupsInv(ms, n, strict)
        /\ x \in DOMAIN ms /\ tournament.format = "groups"
    BY <1>1, <1>7 DEF Plays, ApplyMatchResult, Inv
  <2>2. Ready(ms[x]) \/ (~strict /\ ms[x].status = "completed") BY <1>4
  <2> HIDE DEF n, ms, new, strict
  <2> QED BY <1>2, <1>3, <2>1, <2>2, GroupsScored
<1>8. n' = n /\ strict' = strict /\ tournament' \in Tournaments BY <1>1
<1>9. /\ Plays({"round-robin"})' <=> Plays({"round-robin"})
      /\ Plays({"swiss"})' <=> Plays({"swiss"})
      /\ Plays({"groups"})' <=> Plays({"groups"})
  BY <1>1 DEF Plays
<1> QED BY <1>1, <1>5, <1>6, <1>7, <1>9 DEF Inv

\* Leagues keep their seats, whatever scores are entered and corrected.
THEOREM LeagueInvariance == Spec => []Inv
<1>1. Inv /\ [Next]_vars => Inv'
  <2> SUFFICES ASSUME Inv, [Next]_vars PROVE Inv' OBVIOUS
  <2>1. CASE Next
    <3>1. PICK x \in Matches, win \in Wins : Score(x, win) BY <2>1 DEF Next
    <3> QED BY <3>1, ScoreKeeps
  <2>2. CASE UNCHANGED vars
    BY <2>2 DEF vars, Inv, Plays
  <2> QED BY <2>1, <2>2
<1> QED BY <1>1, InitKeeps, PTL DEF Spec

-----------------------------------------------------------------------------
(* What it says of the properties of BracketPlay.                          *)

LEMMA PlacesFollow == Inv => PlacesFollowStandings
<1> SUFFICES ASSUME Inv, Plays({"round-robin", "swiss"}), \E x \in Matches : Closed(matches[x])
             PROVE  Placements(matches, tournament.field) = Standings(matches, Matches, Entrants)
  BY DEF PlacesFollowStandings
<1> DEFINE n == tournament.field
           ms == matches
<1>1. n \in Nat /\ n >= 2 /\ n <= Infinity BY TournamentIs DEF Inv
<1>2. ms \in Seq(Match) /\ \A x \in DOMAIN ms : ms[x].round \in Nat /\ ms[x].round <= Infinity
  <2>1. CASE Plays({"round-robin"})
    <3>1. RobinInv(ms, n) BY <2>1 DEF Inv
    <3> HIDE DEF n, ms
    <3>2. ms \in Seq(Match) /\ \A x \in DOMAIN ms : ms[x].round \in 1..n BY <1>1, <3>1, RobinSays
    <3> QED BY <1>1, <3>2 DEF Infinity
  <2>2. CASE Plays({"swiss"})
    <3>1. SwissInv(ms, n) BY <2>2 DEF Inv
    <3>2. ms \in Seq(Match) /\ \A x \in DOMAIN ms : ms[x].round \in Nat /\ ms[x].round <= SwissRounds(n)
      BY <1>1, <3>1, SwissSays
    <3>3. SwissRounds(n) \in Nat /\ SwissRounds(n) <= Infinity
      <4> HIDE DEF n
      <4>1. SwissRounds(n) \in Nat /\ (SwissRounds(n) = 3 \/ SwissRounds(n) <= n)
        BY <1>1, SwissRoundsAre
      <4> QED BY <1>1, <4>1 DEF Infinity
    <3> HIDE DEF n, ms
    <3> QED BY <3>2, <3>3 DEF Infinity
  <2> QED BY <2>1, <2>2 DEF Plays
<1>3. IsFiniteSet(DOMAIN ms) /\ \A x \in DOMAIN ms : ms[x].by \in Nat
  <2>1. DOMAIN ms = 1..Len(ms) /\ Len(ms) \in Nat BY <1>2
  <2>2. IsFiniteSet(DOMAIN ms) BY <2>1, FS_Interval
  <2>3. \A x \in DOMAIN ms : ms[x] \in Match BY <1>2
  <2>4. \A m \in Match : m.by \in Nat BY DEF Match
  <2> QED BY <2>2, <2>3, <2>4
<1>4. \E x \in DOMAIN ms : Closed(ms[x]) BY DEF Matches
<1> HIDE DEF n, ms
<1>5. Placements(ms, n) = Standings(ms, DOMAIN ms, 1..n) BY <1>1, <1>2, <1>3, <1>4, PlacementsAre
<1> QED BY <1>5 DEF n, ms, Matches, Entrants

LEMMA EveryoneMeets == Inv => EveryoneMeetsOnce
<1> SUFFICES ASSUME Inv PROVE EveryoneMeetsOnce OBVIOUS
<1> DEFINE n == tournament.field
<1>1. /\ n \in Nat /\ n >= 2
      /\ tournament.format = "groups" => n >= 4 /\ GroupCount(n) <= 4
  BY TournamentIs DEF Inv
<1>2. ASSUME Plays({"round-robin", "groups"}),
             NEW stage \in {matches[x].stage : x \in Matches} \ {"playoff"},
             NEW xs, xs = {x \in Matches : matches[x].stage = stage},
             NEW players, players = UNION {Players(matches[x]) : x \in xs}
      PROVE  SeatsEveryone(xs, players) /\ \A p, q \in players : p # q => Meetings(xs, p, q) = 1
  <2>1. xs # {} BY <1>2
  <2>2. \E S : League(matches, xs, S)
    <3>1. CASE Plays({"round-robin"})
      <4>1. RobinInv(matches, n) BY <3>1 DEF Inv
      <4> DEFINE ms == matches
      <4>2. RobinInv(ms, n) BY <4>1
      <4> HIDE DEF n, ms
      <4>3. /\ \A x \in DOMAIN ms : ms[x].stage = "main"
            /\ League(ms, {x \in DOMAIN ms : ms[x].stage = "main"}, 1..n)
        BY <1>1, <4>2, RobinSays
      <4>4. stage = "main" BY <1>2, <4>3 DEF Matches, ms
      <4> QED BY <1>2, <4>3, <4>4 DEF Matches, ms
    <3>2. CASE Plays({"groups"})
      <4> DEFINE ms == matches
      <4>1. Grouped(ms, n) /\ n >= 4 /\ GroupCount(n) <= 4
        BY <1>1, <3>2 DEF Inv, GroupsInv, Plays
      <4> HIDE DEF n, ms
      <4>2. /\ \A g \in 1..GroupCount(n) :
                 League(ms, {x \in DOMAIN ms : ms[x].stage = GroupStages[g]}, Group(n, g))
            /\ \A x \in DOMAIN ms : \/ ms[x].stage = "playoff"
                                    \/ \E g \in 1..GroupCount(n) : ms[x].stage = GroupStages[g]
        BY <1>1, <4>1, GroupedIs DEF GroupsFit
      <4>3. PICK g \in 1..GroupCount(n) : stage = GroupStages[g] BY <1>2, <4>2 DEF Matches, ms
      <4> QED BY <1>2, <4>2, <4>3 DEF Matches, ms
    <3> QED BY <1>2, <3>1, <3>2 DEF Plays
  <2>3. PICK S : League(matches, xs, S) BY <2>2
  <2>4. /\ UNION {Players(matches[x]) : x \in xs} = S
        /\ SeatsEveryone(xs, S)
        /\ \A p, q \in S : p # q => Meetings(xs, p, q) = 1
    BY <2>1, <2>3, LeagueSays
  <2>5. players = S BY <1>2, <2>4
  <2> QED BY <2>4, <2>5
<1>3. ASSUME Plays({"swiss"})
      PROVE  /\ SeatsEveryone(Matches, Entrants)
             /\ n >= 4 => \A p, q \in Entrants : p # q =>
                  Meetings({x \in Matches : matches[x].round <= 2 \/ n = 4}, p, q) <= 1
  <2>1. SwissInv(matches, n) BY <1>3 DEF Inv
  <2> HIDE DEF n
  <2>2. /\ SeatsEveryone(DOMAIN matches, 1..n)
        /\ n >= 4 => \A p, q \in 1..n : p # q =>
             Meetings({x \in DOMAIN matches : matches[x].round <= 2 \/ n = 4}, p, q) <= 1
    BY <1>1, <2>1, SwissSays
  <2> QED BY <2>2 DEF n, Matches, Entrants
<1> QED BY <1>2, <1>3 DEF EveryoneMeetsOnce

LEMMA BestAdvance == Inv => TheBestAdvance
<1> SUFFICES ASSUME Inv, Plays({"groups"}), ~tournament.corrections, In(matches) # {},
                    NEW g \in 1..GroupCount(tournament.field)
             PROVE  LET xs == {x \in Matches : matches[x].stage = GroupStages[g]}
                        players == {p \in Entrants : GroupOf(p, GroupCount(tournament.field)) = g}
                    IN /\ Cardinality(players \cap In(matches)) = 2
                       /\ \A p \in players \cap In(matches), q \in players \ In(matches) :
                            Cardinality(Won(matches, xs, p)) >= Cardinality(Won(matches, xs, q))
  BY DEF TheBestAdvance, In
<1>1. Best(matches, tournament.field, g, In(matches)) BY DEF Inv, GroupsInv
<1> QED BY <1>1 DEF Best, Group, Matches, Entrants

\* The place in a profile is the rank of the standings, in every round robin and every
\* swiss, also when scores are corrected (computePlacements of player-stats.ts).
THEOREM PlacesAreRanks == Spec => []PlacesFollowStandings
BY LeagueInvariance, PlacesFollow, PTL

\* In every round robin and every group each pair meets exactly once, and every swiss
\* round seats everyone once; swiss rounds 1 and 2 repeat no pair, nor do the three
\* rounds of four participants (generateRoundRobin, generateRoundPairings).
THEOREM NobodyMeetsTwice == Spec => []EveryoneMeetsOnce
BY LeagueInvariance, EveryoneMeets, PTL

\* Two of every group advance, and nobody who won fewer matches than one who is
\* left out (tryFillPlayoff), in whatever order the matches are played.
THEOREM TheBestGoOn == Spec => []TheBestAdvance
BY LeagueInvariance, BestAdvance, PTL

-----------------------------------------------------------------------------
(* Knockouts: seats and the matches that fill them.                        *)

\* Matches stand where they stood: in number, stage and round.
Stands(new, old) ==
  /\ DOMAIN new = DOMAIN old
  /\ \A x \in DOMAIN old : new[x].stage = old[x].stage /\ new[x].round = old[x].round

LEMMA StandsOn ==
  ASSUME NEW a, NEW b, NEW c, Stands(a, b), Stands(b, c)
  PROVE  Stands(a, c)
BY DEF Stands

\* Where a match stands tells what it feeds.
LEMMA StandsAlike ==
  ASSUME NEW new, NEW old, Stands(new, old)
  PROVE  /\ \A stage, r : RoundOf(new, stage, r) = RoundOf(old, stage, r)
         /\ \A x \in DOMAIN old : Position(new, x) = Position(old, x)
         /\ \A stage, r, p : MatchAt(new, stage, r, p) = MatchAt(old, stage, r, p)
         /\ \A x \in DOMAIN old : /\ NextMatch(new, x) = NextMatch(old, x)
                                  /\ NextSide(new, x) = NextSide(old, x)
<1>1. \A stage, r : RoundOf(new, stage, r) = RoundOf(old, stage, r) BY DEF Stands, RoundOf
<1>2. \A x \in DOMAIN old : Position(new, x) = Position(old, x)
  <2> SUFFICES ASSUME NEW x \in DOMAIN old PROVE Position(new, x) = Position(old, x) OBVIOUS
  <2>1. new[x].stage = old[x].stage /\ new[x].round = old[x].round BY DEF Stands
  <2> QED BY <1>1, <2>1 DEF Position
<1>3. \A stage, r, p : MatchAt(new, stage, r, p) = MatchAt(old, stage, r, p)
  <2> SUFFICES ASSUME NEW stage, NEW r, NEW p, NEW x
               PROVE  x \in MatchAt(new, stage, r, p) <=> x \in MatchAt(old, stage, r, p)
    OBVIOUS
  <2>1. \A y \in RoundOf(old, stage, r) : y \in DOMAIN old BY DEF RoundOf
  <2> QED BY <1>1, <1>2, <2>1 DEF MatchAt
<1>4. \A x \in DOMAIN old : NextMatch(new, x) = NextMatch(old, x)
  <2> SUFFICES ASSUME NEW x \in DOMAIN old PROVE NextMatch(new, x) = NextMatch(old, x) OBVIOUS
  <2>1. new[x].stage = old[x].stage /\ new[x].round = old[x].round BY DEF Stands
  <2> QED BY <1>2, <1>3, <2>1 DEF NextMatch
<1> QED BY <1>1, <1>2, <1>3, <1>4 DEF NextSide

\* Two matches of a round have different positions.
LEMMA PositionsDiffer ==
  ASSUME NEW ms \in Seq(Match), NEW x \in DOMAIN ms, NEW y \in DOMAIN ms,
         ms[x].stage = ms[y].stage, ms[x].round = ms[y].round, Position(ms, x) = Position(ms, y)
  PROVE  x = y
<1> DEFINE R == RoundOf(ms, ms[x].stage, ms[x].round)
<1>1. DOMAIN ms = 1..Len(ms) /\ Len(ms) \in Nat OBVIOUS
<1>2. x \in R /\ y \in R /\ R \subseteq 1..Len(ms) BY <1>1 DEF RoundOf
<1>3. IsFiniteSet(R)
  <2>1. IsFiniteSet(1..Len(ms)) BY <1>1, FS_Interval
  <2> QED BY <1>2, <2>1, FS_Subset
<1>4. Position(ms, x) = Cardinality({z \in R : z < x}) BY DEF Position
<1>5. Position(ms, y) = Cardinality({z \in R : z < y}) BY DEF Position
<1> HIDE DEF R
<1>6. ASSUME NEW a \in R, NEW b \in R, a < b
      PROVE  Cardinality({z \in R : z < a}) # Cardinality({z \in R : z < b})
  <2> DEFINE A == {z \in R : z < a}
             B == {z \in R : z < b}
  <2>1. A \subseteq B /\ a \in B /\ a \notin A
    <3>1. \A z \in R : z \in Nat BY <1>1, <1>2
    <3> QED BY <1>6, <3>1
  <2>2. IsFiniteSet(B) BY <1>3, FS_Subset
  <2>3. A # B BY <2>1
  <2> HIDE DEF A, B
  <2>4. Cardinality(A) < Cardinality(B) /\ Cardinality(B) \in Nat /\ Cardinality(A) \in Nat
    BY <2>1, <2>2, <2>3, FS_Subset, FS_CardinalityType
  <2>5. Cardinality(A) # Cardinality(B) BY <2>4
  <2> QED BY <2>5 DEF A, B
<1>7. x \in Nat /\ y \in Nat BY <1>1
<1>8. x < y \/ y < x \/ x = y BY <1>7
<1> QED BY <1>2, <1>4, <1>5, <1>6, <1>8

\* Positions are numbers.
LEMMA PositionIsNat ==
  ASSUME NEW ms \in Seq(Match), NEW x \in DOMAIN ms
  PROVE  Position(ms, x) \in Nat
<1> DEFINE S == {y \in RoundOf(ms, ms[x].stage, ms[x].round) : y < x}
<1>1. DOMAIN ms = 1..Len(ms) /\ Len(ms) \in Nat OBVIOUS
<1>2. IsFiniteSet(1..Len(ms)) /\ S \subseteq 1..Len(ms) BY <1>1, FS_Interval DEF RoundOf
<1> HIDE DEF S
<1>3. Cardinality(S) \in Nat BY <1>2, FS_Subset, FS_CardinalityType
<1> QED BY <1>3 DEF Position, S

\* A seat has one match that feeds it.
LEMMA FeedersDiffer ==
  ASSUME NEW ms \in Seq(Match), NEW x \in DOMAIN ms, NEW z \in DOMAIN ms,
         NextSide(ms, x) = NextSide(ms, z), NEW y \in NextMatch(ms, x), y \in NextMatch(ms, z)
  PROVE  x = z
<1> DEFINE p == Position(ms, x)
           q == Position(ms, z)
<1>1. ms[x].stage = ms[z].stage /\ ms[x].round = ms[z].round
  <2>1. ms[y].stage = ms[x].stage /\ ms[y].round = ms[x].round + 1 BY DEF NextMatch, MatchAt, RoundOf
  <2>2. ms[y].stage = ms[z].stage /\ ms[y].round = ms[z].round + 1 BY DEF NextMatch, MatchAt, RoundOf
  <2>3. ms[x] \in Match /\ ms[z] \in Match OBVIOUS
  <2>4. ms[x].round \in Nat /\ ms[z].round \in Nat BY <2>3 DEF Match
  <2> QED BY <2>1, <2>2, <2>4
<1>2. p \div 2 = q \div 2
  <2>1. Position(ms, y) = p \div 2 /\ Position(ms, y) = q \div 2 BY DEF NextMatch, MatchAt
  <2> QED BY <2>1
<1>3. p % 2 = q % 2
  <2>1. 1 + (p % 2) = 1 + (q % 2) BY DEF NextSide
  <2>2. p \in Nat /\ q \in Nat BY PositionIsNat
  <2> HIDE DEF p, q
  <2> QED BY <2>1, <2>2
<1>4. p \in Nat /\ q \in Nat BY PositionIsNat
<1>5. p = q
  <2> HIDE DEF p, q
  <2> QED BY <1>2, <1>3, <1>4
<1> QED BY <1>1, <1>5, PositionsDiffer

SeatOf(m, side) == IF side = 1 THEN m.p1 ELSE m.p2

\* What taking seats changes.
LEMMA SeatIs ==
  ASSUME NEW ms \in Seq(Match), NEW T, NEW side, NEW player \in Nat,
         NEW new, new = Seat(ms, T, side, player)
  PROVE  /\ new \in Seq(Match) /\ Stands(new, ms)
         /\ \A y \in DOMAIN ms :
              /\ new[y].winner = ms[y].winner /\ new[y].status = ms[y].status
              /\ y \notin T => new[y] = ms[y]
              /\ side # 1 => new[y].p1 = ms[y].p1
              /\ side = 1 => new[y].p2 = ms[y].p2
              /\ y \in T => SeatOf(new[y], side) = player
<1> DEFINE D == DOMAIN ms
<1>1. new = [y \in D |-> IF y \notin T THEN ms[y] ELSE Taken(ms[y], side, player)]
  BY DEF Seat, Taken
<1>2. DOMAIN new = D BY <1>1
<1>3. D = 1..Len(ms) /\ Len(ms) \in Nat OBVIOUS
<1>4. ASSUME NEW y \in D
      PROVE  /\ new[y] \in Match /\ new[y].stage = ms[y].stage /\ new[y].round = ms[y].round
             /\ new[y].winner = ms[y].winner /\ new[y].status = ms[y].status
             /\ y \notin T => new[y] = ms[y]
             /\ side # 1 => new[y].p1 = ms[y].p1
             /\ side = 1 => new[y].p2 = ms[y].p2
             /\ y \in T => SeatOf(new[y], side) = player
  <2>1. CASE y \notin T BY <1>1, <2>1
  <2>2. CASE y \in T
    <3> DEFINE m == ms[y]
    <3>1. new[y] = Taken(m, side, player) /\ m \in Match BY <1>1, <2>2
    <3> HIDE DEF m
    <3>2. CASE side = 1
      <4>1. new[y] = [m EXCEPT !.p1 = player] BY <3>1, <3>2 DEF Taken
      <4> QED BY <2>2, <3>1, <3>2, <4>1 DEF m, Match, SeatOf
    <3>3. CASE side # 1
      <4>1. new[y] = [m EXCEPT !.p2 = player] BY <3>1, <3>3 DEF Taken
      <4> QED BY <2>2, <3>1, <3>3, <4>1 DEF m, Match, SeatOf
    <3> QED BY <3>2, <3>3
  <2> QED BY <2>1, <2>2
<1> HIDE DEF D
<1>5. new \in Seq(Match)
  <2>1. new \in [1..Len(ms) -> Match] BY <1>1, <1>2, <1>3, <1>4
  <2> QED BY <1>3, <2>1
<1>6. Stands(new, ms) BY <1>2, <1>4 DEF Stands, D
<1> QED BY <1>4, <1>5, <1>6 DEF D

\* The winners of the matches xs, or nobody, sit where the next round has their seats.
Feed(ms, xs) ==
  \A x \in xs : \A y \in NextMatch(ms, x) : SeatOf(ms[y], NextSide(ms, x)) = ms[x].winner

\* Winners do not change, nor do matches of another stage.
SameResults(new, old, stage) ==
  /\ new \in Seq(Match) /\ Stands(new, old)
  /\ \A y \in DOMAIN old : /\ new[y].winner = old[y].winner /\ new[y].status = old[y].status
                           /\ old[y].stage # stage => new[y] = old[y]

\* A winner who advances is fed, and no other seat is disturbed.
LEMMA AdvanceFeeds ==
  ASSUME NEW ms \in Seq(Match), NEW x \in DOMAIN ms, NEW xs \in SUBSET DOMAIN ms,
         Feed(ms, xs \ {x}), NEW new, new = Advance(ms, x)
  PROVE  /\ SameResults(new, ms, ms[x].stage) /\ Feed(new, xs \cup {x})
         /\ \A y \in DOMAIN ms : y \notin NextMatch(ms, x) => new[y] = ms[y]
<1> DEFINE T == NextMatch(ms, x)
           side == NextSide(ms, x)
           player == ms[x].winner
<1>1. new = Seat(ms, T, side, player) BY DEF Advance
<1>2. player \in Nat
  <2>1. ms[x] \in Match OBVIOUS
  <2> QED BY <2>1 DEF Match
<1>3. \A y \in T : y \in DOMAIN ms /\ ms[y].stage = ms[x].stage
  BY DEF NextMatch, MatchAt, RoundOf
<1>4. side \in {1, 2}
  <2>1. \A p \in Nat : 1 + (p % 2) \in {1, 2} OBVIOUS
  <2> QED BY <2>1, PositionIsNat DEF NextSide
<1> HIDE DEF T, side, player
<1>5. /\ new \in Seq(Match) /\ Stands(new, ms)
      /\ \A y \in DOMAIN ms :
           /\ new[y].winner = ms[y].winner /\ new[y].status = ms[y].status
           /\ y \notin T => new[y] = ms[y]
           /\ side # 1 => new[y].p1 = ms[y].p1
           /\ side = 1 => new[y].p2 = ms[y].p2
           /\ y \in T => SeatOf(new[y], side) = player
  BY <1>1, <1>2, SeatIs
<1>6. SameResults(new, ms, ms[x].stage) BY <1>3, <1>5 DEF SameResults
<1>7. ASSUME NEW z \in xs \cup {x}, NEW y \in NextMatch(new, z)
      PROVE  SeatOf(new[y], NextSide(new, z)) = new[z].winner
  <2>1. z \in DOMAIN ms OBVIOUS
  <2>2. NextMatch(new, z) = NextMatch(ms, z) /\ NextSide(new, z) = NextSide(ms, z)
    BY <1>5, <2>1, StandsAlike
  <2>3. y \in DOMAIN ms BY <1>7, <2>2 DEF NextMatch, MatchAt, RoundOf
  <2>4. new[z].winner = ms[z].winner BY <1>5, <2>1
  <2>5. CASE z = x
    <3>1. y \in T /\ NextSide(new, z) = side BY <1>7, <2>2, <2>5 DEF T, side
    <3> QED BY <1>5, <2>3, <2>4, <2>5, <3>1 DEF player
  <2>6. CASE z # x
    <3>1. z \in xs \ {x} /\ y \in NextMatch(ms, z) BY <1>7, <2>2, <2>6
    <3>2. SeatOf(ms[y], NextSide(ms, z)) = ms[z].winner BY <3>1 DEF Feed
    <3>3. CASE y \notin T
      <4>1. new[y] = ms[y] BY <1>5, <2>3, <3>3
      <4> QED BY <2>2, <2>4, <3>2, <4>1
    <3>4. CASE y \in T
      <4>1. NextSide(ms, z) # side BY <2>1, <2>6, <3>1, <3>4, FeedersDiffer DEF T, side
      <4>2. SeatOf(new[y], NextSide(ms, z)) = SeatOf(ms[y], NextSide(ms, z))
        <5>1. NextSide(ms, z) \in {1, 2}
          <6>1. \A p \in Nat : 1 + (p % 2) \in {1, 2} OBVIOUS
          <6> QED BY <2>1, <6>1, PositionIsNat DEF NextSide
        <5> QED BY <1>4, <1>5, <2>3, <4>1, <5>1 DEF SeatOf
      <4> QED BY <2>2, <2>4, <3>2, <4>2
    <3> QED BY <3>3, <3>4
  <2> QED BY <2>5, <2>6
<1>8. Feed(new, xs \cup {x}) BY <1>7 DEF Feed
<1> QED BY <1>5, <1>6, <1>8 DEF T

\* The fold of AdvanceByes takes its matches one by one.
Folded(it, ms, xs) == \A s \in SUBSET xs :
  it[s] = IF s = {} THEN ms
          ELSE Advance(it[s \ {CHOOSE x \in s : TRUE}], CHOOSE x \in s : TRUE)
LEMMA ByesFold ==
  ASSUME NEW D, IsFiniteSet(D), NEW ms \in [D -> Match], NEW xs \in SUBSET D
  PROVE  \E it : /\ Folded(it, ms, xs)
                 /\ FSets!FoldSet(LAMBDA x, acc : Advance(acc, x), ms, xs) = it[xs]
<1> DEFINE A == [D -> Match]
           pick == [s \in SUBSET xs |-> CHOOSE x \in s : TRUE]
           step == [u \in xs \X A |-> Advance(u[2], u[1])]
           F(f) == [s \in SUBSET xs |-> IF s = {} THEN ms
                      ELSE Advance(f[s \ {CHOOSE x \in s : TRUE}], CHOOSE x \in s : TRUE)]
           it == CHOOSE f : f = F(f)
<1>1. \A s \in SUBSET xs : s # {} => pick[s] \in s OBVIOUS
<1>2. IsFiniteSet(xs) /\ xs \subseteq D BY FS_Subset
<1>3. ASSUME NEW f \in A, NEW x \in xs PROVE Advance(f, x) \in A
  <2> DEFINE T == NextMatch(f, x)
             side == NextSide(f, x)
             player == f[x].winner
  <2>1. Advance(f, x) = [y \in D |-> IF y \notin T THEN f[y] ELSE Taken(f[y], side, player)]
    BY DEF Advance, Seat, Taken
  <2>2. player \in Nat
    <3>1. f[x] \in Match BY <1>2
    <3> QED BY <3>1 DEF Match
  <2> HIDE DEF T, side, player
  <2>3. \A y \in D : f[y] \in Match /\ Taken(f[y], side, player) \in Match BY <2>2, TakenIs
  <2> QED BY <2>1, <2>3
<1>4. step \in [xs \X A -> A]
  <2> HIDE DEF A
  <2> QED BY <1>3
<1>5. PICK g : FoldIs(g, xs, A, ms, step, pick)
  <2>1. ms \in A OBVIOUS
  <2> HIDE DEF pick, step, A
  <2> QED BY <1>1, <1>2, <1>4, <2>1, FoldExists
<1>6. g = F(g)
  <2> HIDE DEF A
  <2>1. ASSUME NEW s \in SUBSET xs
        PROVE  g[s] = IF s = {} THEN ms
                      ELSE Advance(g[s \ {CHOOSE x \in s : TRUE}], CHOOSE x \in s : TRUE)
    <3>1. CASE s = {} BY <1>5, <3>1 DEF FoldIs
    <3>2. CASE s # {}
      <4> DEFINE x == CHOOSE x \in s : TRUE
                 t == s \ {x}
      <4>1. x \in s /\ pick[s] = x /\ x \in xs BY <3>2
      <4>2. t \in SUBSET xs OBVIOUS
      <4>3. g[t] \in A BY <1>5, <4>2 DEF FoldIs
      <4>4. g[s] = step[<<x, g[t]>>] BY <1>5, <3>2, <4>1 DEF FoldIs
      <4> HIDE DEF x, t
      <4>5. step[<<x, g[t]>>] = Advance(g[t], x) BY <4>1, <4>3
      <4> QED BY <3>2, <4>4, <4>5 DEF x, t
    <3> QED BY <3>1, <3>2
  <2> QED BY <1>5, <2>1 DEF FoldIs
<1>7. it = F(it) BY <1>6
<1>8. FSets!FoldSet(LAMBDA x, acc : Advance(acc, x), ms, xs) = it[xs]
  BY DEF FSets!FoldSet, FSets!MapThenFoldSet
<1>9. Folded(it, ms, xs)
  <2> SUFFICES ASSUME NEW s \in SUBSET xs
               PROVE  it[s] = IF s = {} THEN ms
                              ELSE Advance(it[s \ {CHOOSE x \in s : TRUE}], CHOOSE x \in s : TRUE)
    BY DEF Folded
  <2> HIDE DEF it
  <2> QED BY <1>7
<1> QED BY <1>8, <1>9

\* So what step by step leads from good[{}] leads to good[xs].
LEMMA ByesLead ==
  ASSUME NEW xs, IsFiniteSet(xs), NEW it, NEW ms, Folded(it, ms, xs), NEW good, ms \in good[{}],
         \A s \in SUBSET xs, x \in xs : \A f \in good[s \ {x}] :
           x \in s => Advance(f, x) \in good[s]
  PROVE  it[xs] \in good[xs]
<1> DEFINE P == {s \in SUBSET xs : it[s] \in good[s]}
<1>9. ASSUME NEW T \in SUBSET xs, \A U \in SUBSET T : U # T => U \in P PROVE T \in P
  <2>1. it[T] = IF T = {} THEN ms
                ELSE Advance(it[T \ {CHOOSE x \in T : TRUE}], CHOOSE x \in T : TRUE)
    BY DEF Folded
  <2>2. CASE T = {} BY <2>1, <2>2
  <2>3. CASE T # {}
    <3> DEFINE x == CHOOSE x \in T : TRUE
               f == it[T \ {x}]
    <3>1. x \in T /\ x \in xs BY <2>3
    <3>2. T \ {x} \in P BY <1>9, <3>1
    <3>3. f \in good[T \ {x}] BY <3>2
    <3>4. it[T] = Advance(f, x) BY <2>1, <2>3
    <3> HIDE DEF x, f
    <3>5. Advance(f, x) \in good[T] BY <3>1, <3>3
    <3> QED BY <3>4, <3>5
  <2> QED BY <2>2, <2>3
<1> HIDE DEF P
<1>10. SUBSET xs \subseteq P BY <1>9, FiniteAlike, Board!SubsetInduction
<1> QED BY <1>10 DEF P

\* All byes of a stage are fed, beside whoever was fed before.
LEMMA ByesFeed ==
  ASSUME NEW ms \in Seq(Match), NEW stage, NEW xs \in SUBSET DOMAIN ms, Feed(ms, xs),
         NEW new, new = AdvanceByes(ms, stage)
  PROVE  /\ SameResults(new, ms, stage)
         /\ Feed(new, xs \cup {x \in DOMAIN ms : ms[x].stage = stage /\ ms[x].winner # Nobody})
<1> DEFINE D == DOMAIN ms
           byes == {x \in DOMAIN ms : ms[x].stage = stage /\ ms[x].winner # Nobody}
           good == [s \in SUBSET byes |-> {f \in [D -> Match] : SameResults(f, ms, stage) /\ Feed(f, xs \cup s)}]
<1>1. D = 1..Len(ms) /\ Len(ms) \in Nat /\ IsFiniteSet(D)
  <2>1. D = 1..Len(ms) /\ Len(ms) \in Nat OBVIOUS
  <2> QED BY <2>1, FS_Interval
<1>2. ms \in [D -> Match] OBVIOUS
<1>3. SameResults(ms, ms, stage) BY DEF SameResults, Stands
<1>4. ms \in good[{}]
  <2>1. xs \cup {} = xs OBVIOUS
  <2> QED BY <1>2, <1>3, <2>1
<1>5. ASSUME NEW s \in SUBSET byes, NEW x \in byes, NEW f \in good[s \ {x}], x \in s
      PROVE  Advance(f, x) \in good[s]
  <2> DEFINE a == Advance(f, x)
             fed == xs \cup s
  <2>0. s \ {x} \in SUBSET byes OBVIOUS
  <2>1. f \in [D -> Match] /\ SameResults(f, ms, stage) /\ Feed(f, xs \cup (s \ {x}))
    BY <1>5, <2>0
  <2>2. x \in D /\ ms[x].stage = stage /\ fed \subseteq D OBVIOUS
  <2>3. x \in fed BY <1>5
  <2>4. f \in Seq(Match) /\ DOMAIN f = D /\ f[x].stage = stage BY <2>1, <2>2 DEF SameResults, Stands
  <2>5. Feed(f, fed \ {x}) BY <2>1 DEF Feed
  <2> HIDE DEF a, fed, D
  <2>6. SameResults(a, f, f[x].stage) /\ Feed(a, fed \cup {x})
    <3>1. fed \in SUBSET DOMAIN f /\ x \in DOMAIN f BY <2>2, <2>4
    <3> QED BY <2>4, <2>5, <3>1, AdvanceFeeds DEF a
  <2>7. SameResults(a, ms, stage) BY <2>1, <2>4, <2>6, StandsOn DEF SameResults, Stands, D
  <2>8. fed \cup {x} = fed BY <2>3
  <2>9. a \in [D -> Match]
    <3>1. a \in Seq(Match) /\ DOMAIN a = D BY <2>7 DEF SameResults, Stands, D
    <3> QED BY <3>1
  <2> QED BY <2>6, <2>7, <2>8, <2>9 DEF a, fed
<1>6. good \in [SUBSET byes -> SUBSET [D -> Match]] OBVIOUS
<1> DEFINE all == byes
<1>7. all = {x \in DOMAIN ms : ms[x].stage = stage /\ ms[x].winner # Nobody} OBVIOUS
<1>8. /\ good \in [SUBSET all -> SUBSET [D -> Match]]
      /\ \A s \in SUBSET all, x \in all : \A f \in good[s \ {x}] :
           x \in s => Advance(f, x) \in good[s]
  BY <1>5, <1>6
<1>9. good[all] = {f \in [D -> Match] : SameResults(f, ms, stage) /\ Feed(f, xs \cup all)} OBVIOUS
<1> HIDE DEF D, good, all
<1>10. all \in SUBSET D BY <1>7 DEF D
<1>14. PICK it : /\ Folded(it, ms, all)
                 /\ FSets!FoldSet(LAMBDA x, acc : Advance(acc, x), ms, all) = it[all]
  BY <1>1, <1>2, <1>10, ByesFold
<1>15. IsFiniteSet(all) BY <1>1, <1>10, FS_Subset
<1>11. it[all] \in good[all] BY <1>4, <1>8, <1>14, <1>15, ByesLead
<1>12. new = FSets!FoldSet(LAMBDA x, acc : Advance(acc, x), ms, all)
  BY <1>7 DEF AdvanceByes
<1>13. new \in good[all] BY <1>11, <1>12, <1>14
<1> QED BY <1>9, <1>13 DEF all

\* The brackets here are those of the lemmas about the score board.
LEMMA KnockoutsAlike == \A stage, n : Knockout(stage, n) = Board!Knockout(stage, n)
<1>1. \A n : NextPow2(n) = Board!NextPow2(n) BY DEF NextPow2, Board!NextPow2
<1>2. \A n : Log2(n) = Board!Log2(n) BY DEF Log2, Board!Log2
<1>3. \A stage, r : EmptyMatch(stage, r) = Board!EmptyMatch(stage, r)
  BY DEF EmptyMatch, Board!EmptyMatch, Nobody, Board!Nobody
<1>4. \A stage, r, c : EmptyRound(stage, r, c) = Board!EmptyRound(stage, r, c)
  BY <1>3 DEF EmptyRound, Board!EmptyRound
<1>5. \A stage, r, a, b : Pairing(stage, r, a, b) = Board!Pairing(stage, r, a, b)
  BY <1>3 DEF Pairing, Board!Pairing, Nobody, Board!Nobody
<1>6. \A n, size : SnakeSeed(n, size) = Board!SnakeSeed(n, size)
  BY DEF SnakeSeed, Board!SnakeSeed, Nobody, Board!Nobody
<1>7. \A n, stage : FirstRound(stage, n) = Board!FirstRound(stage, n)
  BY <1>1, <1>5, <1>6 DEF FirstRound, Board!FirstRound
<1>8. \A s : Seqs!FlattenSeq(s) = Board!Seqs!FlattenSeq(s)
  BY DEF Seqs!FlattenSeq, Board!Seqs!FlattenSeq
<1> QED BY <1>1, <1>2, <1>4, <1>7, <1>8 DEF Knockout, Board!Knockout

\* Matches of a bracket that was generated: only round 1 of a knockout has participants.
Fresh(stages) ==
  {m \in Match : /\ m.stage \in stages /\ m.round # 0 /\ m.status # "completed"
                 /\ m.winner = Nobody <=> m.status = "pending"
                 /\ \/ m.stage \in {"main", "winners"} /\ m.round = 1
                    \/ m.p1 = Nobody /\ m.p2 = Nobody /\ m.winner = Nobody}

LEMMA EmptyIsFresh ==
  ASSUME NEW stages \in SUBSET Stages, NEW stage \in stages, NEW r \in Nat \ {0}, NEW c \in Nat
  PROVE  EmptyMatch(stage, r) \in Fresh(stages) /\ EmptyRound(stage, r, c) \in Seq(Fresh(stages))
<1> DEFINE m == EmptyMatch(stage, r)
<1>1. m \in Match BY DEF EmptyMatch, Match, Nobody
<1>2. /\ m.stage = stage /\ m.round = r /\ m.status = "pending"
      /\ m.p1 = Nobody /\ m.p2 = Nobody /\ m.winner = Nobody
  BY DEF EmptyMatch
<1>3. EmptyRound(stage, r, c) = [x \in 1..c |-> m] BY DEF EmptyRound
<1> HIDE DEF m
<1>4. m \in Fresh(stages) BY <1>1, <1>2 DEF Fresh
<1>5. [x \in 1..c |-> m] \in Seq(Fresh(stages)) BY <1>4
<1> QED BY <1>3, <1>4, <1>5 DEF m

LEMMA KnockoutIsFresh ==
  ASSUME NEW stage \in {"main", "winners"}, NEW n \in Nat, n >= 2
  PROVE  Knockout(stage, n) \in Seq(Fresh({stage}))
<1> DEFINE ms == Knockout(stage, n)
           S == Fresh({stage})
<1>1. stage \in Stages /\ stage \in Board!Stages /\ {stage} \in SUBSET Stages
  BY DEF Stages, Board!Stages
<1>2. PICK h \in Nat \ {0} : Board!Holds(n, h) BY Board!SizeIsPower DEF Board!Holds
<1>3. /\ ms \in Seq(Match) /\ Len(ms) = 2 ^ h - 1
      /\ \A i \in 1..(2 ^ (h - 1)) : ms[i] = Pairing(stage, 1, i, Board!Opponent(n, h, i))
      /\ \A r \in 2..h : \A x \in Board!Row(h, r) : ms[x] = EmptyMatch(stage, r)
  <2> DEFINE bm == Board!Knockout(stage, n)
  <2>1. /\ bm \in Seq(Board!Match) /\ Len(bm) = 2 ^ h - 1
        /\ \A i \in 1..(2 ^ (h - 1)) : bm[i] = Board!Pairing(stage, 1, i, Board!Opponent(n, h, i))
        /\ \A r \in 2..h : \A x \in Board!Row(h, r) : bm[x] = Board!EmptyMatch(stage, r)
    BY <1>1, <1>2, Board!KnockoutIs
  <2>2. ms = bm BY KnockoutsAlike
  <2>3. Board!Match = Match BY DEF Match, Board!Match, Stages, Board!Stages
  <2>4. \A s, r : EmptyMatch(s, r) = Board!EmptyMatch(s, r)
    BY DEF EmptyMatch, Board!EmptyMatch, Nobody, Board!Nobody
  <2>5. \A s, r, a, b : Pairing(s, r, a, b) = Board!Pairing(s, r, a, b)
    BY <2>4 DEF Pairing, Board!Pairing, Nobody, Board!Nobody
  <2> HIDE DEF ms, bm
  <2> QED BY <2>1, <2>2, <2>3, <2>4, <2>5
<1> HIDE DEF ms
<1>4. 2 ^ h \in Nat /\ 2 ^ (h - 1) \in Nat /\ Board!Row(h, 1) = 1..(2 ^ (h - 1))
  <2>1. 1 \in 1..h OBVIOUS
  <2>2. /\ 2 ^ h \in Nat /\ 2 ^ (h - 1) \in Nat
        /\ Board!Line(h, 1) = 0 /\ Board!Line(h, 2) = 2 ^ (h - 1)
    BY <2>1, Board!Lines
  <2> QED BY <2>2 DEF Board!Row
<1>5. ASSUME NEW x \in DOMAIN ms PROVE ms[x] \in S
  <2>1. x \in 1..(2 ^ h - 1) BY <1>3, <1>4
  <2>2. PICK r \in 1..h : x \in Board!Row(h, r) BY <2>1, Board!RowsCover
  <2>3. CASE r = 1
    <3> DEFINE b == Board!Opponent(n, h, x)
    <3>1. x \in 1..(2 ^ (h - 1)) BY <1>4, <2>2, <2>3
    <3>2. b \in Nat
      <4> DEFINE N == 2 ^ h
      <4>1. N \in Nat /\ x \in 1..(N - 1) BY <1>4, <2>1
      <4>2. b = IF N - x + 1 <= n THEN N - x + 1 ELSE 0 BY DEF Board!Opponent, Board!Nobody
      <4> HIDE DEF N, b
      <4> QED BY <4>1, <4>2
    <3>3. ms[x] = Pairing(stage, 1, x, b) BY <1>3, <3>1
    <3> DEFINE m == Pairing(stage, 1, x, b)
    <3> HIDE DEF b
    <3>4. /\ m \in Match /\ m.stage = stage /\ m.round = 1 /\ m.p1 = x /\ m.p2 = b
          /\ m.status = IF x = Nobody \/ b = Nobody THEN "bye" ELSE "pending"
          /\ m.winner = IF x = Nobody THEN b ELSE IF b = Nobody THEN x ELSE Nobody
      BY <1>1, <3>1, <3>2, PairingIs
    <3>5. x # Nobody BY <3>1 DEF Nobody
    <3> HIDE DEF m
    <3>6. m \in S BY <3>4, <3>5 DEF Fresh
    <3> QED BY <3>3, <3>6 DEF m
  <2>4. CASE r # 1
    <3>1. ms[x] = EmptyMatch(stage, r) BY <1>3, <2>2, <2>4
    <3>2. r \in Nat \ {0} /\ 0 \in Nat OBVIOUS
    <3>3. EmptyMatch(stage, r) \in S BY <1>1, <3>2, EmptyIsFresh
    <3> QED BY <3>1, <3>3
  <2> QED BY <2>3, <2>4
<1> HIDE DEF S
<1>6. DOMAIN ms = 1..Len(ms) /\ Len(ms) \in Nat BY <1>3
<1>7. ms \in Seq(S) BY <1>3, <1>5, <1>6
<1> QED BY <1>7 DEF ms, S

\* The byes that are advanced fill the seats of round 2, the other seats stay free.
LEMMA ByesOpen ==
  ASSUME NEW stages, NEW ms \in Seq(Fresh(stages)), NEW stage, NEW new, new = AdvanceByes(ms, stage)
  PROVE  /\ SameResults(new, ms, stage)
         /\ Feed(new, {x \in DOMAIN new : new[x].stage = stage})
<1> DEFINE D == DOMAIN ms
           rest == {x \in D : ms[x].stage = stage /\ ms[x].winner = Nobody}
           byes == {x \in D : ms[x].stage = stage /\ ms[x].winner # Nobody}
<1>1. ms \in Seq(Match) /\ \A x \in D : ms[x] \in Fresh(stages) BY DEF Fresh
<1>2. Feed(ms, rest)
  <2> SUFFICES ASSUME NEW x \in rest, NEW y \in NextMatch(ms, x)
               PROVE  SeatOf(ms[y], NextSide(ms, x)) = ms[x].winner
    BY DEF Feed
  <2>1. ms[y].round = ms[x].round + 1 /\ y \in D BY DEF NextMatch, MatchAt, RoundOf
  <2>2. ms[x] \in Fresh(stages) /\ ms[y] \in Fresh(stages) BY <1>1, <2>1
  <2>3. ms[x].round \in Nat /\ ms[x].round # 0 BY <2>2 DEF Fresh, Match
  <2>4. ms[y].round # 1 BY <2>1, <2>3
  <2>5. ms[y].p1 = Nobody /\ ms[y].p2 = Nobody BY <2>2, <2>4 DEF Fresh
  <2> QED BY <2>5 DEF SeatOf
<1>3. rest \in SUBSET DOMAIN ms OBVIOUS
<1>4. rest \cup byes = {x \in D : ms[x].stage = stage} OBVIOUS
<1> HIDE DEF rest
<1>5. SameResults(new, ms, stage) /\ Feed(new, rest \cup byes) BY <1>1, <1>2, <1>3, ByesFeed
<1>6. {x \in DOMAIN new : new[x].stage = stage} = {x \in D : ms[x].stage = stage}
  BY <1>5 DEF SameResults, Stands
<1> QED BY <1>4, <1>5, <1>6

-----------------------------------------------------------------------------
(* Results seat players.                                                   *)

\* The matches of a knockout whose winners move on.
Winners == {"main", "winners", "playoff"}
WonIn(ms) == {x \in DOMAIN ms : ms[x].stage \in Winners /\ ms[x].winner # Nobody}

\* A score closes one match and leaves all seats alone.
LEMMA ScoredIs ==
  ASSUME NEW ms \in Seq(Match), NEW x \in DOMAIN ms, NEW win \in Result,
         NEW done, done = SetResult(ms, x, win)
  PROVE  /\ done \in Seq(Match) /\ Stands(done, ms)
         /\ \A y \in DOMAIN ms \ {x} : done[y] = ms[y]
         /\ done[x].p1 = ms[x].p1 /\ done[x].p2 = ms[x].p2
         /\ done[x].status = "completed"
         /\ done[x].winner = IF win.side = 1 THEN ms[x].p1 ELSE ms[x].p2
<1>1. ms \in [DOMAIN ms -> Match] OBVIOUS
<1>2. /\ done \in [DOMAIN ms -> Match]
      /\ \A y \in DOMAIN ms \ {x} : done[y] = ms[y]
      /\ done[x].status = "completed"
      /\ done[x].winner = IF win.side = 1 THEN ms[x].p1 ELSE ms[x].p2
      /\ done[x].p1 = ms[x].p1 /\ done[x].p2 = ms[x].p2
      /\ done[x].stage = ms[x].stage /\ done[x].round = ms[x].round
  BY <1>1, ResultIs
<1>3. done \in Seq(Match)
  <2>1. DOMAIN done = 1..Len(ms) /\ Len(ms) \in Nat BY <1>2
  <2> QED BY <1>2, <2>1
<1>4. Stands(done, ms) BY <1>2 DEF Stands
<1> QED BY <1>2, <1>3, <1>4

\* Whoever else was fed is.
LEMMA ScoreFeeds ==
  ASSUME NEW ms, NEW xs \in SUBSET DOMAIN ms, Feed(ms, xs), NEW x, NEW done, Stands(done, ms),
         \A y \in DOMAIN ms \ {x} : done[y] = ms[y],
         x \in DOMAIN ms => done[x].p1 = ms[x].p1 /\ done[x].p2 = ms[x].p2
  PROVE  Feed(done, xs \ {x})
<1> SUFFICES ASSUME NEW z \in xs \ {x}, NEW y \in NextMatch(done, z)
             PROVE  SeatOf(done[y], NextSide(done, z)) = done[z].winner
  BY DEF Feed
<1>1. z \in DOMAIN ms /\ done[z] = ms[z] OBVIOUS
<1>2. NextMatch(done, z) = NextMatch(ms, z) /\ NextSide(done, z) = NextSide(ms, z)
  BY <1>1, StandsAlike
<1>3. y \in DOMAIN ms BY <1>2 DEF NextMatch, MatchAt, RoundOf
<1>4. done[y].p1 = ms[y].p1 /\ done[y].p2 = ms[y].p2 BY <1>3
<1>5. SeatOf(ms[y], NextSide(ms, z)) = ms[z].winner BY <1>2 DEF Feed
<1> QED BY <1>1, <1>2, <1>4, <1>5 DEF SeatOf

\* A score and what it advances, in a knockout with one bracket.
LEMMA SingleScored ==
  ASSUME NEW ms \in Seq(Match), Feed(ms, WonIn(ms)), NEW x \in DOMAIN ms, NEW win \in Result,
         NEW new, new = ApplySingle(ms, x, win)
  PROVE  new \in Seq(Match) /\ Stands(new, ms) /\ Feed(new, WonIn(new))
<1> DEFINE done == SetResult(ms, x, win)
<1>1. /\ done \in Seq(Match) /\ Stands(done, ms)
      /\ \A y \in DOMAIN ms \ {x} : done[y] = ms[y]
      /\ done[x].p1 = ms[x].p1 /\ done[x].p2 = ms[x].p2
  BY ScoredIs
<1>2. new = Advance(done, x) BY DEF ApplySingle
<1> HIDE DEF done
<1>3. Feed(done, WonIn(ms) \ {x})
  <2> DEFINE ws == WonIn(ms)
  <2>1. ws \in SUBSET DOMAIN ms /\ Feed(ms, ws) BY DEF WonIn
  <2> HIDE DEF ws
  <2>2. Feed(done, ws \ {x}) BY <1>1, <2>1, ScoreFeeds
  <2> QED BY <2>2 DEF ws
<1> DEFINE xs == WonIn(ms) \ {x}
<1>4. xs \in SUBSET DOMAIN done /\ xs \ {x} = xs /\ x \in DOMAIN done BY <1>1 DEF WonIn, Stands
<1>5. Feed(done, xs \ {x}) BY <1>3, <1>4
<1> HIDE DEF xs
<1>6. SameResults(new, done, done[x].stage) /\ Feed(new, xs \cup {x})
  BY <1>1, <1>2, <1>4, <1>5, AdvanceFeeds
<1>7. new \in Seq(Match) /\ Stands(new, ms) BY <1>1, <1>6, StandsOn DEF SameResults
<1>8. WonIn(new) \subseteq xs \cup {x}
  <2> SUFFICES ASSUME NEW y \in WonIn(new), y # x PROVE y \in xs OBVIOUS
  <2>1. y \in DOMAIN ms BY <1>7 DEF WonIn, Stands
  <2>2. new[y].winner = ms[y].winner /\ new[y].stage = ms[y].stage
    BY <1>1, <1>6, <1>7, <2>1 DEF SameResults, Stands
  <2> QED BY <2>1, <2>2 DEF WonIn, xs
<1> QED BY <1>6, <1>7, <1>8 DEF Feed

\* Double elimination: the winners' bracket, and the losers' matches of even rounds, whose
\* second seats are for those who drop.
Upper(ms) == {x \in DOMAIN ms : ms[x].stage = "winners"}
Even(ms) == {y \in DOMAIN ms : ms[y].stage = "losers" /\ ms[y].round % 2 = 0}
Fall(ms, x) == MatchAt(ms, "losers", LosersTarget(ms[x].round), Position(ms, x))

\* Nothing of the winners' bracket changes, none of those second seats does.
SameUpper(new, old) ==
  new \in Seq(Match) /\ Stands(new, old) /\ \A x \in Upper(old) : new[x] = old[x]
SameEven(new, old) == \A y \in Even(old) : new[y].p2 = old[y].p2

\* What is true of the winners' bracket while no score is corrected.
Settled(ms) == \A x \in Upper(ms) :
  /\ ms[x].winner = Nobody <=> ms[x].status = "pending"
  /\ ms[x].status = "completed" => ms[x].p1 # Nobody /\ ms[x].p2 # Nobody

\* Who has lost after round 1 sits where he falls, and nobody else does.
Dropped(ms) == \A x \in Upper(ms) : ms[x].round # 1 => \A y \in Fall(ms, x) :
  ms[y].p2 = IF ms[x].status = "completed" THEN Loser(ms[x]) ELSE Nobody

LEMMA UpperIs ==
  ASSUME NEW new, NEW old, SameUpper(new, old)
  PROVE  /\ Upper(new) = Upper(old) /\ Even(new) = Even(old)
         /\ \A x \in DOMAIN old : Fall(new, x) = Fall(old, x)
         /\ Feed(old, Upper(old)) => Feed(new, Upper(new))
         /\ Settled(old) => Settled(new)
<1>1. Stands(new, old) BY DEF SameUpper
<1>2. Upper(new) = Upper(old) /\ Even(new) = Even(old) BY <1>1 DEF Stands, Upper, Even
<1>3. \A x \in DOMAIN old : Fall(new, x) = Fall(old, x)
  <2> SUFFICES ASSUME NEW x \in DOMAIN old PROVE Fall(new, x) = Fall(old, x) OBVIOUS
  <2>1. Position(new, x) = Position(old, x) /\ new[x].round = old[x].round
    BY <1>1, StandsAlike DEF Stands
  <2> QED BY <1>1, <2>1, StandsAlike DEF Fall
<1>4. ASSUME Feed(old, Upper(old)) PROVE Feed(new, Upper(new))
  <2> SUFFICES ASSUME NEW x \in Upper(old), NEW y \in NextMatch(new, x)
               PROVE  SeatOf(new[y], NextSide(new, x)) = new[x].winner
    BY <1>2 DEF Feed
  <2>1. x \in DOMAIN old BY DEF Upper
  <2>2. NextMatch(new, x) = NextMatch(old, x) /\ NextSide(new, x) = NextSide(old, x)
    BY <1>1, <2>1, StandsAlike
  <2>3. y \in Upper(old) BY <2>2 DEF NextMatch, MatchAt, RoundOf, Upper
  <2>4. new[x] = old[x] /\ new[y] = old[y] BY <2>3 DEF SameUpper
  <2>5. SeatOf(old[y], NextSide(old, x)) = old[x].winner BY <1>4, <2>2 DEF Feed
  <2> QED BY <2>2, <2>4, <2>5
<1>5. ASSUME Settled(old) PROVE Settled(new)
  BY <1>2, <1>5 DEF SameUpper, Settled
<1> QED BY <1>2, <1>3, <1>4, <1>5

\* Rounds after the first fall into even rounds.
LEMMA FallIsEven ==
  ASSUME NEW ms \in Seq(Match), NEW x \in DOMAIN ms, ms[x].round # 0, ms[x].round # 1
  PROVE  Fall(ms, x) \subseteq Even(ms)
<1> SUFFICES ASSUME NEW y \in Fall(ms, x) PROVE y \in Even(ms) OBVIOUS
<1> DEFINE r == ms[x].round
<1>1. r \in Nat
  <2>1. ms[x] \in Match OBVIOUS
  <2> QED BY <2>1 DEF Match
<1>2. y \in DOMAIN ms /\ ms[y].stage = "losers" /\ ms[y].round = 2 * (r - 1)
  BY DEF Fall, MatchAt, RoundOf, LosersTarget
<1> HIDE DEF r
<1>3. r - 1 \in Nat BY <1>1 DEF r
<1>4. \A k \in Nat : (2 * k) % 2 = 0 OBVIOUS
<1>5. (2 * (r - 1)) % 2 = 0 BY <1>3, <1>4
<1> QED BY <1>2, <1>5 DEF Even

LEMMA DroppedOn ==
  ASSUME NEW new, NEW old \in Seq(Match), SameUpper(new, old), SameEven(new, old), Dropped(old),
         \A x \in DOMAIN old : old[x].round # 0
  PROVE  Dropped(new)
<1> SUFFICES ASSUME NEW x \in Upper(new), new[x].round # 1, NEW y \in Fall(new, x)
             PROVE  new[y].p2 = IF new[x].status = "completed" THEN Loser(new[x]) ELSE Nobody
  BY DEF Dropped
<1>1. x \in Upper(old) /\ x \in DOMAIN old /\ y \in Fall(old, x)
  <2>1. x \in Upper(old) BY UpperIs
  <2>2. x \in DOMAIN old BY <2>1 DEF Upper
  <2> QED BY <2>1, <2>2, UpperIs
<1>2. new[x] = old[x] BY <1>1 DEF SameUpper
<1>3. y \in Even(old) BY <1>1, <1>2, FallIsEven
<1>4. old[y].p2 = IF old[x].status = "completed" THEN Loser(old[x]) ELSE Nobody
  BY <1>1, <1>2 DEF Dropped
<1> QED BY <1>2, <1>3, <1>4 DEF SameEven

\* Seats below the winners' bracket.
LEMMA SeatBelow ==
  ASSUME NEW ms \in Seq(Match), NEW T, \A y \in T : y \in DOMAIN ms /\ ms[y].stage # "winners",
         NEW side, NEW player \in Nat, NEW new, new = Seat(ms, T, side, player)
  PROVE  /\ SameUpper(new, ms)
         /\ side = 1 \/ T \cap Even(ms) = {} => SameEven(new, ms)
         /\ side = 2 => \A y \in Even(ms) : new[y].p2 = IF y \in T THEN player ELSE ms[y].p2
<1>1. /\ new \in Seq(Match) /\ Stands(new, ms)
      /\ \A y \in DOMAIN ms :
           /\ y \notin T => new[y] = ms[y]
           /\ side = 1 => new[y].p2 = ms[y].p2
           /\ y \in T => SeatOf(new[y], side) = player
  BY SeatIs
<1>2. SameUpper(new, ms) BY <1>1 DEF SameUpper, Upper
<1>3. side = 1 \/ T \cap Even(ms) = {} => SameEven(new, ms) BY <1>1 DEF SameEven, Even
<1>4. side = 2 => \A y \in Even(ms) : new[y].p2 = IF y \in T THEN player ELSE ms[y].p2
  BY <1>1 DEF Even, SeatOf
<1> QED BY <1>2, <1>3, <1>4

\* A position has one match.
LEMMA FallIsOne ==
  ASSUME NEW ms \in Seq(Match), NEW stage, NEW r, NEW p,
         NEW a \in MatchAt(ms, stage, r, p), NEW b \in MatchAt(ms, stage, r, p)
  PROVE  a = b
<1>1. /\ a \in DOMAIN ms /\ ms[a].stage = stage /\ ms[a].round = r /\ Position(ms, a) = p
      /\ b \in DOMAIN ms /\ ms[b].stage = stage /\ ms[b].round = r /\ Position(ms, b) = p
  BY DEF MatchAt, RoundOf
<1> QED BY <1>1, PositionsDiffer

\* The fold of SendLoser has one match to take, or none.
FreeSeat(m) == IF m.p2 = Nobody THEN 2 ELSE 1
OpenFold(ms, open, player) ==
  FSets!FoldSet(LAMBDA y, acc : Seat(acc, {y}, FreeSeat(ms[y]), player), ms, open)

LEMMA SeatOpen ==
  ASSUME NEW ms, NEW open, \A a, b \in open : a = b, NEW loser
  PROVE  OpenFold(ms, open, loser) =
           IF open = {} THEN ms ELSE Seat(ms, open, FreeSeat(ms[CHOOSE y \in open : TRUE]), loser)
<1> DEFINE Put(y, acc) == Seat(acc, {y}, FreeSeat(ms[y]), loser)
           Pick(s) == CHOOSE y \in s : TRUE
           F(f) == [s \in SUBSET open |-> IF s = {} THEN ms ELSE Put(Pick(s), f[s \ {Pick(s)}])]
           it == CHOOSE f : f = F(f)
           g == [s \in SUBSET open |-> IF s = {} THEN ms ELSE Put(Pick(s), ms)]
<1>1. OpenFold(ms, open, loser) = it[open]
  BY DEF OpenFold, FSets!FoldSet, FSets!MapThenFoldSet
<1>2. \A s \in SUBSET open : s # {} => s \ {Pick(s)} = {}
  <2> SUFFICES ASSUME NEW s \in SUBSET open, s # {} PROVE s \ {Pick(s)} = {} OBVIOUS
  <2>1. Pick(s) \in s OBVIOUS
  <2> QED BY <2>1
<1>3. g = F(g)
  <2> HIDE DEF Put, Pick
  <2>1. \A s \in SUBSET open : g[s] = IF s = {} THEN ms ELSE Put(Pick(s), ms) OBVIOUS
  <2>2. g[{}] = ms BY <2>1
  <2>3. ASSUME NEW s \in SUBSET open
        PROVE  g[s] = IF s = {} THEN ms ELSE Put(Pick(s), g[s \ {Pick(s)}])
    <3>1. CASE s = {} BY <2>1, <3>1
    <3>2. CASE s # {}
      <4>1. s \ {Pick(s)} = {} BY <1>2, <3>2
      <4> HIDE DEF g
      <4> QED BY <2>1, <2>2, <3>2, <4>1
    <3> QED BY <3>1, <3>2
  <2> QED BY <2>3
<1>4. it = F(it) BY <1>3
<1> HIDE DEF it
<1>5. \A s \in SUBSET open : it[s] = IF s = {} THEN ms ELSE Put(Pick(s), it[s \ {Pick(s)}])
  BY <1>4
<1>6. it[{}] = ms BY <1>5
<1>7. CASE open = {} BY <1>1, <1>6, <1>7
<1>8. CASE open # {}
  <2> DEFINE y == Pick(open)
  <2>1. y \in open /\ {y} = open
    <3>1. y \in open BY <1>8
    <3> HIDE DEF y
    <3> QED BY <3>1
  <2>2. open \ {y} = {} BY <1>2, <1>8
  <2>3. it[open] = Put(y, it[open \ {y}])
    <3> HIDE DEF Put, Pick
    <3> QED BY <1>5, <1>8
  <2>4. it[open] = Put(y, ms)
    <3> HIDE DEF Put, y
    <3> QED BY <1>6, <2>2, <2>3
  <2> QED BY <1>1, <1>8, <2>1, <2>4
<1> QED BY <1>7, <1>8

\* The losers of round 1 take seats of round 1.
LEMMA FirstFall ==
  ASSUME NEW ms \in Seq(Match), NEW T,
         \A y \in T : y \in DOMAIN ms /\ ms[y].stage = "losers" /\ ms[y].round = 1,
         NEW side, NEW player \in Nat, NEW new, new = Seat(ms, T, side, player)
  PROVE  SameUpper(new, ms) /\ SameEven(new, ms)
<1>1. \A y \in T : y \in DOMAIN ms /\ ms[y].stage # "winners" OBVIOUS
<1>2. T \cap Even(ms) = {} BY DEF Even
<1>3. /\ new \in Seq(Match) /\ Stands(new, ms)
      /\ \A y \in DOMAIN ms : y \notin T => new[y] = ms[y]
  BY SeatIs
<1>4. SameUpper(new, ms) BY <1>1, <1>3 DEF SameUpper, Upper
<1> QED BY <1>2, <1>3, <1>4 DEF SameEven, Even

\* The later ones take a seat of the match they fall into, the second if it is free.
Target(ms, T, open) ==
  /\ \A y \in T : y \in DOMAIN ms /\ ms[y].stage = "losers"
  /\ \A a, b \in T : a = b
  /\ \A y : y \in open <=> y \in T /\ Nobody \in {ms[y].p1, ms[y].p2}
SecondSeats(new, ms, T, player) ==
  (\A y \in T : ms[y].p2 = Nobody)
    => \A y \in Even(ms) : new[y].p2 = IF y \in T THEN player ELSE ms[y].p2

LEMMA LaterFall ==
  ASSUME NEW ms \in Seq(Match), NEW T, NEW open, Target(ms, T, open), NEW player \in Nat,
         NEW new, new = OpenFold(ms, open, player)
  PROVE  SameUpper(new, ms) /\ SecondSeats(new, ms, T, player)
<1>0. /\ \A y \in T : y \in DOMAIN ms /\ ms[y].stage = "losers"
      /\ \A a, b \in T : a = b
      /\ \A y : y \in open <=> y \in T /\ Nobody \in {ms[y].p1, ms[y].p2}
  BY DEF Target
<1>1. \A a, b \in open : a = b BY <1>0
<1> DEFINE seat == FreeSeat(ms[CHOOSE y \in open : TRUE])
<1>2. new = IF open = {} THEN ms ELSE Seat(ms, open, seat, player)
  BY <1>1, SeatOpen
<1>3. CASE open = {}
  <2>1. new = ms BY <1>2, <1>3
  <2>2. SameUpper(new, ms) BY <2>1 DEF SameUpper, Stands
  <2>3. ASSUME \A y \in T : ms[y].p2 = Nobody PROVE T = {} BY <1>0, <1>3, <2>3
  <2> QED BY <2>1, <2>2, <2>3 DEF SecondSeats
<1>4. CASE open # {}
  <2>1. new = Seat(ms, open, seat, player) BY <1>2, <1>4
  <2>2. \A y \in open : y \in DOMAIN ms /\ ms[y].stage # "winners" BY <1>0
  <2>3. ASSUME \A y \in T : ms[y].p2 = Nobody PROVE seat = 2 /\ open = T
    <3>1. (CHOOSE y \in open : TRUE) \in T BY <1>0, <1>4
    <3>2. seat = 2 BY <2>3, <3>1 DEF FreeSeat
    <3> QED BY <1>0, <2>3, <3>2
  <2> HIDE DEF seat
  <2>4. /\ SameUpper(new, ms)
        /\ seat = 2 => \A y \in Even(ms) : new[y].p2 = IF y \in open THEN player ELSE ms[y].p2
    BY <2>1, <2>2, SeatBelow
  <2> QED BY <2>3, <2>4 DEF SecondSeats
<1> QED BY <1>3, <1>4

\* Who drops takes the second seat where he falls, if it is free; the winners' bracket
\* is not touched.
LEMMA LoserSent ==
  ASSUME NEW ms \in Seq(Match), NEW x \in Upper(ms), NEW new, new = SendLoser(ms, x)
  PROVE  /\ SameUpper(new, ms)
         /\ ms[x].round = 1 => SameEven(new, ms)
         /\ ms[x].round # 1 /\ Loser(ms[x]) # Nobody /\ (\A y \in Fall(ms, x) : ms[y].p2 = Nobody)
            => \A y \in Even(ms) : new[y].p2 = IF y \in Fall(ms, x) THEN Loser(ms[x]) ELSE ms[y].p2
<1> DEFINE loser == Loser(ms[x])
           target == Fall(ms, x)
           first == MatchAt(ms, "losers", LosersTarget(ms[x].round), Position(ms, x) \div 2)
           side == NextSide(ms, x)
           open == {y \in target : Nobody \in {ms[y].p1, ms[y].p2}}
<1>1. new = IF loser = Nobody THEN ms
            ELSE IF ms[x].round = 1 THEN Seat(ms, first, side, loser)
            ELSE OpenFold(ms, open, loser)
  BY DEF SendLoser, FreeSeat, Fall, OpenFold
<1>2. x \in DOMAIN ms /\ ms[x] \in Match BY DEF Upper
<1>3. loser \in Nat BY <1>2 DEF Loser, Match
<1>4. SameUpper(ms, ms) /\ SameEven(ms, ms) BY DEF SameUpper, Stands, SameEven
<1>5. CASE loser = Nobody BY <1>1, <1>4, <1>5
<1>6. CASE loser # Nobody /\ ms[x].round = 1
  <2>1. \A y \in first : y \in DOMAIN ms /\ ms[y].stage = "losers" /\ ms[y].round = 1
    BY <1>6 DEF MatchAt, RoundOf, LosersTarget
  <2>2. new = Seat(ms, first, side, loser) BY <1>1, <1>6
  <2> HIDE DEF first, side, loser
  <2>3. SameUpper(new, ms) /\ SameEven(new, ms) BY <1>3, <2>1, <2>2, FirstFall
  <2> QED BY <1>6, <2>3
<1>7. CASE loser # Nobody /\ ms[x].round # 1
  <2>1. \A y \in target : y \in DOMAIN ms /\ ms[y].stage = "losers"
    BY DEF Fall, MatchAt, RoundOf
  <2>2. \A a, b \in target : a = b BY FallIsOne DEF Fall
  <2>3. new = OpenFold(ms, open, loser) BY <1>1, <1>7
  <2>4. Target(ms, target, open) BY <2>1, <2>2 DEF Target
  <2> HIDE DEF target, loser, open
  <2>5. SameUpper(new, ms) /\ SecondSeats(new, ms, target, loser)
    BY <1>3, <2>3, <2>4, LaterFall
  <2> QED BY <1>7, <2>5 DEF target, loser, SecondSeats
<1> QED BY <1>5, <1>6, <1>7

\* The grand final is neither.
LEMMA FinalSeat ==
  ASSUME NEW ms \in Seq(Match), NEW side, NEW player \in Nat,
         NEW new, new = Seat(ms, GrandFinal(ms), side, player)
  PROVE  SameUpper(new, ms) /\ SameEven(new, ms)
<1>1. /\ new \in Seq(Match) /\ Stands(new, ms)
      /\ \A y \in DOMAIN ms : y \notin GrandFinal(ms) => new[y] = ms[y]
  BY SeatIs
<1>2. \A y \in GrandFinal(ms) : ms[y].stage = "grand-final" BY DEF GrandFinal, RoundOf
<1> QED BY <1>1, <1>2 DEF SameUpper, SameEven, Upper, Even

\* What a winner's advance changes in the winners' bracket.
Advanced(new, ms, x) ==
  /\ new \in Seq(Match) /\ Stands(new, ms) /\ SameEven(new, ms) /\ Feed(new, Upper(new))
  /\ \A z \in Upper(ms) : /\ new[z].winner = ms[z].winner /\ new[z].status = ms[z].status
                          /\ new[z].p1 \in {ms[z].p1, ms[x].winner}
                          /\ new[z].p2 \in {ms[z].p2, ms[x].winner}
                          /\ z \notin NextMatch(ms, x) => new[z] = ms[z]

LEMMA WinnerAdvances ==
  ASSUME NEW ms \in Seq(Match), NEW x \in Upper(ms), Feed(ms, Upper(ms) \ {x}),
         NEW new, new = AdvanceWinner(ms, x)
  PROVE  Advanced(new, ms, x)
<1> DEFINE U == Upper(ms)
           side == NextSide(ms, x)
           T == NextMatch(ms, x)
           player == ms[x].winner
<1>1. x \in DOMAIN ms /\ ms[x].stage = "winners" /\ U \in SUBSET DOMAIN ms BY DEF Upper
<1>2. player \in Nat
  <2>1. ms[x] \in Match BY <1>1
  <2> QED BY <2>1 DEF Match
<1>3. U \cup {x} = U OBVIOUS
<1>4. CASE T # {}
  <2>1. new = Advance(ms, x) BY <1>4 DEF AdvanceWinner
  <2>2. new = Seat(ms, T, side, player) BY <2>1 DEF Advance
  <2> HIDE DEF U, T, side, player
  <2>3. Feed(ms, U \ {x}) BY DEF U
  <2>4. SameResults(new, ms, ms[x].stage) /\ Feed(new, U \cup {x}) BY <1>1, <2>1, <2>3, AdvanceFeeds
  <2>5. /\ new \in Seq(Match) /\ Stands(new, ms)
        /\ \A y \in DOMAIN ms :
             /\ new[y].winner = ms[y].winner /\ new[y].status = ms[y].status
             /\ y \notin T => new[y] = ms[y]
             /\ side # 1 => new[y].p1 = ms[y].p1
             /\ side = 1 => new[y].p2 = ms[y].p2
             /\ y \in T => SeatOf(new[y], side) = player
    BY <1>2, <2>2, SeatIs
  <2>6. Upper(new) = U BY <2>5 DEF Stands, Upper, U
  <2>7. SameEven(new, ms) BY <1>1, <2>4 DEF SameResults, SameEven, Even
  <2>8. ASSUME NEW z \in U
        PROVE  /\ new[z].p1 \in {ms[z].p1, player} /\ new[z].p2 \in {ms[z].p2, player}
               /\ new[z].winner = ms[z].winner /\ new[z].status = ms[z].status
               /\ z \notin T => new[z] = ms[z]
    <3>1. z \in DOMAIN ms BY <1>1
    <3>2. CASE z \notin T BY <2>5, <3>1, <3>2
    <3>3. CASE z \in T
      <4>1. SeatOf(new[z], side) = player BY <2>5, <3>1, <3>3
      <4> QED BY <2>5, <3>1, <3>3, <4>1 DEF SeatOf
    <3> QED BY <3>2, <3>3
  <2> QED BY <1>3, <2>4, <2>5, <2>6, <2>7, <2>8 DEF Advanced, U, T, player
<1>5. CASE T = {}
  <2> DEFINE first == 1
  <2>1. new = Seat(ms, GrandFinal(ms), first, player) BY <1>5 DEF AdvanceWinner
  <2> HIDE DEF player, first
  <2>3. SameUpper(new, ms) /\ SameEven(new, ms) BY <1>2, <2>1, FinalSeat
  <2>4. Feed(ms, U)
    <3> SUFFICES ASSUME NEW z \in U, NEW y \in NextMatch(ms, z)
                 PROVE  SeatOf(ms[y], NextSide(ms, z)) = ms[z].winner
      BY DEF Feed
    <3>1. z # x BY <1>5
    <3> QED BY <3>1 DEF Feed
  <2>5. Feed(new, Upper(new)) BY <2>3, <2>4, UpperIs
  <2> QED BY <2>3, <2>5 DEF SameUpper, Advanced
<1> QED BY <1>4, <1>5

\* Matches that fall into the same one.
LEMMA FallsDiffer ==
  ASSUME NEW ms \in Seq(Match), NEW x \in Upper(ms), NEW z \in Upper(ms),
         ms[x].round \notin {0, 1}, ms[z].round \notin {0, 1},
         NEW y \in Fall(ms, x), y \in Fall(ms, z)
  PROVE  x = z
<1> DEFINE r == ms[x].round
           q == ms[z].round
<1>1. /\ x \in DOMAIN ms /\ z \in DOMAIN ms /\ ms[x].stage = ms[z].stage
      /\ ms[x] \in Match /\ ms[z] \in Match
  BY DEF Upper
<1>2. r \in Nat /\ q \in Nat /\ r # 1 /\ q # 1 BY <1>1 DEF Match
<1>3. ms[y].round = 2 * (r - 1) /\ ms[y].round = 2 * (q - 1)
  BY <1>2 DEF Fall, MatchAt, RoundOf, LosersTarget
<1>4. r = q
  <2> HIDE DEF r, q
  <2>1. 2 * (r - 1) = 2 * (q - 1) BY <1>3
  <2> QED BY <1>2, <2>1
<1>5. Position(ms, x) = Position(ms, z) BY DEF Fall, MatchAt
<1> QED BY <1>1, <1>4, <1>5, PositionsDiffer

\* A double elimination that is being played; strict: no score was corrected.
DoubleInv(ms, strict) ==
  /\ ms \in Seq(Match)
  /\ \A x \in DOMAIN ms : ms[x].stage \in {"winners", "losers", "grand-final"} /\ ms[x].round # 0
  /\ Feed(ms, Upper(ms))
  /\ strict => Settled(ms) /\ Dropped(ms)

LEMMA BelowKeeps ==
  ASSUME NEW ms, NEW strict, DoubleInv(ms, strict), NEW new, SameUpper(new, ms), SameEven(new, ms)
  PROVE  DoubleInv(new, strict)
<1>1. /\ ms \in Seq(Match) /\ Feed(ms, Upper(ms))
      /\ \A x \in DOMAIN ms : ms[x].stage \in {"winners", "losers", "grand-final"} /\ ms[x].round # 0
  BY DEF DoubleInv
<1>2. new \in Seq(Match) /\ Stands(new, ms) BY DEF SameUpper
<1>3. \A x \in DOMAIN new : new[x].stage \in {"winners", "losers", "grand-final"} /\ new[x].round # 0
  BY <1>1, <1>2 DEF Stands
<1>4. Feed(new, Upper(new)) BY <1>1, UpperIs
<1>5. ASSUME strict PROVE Settled(new) /\ Dropped(new)
  <2>1. Settled(ms) /\ Dropped(ms) BY <1>5 DEF DoubleInv
  <2>2. Settled(new) BY <2>1, UpperIs
  <2>3. \A x \in DOMAIN ms : ms[x].round # 0 BY <1>1
  <2>4. Dropped(new) BY <1>1, <2>1, <2>3, DroppedOn
  <2> QED BY <2>2, <2>4
<1> QED BY <1>2, <1>3, <1>4, <1>5 DEF DoubleInv

LEMMA SameOn ==
  ASSUME NEW a, NEW b, NEW c, SameUpper(a, b) /\ SameEven(a, b), SameUpper(b, c) /\ SameEven(b, c)
  PROVE  SameUpper(a, c) /\ SameEven(a, c)
<1>1. Stands(a, b) /\ Stands(b, c) /\ a \in Seq(Match) BY DEF SameUpper
<1>2. Upper(b) = Upper(c) /\ Even(b) = Even(c) BY UpperIs
<1>3. Stands(a, c) BY <1>1, StandsOn
<1> QED BY <1>1, <1>2, <1>3 DEF SameUpper, SameEven

\* A score in the losers' bracket, or in the grand final.
LEMMA LosersScored ==
  ASSUME NEW ms, NEW strict, DoubleInv(ms, strict), NEW x \in DOMAIN ms \ Upper(ms),
         NEW win \in Result, NEW done, done = SetResult(ms, x, win),
         NEW new, new = done \/ (ms[x].stage = "losers" /\ new = AdvanceLosersWinner(done, x))
  PROVE  DoubleInv(new, strict)
<1>0. ms \in Seq(Match) BY DEF DoubleInv
<1>1. /\ done \in Seq(Match) /\ Stands(done, ms)
      /\ \A y \in DOMAIN ms \ {x} : done[y] = ms[y]
      /\ done[x].p1 = ms[x].p1 /\ done[x].p2 = ms[x].p2
  BY <1>0, ScoredIs
<1>2. SameUpper(done, ms) /\ SameEven(done, ms)
  BY <1>1 DEF SameUpper, SameEven, Upper, Even
<1>3. CASE new = done
  BY <1>2, <1>3, BelowKeeps
<1>4. CASE ms[x].stage = "losers" /\ new = AdvanceLosersWinner(done, x)
  <2> DEFINE player == done[x].winner
             r == done[x].round
             pos == Position(done, x)
             A == MatchAt(done, "losers", r + 1, pos)
             B == NextMatch(done, x)
             side == NextSide(done, x)
             one == 1
             two == 2
  <2> SUFFICES SameUpper(new, done) /\ SameEven(new, done)
    <3>1. ASSUME SameUpper(new, done), SameEven(new, done) PROVE SameUpper(new, ms) /\ SameEven(new, ms)
      BY <1>2, <3>1, SameOn
    <3> QED BY <3>1, BelowKeeps
  <2>1. x \in DOMAIN done /\ done[x].stage = "losers" BY <1>1, <1>4 DEF Stands
  <2>2. player \in Nat /\ r \in Nat
    <3>1. done[x] \in Match BY <1>1, <2>1
    <3> QED BY <3>1 DEF Match
  <2>3. \/ new = Seat(done, GrandFinal(done), two, player)
        \/ r % 2 = 1 /\ new = Seat(done, A, one, player)
        \/ r % 2 # 1 /\ new = Seat(done, B, side, player)
    BY <1>4 DEF AdvanceLosersWinner, Advance
  <2>4. \A y \in A : y \in DOMAIN done /\ done[y].stage # "winners" BY DEF MatchAt, RoundOf
  <2>5. \A y \in B : y \in DOMAIN done /\ done[y].stage # "winners" /\ done[y].round = r + 1
    BY <2>1 DEF NextMatch, MatchAt, RoundOf
  <2>6. one = 1 OBVIOUS
  <2> HIDE DEF player, r, A, B, side, one, two
  <2>7. CASE new = Seat(done, GrandFinal(done), two, player)
    BY <1>1, <2>2, <2>7, FinalSeat
  <2>8. CASE r % 2 = 1 /\ new = Seat(done, A, one, player)
    BY <1>1, <2>2, <2>4, <2>6, <2>8, SeatBelow
  <2>9. CASE r % 2 # 1 /\ new = Seat(done, B, side, player)
    <3>1. (r + 1) % 2 # 0 BY <2>2, <2>9
    <3>2. B \cap Even(done) = {} BY <2>5, <3>1 DEF Even
    <3>3. \A y \in B : y \in DOMAIN done /\ done[y].stage # "winners" BY <2>5
    <3> QED BY <1>1, <2>2, <2>9, <3>2, <3>3, SeatBelow
  <2> QED BY <2>3, <2>7, <2>8, <2>9
<1> QED BY <1>3, <1>4

\* Between the advance of a winner and the loser's: he has lost, but does not sit there yet.
LoserPending(new, ms, x) ==
  /\ Settled(new) /\ Loser(new[x]) # Nobody /\ new[x].status = "completed"
  /\ ms[x].round # 1 => \A y \in Fall(ms, x) : new[y].p2 = Nobody
  /\ \A z \in Upper(ms) \ {x} : ms[z].round # 1 => \A y \in Fall(ms, z) :
       new[y].p2 = IF new[z].status = "completed" THEN Loser(new[z]) ELSE Nobody

LEMMA LoserLeft ==
  ASSUME NEW ms, DoubleInv(ms, TRUE), NEW x \in Upper(ms), Ready(ms[x]), NEW win \in Result,
         NEW done, done = SetResult(ms, x, win), NEW new, Advanced(new, done, x)
  PROVE  LoserPending(new, ms, x)
<1> DEFINE U == Upper(ms)
           T == NextMatch(ms, x)
<1>1. /\ ms \in Seq(Match) /\ Feed(ms, U) /\ Settled(ms) /\ Dropped(ms)
      /\ \A z \in DOMAIN ms : ms[z].round # 0
      /\ x \in DOMAIN ms /\ U \subseteq DOMAIN ms /\ ms[x].stage = "winners"
  BY DEF DoubleInv, Upper
<1>2. /\ done \in Seq(Match) /\ Stands(done, ms)
      /\ \A y \in DOMAIN ms \ {x} : done[y] = ms[y]
      /\ done[x].p1 = ms[x].p1 /\ done[x].p2 = ms[x].p2 /\ done[x].status = "completed"
      /\ done[x].winner = IF win.side = 1 THEN ms[x].p1 ELSE ms[x].p2
  BY <1>1, ScoredIs
<1>3. Upper(done) = U /\ Even(done) = Even(ms) /\ NextMatch(done, x) = T
  <2>1. NextMatch(done, x) = T BY <1>1, <1>2, StandsAlike
  <2> QED BY <1>2, <2>1 DEF Stands, Upper, Even
<1>4. ms[x].status = "pending" /\ ms[x].p1 # Nobody /\ ms[x].p2 # Nobody BY DEF Ready
<1>5. done[x].winner # Nobody BY <1>2, <1>4
<1>6. /\ new \in Seq(Match) /\ Stands(new, done) /\ SameEven(new, done)
      /\ \A z \in U : /\ new[z].winner = done[z].winner /\ new[z].status = done[z].status
                      /\ new[z].p1 \in {done[z].p1, done[x].winner}
                      /\ new[z].p2 \in {done[z].p2, done[x].winner}
                      /\ z \notin T => new[z] = done[z]
  BY <1>3 DEF Advanced
<1>7. x \notin T
  <2>1. ms[x].round \in Nat
    <3>1. ms[x] \in Match BY <1>1
    <3> QED BY <3>1 DEF Match
  <2>2. \A y \in T : ms[y].round = ms[x].round + 1 BY DEF NextMatch, MatchAt, RoundOf
  <2> QED BY <2>1, <2>2
<1>8. new[x] = done[x] BY <1>6, <1>7
<1>9. Loser(new[x]) # Nobody /\ new[x].status = "completed"
  BY <1>2, <1>4, <1>8 DEF Loser
<1>10. Upper(new) = U BY <1>3, <1>6 DEF Stands, Upper
<1>11. Settled(new)
  <2> SUFFICES ASSUME NEW z \in U
               PROVE  /\ new[z].winner = Nobody <=> new[z].status = "pending"
                      /\ new[z].status = "completed" => new[z].p1 # Nobody /\ new[z].p2 # Nobody
    BY <1>10 DEF Settled
  <2>1. CASE z = x BY <1>2, <1>4, <1>5, <1>8, <2>1
  <2>2. CASE z # x
    <3>1. done[z] = ms[z] BY <1>1, <1>2, <2>2
    <3>2. /\ ms[z].winner = Nobody <=> ms[z].status = "pending"
          /\ ms[z].status = "completed" => ms[z].p1 # Nobody /\ ms[z].p2 # Nobody
      BY <1>1 DEF Settled
    <3> QED BY <1>5, <1>6, <3>1, <3>2
  <2> QED BY <2>1, <2>2
<1>12. ASSUME NEW z \in U, ms[z].round # 1, NEW y \in Fall(ms, z)
       PROVE  new[y].p2 = IF ms[z].status = "completed" THEN Loser(ms[z]) ELSE Nobody
  <2>1. ms[y].p2 = IF ms[z].status = "completed" THEN Loser(ms[z]) ELSE Nobody
    BY <1>1, <1>12 DEF Dropped
  <2>2. y \in Even(ms) BY <1>1, <1>12, FallIsEven
  <2>3. y \in DOMAIN ms /\ y # x BY <1>1, <2>2 DEF Even
  <2>4. new[y].p2 = done[y].p2 BY <1>3, <1>6, <2>2 DEF SameEven
  <2> QED BY <1>2, <2>1, <2>3, <2>4
<1>13. ms[x].round # 1 => \A y \in Fall(ms, x) : new[y].p2 = Nobody BY <1>4, <1>12
<1>14. ASSUME NEW z \in U \ {x}, ms[z].round # 1, NEW y \in Fall(ms, z)
       PROVE  new[y].p2 = IF new[z].status = "completed" THEN Loser(new[z]) ELSE Nobody
  <2>1. new[y].p2 = IF ms[z].status = "completed" THEN Loser(ms[z]) ELSE Nobody
    BY <1>12, <1>14
  <2>2. done[z] = ms[z] BY <1>1, <1>2
  <2>3. CASE z \notin T BY <1>6, <2>1, <2>2, <2>3
  <2>4. CASE z \in T
    <3>1. SeatOf(ms[z], NextSide(ms, x)) = ms[x].winner BY <1>1, <2>4 DEF Feed
    <3>2. ms[x].winner = Nobody BY <1>1, <1>4 DEF Settled
    <3>3. ms[z].p1 = Nobody \/ ms[z].p2 = Nobody BY <3>1, <3>2 DEF SeatOf
    <3>4. ms[z].status # "completed" BY <1>1, <3>3 DEF Settled
    <3> QED BY <1>6, <2>1, <2>2, <3>4
  <2> QED BY <2>3, <2>4
<1> QED BY <1>9, <1>11, <1>13, <1>14 DEF LoserPending

\* A score in the winners' bracket.
LEMMA WinnerScored ==
  ASSUME NEW ms, NEW strict, DoubleInv(ms, strict), NEW x \in Upper(ms), strict => Ready(ms[x]),
         NEW win \in Result, NEW done, done = SetResult(ms, x, win),
         NEW next, next = AdvanceWinner(done, x), NEW new, new = SendLoser(next, x)
  PROVE  DoubleInv(new, strict)
<1> DEFINE U == Upper(ms)
<1>1. /\ ms \in Seq(Match) /\ Feed(ms, U)
      /\ \A z \in DOMAIN ms : ms[z].stage \in {"winners", "losers", "grand-final"} /\ ms[z].round # 0
      /\ x \in DOMAIN ms /\ U \in SUBSET DOMAIN ms
  BY DEF DoubleInv, Upper
<1>2. /\ done \in Seq(Match) /\ Stands(done, ms)
      /\ \A y \in DOMAIN ms \ {x} : done[y] = ms[y]
      /\ done[x].p1 = ms[x].p1 /\ done[x].p2 = ms[x].p2
  BY <1>1, ScoredIs
<1>3. Upper(done) = U /\ x \in Upper(done)
  <2>1. Upper(done) = U BY <1>2 DEF Stands, Upper
  <2> QED BY <2>1
<1>4. Feed(done, Upper(done) \ {x})
  <2> HIDE DEF U
  <2>1. Feed(done, U \ {x}) BY <1>1, <1>2, ScoreFeeds
  <2> QED BY <1>3, <2>1
<1>5. Advanced(next, done, x) BY <1>2, <1>3, <1>4, WinnerAdvances
<1>6. next \in Seq(Match) /\ Stands(next, done) /\ Feed(next, Upper(next)) BY <1>5 DEF Advanced
<1>7. Stands(next, ms) BY <1>2, <1>6, StandsOn
<1>8. Upper(next) = U /\ x \in Upper(next) /\ \A z \in DOMAIN ms : Fall(next, z) = Fall(ms, z)
  <2>1. Upper(next) = U BY <1>7 DEF Stands, Upper
  <2>2. ASSUME NEW z \in DOMAIN ms PROVE Fall(next, z) = Fall(ms, z)
    <3>1. Position(next, z) = Position(ms, z) /\ next[z].round = ms[z].round
      BY <1>7, StandsAlike DEF Stands
    <3> QED BY <1>7, <3>1, StandsAlike DEF Fall
  <2> QED BY <2>1, <2>2
<1> DEFINE loser == Loser(next[x])
<1>9. /\ SameUpper(new, next)
      /\ next[x].round = 1 => SameEven(new, next)
      /\ next[x].round # 1 /\ loser # Nobody /\ (\A y \in Fall(next, x) : next[y].p2 = Nobody)
         => \A y \in Even(next) : new[y].p2 = IF y \in Fall(next, x) THEN loser ELSE next[y].p2
  BY <1>6, <1>8, LoserSent
<1>10. new \in Seq(Match) /\ Stands(new, ms)
  <2>1. new \in Seq(Match) /\ Stands(new, next) BY <1>9 DEF SameUpper
  <2> QED BY <1>7, <2>1, StandsOn
<1>11. \A z \in DOMAIN new : new[z].stage \in {"winners", "losers", "grand-final"} /\ new[z].round # 0
  BY <1>1, <1>10 DEF Stands
<1>12. Feed(new, Upper(new)) BY <1>6, <1>9, UpperIs
<1>13. ASSUME strict PROVE Settled(new) /\ Dropped(new)
  <2>1. DoubleInv(ms, TRUE) BY <1>13 DEF DoubleInv
  <2>2. /\ Settled(next) /\ loser # Nobody /\ next[x].status = "completed"
        /\ ms[x].round # 1 => \A y \in Fall(ms, x) : next[y].p2 = Nobody
        /\ \A z \in U \ {x} : ms[z].round # 1 => \A y \in Fall(ms, z) :
             next[y].p2 = IF next[z].status = "completed" THEN Loser(next[z]) ELSE Nobody
    <3>1. Ready(ms[x]) BY <1>13
    <3>2. LoserPending(next, ms, x) BY <1>5, <2>1, <3>1, LoserLeft
    <3> QED BY <3>2 DEF LoserPending
  <2>3. Settled(new) BY <1>9, <2>2, UpperIs
  <2>4. Upper(new) = U BY <1>10 DEF Stands, Upper
  <2> SUFFICES ASSUME NEW z \in U, new[z].round # 1, NEW y \in Fall(new, z)
               PROVE  new[y].p2 = IF new[z].status = "completed" THEN Loser(new[z]) ELSE Nobody
    BY <2>3, <2>4 DEF Dropped
  <2>5. z \in DOMAIN ms /\ new[z] = next[z] /\ Fall(new, z) = Fall(next, z) /\ y \in Fall(ms, z)
    <3>1. z \in DOMAIN ms /\ z \in DOMAIN next /\ z \in Upper(next) BY <1>1, <1>7, <1>8 DEF Stands
    <3>2. new[z] = next[z] BY <1>9, <3>1 DEF SameUpper
    <3>3. Fall(new, z) = Fall(next, z) BY <1>9, <3>1, UpperIs
    <3> QED BY <1>8, <3>1, <3>2, <3>3
  <2>6. ms[z].round # 1 /\ ms[z].round # 0 /\ next[z].round = ms[z].round /\ next[x].round = ms[x].round
    BY <1>1, <1>7, <2>5 DEF Stands
  <2>7. y \in Even(ms) /\ Even(next) = Even(ms)
    <3>1. y \in Even(ms) BY <1>1, <2>5, <2>6, FallIsEven
    <3>2. Even(next) = Even(ms) BY <1>7 DEF Stands, Even
    <3> QED BY <3>1, <3>2
  <2>8. Fall(next, x) = Fall(ms, x) BY <1>1, <1>8
  <2>9. CASE z # x
    <3>1. next[y].p2 = IF next[z].status = "completed" THEN Loser(next[z]) ELSE Nobody
      BY <2>2, <2>5, <2>6, <2>9
    <3>2. new[y].p2 = next[y].p2
      <4>1. CASE ms[x].round = 1 BY <1>9, <2>6, <2>7, <4>1 DEF SameEven
      <4>2. CASE ms[x].round # 1
        <5>1. y \notin Fall(ms, x)
          <6>1. ms[x].round \notin {0, 1} /\ ms[z].round \notin {0, 1} BY <1>1, <2>6, <4>2
          <6> QED BY <1>1, <2>5, <2>9, <6>1, FallsDiffer
        <5>2. \A u \in Fall(next, x) : next[u].p2 = Nobody BY <2>2, <2>8, <4>2
        <5>3. new[y].p2 = IF y \in Fall(next, x) THEN loser ELSE next[y].p2
          <6> HIDE DEF loser
          <6> QED BY <1>9, <2>2, <2>6, <2>7, <4>2, <5>2
        <5> QED BY <2>8, <5>1, <5>3
      <4> QED BY <4>1, <4>2
    <3> QED BY <2>5, <3>1, <3>2
  <2>10. CASE z = x
    <3>1. \A u \in Fall(next, x) : next[u].p2 = Nobody BY <2>2, <2>6, <2>8, <2>10
    <3>2. new[y].p2 = IF y \in Fall(next, x) THEN loser ELSE next[y].p2
      <4> HIDE DEF loser
      <4> QED BY <1>9, <2>2, <2>6, <2>7, <2>10, <3>1
    <3>3. new[y].p2 = loser BY <2>5, <2>8, <2>10, <3>2
    <3> QED BY <2>2, <2>5, <2>10, <3>3
  <2> QED BY <2>9, <2>10
<1> QED BY <1>10, <1>11, <1>12, <1>13 DEF DoubleInv

\* Every score keeps a double elimination.
LEMMA DoubleScored ==
  ASSUME NEW ms, NEW strict, DoubleInv(ms, strict), NEW x \in DOMAIN ms, strict => Ready(ms[x]),
         NEW win \in Result, NEW new, new = ApplyDouble(ms, x, win)
  PROVE  DoubleInv(new, strict)
<1> DEFINE done == SetResult(ms, x, win)
           next == AdvanceWinner(done, x)
<1>1. CASE ms[x].stage = "winners"
  <2>1. x \in Upper(ms) BY <1>1 DEF Upper
  <2>2. new = SendLoser(next, x) BY <1>1 DEF ApplyDouble
  <2>3. done = SetResult(ms, x, win) /\ next = AdvanceWinner(done, x) OBVIOUS
  <2> HIDE DEF done, next
  <2> QED BY <2>1, <2>2, <2>3, WinnerScored
<1>2. CASE ms[x].stage # "winners"
  <2>1. x \in DOMAIN ms \ Upper(ms) BY <1>2 DEF Upper
  <2>2. new = done \/ (ms[x].stage = "losers" /\ new = AdvanceLosersWinner(done, x))
    BY <1>2 DEF ApplyDouble
  <2>3. done = SetResult(ms, x, win) OBVIOUS
  <2> HIDE DEF done, next
  <2> QED BY <2>1, <2>2, <2>3, LosersScored
<1> QED BY <1>1, <1>2

\* What is generated for a double elimination.
LEMMA DoubleIsFresh ==
  ASSUME NEW n \in Nat, n >= 4, NEW size, size = NextPow2(n)
  PROVE  Knockout("winners", n) \o
         Seqs!FlattenSeq([r \in 1..(2 * (Log2(size) - 1)) |-> LosersRound(size, r)]) \o
         EmptyRound("grand-final", 1, 1) \in Seq(Fresh({"winners", "losers", "grand-final"}))
<1> DEFINE S == {"winners", "losers", "grand-final"}
           k == 2 * (Log2(size) - 1)
           seqs == [r \in 1..k |-> LosersRound(size, r)]
           top == Knockout("winners", n)
           low == Seqs!FlattenSeq(seqs)
           end == EmptyRound("grand-final", 1, 1)
           F == Fresh(S)
<1>1. S \in SUBSET Stages /\ "losers" \in S /\ "grand-final" \in S BY DEF Stages
<1>2. PICK h \in Nat \ {0} : size = 2 ^ h /\ Log2(size) = h /\ n <= 2 ^ h
  <2>1. PICK h \in Nat \ {0} : Board!NextPow2(n) = 2 ^ h /\ Board!Log2(2 ^ h) = h /\ n <= 2 ^ h
    BY Board!SizeIsPower
  <2>2. NextPow2(n) = 2 ^ h BY <2>1 DEF NextPow2, Board!NextPow2
  <2>3. Log2(2 ^ h) = h BY <2>1 DEF Log2, Board!Log2
  <2> QED BY <2>1, <2>2, <2>3
<1>3. k \in Nat \ {0}
  <2>1. 2 ^ (0 + 1) = 2 * 2 ^ 0 BY Board!PowerDoubles
  <2>2. 2 ^ 1 = 2 BY <2>1, Board!PowerOfZero
  <2>3. ASSUME h = 1 PROVE FALSE
    <3> DEFINE N == 2 ^ h
    <3>1. N = 2 BY <2>2, <2>3
    <3>2. n <= N BY <1>2
    <3> HIDE DEF N
    <3> QED BY <3>1, <3>2
  <2> QED BY <1>2, <2>3
<1>4. \A a \in Nat : 2 ^ a \in Nat /\ 2 ^ a > 0
  <2>1. \A a \in Nat : 2 ^ a \in Nat BY Board!PowerDoubles
  <2> QED BY <2>1, Board!PowersAreLarge
<1>5. size \in Nat BY <1>2, <1>4
<1>6. ASSUME NEW r \in 1..k PROVE LosersRound(size, r) \in Seq(F)
  <2> DEFINE e == (r + 1) \div 2 + 1
             d == 2 ^ e
             count == size \div d
             c == IF count > 0 THEN count ELSE 1
  <2>0. r \in Nat \ {0} BY <1>3
  <2>1. e \in Nat BY <2>0
  <2> HIDE DEF e
  <2>2. d \in Nat /\ d > 0 BY <1>4, <2>1
  <2> HIDE DEF d
  <2>3. count \in Nat BY <1>5, <2>2
  <2> HIDE DEF count
  <2>4. c \in Nat BY <2>3
  <2>5. LosersRound(size, r) = EmptyRound("losers", r, c) BY DEF LosersRound, c, count, d, e
  <2> DEFINE stage == "losers"
  <2>6. stage \in S BY <1>1
  <2> HIDE DEF c, stage, S
  <2>7. EmptyRound(stage, r, c) \in Seq(F) BY <1>1, <2>0, <2>4, <2>6, EmptyIsFresh
  <2> QED BY <2>5, <2>7 DEF stage
<1>7. low \in Seq(F)
  <2>1. seqs \in [1..k -> Seq(F)]
    <3> HIDE DEF k, F
    <3> QED BY <1>6
  <2> HIDE DEF seqs, k, F
  <2>2. \E f \in [1..k -> Seq(F)] : Board!Chain(f, seqs, k) /\ Board!Seqs!FlattenSeq(seqs) = f[k]
    BY <1>3, <2>1, Board!Flattened
  <2>3. Board!Seqs!FlattenSeq(seqs) \in Seq(F) BY <1>3, <2>2
  <2> QED BY <2>3 DEF Seqs!FlattenSeq, Board!Seqs!FlattenSeq
<1>8. top \in Seq(F)
  <2> DEFINE W == Fresh({"winners"})
  <2>1. top \in Seq(W)
    <3> DEFINE stage == "winners"
    <3>1. stage \in {"main", "winners"} /\ n >= 2 OBVIOUS
    <3> HIDE DEF stage
    <3>2. Knockout(stage, n) \in Seq(Fresh({stage})) BY <3>1, KnockoutIsFresh
    <3> QED BY <3>2 DEF stage
  <2>2. W \subseteq F BY DEF Fresh
  <2> HIDE DEF W, F, top
  <2> QED BY <2>1, <2>2
<1>9. end \in Seq(F)
  <2> DEFINE stage == "grand-final"
             one == 1
  <2>1. stage \in S /\ one \in Nat \ {0} /\ one \in Nat BY <1>1
  <2>2. end = EmptyRound(stage, one, one) OBVIOUS
  <2> HIDE DEF stage, one, S, end
  <2>3. EmptyRound(stage, one, one) \in Seq(F) BY <1>1, <2>1, EmptyIsFresh
  <2> QED BY <2>2, <2>3
<1> HIDE DEF top, low, end, F
<1>10. top \o low \in Seq(F) BY <1>7, <1>8
<1>11. (top \o low) \o end \in Seq(F) BY <1>9, <1>10
<1> QED BY <1>11 DEF top, low, end, F, seqs, k

LEMMA DoubleStart ==
  ASSUME NEW n \in Nat, n >= 4, NEW strict, NEW ms, ms = GenerateDouble(n)
  PROVE  DoubleInv(ms, strict)
<1> DEFINE S == {"winners", "losers", "grand-final"}
           size == NextPow2(n)
           raw == Knockout("winners", n) \o
                  Seqs!FlattenSeq([r \in 1..(2 * (Log2(size) - 1)) |-> LosersRound(size, r)]) \o
                  EmptyRound("grand-final", 1, 1)
           stage == "winners"
<1>1. raw \in Seq(Fresh(S)) BY DoubleIsFresh
<1>2. ms = AdvanceByes(raw, stage) BY DEF GenerateDouble
<1> HIDE DEF raw
<1>3. \A x \in DOMAIN raw : raw[x] \in Fresh(S) BY <1>1
<1>4. SameResults(ms, raw, stage) /\ Feed(ms, {x \in DOMAIN ms : ms[x].stage = stage})
  <2> HIDE DEF S, stage
  <2> QED BY <1>1, <1>2, ByesOpen
<1>5. /\ ms \in Seq(Match) /\ DOMAIN ms = DOMAIN raw
      /\ \A x \in DOMAIN raw : /\ ms[x].stage = raw[x].stage /\ ms[x].round = raw[x].round
                               /\ ms[x].winner = raw[x].winner /\ ms[x].status = raw[x].status
                               /\ raw[x].stage # stage => ms[x] = raw[x]
  BY <1>4 DEF SameResults, Stands
<1>6. \A x \in DOMAIN ms : ms[x].stage \in S /\ ms[x].round # 0 BY <1>3, <1>5 DEF Fresh
<1>7. Feed(ms, Upper(ms)) BY <1>4 DEF Upper
<1>8. \A x \in DOMAIN ms : ms[x].status # "completed" /\ (ms[x].winner = Nobody <=> ms[x].status = "pending")
  BY <1>3, <1>5 DEF Fresh
<1>9. Settled(ms) BY <1>8 DEF Settled, Upper
<1>10. Dropped(ms)
  <2> SUFFICES ASSUME NEW x \in Upper(ms), NEW y \in Fall(ms, x) PROVE ms[y].p2 = Nobody
    BY <1>8 DEF Dropped, Upper
  <2>1. y \in DOMAIN ms /\ ms[y].stage = "losers" BY DEF Fall, MatchAt, RoundOf
  <2>2. ms[y] = raw[y] /\ raw[y] \in Fresh(S) BY <1>3, <1>5, <2>1
  <2> QED BY <2>1, <2>2 DEF Fresh
<1> QED BY <1>5, <1>6, <1>7, <1>9, <1>10 DEF DoubleInv

\* A single elimination that is being played, and groups with their playoff.
SeatsInv(ms) == ms \in Seq(Match) /\ Feed(ms, WonIn(ms))

LEMMA SingleStart ==
  ASSUME NEW n \in Nat, n >= 2, NEW ms, ms = GenerateSingle(n)
  PROVE  SeatsInv(ms)
<1> DEFINE stage == "main"
           raw == Knockout(stage, n)
<1>1. stage \in {"main", "winners"} OBVIOUS
<1> HIDE DEF stage
<1>2. raw \in Seq(Fresh({stage})) BY <1>1, KnockoutIsFresh
<1>3. ms = AdvanceByes(raw, stage) BY DEF GenerateSingle, stage
<1> DEFINE S == {stage}
<1>4. raw \in Seq(Fresh(S)) BY <1>2
<1> HIDE DEF raw, S
<1>5. SameResults(ms, raw, stage) /\ Feed(ms, {x \in DOMAIN ms : ms[x].stage = stage})
  BY <1>3, <1>4, ByesOpen
<1>6. \A x \in DOMAIN ms : ms[x].stage = stage
  <2>1. \A x \in DOMAIN raw : raw[x] \in Fresh(S) BY <1>4
  <2>2. \A x \in DOMAIN raw : raw[x].stage = stage BY <2>1 DEF Fresh, S
  <2> QED BY <1>5, <2>2 DEF SameResults, Stands
<1>7. Feed(ms, WonIn(ms)) BY <1>5, <1>6 DEF Feed, WonIn
<1> QED BY <1>5, <1>7 DEF SeatsInv, SameResults

LEMMA NotAGroup == \A g \in 1..4 : GroupStages[g] \notin {"main", "winners", "playoff"}
<1>1. \A g \in 1..4 : g = 1 \/ g = 2 \/ g = 3 \/ g = 4 OBVIOUS
<1> QED BY <1>1 DEF GroupStages

\* Groups: a score of a group, and the playoff that is filled when all are done.
LEMMA GroupsStartSeats ==
  ASSUME NEW n \in Nat, n >= 4, GroupCount(n) <= 4, NEW ms, ms = GenerateGroups(n)
  PROVE  SeatsInv(ms)
<1>1. /\ ms \in Seq(Match) /\ GroupsFit(ms, n)
      /\ \A x \in DOMAIN ms : ms[x].stage = "playoff" => ms[x].winner = Nobody
  BY GroupsGenerated
<1>2. WonIn(ms) = {}
  <2> SUFFICES ASSUME NEW x \in WonIn(ms) PROVE FALSE OBVIOUS
  <2>1. x \in DOMAIN ms /\ ms[x].stage \in {"main", "winners", "playoff"} /\ ms[x].winner # Nobody
    BY DEF WonIn, Winners
  <2>2. PICK g \in 1..GroupCount(n) : ms[x].stage = GroupStages[g] BY <1>1, <2>1 DEF GroupsFit
  <2>3. g \in 1..4 BY GroupsAre
  <2> QED BY <2>1, <2>2, <2>3, NotAGroup
<1> QED BY <1>1, <1>2 DEF SeatsInv, Feed

LEMMA GroupsSeat ==
  ASSUME NEW n \in Nat, n >= 4, GroupCount(n) <= 4, NEW ms, SeatsInv(ms), Grouped(ms, n),
         NEW x \in DOMAIN ms, NEW win \in Result,
         NEW new, new = ApplyGroups(ms, x, win, GroupCount(n))
  PROVE  SeatsInv(new)
<1> DEFINE done == SetResult(ms, x, win)
           G == GroupCount(n)
           filled == Filled(done, G)
           stage == "playoff"
<1>1. ms \in Seq(Match) /\ Feed(ms, WonIn(ms)) BY DEF SeatsInv
<1>2. /\ done \in Seq(Match) /\ Stands(done, ms)
      /\ \A y \in DOMAIN ms \ {x} : done[y] = ms[y]
      /\ done[x].p1 = ms[x].p1 /\ done[x].p2 = ms[x].p2
  BY <1>1, ScoredIs
<1>3. CASE ms[x].stage = "playoff"
  <2>1. new = ApplySingle(ms, x, win) BY <1>3 DEF ApplyGroups
  <2> QED BY <1>1, <2>1, SingleScored DEF SeatsInv
<1>4. CASE ms[x].stage # "playoff"
  <2>1. \A y \in DOMAIN ms : ms[y].stage \in Winners => ms[y].stage = "playoff"
    <3> SUFFICES ASSUME NEW y \in DOMAIN ms, ms[y].stage \in Winners, ms[y].stage # "playoff"
                 PROVE  FALSE
      OBVIOUS
    <3>1. GroupsFit(ms, n) BY GroupedIs
    <3>2. PICK g \in 1..GroupCount(n) : ms[y].stage = GroupStages[g] BY <3>1 DEF GroupsFit
    <3>3. g \in 1..4 BY GroupsAre
    <3> QED BY <3>2, <3>3, NotAGroup DEF Winners
  <2>2. Feed(done, WonIn(done))
    <3> DEFINE xs == WonIn(ms)
    <3>1. xs \in SUBSET DOMAIN ms /\ Feed(ms, xs) BY <1>1 DEF WonIn
    <3> HIDE DEF done, xs
    <3>2. Feed(done, xs \ {x}) BY <1>2, <3>1, ScoreFeeds
    <3>3. ASSUME NEW y \in WonIn(done) PROVE y \in xs \ {x}
      <4>1. y \in DOMAIN ms /\ done[y].stage = ms[y].stage /\ ms[y].stage \in Winners
        BY <1>2 DEF WonIn, Stands
      <4>2. y # x BY <1>4, <2>1, <4>1
      <4> QED BY <1>2, <4>1, <4>2 DEF WonIn, xs
    <3> QED BY <3>2, <3>3 DEF Feed
  <2>3. new = done \/ new = AdvanceByes(filled, stage)
    BY <1>4 DEF ApplyGroups, FillPlayoff, Filled
  <2>4. CASE new = done BY <1>2, <2>2, <2>4 DEF SeatsInv
  <2>5. CASE new = AdvanceByes(filled, stage)
    <3> HIDE DEF done
    <3>1. Grouped(done, n)
      <4> DEFINE gen == GenerateGroups(n)
      <4>1. Keeps(ms, gen) BY DEF Grouped
      <4>2. Keeps(done, ms)
        <5>1. Keeps(SetResult(ms, x, win), ms) BY <1>1, ResultKeeps
        <5> QED BY <5>1 DEF done
      <4> HIDE DEF gen
      <4>3. Keeps(done, gen) BY <4>1, <4>2, KeepsOn
      <4> QED BY <1>2, <4>3 DEF Grouped, gen
    <3>2. filled \in [DOMAIN done -> Match] /\ Keeps(filled, done) BY <3>1, FilledIs
    <3>3. filled \in Seq(Match)
      <4>1. DOMAIN done = 1..Len(done) /\ Len(done) \in Nat BY <1>2
      <4> HIDE DEF filled
      <4> QED BY <3>2, <4>1
    <3> DEFINE byes == {y \in DOMAIN filled : filled[y].stage = stage /\ filled[y].winner # Nobody}
               none == {}
    <3> HIDE DEF filled
    <3>4. none \in SUBSET DOMAIN filled /\ Feed(filled, none) /\ none \cup byes = byes BY DEF Feed
    <3> HIDE DEF none, stage
    <3>5. SameResults(new, filled, stage) /\ Feed(new, none \cup byes)
      BY <2>5, <3>3, <3>4, ByesFeed
    <3>6. WonIn(new) \subseteq byes
      <4> SUFFICES ASSUME NEW y \in WonIn(new) PROVE y \in byes OBVIOUS
      <4>1. y \in DOMAIN filled /\ filled[y].winner # Nobody /\ filled[y].stage \in Winners
        BY <3>5 DEF SameResults, Stands, WonIn
      <4>2. y \in DOMAIN ms /\ ms[y].stage = filled[y].stage
        BY <1>2, <3>2, <4>1 DEF Keeps, Stands
      <4> QED BY <2>1, <4>1, <4>2 DEF stage
    <3>7. Feed(new, WonIn(new)) BY <3>4, <3>5, <3>6 DEF Feed
    <3> QED BY <3>5, <3>7 DEF SeatsInv, SameResults
  <2> QED BY <2>3, <2>4, <2>5
<1> QED BY <1>3, <1>4

\* The page playoff: who has played a semifinal sits on its side of both deciding matches.
Sent(ms, x) ==
  IF ms[x].status = "completed"
  THEN /\ ms[x].winner \in {ms[x].p1, ms[x].p2}
       /\ SeatOf(ms[3], x) = ms[x].winner /\ SeatOf(ms[4], x) = Loser(ms[x])
  ELSE SeatOf(ms[3], x) = Nobody /\ SeatOf(ms[4], x) = Nobody
PageInv(ms) == /\ ms \in Seq(Match) /\ DOMAIN ms = 1..4
               /\ ms[1].p1 = 1 /\ ms[1].p2 = 2 /\ ms[2].p1 = 3 /\ ms[2].p2 = 4
               /\ Sent(ms, 1) /\ Sent(ms, 2)

LEMMA PageStart ==
  ASSUME NEW n, NEW ms, ms = GeneratePage(n)
  PROVE  PageInv(ms)
<1> DEFINE m == EmptyMatch("main", 1)
           a == [m EXCEPT !.p1 = 1, !.p2 = 2]
           b == [m EXCEPT !.p1 = 3, !.p2 = 4]
           c == EmptyMatch("final", 2)
           d == EmptyMatch("third-place", 2)
<1>1. m \in Match /\ c \in Match /\ d \in Match BY DEF EmptyMatch, Match, Nobody, Stages
<1>2. /\ m.status = "pending" /\ c.p1 = Nobody /\ c.p2 = Nobody /\ d.p1 = Nobody /\ d.p2 = Nobody
  BY DEF EmptyMatch
<1>3. ms = <<a, b, c, d>> BY DEF GeneratePage
<1> HIDE DEF m, c, d
<1>4. /\ a \in Match /\ a.p1 = 1 /\ a.p2 = 2 /\ a.status = "pending"
      /\ b \in Match /\ b.p1 = 3 /\ b.p2 = 4 /\ b.status = "pending"
  BY <1>1, <1>2 DEF Match
<1> HIDE DEF a, b
<1>5. ms \in Seq(Match) /\ DOMAIN ms = 1..4 /\ ms[1] = a /\ ms[2] = b /\ ms[3] = c /\ ms[4] = d
  BY <1>1, <1>3, <1>4
<1> QED BY <1>2, <1>4, <1>5 DEF PageInv, Sent, SeatOf

LEMMA PageScored ==
  ASSUME NEW ms, PageInv(ms), NEW x \in DOMAIN ms, NEW win \in Result,
         NEW new, new = ApplyPage(ms, x, win)
  PROVE  PageInv(new)
<1> DEFINE done == SetResult(ms, x, win)
<1>0. ms \in Seq(Match) BY DEF PageInv
<1>1. /\ ms \in Seq(Match) /\ DOMAIN ms = 1..4 /\ x \in 1..4
      /\ ms[1].p1 = 1 /\ ms[1].p2 = 2 /\ ms[2].p1 = 3 /\ ms[2].p2 = 4
      /\ Sent(ms, 1) /\ Sent(ms, 2)
  BY DEF PageInv
<1>2. /\ done \in Seq(Match) /\ Stands(done, ms)
      /\ \A y \in DOMAIN ms \ {x} : done[y] = ms[y]
      /\ done[x].p1 = ms[x].p1 /\ done[x].p2 = ms[x].p2 /\ done[x].status = "completed"
      /\ done[x].winner = IF win.side = 1 THEN ms[x].p1 ELSE ms[x].p2
  BY <1>0, ScoredIs
<1>3. new = IF x \in {1, 2} THEN Seat(Seat(done, {3}, x, done[x].winner), {4}, x, Loser(done[x]))
            ELSE done
  BY DEF ApplyPage
<1> HIDE DEF done
<1>4. /\ DOMAIN done = 1..4
      /\ \A y \in 1..4 : done[y].p1 = ms[y].p1 /\ done[y].p2 = ms[y].p2
      /\ done[x].winner \in {done[x].p1, done[x].p2}
  BY <1>1, <1>2 DEF Stands
<1>5. CASE x \notin {1, 2}
  <2>1. new = done /\ new[1] = ms[1] /\ new[2] = ms[2] BY <1>1, <1>2, <1>3, <1>5
  <2>2. ASSUME NEW z \in {1, 2}, Sent(ms, z) PROVE Sent(new, z)
    <3>1. /\ new[3].p1 = ms[3].p1 /\ new[3].p2 = ms[3].p2
          /\ new[4].p1 = ms[4].p1 /\ new[4].p2 = ms[4].p2
      BY <1>4, <2>1
    <3>2. new[z] = ms[z] BY <2>1
    <3> QED BY <2>2, <3>1, <3>2 DEF Sent, SeatOf
  <2>3. Sent(new, 1) /\ Sent(new, 2) BY <1>1, <2>2
  <2> QED BY <1>1, <1>2, <1>4, <2>1, <2>3 DEF PageInv
<1>6. CASE x \in {1, 2}
  <2> DEFINE winner == done[x].winner
             loser == Loser(done[x])
             final == {3}
             third == {4}
             next == Seat(done, final, x, winner)
  <2>1. winner \in Nat /\ loser \in Nat
    <3>2. x \in DOMAIN done BY <1>1, <1>4
    <3>1. done[x] \in Match BY <1>2, <3>2
    <3> QED BY <3>1 DEF Match, Loser
  <2>2. new = Seat(next, third, x, loser) BY <1>3, <1>6
  <2> HIDE DEF winner, loser, final, third
  <2>3. /\ next \in Seq(Match) /\ Stands(next, done)
        /\ \A y \in DOMAIN done :
             /\ next[y].winner = done[y].winner /\ next[y].status = done[y].status
             /\ y \notin final => next[y] = done[y]
             /\ x # 1 => next[y].p1 = done[y].p1
             /\ x = 1 => next[y].p2 = done[y].p2
             /\ y \in final => SeatOf(next[y], x) = winner
    BY <1>2, <2>1, SeatIs
  <2> HIDE DEF next
  <2>4. /\ new \in Seq(Match) /\ Stands(new, next)
        /\ \A y \in DOMAIN next :
             /\ new[y].winner = next[y].winner /\ new[y].status = next[y].status
             /\ y \notin third => new[y] = next[y]
             /\ x # 1 => new[y].p1 = next[y].p1
             /\ x = 1 => new[y].p2 = next[y].p2
             /\ y \in third => SeatOf(new[y], x) = loser
    BY <2>1, <2>2, <2>3, SeatIs
  <2>5. DOMAIN next = 1..4 /\ DOMAIN new = 1..4 BY <1>4, <2>3, <2>4 DEF Stands
  <2>6. new[1] = done[1] /\ new[2] = done[2] /\ new[3] = next[3] /\ next[4] = done[4]
    BY <1>4, <2>3, <2>4, <2>5 DEF final, third
  <2>7. SeatOf(new[3], x) = winner /\ SeatOf(new[4], x) = loser
    BY <1>4, <2>3, <2>4, <2>5, <2>6 DEF final, third
  <2>8. /\ x # 1 => new[3].p1 = ms[3].p1 /\ new[4].p1 = ms[4].p1
        /\ x = 1 => new[3].p2 = ms[3].p2 /\ new[4].p2 = ms[4].p2
    <3>1. 3 \in 1..4 /\ 4 \in 1..4 OBVIOUS
    <3> QED BY <1>4, <2>3, <2>4, <2>5, <2>6, <3>1
  <2>9. Sent(new, x)
    <3>1. new[x] = done[x] BY <1>6, <2>6
    <3> QED BY <1>2, <1>4, <2>7, <3>1 DEF Sent, winner, loser
  <2>10. ASSUME NEW z \in {1, 2} \ {x}, Sent(ms, z) PROVE Sent(new, z)
    <3>1. new[z] = ms[z] BY <1>1, <1>2, <2>6, <2>10
    <3>2. SeatOf(new[3], z) = SeatOf(ms[3], z) /\ SeatOf(new[4], z) = SeatOf(ms[4], z)
      BY <1>6, <2>8, <2>10 DEF SeatOf
    <3> QED BY <2>10, <3>1, <3>2 DEF Sent
  <2>11. Sent(new, 1) /\ Sent(new, 2)
    <3>1. CASE x = 1 BY <1>1, <2>9, <2>10, <3>1
    <3>2. CASE x = 2 BY <1>1, <2>9, <2>10, <3>2
    <3> QED BY <1>6, <3>1, <3>2
  <2>12. new[1].p1 = 1 /\ new[1].p2 = 2 /\ new[2].p1 = 3 /\ new[2].p2 = 4
    BY <1>1, <1>4, <2>6
  <2> QED BY <2>4, <2>5, <2>11, <2>12 DEF PageInv
<1> QED BY <1>5, <1>6

LEMMA PageSays ==
  ASSUME NEW ms, PageInv(ms), NEW x \in {1, 2}, ms[x].status = "completed"
  PROVE  /\ ms[x].winner \in Players(ms[3]) /\ Loser(ms[x]) \in Players(ms[4])
         /\ Players(ms[3]) \cap Players(ms[4]) = {}
<1>1. /\ ms[1].p1 = 1 /\ ms[1].p2 = 2 /\ ms[2].p1 = 3 /\ ms[2].p2 = 4
      /\ Sent(ms, 1) /\ Sent(ms, 2)
  BY DEF PageInv
<1> DEFINE a == ms[3].p1
           b == ms[3].p2
           c == ms[4].p1
           d == ms[4].p2
<1>2. \/ a = Nobody /\ c = Nobody
      \/ {a, c} = {1, 2} /\ a # c
  BY <1>1 DEF Sent, SeatOf, Loser
<1>3. \/ b = Nobody /\ d = Nobody
      \/ {b, d} = {3, 4} /\ b # d
  BY <1>1 DEF Sent, SeatOf, Loser
<1>4. Players(ms[3]) \cap Players(ms[4]) = {} BY <1>2, <1>3 DEF Players
<1>5. /\ ms[x].winner = SeatOf(ms[3], x) /\ Loser(ms[x]) = SeatOf(ms[4], x)
      /\ ms[x].winner # Nobody /\ Loser(ms[x]) # Nobody
  <2>1. CASE x = 1 BY <1>1, <2>1 DEF Sent, Loser, Nobody
  <2>2. CASE x = 2 BY <1>1, <2>2 DEF Sent, Loser, Nobody
  <2> QED BY <2>1, <2>2
<1>6. ms[x].winner \in Players(ms[3]) /\ Loser(ms[x]) \in Players(ms[4])
  BY <1>5 DEF Players, SeatOf
<1> QED BY <1>4, <1>6

-----------------------------------------------------------------------------
(* The invariant of knockouts.                                             *)

KnockoutInv ==
  /\ Inv
  /\ Plays({"single", "groups"}) => SeatsInv(matches)
  /\ Plays({"double"}) => DoubleInv(matches, ~tournament.corrections)
  /\ Plays({"page"}) => PageInv(matches)

LEMMA DoubleField ==
  ASSUME NEW t \in Tournaments
  PROVE  t.format = "double" => t.field >= 4
<1>1. t.field >= MinParticipants(t.format) BY PlayAssumption
<1> QED BY <1>1 DEF MinParticipants

\* What is entered is a result.
LEMMA WinIsResult ==
  ASSUME NEW win \in Wins, tournament.margins \subseteq Nat
  PROVE  win \in Result
<1>1. CASE tournament.pace = "scripted"
  <2>1. win = Win(1, 2) BY <1>1 DEF Wins
  <2> QED BY <2>1 DEF Win, Result, Sides
<1>2. CASE tournament.pace # "scripted"
  <2>1. PICK side \in Sides, by \in tournament.margins : win = Win(side, by) BY <1>2 DEF Wins
  <2> QED BY <2>1 DEF Win, Result
<1> QED BY <1>1, <1>2

LEMMA KnockoutStart == Init => KnockoutInv
<1> SUFFICES ASSUME Init PROVE KnockoutInv OBVIOUS
<1> DEFINE n == tournament.field
           ms == matches
           strict == ~tournament.corrections
<1>1. Inv /\ tournament \in Tournaments /\ ms = GenerateBracket(tournament.format, n)
  BY InitKeeps DEF Init
<1>2. /\ n \in Nat /\ n >= 2
      /\ tournament.format = "groups" => n >= 4 /\ GroupCount(n) <= 4
      /\ tournament.format = "double" => n >= 4
  BY <1>1, TournamentIs, DoubleField
<1> HIDE DEF n, ms, strict
<1>3. ASSUME tournament.format = "single" PROVE SeatsInv(ms)
  <2>1. ms = GenerateSingle(n) BY <1>1, <1>3 DEF GenerateBracket
  <2> QED BY <1>2, <2>1, SingleStart
<1>4. ASSUME tournament.format = "groups" PROVE SeatsInv(ms)
  <2>1. ms = GenerateGroups(n) BY <1>1, <1>4 DEF GenerateBracket
  <2> QED BY <1>2, <1>4, <2>1, GroupsStartSeats
<1>5. ASSUME tournament.format = "double" PROVE DoubleInv(ms, strict)
  <2>1. ms = GenerateDouble(n) BY <1>1, <1>5 DEF GenerateBracket
  <2> QED BY <1>2, <1>5, <2>1, DoubleStart
<1>6. ASSUME tournament.format = "page" PROVE PageInv(ms)
  <2>1. ms = GeneratePage(n) BY <1>1, <1>6 DEF GenerateBracket
  <2> QED BY <2>1, PageStart
<1> QED BY <1>1, <1>3, <1>4, <1>5, <1>6 DEF KnockoutInv, Plays, ms, strict

LEMMA KnockoutScored ==
  ASSUME KnockoutInv, Inv', NEW x \in Matches, NEW win \in Wins, Score(x, win)
  PROVE  KnockoutInv'
<1> DEFINE n == tournament.field
           ms == matches
           new == matches'
           strict == ~tournament.corrections
<1>1. /\ tournament \in Tournaments /\ tournament' = tournament /\ x \in DOMAIN ms
      /\ new = ApplyMatchResult(tournament.format, ms, x, win, n)
  BY DEF KnockoutInv, Inv, Score, Matches
<1>2. /\ n \in Nat /\ n >= 2 /\ tournament.margins \subseteq Nat
      /\ tournament.format = "groups" => n >= 4 /\ GroupCount(n) <= 4
  BY <1>1, TournamentIs
<1>3. win \in Result BY <1>2, WinIsResult
<1>4. strict => Ready(ms[x]) BY DEF Score, Playable
<1> HIDE DEF n, ms, new, strict
<1>5. ASSUME tournament.format = "single" PROVE SeatsInv(new)
  <2>1. new = ApplySingle(ms, x, win) BY <1>1, <1>5 DEF ApplyMatchResult
  <2>2. SeatsInv(ms) BY <1>5 DEF KnockoutInv, Plays, ms
  <2> QED BY <1>1, <1>3, <2>1, <2>2, SingleScored DEF SeatsInv
<1>6. ASSUME tournament.format = "groups" PROVE SeatsInv(new)
  <2>1. new = ApplyGroups(ms, x, win, GroupCount(n)) BY <1>1, <1>6 DEF ApplyMatchResult
  <2>2. SeatsInv(ms) /\ Grouped(ms, n)
    BY <1>6 DEF KnockoutInv, Inv, Plays, ms, n, GroupsInv
  <2> QED BY <1>1, <1>2, <1>3, <1>6, <2>1, <2>2, GroupsSeat
<1>7. ASSUME tournament.format = "double" PROVE DoubleInv(new, strict)
  <2>1. new = ApplyDouble(ms, x, win) BY <1>1, <1>7 DEF ApplyMatchResult
  <2>2. DoubleInv(ms, strict) BY <1>7 DEF KnockoutInv, Plays, ms, strict
  <2> QED BY <1>1, <1>3, <1>4, <2>1, <2>2, DoubleScored
<1>8. ASSUME tournament.format = "page" PROVE PageInv(new)
  <2>1. new = ApplyPage(ms, x, win) BY <1>1, <1>8 DEF ApplyMatchResult
  <2>2. PageInv(ms) BY <1>8 DEF KnockoutInv, Plays, ms
  <2> QED BY <1>1, <1>3, <2>1, <2>2, PageScored
<1> QED BY <1>1, <1>5, <1>6, <1>7, <1>8 DEF KnockoutInv, Plays, new, strict

\* Then everyone sits where his results send him.
LEMMA ResultsSeat == KnockoutInv => ResultsSeatPlayers
<1> SUFFICES ASSUME KnockoutInv PROVE ResultsSeatPlayers OBVIOUS
<1>1. /\ Plays({"single", "groups"}) => SeatsInv(matches)
      /\ Plays({"double"}) => DoubleInv(matches, ~tournament.corrections)
      /\ Plays({"page"}) => PageInv(matches)
  BY DEF KnockoutInv
<1>2. WinnersMoveOn
  <2> SUFFICES ASSUME Plays({"single", "double", "groups"}), NEW x \in Matches,
                      matches[x].winner # Nobody,
                      matches[x].stage \in {"main", "winners", "playoff"},
                      NEW y \in NextMatch(matches, x)
               PROVE  matches[x].winner =
                        IF NextSide(matches, x) = 1 THEN matches[y].p1 ELSE matches[y].p2
    BY DEF WinnersMoveOn
  <2>1. x \in DOMAIN matches BY DEF Matches
  <2>2. CASE Plays({"single", "groups"})
    <3>1. x \in WonIn(matches) BY <2>1 DEF WonIn, Winners
    <3>2. Feed(matches, WonIn(matches)) BY <1>1, <2>2 DEF SeatsInv
    <3> QED BY <3>1, <3>2 DEF Feed, SeatOf
  <2>3. CASE Plays({"double"})
    <3>1. x \in Upper(matches) BY <1>1, <2>1, <2>3 DEF DoubleInv, Upper
    <3>2. Feed(matches, Upper(matches)) BY <1>1, <2>3 DEF DoubleInv
    <3> QED BY <3>1, <3>2 DEF Feed, SeatOf
  <2> QED BY <2>2, <2>3 DEF Plays
<1>3. SemifinalsFeedBoth BY <1>1, PageSays DEF SemifinalsFeedBoth
<1>4. LosersTakeTheirSeat
  <2> SUFFICES ASSUME Plays({"double"}), ~tournament.corrections, NEW x \in Matches,
                      matches[x].stage = "winners", matches[x].status = "completed",
                      matches[x].round > 1,
                      NEW y \in MatchAt(matches, "losers", LosersTarget(matches[x].round),
                                        Position(matches, x))
               PROVE  matches[y].p2 = Loser(matches[x])
    BY DEF LosersTakeTheirSeat
  <2>1. x \in Upper(matches) BY DEF Matches, Upper
  <2>2. Dropped(matches) BY <1>1 DEF DoubleInv
  <2>3. y \in Fall(matches, x) BY DEF Fall
  <2>4. matches[x].round # 1
    <3>1. matches \in Seq(Match) /\ x \in DOMAIN matches BY <1>1 DEF DoubleInv, Matches
    <3>2. matches[x] \in Match BY <3>1
    <3>3. matches[x].round \in Nat BY <3>2 DEF Match
    <3> QED BY <3>3
  <2> QED BY <2>1, <2>2, <2>3, <2>4 DEF Dropped
<1> QED BY <1>2, <1>3, <1>4 DEF ResultsSeatPlayers

\* Knockouts seat whom results send on, whatever scores are entered and corrected.
THEOREM KnockoutInvariance == Spec => []KnockoutInv
<1>1. KnockoutInv /\ [Next]_vars => KnockoutInv'
  <2> SUFFICES ASSUME KnockoutInv, [Next]_vars PROVE KnockoutInv' OBVIOUS
  <2>1. CASE Next
    <3>1. PICK x \in Matches, win \in Wins : Score(x, win) BY <2>1 DEF Next
    <3>2. Inv BY DEF KnockoutInv
    <3>3. Inv' BY <3>1, <3>2, ScoreKeeps
    <3> QED BY <3>1, <3>3, KnockoutScored
  <2>2. CASE UNCHANGED vars
    <3>1. tournament' = tournament /\ matches' = matches BY <2>2 DEF vars
    <3> QED BY <3>1 DEF KnockoutInv, Inv, Plays
  <2> QED BY <2>1, <2>2
<1> QED BY <1>1, KnockoutStart, PTL DEF Spec

\* Whoever has played a knockout match sits where the result sends him (advanceWinner,
\* sendLoserToLB, applyPagePlayoffResult): in every format, for any field, any order of
\* play and any corrections.
THEOREM ResultsAreSeated == Spec => []ResultsSeatPlayers
<1> QED BY KnockoutInvariance, ResultsSeat, PTL
=============================================================================
