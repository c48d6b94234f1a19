------------------------- MODULE ScoreBoard_proofs -------------------------
(***************************************************************************)
(* Proofs about ScoreBoard, for every number of participants (two or more), *)
(* tables, requests, scores and faults: tables given to ready matches are  *)
(* exclusive and none is idle while a match waits, ready matches are       *)
(* announced, requests that take turns play the bracket of BracketPlay,    *)
(* and, whatever crosses or fails, the rows are a bracket in which nobody  *)
(* is stranded.                                                            *)
(*                                                                         *)
(* The bracket comes first: what generateSingleElimination yields for any  *)
(* field, in closed form.  Its size is a power of two, its rounds are one  *)
(* sequence after the other, and a fold seats the byes; each is reached by *)
(* induction.                                                              *)
(***************************************************************************)
EXTENDS ScoreBoard, FiniteSetTheorems, WellFoundedInduction, TLAPS

-----------------------------------------------------------------------------
(* Induction, from the library's theorem on well-founded relations.        *)

\* Every set of naturals has a least element.
LEMMA LeastNatural ==
  ASSUME NEW T, T \subseteq Nat, T # {}
  PROVE  \E x \in T : \A y \in T : x <= y
<1> DEFINE R == OpToRel(<, Nat)
<1>1. IsWellFoundedOn(R, Nat) BY NatLessThanWellFounded
<1>2. \A x, y \in Nat : <<y, x>> \in R <=> y < x BY DEF OpToRel
<1> HIDE DEF R
<1>3. PICK x \in T : \A y \in T : ~ (<<y, x>> \in R) BY <1>1, WFMin
<1>4. \A y \in T : ~(y < x) /\ x \in Nat /\ y \in Nat BY <1>2, <1>3
<1> QED BY <1>4

\* A set with 0 and every successor holds all naturals.
LEMMA Induction ==
  ASSUME NEW S, 0 \in S, \A n \in Nat : n \in S => n + 1 \in S
  PROVE  Nat \subseteq S
<1> SUFFICES ASSUME {n \in Nat : n \notin S} # {} PROVE FALSE OBVIOUS
<1>1. PICK x \in {n \in Nat : n \notin S} : \A y \in {n \in Nat : n \notin S} : x <= y
  BY LeastNatural
<1>2. x # 0 /\ x - 1 \in Nat OBVIOUS
<1>3. x - 1 \in S BY <1>1, <1>2
<1> QED BY <1>2, <1>3

\* A set that holds every subset whose smaller subsets it holds, holds them all.
LEMMA SubsetInduction ==
  ASSUME NEW S, IsFiniteSet(S), NEW P,
         \A T \in SUBSET S : (\A U \in SUBSET T : U # T => U \in P) => T \in P
  PROVE  SUBSET S \subseteq P
<1> SUFFICES ASSUME {T \in SUBSET S : T \notin P} # {} PROVE FALSE OBVIOUS
<1> DEFINE B == {T \in SUBSET S : T \notin P}
           Counts == {Cardinality(T) : T \in B}
<1>1. \A T \in SUBSET S : IsFiniteSet(T) /\ Cardinality(T) \in Nat
  BY FS_Subset, FS_CardinalityType
<1>2. PICK n \in Counts : \A m \in Counts : n <= m
  <2>1. Counts \subseteq Nat /\ Counts # {} BY <1>1
  <2> HIDE DEF Counts
  <2> QED BY <2>1, LeastNatural
<1>3. PICK T \in B : Cardinality(T) = n OBVIOUS
<1>4. ASSUME NEW U \in SUBSET T, U # T PROVE U \in P
  <2>1. Cardinality(U) < n BY <1>1, <1>3, <1>4, FS_Subset
  <2>2. U \in SUBSET S /\ Cardinality(U) \in Nat /\ n \in Nat BY <1>1, <1>3
  <2> QED BY <1>2, <2>1, <2>2
<1> QED BY <1>3, <1>4

-----------------------------------------------------------------------------
(* Powers of two: the subsets of a set with one more element.              *)

LEMMA PowerDoubles ==
  ASSUME NEW k \in Nat
  PROVE  2 ^ k \in Nat /\ 2 ^ (k + 1) = 2 * 2 ^ k
<1> DEFINE S == 1..k
           T == 1..(k + 1)
           old == SUBSET S
           new == {U \cup {k + 1} : U \in SUBSET S}
           f == [U \in old |-> U \cup {k + 1}]
<1>1. IsFiniteSet(S) /\ Cardinality(S) = k /\ IsFiniteSet(T) /\ Cardinality(T) = k + 1
  BY FS_Interval
<1>2. /\ IsFiniteSet(old) /\ Cardinality(old) = 2 ^ k
      /\ IsFiniteSet(SUBSET T) /\ Cardinality(SUBSET T) = 2 ^ (k + 1)
  <2> HIDE DEF S, T
  <2> QED BY <1>1, FS_SUBSET
<1>3. T = S \cup {k + 1} /\ k + 1 \notin S OBVIOUS
<1>4. f \in Bijection(old, new)
  <2>1. f \in Surjection(old, new) BY DEF Surjection
  <2>2. \A U, W \in old : f[U] = f[W] => U = W
    <3> SUFFICES ASSUME NEW U \in old, NEW W \in old, U \cup {k + 1} = W \cup {k + 1}
                 PROVE  U = W
      OBVIOUS
    <3>1. k + 1 \notin U /\ k + 1 \notin W BY <1>3
    <3> HIDE DEF old
    <3> QED BY <3>1
  <2> QED BY <2>1, <2>2, Zenon DEF Bijection, Injection, Surjection, IsInjective
<1> HIDE DEF f
<1>5. IsFiniteSet(new) /\ Cardinality(new) = 2 ^ k
  <2> HIDE DEF old, new
  <2>1. ExistsBijection(old, new) BY <1>4 DEF ExistsBijection
  <2> QED BY <1>2, <2>1, FS_Bijection
<1>6. SUBSET T = old \cup new
  <2>1. ASSUME NEW U \in SUBSET T PROVE U \in old \cup new
    <3>1. CASE k + 1 \in U
      <4>1. U \ {k + 1} \in SUBSET S BY <1>3
      <4>2. U = (U \ {k + 1}) \cup {k + 1} BY <3>1
      <4> QED BY <4>1, <4>2
    <3>2. CASE k + 1 \notin U BY <1>3, <3>2
    <3> QED BY <3>1, <3>2
  <2>2. \A U \in SUBSET S : U \in SUBSET T /\ U \cup {k + 1} \in SUBSET T BY <1>3
  <2>3. old \subseteq SUBSET T /\ \A W \in new : W \in SUBSET T BY <2>2
  <2>4. SUBSET T \subseteq old \cup new BY <2>1
  <2> HIDE DEF old, new, T
  <2> QED BY <2>3, <2>4
<1>7. old \cap new = {} BY <1>3
<1> HIDE DEF old, new, T
<1>8. 2 ^ k \in Nat BY <1>2, FS_CardinalityType
<1>9. Cardinality(old \cup new) = Cardinality(old) + Cardinality(new) - Cardinality(old \cap new)
  BY <1>2, <1>5, FS_Union
<1>10. Cardinality(old \cap new) = 0 BY <1>7, FS_EmptySet
<1>11. 2 ^ (k + 1) = 2 ^ k + 2 ^ k - 0 BY <1>2, <1>5, <1>6, <1>9, <1>10, Zenon
<1> QED BY <1>8, <1>11

\* The powers of two are naturals that grow beyond every number.
LEMMA PowerOfZero == 2 ^ 0 = 1
OBVIOUS

LEMMA PowersAreLarge == \A k \in Nat : k < 2 ^ k
<1> DEFINE P == {k \in Nat : k < 2 ^ k}
<1>1. 0 \in P BY PowerOfZero
<1>2. ASSUME NEW k \in Nat, k \in P PROVE k + 1 \in P BY <1>2, PowerDoubles
<1> HIDE DEF P
<1>3. Nat \subseteq P BY <1>1, <1>2, Induction
<1> QED BY <1>3 DEF P

\* They add up in the exponent.
LEMMA PowerOfSum == \A a, b \in Nat : 2 ^ (a + b) = 2 ^ a * 2 ^ b
<1> SUFFICES ASSUME NEW a \in Nat PROVE \A b \in Nat : 2 ^ (a + b) = 2 ^ a * 2 ^ b OBVIOUS
<1> DEFINE P == {b \in Nat : 2 ^ (a + b) = 2 ^ a * 2 ^ b}
<1>1. 0 \in P BY PowerOfZero, PowerDoubles
<1>2. ASSUME NEW b \in Nat, b \in P PROVE b + 1 \in P
  <2>1. 2 ^ (a + b + 1) = 2 * 2 ^ (a + b) /\ 2 ^ (a + b) \in Nat BY PowerDoubles
  <2>2. 2 ^ (b + 1) = 2 * 2 ^ b /\ 2 ^ b \in Nat /\ 2 ^ a \in Nat BY PowerDoubles
  <2>3. a + b + 1 = a + (b + 1) OBVIOUS
  <2> QED BY <1>2, <2>1, <2>2, <2>3
<1> HIDE DEF P
<1>3. Nat \subseteq P BY <1>1, <1>2, Induction
<1> QED BY <1>3 DEF P

\* A smaller power divides a greater one.
LEMMA PowerQuotient ==
  ASSUME NEW h \in Nat, NEW r \in 0..h
  PROVE  2 ^ h \div 2 ^ r = 2 ^ (h - r)
<1>1. 2 ^ h = 2 ^ r * 2 ^ (h - r)
  <2>1. h - r \in Nat /\ r \in Nat /\ r + (h - r) = h OBVIOUS
  <2> QED BY <2>1, PowerOfSum
<1>2. 2 ^ r \in Nat /\ 2 ^ r > 0 /\ 2 ^ (h - r) \in Nat BY PowersAreLarge, PowerDoubles
<1>3. \A a, b \in Nat : a > 0 => (a * b) \div a = b OBVIOUS
<1> QED BY <1>1, <1>2, <1>3

\* No two are equal.
LEMMA PowersGrow == \A a, b \in Nat : 2 ^ a = 2 ^ b => a = b
<1>1. ASSUME NEW a \in Nat, NEW d \in Nat, d > 0 PROVE 2 ^ a < 2 ^ (a + d)
  <2>1. 2 ^ (a + d) = 2 ^ a * 2 ^ d /\ 2 ^ d > 1 /\ 2 ^ a > 0 /\ 2 ^ a \in Nat /\ 2 ^ d \in Nat
    BY <1>1, PowerOfSum, PowersAreLarge, PowerDoubles
  <2>2. \A u, v \in Nat : u > 0 /\ v > 1 => u < u * v OBVIOUS
  <2> QED BY <2>1, <2>2
<1>2. ASSUME NEW a \in Nat, NEW b \in Nat, a < b PROVE 2 ^ a < 2 ^ b
  <2>1. b - a \in Nat /\ b - a > 0 /\ a + (b - a) = b BY <1>2
  <2> QED BY <1>1, <2>1
<1>3. \A a \in Nat : 2 ^ a \in Nat BY PowerDoubles
<1> QED BY <1>2, <1>3

\* The size of a bracket is a power of two that holds everyone and is not twice too
\* large.
LEMMA SizeIsPower ==
  ASSUME NEW n \in Nat, n >= 2
  PROVE  \E h \in Nat \ {0} : /\ NextPow2(n) = 2 ^ h /\ Log2(2 ^ h) = h
                              /\ n <= 2 ^ h /\ 2 ^ h < 2 * n
<1> DEFINE T == {k \in Nat : n <= 2 ^ k}
<1>1. n \in T BY PowersAreLarge, PowerDoubles
<1>2. PICK k \in T : \A j \in T : k <= j
  <2>1. T \subseteq Nat /\ T # {} BY <1>1
  <2> HIDE DEF T
  <2> QED BY <2>1, LeastNatural
<1>3. k \in Nat /\ n <= 2 ^ k /\ k <= n BY <1>1, <1>2
<1>0. k # 0
  <2>1. CASE k = 0 BY <1>3, <2>1, PowerOfZero
  <2> QED BY <2>1
<1>4. 2 ^ k < 2 * n
  <2>1. k - 1 \in Nat /\ k - 1 \notin T /\ (k - 1) + 1 = k BY <1>0, <1>2, <1>3
  <2>2. 2 ^ k = 2 * 2 ^ (k - 1) /\ 2 ^ (k - 1) \in Nat /\ 2 ^ (k - 1) < n BY <2>1, PowerDoubles
  <2> QED BY <2>2
<1>5. PICK s \in {2 ^ j : j \in 0..n} : s = NextPow2(n) /\ n <= s /\ s < 2 * n
  <2>1. k \in 0..n BY <1>3
  <2>2. \E s \in {2 ^ j : j \in 0..n} : n <= s /\ s < 2 * n BY <1>3, <1>4, <2>1
  <2> QED BY <2>2, Zenon DEF NextPow2
<1>6. PICK h \in 0..n : s = 2 ^ h OBVIOUS
<1>7. h # 0
  <2>1. n <= 2 ^ h BY <1>5, <1>6
  <2>2. CASE h = 0 BY <2>1, <2>2, PowerOfZero
  <2> QED BY <2>2
<1>8. Log2(2 ^ h) = h
  <2>1. h \in 0..(2 ^ h) BY PowersAreLarge, PowerDoubles
  <2>2. \A j \in 0..(2 ^ h) : 2 ^ j = 2 ^ h => j = h BY PowersGrow
  <2> QED BY <2>1, <2>2 DEF Log2
<1> QED BY <1>5, <1>6, <1>7, <1>8

-----------------------------------------------------------------------------
(* Rounds: of a bracket of 2 ^ h lines, round r begins after Line(h, r).   *)

Line(h, r) == 2 ^ h - 2 ^ (h - r + 1)
Row(h, r) == (Line(h, r) + 1) .. Line(h, r + 1)

\* Where the rounds begin and end.
LEMMA Lines ==
  ASSUME NEW h \in Nat \ {0}, NEW r \in 1..h
  PROVE  /\ 2 ^ h \in Nat /\ 2 ^ (h - r) \in Nat \ {0} /\ 2 ^ (h - 1) \in Nat \ {0}
         /\ 2 ^ h = 2 * 2 ^ (h - 1)
         /\ Line(h, r) = 2 ^ h - 2 * 2 ^ (h - r) /\ Line(h, r + 1) = 2 ^ h - 2 ^ (h - r)
         /\ Line(h, r) \in Nat /\ Line(h, r + 1) \in Nat
         /\ r < h => 2 ^ (h - r) = 2 * 2 ^ (h - (r + 1)) /\ 2 ^ (h - (r + 1)) \in Nat \ {0}
         /\ Line(h, 1) = 0 /\ Line(h, 2) = 2 ^ (h - 1) /\ Line(h, h + 1) = 2 ^ h - 1
<1>1. h - r \in Nat /\ h - 1 \in Nat /\ (h - r) + 1 = h - r + 1 /\ (h - 1) + 1 = h OBVIOUS
<1>2. /\ 2 ^ (h - r) \in Nat /\ 2 ^ (h - r + 1) = 2 * 2 ^ (h - r)
      /\ 2 ^ (h - 1) \in Nat /\ 2 ^ h = 2 * 2 ^ (h - 1)
  BY <1>1, PowerDoubles
<1>3. 2 ^ (h - r) # 0 /\ 2 ^ (h - 1) # 0 BY <1>1, <1>2, PowersAreLarge
<1>4. h - (r + 1) + 1 = h - r /\ h - 1 + 1 = h /\ h - 2 + 1 = h - 1 /\ h - (h + 1) + 1 = 0
  OBVIOUS
<1>5. /\ Line(h, r) = 2 ^ h - 2 * 2 ^ (h - r) /\ Line(h, r + 1) = 2 ^ h - 2 ^ (h - r)
      /\ Line(h, 1) = 2 ^ h - 2 ^ h /\ Line(h, 2) = 2 ^ h - 2 ^ (h - 1)
      /\ Line(h, h + 1) = 2 ^ h - 2 ^ 0
  <2>1. Line(h, r) = 2 ^ h - 2 * 2 ^ (h - r) BY <1>2 DEF Line
  <2> QED BY <1>4, <2>1 DEF Line
<1>6. 2 ^ h = 2 ^ r * 2 ^ (h - r) /\ 2 ^ r \in Nat /\ 2 ^ r >= 2
  <2>1. h = r + (h - r) /\ r \in Nat /\ r - 1 \in Nat /\ (r - 1) + 1 = r OBVIOUS
  <2>2. 2 ^ r = 2 * 2 ^ (r - 1) /\ 2 ^ (r - 1) \in Nat /\ 2 ^ (r - 1) > 0
    BY <2>1, PowerDoubles, PowersAreLarge
  <2> QED BY <1>1, <2>1, <2>2, PowerOfSum
<1>7. 2 ^ h >= 2 * 2 ^ (h - r)
  <2>1. \A a, b \in Nat : a >= 2 => a * b >= 2 * b OBVIOUS
  <2> QED BY <1>2, <1>6, <2>1
<1>8. r < h => 2 ^ (h - r) = 2 * 2 ^ (h - (r + 1)) /\ 2 ^ (h - (r + 1)) \in Nat \ {0}
  <2>1. SUFFICES ASSUME r < h
        PROVE  2 ^ (h - r) = 2 * 2 ^ (h - (r + 1)) /\ 2 ^ (h - (r + 1)) \in Nat \ {0}
    OBVIOUS
  <2>2. h - (r + 1) \in Nat /\ (h - (r + 1)) + 1 = h - r BY <2>1
  <2>3. 2 ^ (h - r) = 2 * 2 ^ (h - (r + 1)) /\ 2 ^ (h - (r + 1)) \in Nat BY <2>2, PowerDoubles
  <2> QED BY <1>3, <2>3
<1> HIDE DEF Line
<1> QED BY <1>2, <1>3, <1>5, <1>7, <1>8, PowerOfZero

\* Every match is in a round.
LEMMA RowsCover ==
  ASSUME NEW h \in Nat \ {0}, NEW x \in 1..(2 ^ h - 1)
  PROVE  \E r \in 1..h : x \in Row(h, r)
<1> DEFINE T == {r \in 1..h : x <= Line(h, r + 1)}
<1>0. \A r \in 1..h : Line(h, r) \in Nat /\ Line(h, r + 1) \in Nat BY Lines
<1>1. h \in 1..h /\ Line(h, 1) = 0 /\ Line(h, h + 1) = 2 ^ h - 1 /\ 2 ^ h \in Nat BY Lines
<1>2. PICK r \in T : \A s \in T : r <= s
  <2>1. T \subseteq Nat /\ h \in T BY <1>1
  <2> HIDE DEF T
  <2> QED BY <2>1, LeastNatural
<1>3. Line(h, r) < x
  <2>1. CASE r = 1 BY <1>1, <2>1
  <2>2. CASE r # 1
    <3>1. r - 1 \in 1..h /\ (r - 1) + 1 = r BY <2>2
    <3>2. r - 1 \notin T BY <1>2, <3>1
    <3> QED BY <1>0, <1>1, <3>1, <3>2
  <2> QED BY <2>1, <2>2
<1> QED BY <1>0, <1>1, <1>3 DEF Row

-----------------------------------------------------------------------------
(* One sequence after the other.                                           *)

Join(a, b) == a \o b

\* f[i] is the first i sequences, one after the other.
Chain(f, seqs, k) ==
  \A i \in 1..k : f[i] = IF i = 1 THEN seqs[i] ELSE Join(f[i - 1], seqs[i])

\* Any number of sequences can be put together.
LEMMA ChainExists ==
  ASSUME NEW S, NEW n \in Nat, NEW seqs \in [1..n -> Seq(S)]
  PROVE  \E f \in [1..n -> Seq(S)] : Chain(f, seqs, n)
<1> DEFINE P == {k \in Nat : k <= n => \E f \in [1..k -> Seq(S)] : Chain(f, seqs, k)}
<1>1. 0 \in P
  <2> DEFINE f == [i \in 1..0 |-> seqs[1]]
  <2>1. f \in [1..0 -> Seq(S)] /\ Chain(f, seqs, 0) BY DEF Chain
  <2> QED BY <2>1
<1>2. ASSUME NEW k \in Nat, k \in P PROVE k + 1 \in P
  <2>00. k + 1 \in Nat OBVIOUS
  <2>0. SUFFICES ASSUME k + 1 <= n
        PROVE  \E f \in [1..(k + 1) -> Seq(S)] : Chain(f, seqs, k + 1)
    BY <2>00, Zenon
  <2>1. PICK f \in [1..k -> Seq(S)] : Chain(f, seqs, k) BY <1>2, <2>0
  <2> DEFINE last == IF k = 0 THEN seqs[1] ELSE Join(f[k], seqs[k + 1])
             g == [i \in 1..(k + 1) |-> IF i = k + 1 THEN last ELSE f[i]]
  <2>2. last \in Seq(S)
    <3>1. seqs[k + 1] \in Seq(S) /\ (k # 0 => f[k] \in Seq(S)) BY <2>0, <2>1
    <3>2. k # 0 => Join(f[k], seqs[k + 1]) \in Seq(S) BY <3>1 DEF Join
    <3> QED BY <3>1, <3>2
  <2> HIDE DEF last
  <2>3. g \in [1..(k + 1) -> Seq(S)] BY <2>1, <2>2
  <2>4. ASSUME NEW i \in 1..(k + 1)
        PROVE  g[i] = IF i = 1 THEN seqs[i] ELSE Join(g[i - 1], seqs[i])
    <3>1. CASE i = k + 1 BY <3>1 DEF last
    <3>2. CASE i # k + 1
      <4>1. i \in 1..k /\ (i # 1 => i - 1 \in 1..k) BY <3>2
      <4> QED BY <2>1, <4>1 DEF Chain
    <3> QED BY <3>1, <3>2
  <2> HIDE DEF g
  <2> QED BY <2>3, <2>4 DEF Chain
<1> HIDE DEF P
<1>3. n \in P BY <1>1, <1>2, Induction
<1> QED BY <1>3 DEF P

\* FlattenSeq puts them together.
LEMMA Flattened ==
  ASSUME NEW S, NEW n \in Nat \ {0}, NEW seqs \in [1..n -> Seq(S)]
  PROVE  \E f \in [1..n -> Seq(S)] : Chain(f, seqs, n) /\ Seqs!FlattenSeq(seqs) = f[n]
<1>1. PICK f \in [1..n -> Seq(S)] : Chain(f, seqs, n) BY ChainExists
<1> DEFINE F(g) == [i \in 1..n |-> IF i = 1 THEN seqs[i] ELSE Join(g[i - 1], seqs[i])]
           it == CHOOSE g : g = F(g)
<1>2. f = F(f) BY <1>1 DEF Chain
<1>3. it = F(it) BY <1>2
<1>4. Seqs!FlattenSeq(seqs) = it[n]
  <2>1. Len(seqs) = n OBVIOUS
  <2> QED BY <2>1 DEF Seqs!FlattenSeq, Join
<1> HIDE DEF it
<1>5. \A i \in 1..n : it[i] = IF i = 1 THEN seqs[i] ELSE Join(it[i - 1], seqs[i]) BY <1>3
<1>6. \A i \in 1..n : it[i] = f[i]
  <2> DEFINE Q == {k \in Nat : k \in 1..n => it[k] = f[k]}
  <2>1. 0 \in Q OBVIOUS
  <2>2. ASSUME NEW k \in Nat, k \in Q PROVE k + 1 \in Q
    <3> SUFFICES ASSUME k + 1 \in 1..n PROVE it[k + 1] = f[k + 1] OBVIOUS
    <3>1. CASE k = 0 BY <1>1, <1>5, <3>1 DEF Chain
    <3>2. CASE k # 0
      <4>1. it[k] = f[k] BY <2>2, <3>2
      <4>2. (k + 1) - 1 = k /\ k + 1 # 1 BY <3>2
      <4> QED BY <1>1, <1>5, <4>1, <4>2 DEF Chain
    <3> QED BY <3>1, <3>2
  <2> HIDE DEF Q
  <2>3. Nat \subseteq Q BY <2>1, <2>2, Induction
  <2>4. \A i \in 1..n : i \in Q BY <2>3
  <2> QED BY <2>4 DEF Q
<1> HIDE DEF F
<1>7. Seqs!FlattenSeq(seqs) = f[n] BY <1>4, <1>6
<1> QED BY <1>1, <1>7, Zenon

-----------------------------------------------------------------------------
(* The generated knockout.                                                 *)

Opponent(n, h, i) == IF 2 ^ h - i + 1 <= n THEN 2 ^ h - i + 1 ELSE Nobody

Holds(n, h) == /\ NextPow2(n) = 2 ^ h /\ Log2(2 ^ h) = h
               /\ n <= 2 ^ h /\ 2 ^ h < 2 * n

\* Round 1: participant i against the one at the other end, or nobody.
LEMMA FirstRoundIs ==
  ASSUME NEW stage \in Stages, NEW n \in Nat, n >= 2, NEW h \in Nat \ {0}, Holds(n, h)
  PROVE  /\ FirstRound(stage, n) \in Seq(Match) /\ Len(FirstRound(stage, n)) = 2 ^ (h - 1)
         /\ \A i \in 1..(2 ^ (h - 1)) :
              FirstRound(stage, n)[i] = Pairing(stage, 1, i, Opponent(n, h, i))
<1> DEFINE N == 2 ^ h
           half == 2 ^ (h - 1)
<1>1. N \in Nat /\ half \in Nat \ {0} /\ N = 2 * half BY Lines
<1>2. N \div 2 = half
  <2>1. \A a \in Nat : (2 * a) \div 2 = a OBVIOUS
  <2> QED BY <1>1, <2>1
<1>3. NextPow2(n) = N /\ N < 2 * n /\ n <= N BY DEF Holds
<1> HIDE DEF N, half
<1>4. ASSUME NEW i \in 1..half
      PROVE  /\ SnakeSeed(n, N)[2 * i - 2] = i
             /\ SnakeSeed(n, N)[2 * i - 1] = Opponent(n, h, i)
  <2>1. i - 1 < n /\ 2 * i - 2 \in 0..(N - 1) /\ 2 * i - 1 \in 0..(N - 1) BY <1>1, <1>3
  <2>2. \A j \in Nat : j > 0 => /\ (2 * j - 2) % 2 = 0 /\ (2 * j - 2) \div 2 = j - 1
                                /\ (2 * j - 1) % 2 = 1 /\ (2 * j - 1) \div 2 = j - 1
    OBVIOUS
  <2>3. /\ (2 * i - 2) % 2 = 0 /\ (2 * i - 2) \div 2 = i - 1
        /\ (2 * i - 1) % 2 = 1 /\ (2 * i - 1) \div 2 = i - 1
    BY <1>1, <2>2
  <2>4. SnakeSeed(n, N)[2 * i - 2] = i BY <2>1, <2>3 DEF SnakeSeed
  <2>5. SnakeSeed(n, N)[2 * i - 1] = IF N - 1 - (i - 1) < n THEN N - 1 - (i - 1) + 1 ELSE Nobody
    BY <2>1, <2>3 DEF SnakeSeed
  <2>6. N - 1 - (i - 1) + 1 = N - i + 1 /\ (N - 1 - (i - 1) < n <=> N - i + 1 <= n) BY <1>1
  <2> QED BY <2>4, <2>5, <2>6 DEF Opponent, N
<1>5. FirstRound(stage, n) = [i \in 1..half |-> Pairing(stage, 1, i, Opponent(n, h, i))]
  <2>1. FirstRound(stage, n) =
          [i \in 1..half |-> Pairing(stage, 1, SnakeSeed(n, N)[2 * i - 2], SnakeSeed(n, N)[2 * i - 1])]
    BY <1>2, <1>3 DEF FirstRound
  <2> QED BY <1>4, <2>1
<1>6. ASSUME NEW i \in 1..half PROVE Pairing(stage, 1, i, Opponent(n, h, i)) \in Match
  <2>1. Opponent(n, h, i) \in Nat /\ i \in Nat BY <1>1 DEF Opponent, Nobody, N
  <2> QED BY <2>1 DEF Pairing, EmptyMatch, Match, Nobody
<1> HIDE DEF N, half
<1>7. FirstRound(stage, n) \in Seq(Match) /\ Len(FirstRound(stage, n)) = half
  BY <1>1, <1>5, <1>6
<1> QED BY <1>5, <1>7 DEF half

\* A round of matches that wait for their participants.
LEMMA EmptyRoundIs ==
  ASSUME NEW stage \in Stages, NEW r \in Nat, NEW c \in Nat
  PROVE  /\ EmptyRound(stage, r, c) \in Seq(Match) /\ Len(EmptyRound(stage, r, c)) = c
         /\ \A i \in 1..c : EmptyRound(stage, r, c)[i] = EmptyMatch(stage, r)
<1>1. EmptyMatch(stage, r) \in Match BY DEF EmptyMatch, Match, Nobody
<1> QED BY <1>1 DEF EmptyRound

\* Round 2 and later, without anybody.
LEMMA LaterRounds ==
  ASSUME NEW stage \in Stages, NEW h \in Nat \ {0},
         NEW s, s = Seqs!FlattenSeq([r \in 1..(h - 1) |->
                      EmptyRound(stage, r + 1, 2 ^ h \div 2 ^ (r + 1))])
  PROVE  /\ s \in Seq(Match) /\ Len(s) = 2 ^ (h - 1) - 1
         /\ \A r \in 2..h : \A x \in Row(h, r) : s[x - 2 ^ (h - 1)] = EmptyMatch(stage, r)
<1> DEFINE half == 2 ^ (h - 1)
           seqs == [r \in 1..(h - 1) |-> EmptyRound(stage, r + 1, 2 ^ h \div 2 ^ (r + 1))]
<1>0. half \in Nat \ {0} /\ Line(h, 2) = half /\ Line(h, h + 1) = 2 ^ h - 1 /\ 2 ^ h = 2 * half
  BY Lines
<1>1. CASE h = 1
  <2>1. half = 1 BY <1>1, PowerOfZero
  <2>2. seqs = <<>> BY <1>1
  <2>3. s = <<>> BY <2>2 DEF Seqs!FlattenSeq
  <2>4. s \in Seq(Match) /\ Len(s) = half - 1 BY <2>1, <2>3
  <2>5. 2..h = {} BY <1>1
  <2> QED BY <2>4, <2>5
<1>2. CASE h # 1
  <2> DEFINE n == h - 1
  <2>1. n \in Nat \ {0} BY <1>2
  <2>2. ASSUME NEW r \in 1..n
        PROVE  /\ Line(h, r + 1) \in Nat /\ Line(h, r + 2) \in Nat
               /\ 2 ^ h \div 2 ^ (r + 1) = Line(h, r + 2) - Line(h, r + 1)
               /\ 2 ^ h \div 2 ^ (r + 1) \in Nat /\ Line(h, r + 1) >= half
    <3>1. r + 1 \in 1..h /\ r + 1 \in 0..h /\ (r + 1) + 1 = r + 2 BY <1>2
    <3>2. 2 ^ h \div 2 ^ (r + 1) = 2 ^ (h - (r + 1)) BY <3>1, PowerQuotient
    <3>3. /\ Line(h, r + 1) = 2 ^ h - 2 * 2 ^ (h - (r + 1)) /\ Line(h, r + 2) = 2 ^ h - 2 ^ (h - (r + 1))
          /\ 2 ^ (h - (r + 1)) \in Nat /\ 2 ^ h \in Nat /\ Line(h, r + 1) \in Nat /\ Line(h, r + 2) \in Nat
      BY <3>1, Lines
    <3>0. r \in 1..h BY <1>2
    <3>4. r \in 1..h /\ Line(h, r + 1) = 2 ^ h - 2 ^ (h - r) BY <3>0, Lines
    <3>5. 2 ^ (h - r) <= half
      <4>1. h - 1 = (r - 1) + (h - r) /\ r - 1 \in Nat /\ h - r \in Nat BY <3>4
      <4>2. half = 2 ^ (r - 1) * 2 ^ (h - r) BY <4>1, PowerOfSum
      <4>3. 2 ^ (r - 1) \in Nat \ {0} /\ 2 ^ (h - r) \in Nat BY <4>1, PowerDoubles, PowersAreLarge
      <4>4. \A a \in Nat \ {0}, b \in Nat : b <= a * b OBVIOUS
      <4> QED BY <4>2, <4>3, <4>4
    <3>6. 2 ^ (h - r) \in Nat BY <3>4, Lines
    <3>7. Line(h, r + 1) >= half
      <4> HIDE DEF half
      <4> QED BY <1>0, <3>3, <3>4, <3>5, <3>6
    <3>8. 2 ^ (h - (r + 1)) = Line(h, r + 2) - Line(h, r + 1)
      <4> HIDE DEF half
      <4> QED BY <3>3
    <3> HIDE DEF half
    <3> QED BY <3>2, <3>3, <3>7, <3>8, Zenon
  <2>3. ASSUME NEW r \in 1..n
        PROVE  /\ seqs[r] \in Seq(Match) /\ Len(seqs[r]) = Line(h, r + 2) - Line(h, r + 1)
               /\ \A i \in 1..Len(seqs[r]) : seqs[r][i] = EmptyMatch(stage, r + 1)
    <3>1. seqs[r] = EmptyRound(stage, r + 1, 2 ^ h \div 2 ^ (r + 1)) OBVIOUS
    <3> HIDE DEF seqs
    <3>2. /\ 2 ^ h \div 2 ^ (r + 1) = Line(h, r + 2) - Line(h, r + 1)
          /\ 2 ^ h \div 2 ^ (r + 1) \in Nat /\ r + 1 \in Nat
      BY <2>2
    <3> HIDE DEF n, half
    <3> DEFINE c == 2 ^ h \div 2 ^ (r + 1)
    <3>3. c \in Nat /\ seqs[r] = EmptyRound(stage, r + 1, c) /\ c = Line(h, r + 2) - Line(h, r + 1)
      BY <3>1, <3>2
    <3> HIDE DEF c
    <3>4. /\ EmptyRound(stage, r + 1, c) \in Seq(Match) /\ Len(EmptyRound(stage, r + 1, c)) = c
          /\ \A i \in 1..c : EmptyRound(stage, r + 1, c)[i] = EmptyMatch(stage, r + 1)
      BY <3>2, <3>3, EmptyRoundIs
    <3> QED BY <3>3, <3>4
  <2>4. seqs \in [1..n -> Seq(Match)]
    <3>1. DOMAIN seqs = 1..n /\ seqs = [r \in 1..n |-> seqs[r]] OBVIOUS
    <3> HIDE DEF seqs
    <3> QED BY <2>3, <3>1
  <2>5. PICK f \in [1..n -> Seq(Match)] : Chain(f, seqs, n) /\ Seqs!FlattenSeq(seqs) = f[n]
    <3> HIDE DEF seqs, n
    <3> QED BY <2>1, <2>4, Flattened
  <2>6. s = f[n] BY <2>5
  <2> HIDE DEF seqs, half
  <2> DEFINE P == {k \in Nat : k \in 1..n =>
                     /\ Len(f[k]) = Line(h, k + 2) - half
                     /\ \A r \in 1..k : \A x \in Row(h, r + 1) : f[k][x - half] = EmptyMatch(stage, r + 1)}
  <2>7. 0 \in P OBVIOUS
  <2>8. ASSUME NEW k \in Nat, k \in P PROVE k + 1 \in P
    <3>1. SUFFICES ASSUME k + 1 \in 1..n
          PROVE  /\ Len(f[k + 1]) = Line(h, k + 3) - half
                 /\ \A r \in 1..(k + 1) : \A x \in Row(h, r + 1) :
                      f[k + 1][x - half] = EmptyMatch(stage, r + 1)
      OBVIOUS
    <3>2. /\ seqs[k + 1] \in Seq(Match) /\ Len(seqs[k + 1]) = Line(h, k + 3) - Line(h, k + 2)
          /\ \A i \in 1..Len(seqs[k + 1]) : seqs[k + 1][i] = EmptyMatch(stage, k + 2)
      BY <2>3, <3>1
    <3>3. /\ Line(h, k + 2) \in Nat /\ Line(h, k + 3) \in Nat /\ Line(h, k + 3) >= Line(h, k + 2)
          /\ Line(h, k + 2) >= half
      <4>1. (k + 1) + 1 = k + 2 /\ (k + 1) + 2 = k + 3 OBVIOUS
      <4>2. /\ Line(h, k + 2) \in Nat /\ Line(h, k + 3) \in Nat /\ Line(h, k + 2) >= half
            /\ Line(h, k + 3) - Line(h, k + 2) \in Nat
        BY <2>2, <3>1, <4>1
      <4> QED BY <4>2
    <3>4. CASE k = 0
      <4>1. f[1] = seqs[1] BY <2>5, <3>1, <3>4 DEF Chain
      <4>2. Len(f[1]) = Line(h, 3) - half BY <1>0, <3>2, <3>4, <4>1
      <4>3. ASSUME NEW x \in Row(h, 2) PROVE f[1][x - half] = EmptyMatch(stage, 2)
        <5>1. x - half \in 1..Len(seqs[1]) BY <1>0, <3>2, <3>3, <3>4 DEF Row
        <5> QED BY <3>2, <3>4, <4>1, <5>1
      <4> QED BY <3>4, <4>2, <4>3
    <3>5. CASE k # 0
      <4>1. k \in 1..n /\ f[k] \in Seq(Match) BY <3>1, <3>5
      <4>2. /\ Len(f[k]) = Line(h, k + 2) - half
            /\ \A r \in 1..k : \A x \in Row(h, r + 1) : f[k][x - half] = EmptyMatch(stage, r + 1)
        BY <2>8, <4>1
      <4>3. f[k + 1] = f[k] \o seqs[k + 1]
        <5>1. (k + 1) - 1 = k /\ k + 1 # 1 BY <3>5
        <5> QED BY <2>5, <3>1, <5>1 DEF Chain, Join
      <4>4. Len(f[k + 1]) = Len(f[k]) + Len(seqs[k + 1]) BY <3>2, <4>1, <4>3
      <4>5. ASSUME NEW r \in 1..(k + 1), NEW x \in Row(h, r + 1)
            PROVE  f[k + 1][x - half] = EmptyMatch(stage, r + 1)
        <5>1. CASE r = k + 1
          <6>1. x \in Nat /\ Line(h, k + 2) < x /\ x <= Line(h, k + 3) BY <3>3, <5>1 DEF Row
          <6>2. x - half \in (Len(f[k]) + 1)..(Len(f[k]) + Len(seqs[k + 1]))
            BY <1>0, <3>2, <3>3, <4>2, <6>1
          <6>3. f[k + 1][x - half] = seqs[k + 1][x - half - Len(f[k])]
            BY <3>2, <4>1, <4>3, <6>2
          <6>4. x - half - Len(f[k]) \in 1..Len(seqs[k + 1]) BY <3>2, <4>1, <6>2
          <6> QED BY <3>2, <5>1, <6>3, <6>4
        <5>2. CASE r # k + 1
          <6>1. r \in 1..k /\ r \in 1..n BY <3>1, <5>2
          <6>2. Line(h, r + 1) \in Nat /\ Line(h, r + 2) \in Nat /\ Line(h, r + 1) >= half BY <2>2, <6>1
          <6>3. x \in Nat /\ Line(h, r + 1) < x /\ x <= Line(h, r + 2) BY <6>2 DEF Row
          <6>4. Line(h, r + 2) <= Line(h, k + 2)
            <7>1. r + 1 \in 1..h /\ k + 1 \in 1..h /\ (r + 1) + 1 = r + 2 /\ (k + 1) + 1 = k + 2
              BY <3>1, <6>1
            <7>2. Line(h, r + 2) = 2 ^ h - 2 ^ (h - (r + 1)) /\ Line(h, k + 2) = 2 ^ h - 2 ^ (h - (k + 1))
                  /\ 2 ^ h \in Nat /\ 2 ^ (h - (r + 1)) \in Nat /\ 2 ^ (h - (k + 1)) \in Nat
              BY <7>1, Lines
            <7>3. 2 ^ (h - (k + 1)) <= 2 ^ (h - (r + 1))
              <8>1. h - (r + 1) = (k - r) + (h - (k + 1)) /\ k - r \in Nat /\ h - (k + 1) \in Nat
                BY <6>1, <7>1
              <8>2. 2 ^ (h - (r + 1)) = 2 ^ (k - r) * 2 ^ (h - (k + 1)) BY <8>1, PowerOfSum
              <8>3. 2 ^ (k - r) \in Nat \ {0} BY <8>1, PowerDoubles, PowersAreLarge
              <8>4. \A a \in Nat \ {0}, b \in Nat : b <= a * b OBVIOUS
              <8> QED BY <7>2, <8>2, <8>3, <8>4
            <7> QED BY <7>2, <7>3
          <6>5. x - half \in 1..Len(f[k]) BY <1>0, <3>3, <4>2, <6>2, <6>3, <6>4
          <6>6. f[k + 1][x - half] = f[k][x - half] BY <3>2, <4>1, <4>3, <6>5
          <6> QED BY <4>2, <6>1, <6>6
        <5> QED BY <5>1, <5>2
      <4> QED BY <1>0, <3>2, <3>3, <4>2, <4>4, <4>5
    <3> QED BY <3>4, <3>5
  <2> HIDE DEF P
  <2>9. n \in P BY <2>1, <2>7, <2>8, Induction
  <2>10. Len(s) = 2 ^ (h - 1) - 1
    <3>1. Len(f[n]) = Line(h, n + 2) - half BY <2>1, <2>9 DEF P
    <3>2. n + 2 = h + 1 OBVIOUS
    <3> QED BY <1>0, <2>6, <3>1, <3>2 DEF half
  <2>11. ASSUME NEW r \in 2..h, NEW x \in Row(h, r)
         PROVE  s[x - 2 ^ (h - 1)] = EmptyMatch(stage, r)
    <3>1. r - 1 \in 1..n /\ (r - 1) + 1 = r BY <1>2
    <3> HIDE DEF n
    <3>3. x \in Row(h, (r - 1) + 1) BY <3>1
    <3>2. f[n][x - half] = EmptyMatch(stage, (r - 1) + 1)
      <4>1. \A q \in 1..n : \A y \in Row(h, q + 1) : f[n][y - half] = EmptyMatch(stage, q + 1)
        BY <2>1, <2>9 DEF P
      <4> QED BY <3>1, <3>3, <4>1, Zenon
    <3> QED BY <2>6, <3>1, <3>2 DEF half
  <2>12. s \in Seq(Match) BY <2>1, <2>6
  <2> QED BY <2>10, <2>11, <2>12
<1> QED BY <1>1, <1>2

\* All rounds, before the byes are seated.
LEMMA KnockoutIs ==
  ASSUME NEW stage \in Stages, NEW n \in Nat, n >= 2, NEW h \in Nat \ {0}, Holds(n, h)
  PROVE  LET ms == Knockout(stage, n) IN
         /\ ms \in Seq(Match) /\ Len(ms) = 2 ^ h - 1
         /\ \A i \in 1..(2 ^ (h - 1)) : ms[i] = Pairing(stage, 1, i, Opponent(n, h, i))
         /\ \A r \in 2..h : \A x \in Row(h, r) : ms[x] = EmptyMatch(stage, r)
<1> DEFINE half == 2 ^ (h - 1)
           a == FirstRound(stage, n)
           b == Seqs!FlattenSeq([r \in 1..(h - 1) |->
                  EmptyRound(stage, r + 1, 2 ^ h \div 2 ^ (r + 1))])
           ms == Knockout(stage, n)
<1>1. ms = a \o b BY DEF Knockout, Holds
<1>2. /\ a \in Seq(Match) /\ Len(a) = half
      /\ \A i \in 1..half : a[i] = Pairing(stage, 1, i, Opponent(n, h, i))
  BY FirstRoundIs
<1>3. /\ b \in Seq(Match) /\ Len(b) = half - 1
      /\ \A r \in 2..h : \A x \in Row(h, r) : b[x - half] = EmptyMatch(stage, r)
  <2> HIDE DEF b
  <2> QED BY LaterRounds DEF b
<1>4. half \in Nat \ {0} /\ 2 ^ h = 2 * half BY Lines
<1>5. ASSUME NEW r \in 2..h, NEW x \in Row(h, r) PROVE x - half \in 1..Len(b)
  <2>1. /\ 2 ^ (h - 1) = 2 ^ (r - 2) * (2 * 2 ^ (h - r)) /\ 2 ^ (r - 2) \in Nat /\ 2 ^ (r - 2) > 0
        /\ 2 ^ (h - r) \in Nat \ {0}
    <3>1. h - 1 = (r - 2) + (h - r + 1) /\ r - 2 \in Nat /\ h - r \in Nat /\ h - r + 1 \in Nat OBVIOUS
    <3>2. 2 ^ (h - 1) = 2 ^ (r - 2) * 2 ^ (h - r + 1) BY <3>1, PowerOfSum
    <3>3. 2 ^ (r - 2) \in Nat /\ 2 ^ (r - 2) > 0 /\ 2 ^ (h - r) \in Nat \ {0}
          /\ 2 ^ (h - r + 1) = 2 * 2 ^ (h - r)
      BY <3>1, PowerDoubles, PowersAreLarge
    <3> QED BY <3>2, <3>3
  <2>2. \A u, v \in Nat : u > 0 => 2 * v <= u * (2 * v) OBVIOUS
  <2>3. 2 * 2 ^ (h - r) <= half BY <2>1, <2>2
  <2>4. r \in 1..h OBVIOUS
  <2>5. Line(h, r) = 2 ^ h - 2 * 2 ^ (h - r) /\ Line(h, r + 1) = 2 ^ h - 2 ^ (h - r) BY <2>4, Lines
  <2> HIDE DEF half, b
  <2>6. x \in Int /\ Line(h, r) < x /\ x <= Line(h, r + 1) BY <1>4, <2>1, <2>5 DEF Row
  <2> QED BY <1>3, <1>4, <2>1, <2>3, <2>5, <2>6
<1> HIDE DEF a, b, ms, half
<1>6. ms \in Seq(Match) /\ Len(ms) = Len(a) + Len(b)
  <2>1. \A s, t \in Seq(Match) : s \o t \in Seq(Match) /\ Len(s \o t) = Len(s) + Len(t) OBVIOUS
  <2> QED BY <1>1, <1>2, <1>3, <2>1
<1>7. \A i \in 1..half : ms[i] = a[i] BY <1>1, <1>2, <1>3
<1>8. \A i \in Int : i - half \in 1..Len(b) => ms[i] = b[i - half] BY <1>1, <1>2, <1>3, <1>4
<1>9. ASSUME NEW r \in 2..h, NEW x \in Row(h, r) PROVE ms[x] = EmptyMatch(stage, r)
  <2>1. r \in 1..h OBVIOUS
  <2>2. x \in Int BY <2>1, Lines DEF Row
  <2> QED BY <1>3, <1>5, <1>8, <2>2
<1>10. Len(ms) = 2 ^ h - 1 BY <1>2, <1>3, <1>4, <1>6
<1> QED BY <1>2, <1>6, <1>7, <1>9, <1>10 DEF ms, half

-----------------------------------------------------------------------------
(* Where the winner of a match plays next.                                 *)

HasRounds(ms, stage, h) ==
  /\ DOMAIN ms = 1..(2 ^ h - 1)
  /\ \A r \in 1..h : \A x \in Row(h, r) : ms[x].stage = stage /\ ms[x].round = r

\* A round is a row of matches.
LEMMA RoundIs ==
  ASSUME NEW h \in Nat \ {0}, NEW ms, NEW stage, HasRounds(ms, stage, h), NEW r \in Nat, r # 0
  PROVE  RoundOf(ms, stage, r) = IF r <= h THEN Row(h, r) ELSE {}
<1>1. ASSUME NEW x \in RoundOf(ms, stage, r) PROVE r <= h /\ x \in Row(h, r)
  <2>1. x \in 1..(2 ^ h - 1) /\ ms[x].round = r BY DEF RoundOf, HasRounds
  <2>2. PICK s \in 1..h : x \in Row(h, s) BY <2>1, RowsCover
  <2>3. ms[x].round = s BY <2>2 DEF HasRounds
  <2> QED BY <2>1, <2>2, <2>3
<1>2. ASSUME r <= h, NEW x \in Row(h, r) PROVE x \in RoundOf(ms, stage, r)
  <2>1. r \in 1..h BY <1>2
  <2>2. ms[x].stage = stage /\ ms[x].round = r BY <2>1 DEF HasRounds
  <2>3. /\ Line(h, r) \in Nat /\ Line(h, r + 1) = 2 ^ h - 2 ^ (h - r)
        /\ 2 ^ (h - r) \in Nat \ {0} /\ 2 ^ h \in Nat
    BY <2>1, Lines
  <2>4. x \in 1..(2 ^ h - 1) BY <2>3 DEF Row
  <2> QED BY <2>2, <2>4 DEF RoundOf, HasRounds
<1> QED BY <1>1, <1>2

\* A match is found in its round by its place in the row.
LEMMA PositionIs ==
  ASSUME NEW h \in Nat \ {0}, NEW ms, NEW stage, HasRounds(ms, stage, h), NEW r \in 1..h,
         NEW x \in Row(h, r)
  PROVE  Position(ms, x) = x - Line(h, r) - 1
<1>1. ms[x].stage = stage /\ ms[x].round = r BY DEF HasRounds
<1>2. RoundOf(ms, stage, r) = Row(h, r) BY RoundIs
<1>3. Line(h, r) \in Nat /\ Line(h, r + 1) \in Nat BY Lines
<1>4. {y \in Row(h, r) : y < x} = (Line(h, r) + 1)..(x - 1) BY <1>3 DEF Row
<1>5. x \in Nat /\ x - 1 >= Line(h, r) BY <1>3 DEF Row
<1>6. \A a, b \in Int : Cardinality(a..b) = IF a > b THEN 0 ELSE b - a + 1 BY FS_Interval
<1>7. Cardinality((Line(h, r) + 1)..(x - 1)) = x - Line(h, r) - 1
  <2>1. Line(h, r) + 1 \in Int /\ x - 1 \in Int BY <1>3, <1>5
  <2>2. Cardinality((Line(h, r) + 1)..(x - 1)) =
          IF Line(h, r) + 1 > x - 1 THEN 0 ELSE (x - 1) - (Line(h, r) + 1) + 1
    BY <1>6, <2>1, Zenon
  <2> QED BY <1>3, <1>5, <2>2
<1> QED BY <1>1, <1>2, <1>4, <1>7 DEF Position

\* The match that the winner of x goes to, among the 2 ^ h - 1 of a knockout.
Target(h, x) == (2 ^ h + x + 1) \div 2

\* The match and the side a winner goes to.
LEMMA NextIs ==
  ASSUME NEW h \in Nat \ {0}, NEW ms, NEW stage, HasRounds(ms, stage, h),
         NEW x \in 1..(2 ^ h - 1)
  PROVE  /\ NextMatch(ms, x) = IF x < 2 ^ h - 1 THEN {Target(h, x)} ELSE {}
         /\ NextSide(ms, x) = 1 + ((x + 1) % 2)
<1>1. PICK r \in 1..h : x \in Row(h, r) BY RowsCover
<1>2. ms[x].stage = stage /\ ms[x].round = r BY <1>1 DEF HasRounds
<1> DEFINE N == 2 ^ h
           c == 2 ^ (h - r)
           p == x - Line(h, r) - 1
<1>3. Position(ms, x) = p BY <1>1, PositionIs
<1>4. /\ N \in Nat /\ c \in Nat \ {0} /\ Line(h, r) = N - 2 * c /\ Line(h, r + 1) = N - c
      /\ Line(h, r) \in Nat /\ Line(h, r + 1) \in Nat
  BY Lines
<1>5. N = 2 * 2 ^ (h - 1) /\ 2 ^ (h - 1) \in Nat BY Lines
<1> HIDE DEF c, N
<1>6. p = x - (N - 2 * c) - 1 /\ p \in 0..(c - 1) BY <1>1, <1>4 DEF Row
<1>7. NextSide(ms, x) = 1 + ((x + 1) % 2)
  <2>1. \A d, e, z \in Int : (z - (2 * d - 2 * e) - 1) % 2 = (z + 1) % 2 OBVIOUS
  <2>2. p % 2 = (x + 1) % 2 BY <1>4, <1>5, <1>6, <2>1
  <2> QED BY <1>3, <2>2 DEF NextSide
<1>8. CASE r = h
  <2>1. c = 1 BY <1>8, PowerOfZero DEF c
  <2>2. x = N - 1 BY <1>4, <1>6, <2>1
  <2>3. RoundOf(ms, stage, r + 1) = {}
    <3>1. r + 1 \in Nat /\ r + 1 # 0 /\ ~(r + 1 <= h) BY <1>8
    <3> QED BY <3>1, RoundIs
  <2> QED BY <1>2, <1>7, <2>2, <2>3 DEF NextMatch, MatchAt, N
<1>9. CASE r # h
  <2> DEFINE q == 2 ^ (h - (r + 1))
  <2>0. r < h BY <1>9
  <2>1. q \in Nat \ {0} /\ c = 2 * q BY <2>0, Lines DEF c
  <2>2. r + 1 \in 1..h /\ r + 1 \in Nat /\ r + 1 # 0 /\ r + 1 <= h BY <2>0
  <2>3. Line(h, (r + 1) + 1) = N - q BY <2>2, Lines DEF N
  <2> HIDE DEF q
  <2>4. RoundOf(ms, stage, r + 1) = Row(h, r + 1) BY <2>2, RoundIs
  <2>5. Row(h, r + 1) = (N - c + 1)..(N - q) BY <1>4, <2>3 DEF Row
  <2>6. \A y \in Row(h, r + 1) : Position(ms, y) = y - (N - c) - 1
    BY <1>4, <2>2, PositionIs
  <2>7. MatchAt(ms, stage, r + 1, p \div 2) = {y \in (N - c + 1)..(N - q) : y - (N - c) - 1 = p \div 2}
    BY <2>4, <2>5, <2>6 DEF MatchAt
  <2>8. p \div 2 \in 0..(q - 1)
    <3>1. \A z \in Nat, k \in Nat : z < 2 * k => z \div 2 < k /\ z \div 2 \in Nat OBVIOUS
    <3> QED BY <1>6, <2>1, <3>1
  <2>9. Target(h, x) = (N - c) + 1 + p \div 2
    <3>2. x = p + 1 + (N - 2 * c) BY <1>4, <1>6
    <3>3. \A e, z, u \in Int : u = z + 2 * e => u \div 2 = z \div 2 + e OBVIOUS
    <3>4. N + x + 1 = p + 2 * (N - c + 1) BY <1>4, <1>6, <3>2
    <3> QED BY <1>4, <1>6, <3>3, <3>4 DEF Target, N
  <2>10. x < N - 1 BY <1>4, <1>6, <2>1
  <2>11. {y \in (N - c + 1)..(N - q) : y - (N - c) - 1 = p \div 2} = {(N - c) + 1 + p \div 2}
    <3>1. \A d \in Int, k \in Nat, m \in Int : k < c - q /\ m = N - c =>
            {y \in (m + 1)..(N - q) : y - m - 1 = k} = {m + 1 + k}
      BY <1>4, <2>1
    <3>2. p \div 2 \in Nat /\ p \div 2 < c - q BY <2>1, <2>8
    <3> QED BY <1>4, <3>1, <3>2
  <2>12. NextMatch(ms, x) = {Target(h, x)}
    BY <1>2, <1>3, <2>7, <2>9, <2>11 DEF NextMatch
  <2> QED BY <1>7, <2>10, <2>12 DEF N
<1> QED BY <1>8, <1>9

-----------------------------------------------------------------------------
(* The byes are seated (advanceByes).                                      *)

\* The two matches whose winners meet in y.
One(h, y) == 2 * y - 2 ^ h - 1
Two(h, y) == 2 * y - 2 ^ h

\* Two winners meet in every match after round 1.
LEMMA TargetIs ==
  ASSUME NEW h \in Nat \ {0}, NEW x \in 1..(2 ^ h - 1)
  PROVE  /\ 2 ^ h \in Nat /\ Target(h, x) \in Nat /\ Target(h, x) > 2 ^ (h - 1)
         /\ x < 2 ^ h - 1 => Target(h, x) \in 1..(2 ^ h - 1) /\ x < Target(h, x)
         /\ ~(x < 2 ^ h - 1) => Target(h, x) \notin 1..(2 ^ h - 1)
         /\ (x + 1) % 2 \in {0, 1}
         /\ \A y \in Int : /\ One(h, y) = x <=> y = Target(h, x) /\ (x + 1) % 2 = 0
                           /\ Two(h, y) = x <=> y = Target(h, x) /\ (x + 1) % 2 = 1
<1>1. 2 ^ h \in Nat /\ 2 ^ (h - 1) \in Nat /\ 2 ^ h = 2 * 2 ^ (h - 1) BY Lines
<1>2. \A e \in Nat, z \in Int, t \in Int, y \in Int :
        t = (2 * e + z + 1) \div 2 =>
          /\ (z + 1) % 2 \in {0, 1}
          /\ 2 * y - 2 * e - 1 = z <=> y = t /\ (z + 1) % 2 = 0
          /\ 2 * y - 2 * e = z <=> y = t /\ (z + 1) % 2 = 1
  OBVIOUS
<1>3. \A e \in Nat, z \in Int, t \in Int :
        t = (2 * e + z + 1) \div 2 /\ 1 <= z /\ z <= 2 * e - 1 =>
          /\ t > e
          /\ z < 2 * e - 1 => t <= 2 * e - 1 /\ z < t
          /\ ~(z < 2 * e - 1) => t > 2 * e - 1
  OBVIOUS
<1>4. Target(h, x) \in Int BY <1>1 DEF Target
<1> DEFINE e == 2 ^ (h - 1)
           N == 2 ^ h
<1>5. Target(h, x) = (2 * e + x + 1) \div 2 BY <1>1 DEF Target
<1>6. One(h, x) = One(h, x) /\ \A y \in Int : One(h, y) = 2 * y - 2 * e - 1 /\ Two(h, y) = 2 * y - 2 * e
  BY <1>1 DEF One, Two
<1>7. e \in Nat /\ N = 2 * e /\ x \in Int /\ 1 <= x /\ x <= 2 * e - 1 BY <1>1
<1> HIDE DEF e, N
<1>8. /\ Target(h, x) > e
      /\ x < 2 * e - 1 => Target(h, x) <= 2 * e - 1 /\ x < Target(h, x)
      /\ ~(x < 2 * e - 1) => Target(h, x) > 2 * e - 1
  BY <1>3, <1>4, <1>5, <1>7
<1>9. (x + 1) % 2 \in {0, 1} BY <1>2, <1>4, <1>5, <1>7
<1>10. ASSUME NEW y \in Int
       PROVE /\ One(h, y) = x <=> y = Target(h, x) /\ (x + 1) % 2 = 0
             /\ Two(h, y) = x <=> y = Target(h, x) /\ (x + 1) % 2 = 1
  <2>1. /\ 2 * y - 2 * e - 1 = x <=> y = Target(h, x) /\ (x + 1) % 2 = 0
        /\ 2 * y - 2 * e = x <=> y = Target(h, x) /\ (x + 1) % 2 = 1
    BY <1>2, <1>4, <1>5, <1>7
  <2>2. One(h, y) = 2 * y - 2 * e - 1 /\ Two(h, y) = 2 * y - 2 * e BY <1>6
  <2> QED BY <2>1, <2>2
<1>11. N \in Nat /\ Target(h, x) \in Nat BY <1>4, <1>7, <1>8
<1>12. /\ x < N - 1 => Target(h, x) \in 1..(N - 1) /\ x < Target(h, x)
       /\ ~(x < N - 1) => Target(h, x) \notin 1..(N - 1)
  BY <1>4, <1>7, <1>8
<1> QED BY <1>8, <1>9, <1>10, <1>11, <1>12 DEF e, N

\* A match with its seats taken.
With(m, a, b) == [m EXCEPT !.p1 = a, !.p2 = b]
First(m, a) == [m EXCEPT !.p1 = a]
Second(m, b) == [m EXCEPT !.p2 = b]

\* Nothing but the seats changes.
LEMMA WithIs ==
  ASSUME NEW m \in Match, NEW a \in Nat, NEW b \in Nat
  PROVE  /\ With(m, m.p1, m.p2) = m /\ With(m, a, b) \in Match
         /\ With(m, a, b).p1 = a /\ With(m, a, b).p2 = b
         /\ With(m, a, b).stage = m.stage /\ With(m, a, b).round = m.round
         /\ With(m, a, b).winner = m.winner /\ With(m, a, b).status = m.status
  BY DEF With, Match

\* The last one seated stays.
LEMMA SeatsAgain ==
  ASSUME NEW m \in Match, NEW a \in Nat, NEW b \in Nat, NEW c \in Nat
  PROVE  First(With(m, a, b), c) = With(m, c, b) /\ Second(With(m, a, b), c) = With(m, a, c)
  BY DEF With, First, Second, Match

\* Winners of T sit in the matches they go to.
Fed(ms, h, T) ==
  [y \in DOMAIN ms |->
     With(ms[y], IF One(h, y) \in T THEN ms[One(h, y)].winner ELSE ms[y].p1,
                 IF Two(h, y) \in T THEN ms[Two(h, y)].winner ELSE ms[y].p2)]

\* What the fed matches say.
LEMMA FedIs ==
  ASSUME NEW h \in Nat \ {0}, NEW stage, NEW ms \in [1..(2 ^ h - 1) -> Match],
         HasRounds(ms, stage, h), NEW T \in SUBSET (1..(2 ^ h - 1))
  PROVE  /\ Fed(ms, h, T) \in [1..(2 ^ h - 1) -> Match]
         /\ HasRounds(Fed(ms, h, T), stage, h)
         /\ \A y \in 1..(2 ^ h - 1) :
              /\ Fed(ms, h, T)[y].winner = ms[y].winner /\ Fed(ms, h, T)[y].status = ms[y].status
              /\ Fed(ms, h, T)[y].p1 = IF One(h, y) \in T THEN ms[One(h, y)].winner ELSE ms[y].p1
              /\ Fed(ms, h, T)[y].p2 = IF Two(h, y) \in T THEN ms[Two(h, y)].winner ELSE ms[y].p2
<1> DEFINE D == 1..(2 ^ h - 1)
           a(y) == IF One(h, y) \in T THEN ms[One(h, y)].winner ELSE ms[y].p1
           b(y) == IF Two(h, y) \in T THEN ms[Two(h, y)].winner ELSE ms[y].p2
<1>1. \A y \in D : ms[y].winner \in Nat /\ ms[y].p1 \in Nat /\ ms[y].p2 \in Nat
  <2> HIDE DEF D
  <2>1. \A y \in D : ms[y] \in Match BY DEF D
  <2> QED BY <2>1 DEF Match
<1> HIDE DEF D
<1>2. \A y \in D : a(y) \in Nat /\ b(y) \in Nat BY <1>1 DEF D
<1>3. \A y \in D : ms[y] \in Match BY DEF D
<1> HIDE DEF a, b
<1>4. Fed(ms, h, T) = [y \in D |-> With(ms[y], a(y), b(y))] BY DEF Fed, a, b, D
<1>5. \A y \in D : /\ With(ms[y], a(y), b(y)) \in Match
                   /\ With(ms[y], a(y), b(y)).p1 = a(y) /\ With(ms[y], a(y), b(y)).p2 = b(y)
                   /\ With(ms[y], a(y), b(y)).stage = ms[y].stage
                   /\ With(ms[y], a(y), b(y)).round = ms[y].round
                   /\ With(ms[y], a(y), b(y)).winner = ms[y].winner
                   /\ With(ms[y], a(y), b(y)).status = ms[y].status
  <2> SUFFICES ASSUME NEW y \in D
               PROVE  /\ With(ms[y], a(y), b(y)) \in Match
                      /\ With(ms[y], a(y), b(y)).p1 = a(y) /\ With(ms[y], a(y), b(y)).p2 = b(y)
                      /\ With(ms[y], a(y), b(y)).stage = ms[y].stage
                      /\ With(ms[y], a(y), b(y)).round = ms[y].round
                      /\ With(ms[y], a(y), b(y)).winner = ms[y].winner
                      /\ With(ms[y], a(y), b(y)).status = ms[y].status
    OBVIOUS
  <2> DEFINE m == ms[y]  u == a(y)  v == b(y)
  <2>1. u \in Nat /\ v \in Nat /\ m \in Match BY <1>2, <1>3
  <2> HIDE DEF m, u, v
  <2>2. /\ With(m, u, v) \in Match /\ With(m, u, v).p1 = u /\ With(m, u, v).p2 = v
        /\ With(m, u, v).stage = m.stage /\ With(m, u, v).round = m.round
        /\ With(m, u, v).winner = m.winner /\ With(m, u, v).status = m.status
    BY <2>1, WithIs
  <2> QED BY <2>2 DEF m, u, v
<1>6. Fed(ms, h, T) \in [D -> Match] BY <1>4, <1>5
<1>7. HasRounds(Fed(ms, h, T), stage, h)
  <2>1. \A r \in 1..h : \A x \in Row(h, r) : x \in D
    <3> SUFFICES ASSUME NEW r \in 1..h, NEW x \in Row(h, r) PROVE x \in D OBVIOUS
    <3>1. RoundOf(ms, stage, r) = Row(h, r) BY RoundIs
    <3> QED BY <3>1 DEF RoundOf, D
  <2> QED BY <1>4, <1>5, <2>1 DEF HasRounds, D
<1> QED BY <1>4, <1>5, <1>6, <1>7 DEF a, b, D

\* One more winner is one advance.
LEMMA FedStep ==
  ASSUME NEW h \in Nat \ {0}, NEW stage, NEW ms \in [1..(2 ^ h - 1) -> Match],
         HasRounds(ms, stage, h), NEW T \in SUBSET (1..(2 ^ h - 1)), NEW x \in T
  PROVE  Fed(ms, h, T) = Advance(Fed(ms, h, T \ {x}), x)
<1> DEFINE D == 1..(2 ^ h - 1)
           U == T \ {x}
           fed == Fed(ms, h, U)
           w == ms[x].winner
<1>1. x \in D /\ U \in SUBSET D OBVIOUS
<1>2. fed \in [D -> Match] /\ HasRounds(fed, stage, h) /\ fed[x].winner = w
  BY <1>1, FedIs
<1>3. /\ NextMatch(fed, x) = IF x < 2 ^ h - 1 THEN {Target(h, x)} ELSE {}
      /\ NextSide(fed, x) = 1 + ((x + 1) % 2)
  BY <1>1, <1>2, NextIs
<1>4. /\ 2 ^ h \in Nat /\ x < 2 ^ h - 1 => Target(h, x) \in D
      /\ ~(x < 2 ^ h - 1) => Target(h, x) \notin D
      /\ (x + 1) % 2 \in {0, 1}
      /\ \A y \in Int : /\ One(h, y) = x <=> y = Target(h, x) /\ (x + 1) % 2 = 0
                        /\ Two(h, y) = x <=> y = Target(h, x) /\ (x + 1) % 2 = 1
  BY <1>1, TargetIs
<1> DEFINE side == NextSide(fed, x)
           adv == Advance(fed, x)
<1>5. side = 1 <=> (x + 1) % 2 = 0 BY <1>3, <1>4
<1>6. adv = [y \in D |-> IF y \notin NextMatch(fed, x) THEN fed[y]
                         ELSE IF side = 1 THEN First(fed[y], w) ELSE Second(fed[y], w)]
  BY <1>2 DEF Advance, Seat, First, Second
<1>7. D \subseteq Int /\ \A y \in D : y \in NextMatch(fed, x) <=> y = Target(h, x)
  BY <1>3, <1>4
<1> DEFINE a(S, y) == IF One(h, y) \in S THEN ms[One(h, y)].winner ELSE ms[y].p1
           b(S, y) == IF Two(h, y) \in S THEN ms[Two(h, y)].winner ELSE ms[y].p2
<1>8. \A y \in D : fed[y] = With(ms[y], a(U, y), b(U, y)) /\ Fed(ms, h, T)[y] = With(ms[y], a(T, y), b(T, y))
  BY DEF Fed
<1>9. \A y \in D : /\ One(h, y) # x => a(T, y) = a(U, y)
                   /\ Two(h, y) # x => b(T, y) = b(U, y)
                   /\ One(h, y) = x => a(T, y) = w
                   /\ Two(h, y) = x => b(T, y) = w
  OBVIOUS
<1>10. \A y \in D : ms[y] \in Match /\ ms[y].winner \in Nat /\ ms[y].p1 \in Nat /\ ms[y].p2 \in Nat
  <2>1. \A y \in D : ms[y] \in Match OBVIOUS
  <2> QED BY <2>1 DEF Match
<1>11. w \in Nat /\ \A y \in D : a(U, y) \in Nat /\ b(U, y) \in Nat BY <1>1, <1>10
<1>12. Fed(ms, h, T) = [y \in D |-> Fed(ms, h, T)[y]] BY DEF Fed
<1> HIDE DEF D, U, fed, w, side, adv, a, b
<1>13. ASSUME NEW y \in D PROVE Fed(ms, h, T)[y] = adv[y]
  <2>1. CASE y # Target(h, x)
    <3>1. One(h, y) # x /\ Two(h, y) # x BY <1>4, <1>7, <2>1
    <3>2. adv[y] = fed[y] BY <1>6, <1>7, <2>1
    <3> QED BY <1>8, <1>9, <3>1, <3>2
  <2>2. CASE y = Target(h, x) /\ side = 1
    <3>1. One(h, y) = x /\ Two(h, y) # x BY <1>4, <1>5, <1>7, <2>2
    <3>2. adv[y] = First(fed[y], w) BY <1>6, <1>7, <2>2
    <3>3. First(With(ms[y], a(U, y), b(U, y)), w) = With(ms[y], w, b(U, y))
      <4>1. a(U, y) \in Nat /\ b(U, y) \in Nat /\ w \in Nat /\ ms[y] \in Match BY <1>10, <1>11
      <4> QED BY <4>1, SeatsAgain
    <3> QED BY <1>8, <1>9, <3>1, <3>2, <3>3
  <2>3. CASE y = Target(h, x) /\ side # 1
    <3>1. One(h, y) # x /\ Two(h, y) = x BY <1>4, <1>5, <1>7, <2>3
    <3>2. adv[y] = Second(fed[y], w) BY <1>6, <1>7, <2>3
    <3>3. Second(With(ms[y], a(U, y), b(U, y)), w) = With(ms[y], a(U, y), w)
      <4>1. a(U, y) \in Nat /\ b(U, y) \in Nat /\ w \in Nat /\ ms[y] \in Match BY <1>10, <1>11
      <4> QED BY <4>1, SeatsAgain
    <3> QED BY <1>8, <1>9, <3>1, <3>2, <3>3
  <2> QED BY <2>1, <2>2, <2>3
<1>14. adv = [y \in D |-> adv[y]] BY <1>6
<1>15. Fed(ms, h, T) = adv BY <1>12, <1>13, <1>14
<1> QED BY <1>15 DEF adv, fed, U

\* No winners, no change.
LEMMA FedNothing ==
  ASSUME NEW h, NEW D, NEW ms \in [D -> Match]
  PROVE  Fed(ms, h, {}) = ms
<1>1. \A y \in D : ms[y] \in Match OBVIOUS
<1>2. \A m \in Match : With(m, m.p1, m.p2) = m
  <2> SUFFICES ASSUME NEW m \in Match PROVE With(m, m.p1, m.p2) = m OBVIOUS
  <2>1. m.p1 \in Nat /\ m.p2 \in Nat BY DEF Match
  <2> QED BY <2>1, WithIs
<1>3. Fed(ms, h, {}) = [y \in D |-> With(ms[y], ms[y].p1, ms[y].p2)] BY DEF Fed
<1>4. Fed(ms, h, {}) = [y \in D |-> ms[y]] BY <1>1, <1>2, <1>3
<1> QED BY <1>4

\* The fold seats the winners of all byes, in whatever order it takes them.
LEMMA ByesAreFed ==
  ASSUME NEW h \in Nat \ {0}, NEW stage, NEW ms \in [1..(2 ^ h - 1) -> Match],
         HasRounds(ms, stage, h)
  PROVE  AdvanceByes(ms, stage) =
           Fed(ms, h, {x \in 1..(2 ^ h - 1) : ms[x].stage = stage /\ ms[x].winner # Nobody})
<1> DEFINE D == 1..(2 ^ h - 1)
           S == {x \in D : ms[x].stage = stage /\ ms[x].winner # Nobody}
           Pick(s) == CHOOSE x \in s : TRUE
           F(f) == [s \in SUBSET S |-> IF s = {} THEN ms ELSE Advance(f[s \ {Pick(s)}], Pick(s))]
           it == CHOOSE f : f = F(f)
           closed == [s \in SUBSET S |-> Fed(ms, h, s)]
<1>1. IsFiniteSet(S)
  <2>1. 2 ^ h - 1 \in Int BY Lines
  <2>2. IsFiniteSet(D) BY <2>1, FS_Interval
  <2> QED BY <2>2, FS_Subset
<1>2. \A s \in SUBSET S : s # {} => Pick(s) \in s OBVIOUS
<1>3. AdvanceByes(ms, stage) = it[S]
  BY DEF AdvanceByes, FSets!FoldSet, FSets!MapThenFoldSet
<1> HIDE DEF Pick
<1>4. ASSUME NEW s \in SUBSET S
      PROVE  Fed(ms, h, s) = IF s = {} THEN ms ELSE Advance(Fed(ms, h, s \ {Pick(s)}), Pick(s))
  <2>1. CASE s = {} BY <2>1, FedNothing
  <2>2. CASE s # {}
    <3>1. s \in SUBSET D /\ Pick(s) \in s BY <1>2, <2>2
    <3> HIDE DEF S
    <3> QED BY <2>2, <3>1, FedStep
  <2> QED BY <2>1, <2>2
<1> HIDE DEF S
<1>5. closed = F(closed)
  <2>1. ASSUME NEW s \in SUBSET S
        PROVE  closed[s] = IF s = {} THEN ms ELSE Advance(closed[s \ {Pick(s)}], Pick(s))
    <3>1. s \ {Pick(s)} \in SUBSET S OBVIOUS
    <3> QED BY <1>4, <3>1
  <2>2. closed = [s \in SUBSET S |-> closed[s]] OBVIOUS
  <2> HIDE DEF closed
  <2> QED BY <2>1, <2>2
<1>6. it = F(it)
  <2> HIDE DEF closed
  <2> QED BY <1>5
<1> HIDE DEF it
<1> DEFINE P == {s \in SUBSET S : it[s] = Fed(ms, h, s)}
<1>7. ASSUME NEW T \in SUBSET S, \A U \in SUBSET T : U # T => U \in P PROVE T \in P
  <2>1. it[T] = IF T = {} THEN ms ELSE Advance(it[T \ {Pick(T)}], Pick(T)) BY <1>6
  <2>2. CASE T = {} BY <1>4, <2>1, <2>2
  <2>3. CASE T # {}
    <3>1. it[T \ {Pick(T)}] = Fed(ms, h, T \ {Pick(T)}) BY <1>2, <1>7, <2>3
    <3> QED BY <1>4, <2>1, <2>3, <3>1
  <2> QED BY <2>2, <2>3
<1> HIDE DEF P
<1>8. SUBSET S \subseteq P BY <1>1, <1>7, SubsetInduction
<1>9. it[S] = Fed(ms, h, S) BY <1>8 DEF P
<1> QED BY <1>3, <1>9 DEF S

-----------------------------------------------------------------------------
(* The generated bracket is sound.                                         *)

\* The matches of the generator, before the byes are seated.
LEMMA RawIs ==
  ASSUME NEW n \in Nat, n >= 2, NEW h \in Nat \ {0}, Holds(n, h),
         NEW ms, ms = Knockout("main", n)
  PROVE  /\ ms \in [1..(2 ^ h - 1) -> Match] /\ HasRounds(ms, "main", h)
         /\ \A x \in 1..(2 ^ (h - 1)) :
              /\ ms[x].p1 = x /\ ms[x].p2 = Opponent(n, h, x)
              /\ ms[x].winner = IF Opponent(n, h, x) = Nobody THEN x ELSE Nobody
              /\ ms[x].status = IF Opponent(n, h, x) = Nobody THEN "bye" ELSE "pending"
         /\ \A x \in (2 ^ (h - 1) + 1)..(2 ^ h - 1) :
              /\ ms[x].p1 = Nobody /\ ms[x].p2 = Nobody /\ ms[x].winner = Nobody
              /\ ms[x].status = "pending"
<1> DEFINE half == 2 ^ (h - 1)
           D == 1..(2 ^ h - 1)
<1>0. half \in Nat \ {0} /\ 2 ^ h = 2 * half /\ 2 ^ h \in Nat BY Lines
<1>1. "main" \in Stages BY DEF Stages
<1>2. /\ ms \in Seq(Match) /\ Len(ms) = 2 ^ h - 1
      /\ \A i \in 1..half : ms[i] = Pairing("main", 1, i, Opponent(n, h, i))
      /\ \A r \in 2..h : \A x \in Row(h, r) : ms[x] = EmptyMatch("main", r)
  BY <1>1, KnockoutIs
<1>3. ms \in [D -> Match] /\ DOMAIN ms = D BY <1>0, <1>2
<1>4. ASSUME NEW x \in 1..half
      PROVE  /\ ms[x].p1 = x /\ ms[x].p2 = Opponent(n, h, x)
             /\ ms[x].winner = IF Opponent(n, h, x) = Nobody THEN x ELSE Nobody
             /\ ms[x].status = IF Opponent(n, h, x) = Nobody THEN "bye" ELSE "pending"
             /\ ms[x].stage = "main" /\ ms[x].round = 1
  <2>1. ms[x] = Pairing("main", 1, x, Opponent(n, h, x)) BY <1>2
  <2>2. x # Nobody BY <1>0 DEF Nobody
  <2> QED BY <2>1, <2>2 DEF Pairing, EmptyMatch
<1>5. ASSUME NEW r \in 2..h, NEW x \in Row(h, r)
      PROVE  /\ ms[x].p1 = Nobody /\ ms[x].p2 = Nobody /\ ms[x].winner = Nobody
             /\ ms[x].status = "pending" /\ ms[x].stage = "main" /\ ms[x].round = r
  <2>1. ms[x] = EmptyMatch("main", r) BY <1>2
  <2> QED BY <2>1 DEF EmptyMatch
<1>6. 1 \in 1..h /\ Row(h, 1) = 1..half
  <2>1. Line(h, 1) = 0 /\ Line(h, 2) = half BY Lines
  <2> QED BY <2>1 DEF Row
<1>7. HasRounds(ms, "main", h)
  <2>1. ASSUME NEW r \in 1..h, NEW x \in Row(h, r) PROVE ms[x].stage = "main" /\ ms[x].round = r
    <3>1. CASE r = 1 BY <1>4, <1>6, <3>1
    <3>2. CASE r # 1
      <4>1. r \in 2..h BY <3>2
      <4> QED BY <1>5, <4>1
    <3> QED BY <3>1, <3>2
  <2> QED BY <1>3, <2>1 DEF HasRounds
<1>8. ASSUME NEW x \in (half + 1)..(2 ^ h - 1)
      PROVE  /\ ms[x].p1 = Nobody /\ ms[x].p2 = Nobody /\ ms[x].winner = Nobody
             /\ ms[x].status = "pending"
  <2>1. x \in 1..(2 ^ h - 1) /\ x \notin 1..half BY <1>0
  <2>2. PICK r \in 1..h : x \in Row(h, r) BY <2>1, RowsCover
  <2>3. r \in 2..h
    <3>1. r # 1 BY <1>6, <2>1, <2>2
    <3> QED BY <3>1
  <2> QED BY <1>5, <2>2, <2>3
<1> QED BY <1>3, <1>4, <1>7, <1>8

\* Byes are seated in round 2, everyone else in round 1.
LEMMA GeneratedIs ==
  ASSUME NEW n \in Nat, n >= 2, NEW h \in Nat \ {0}, Holds(n, h),
         NEW ms, ms = GenerateSingle(n)
  PROVE  LET half == 2 ^ (h - 1)
             bye(x) == x \in 1..half /\ Opponent(n, h, x) = Nobody
             winner(x) == IF bye(x) THEN x ELSE Nobody
         IN
         /\ ms \in [1..(2 ^ h - 1) -> Match] /\ HasRounds(ms, "main", h)
         /\ \A x \in 1..(2 ^ h - 1) :
              /\ ms[x].winner = winner(x)
              /\ ms[x].status = IF bye(x) THEN "bye" ELSE "pending"
              /\ ms[x].p1 = IF x <= half THEN x ELSE winner(One(h, x))
              /\ ms[x].p2 = IF x <= half THEN Opponent(n, h, x) ELSE winner(Two(h, x))
<1> DEFINE half == 2 ^ (h - 1)
           D == 1..(2 ^ h - 1)
           bye(x) == x \in 1..half /\ Opponent(n, h, x) = Nobody
           winner(x) == IF bye(x) THEN x ELSE Nobody
           raw == Knockout("main", n)
           S == {x \in D : raw[x].stage = "main" /\ raw[x].winner # Nobody}
<1>0. half \in Nat \ {0} /\ 2 ^ h = 2 * half /\ 2 ^ h \in Nat BY Lines
<1>1. /\ raw \in [D -> Match] /\ HasRounds(raw, "main", h)
      /\ \A x \in 1..half :
           /\ raw[x].p1 = x /\ raw[x].p2 = Opponent(n, h, x)
           /\ raw[x].winner = IF Opponent(n, h, x) = Nobody THEN x ELSE Nobody
           /\ raw[x].status = IF Opponent(n, h, x) = Nobody THEN "bye" ELSE "pending"
      /\ \A x \in (half + 1)..(2 ^ h - 1) :
           /\ raw[x].p1 = Nobody /\ raw[x].p2 = Nobody /\ raw[x].winner = Nobody
           /\ raw[x].status = "pending"
  <2> HIDE DEF raw
  <2> QED BY RawIs DEF raw
<1>2. ms = Fed(raw, h, S) BY <1>1, ByesAreFed DEF GenerateSingle
<1> HIDE DEF raw
<1>3. ASSUME NEW x \in D
      PROVE  /\ raw[x].winner = winner(x) /\ raw[x].status = IF bye(x) THEN "bye" ELSE "pending"
             /\ raw[x].stage = "main" /\ (bye(x) => x # Nobody)
  <2>1. PICK r \in 1..h : x \in Row(h, r) BY RowsCover
  <2>2. raw[x].stage = "main" BY <1>1, <2>1 DEF HasRounds
  <2>3. bye(x) => x # Nobody BY DEF Nobody
  <2>4. CASE x \in 1..half BY <1>1, <2>2, <2>3, <2>4
  <2>5. CASE x \notin 1..half
    <3>1. x \in (half + 1)..(2 ^ h - 1) BY <1>0, <2>5
    <3> QED BY <1>1, <2>2, <2>5, <3>1
  <2> QED BY <2>4, <2>5
<1>4. S \in SUBSET D /\ \A x \in D : x \in S <=> bye(x) BY <1>3
<1>5. /\ ms \in [D -> Match] /\ HasRounds(ms, "main", h)
      /\ \A y \in D :
           /\ ms[y].winner = raw[y].winner /\ ms[y].status = raw[y].status
           /\ ms[y].p1 = IF One(h, y) \in S THEN raw[One(h, y)].winner ELSE raw[y].p1
           /\ ms[y].p2 = IF Two(h, y) \in S THEN raw[Two(h, y)].winner ELSE raw[y].p2
  <2> HIDE DEF S
  <2> QED BY <1>1, <1>2, <1>4, FedIs
<1>6. ASSUME NEW y \in D, y <= half PROVE One(h, y) \notin D /\ Two(h, y) \notin D /\ y \in 1..half
  BY <1>0, <1>6 DEF One, Two
<1>7. ASSUME NEW y \in D, ~(y <= half)
      PROVE  One(h, y) \in D /\ Two(h, y) \in D /\ y \in (half + 1)..(2 ^ h - 1)
  BY <1>0, <1>7 DEF One, Two
<1> HIDE DEF S, D, winner, bye
<1>8. ASSUME NEW y \in D
      PROVE  /\ ms[y].p1 = IF y <= half THEN y ELSE winner(One(h, y))
             /\ ms[y].p2 = IF y <= half THEN Opponent(n, h, y) ELSE winner(Two(h, y))
  <2>1. CASE y <= half
    <3>1. One(h, y) \notin S /\ Two(h, y) \notin S /\ y \in 1..half BY <1>4, <1>6, <2>1
    <3> HIDE DEF half
    <3> QED BY <1>1, <1>5, <2>1, <3>1
  <2>2. CASE ~(y <= half)
    <3>1. One(h, y) \in D /\ Two(h, y) \in D /\ y \in (half + 1)..(2 ^ h - 1) BY <1>7, <2>2
    <3>2. raw[y].p1 = Nobody /\ raw[y].p2 = Nobody BY <1>1, <3>1
    <3>3. /\ One(h, y) \notin S => winner(One(h, y)) = Nobody
          /\ Two(h, y) \notin S => winner(Two(h, y)) = Nobody
      BY <1>4, <3>1 DEF winner
    <3>4. raw[One(h, y)].winner = winner(One(h, y)) /\ raw[Two(h, y)].winner = winner(Two(h, y))
      BY <1>3, <3>1
    <3> HIDE DEF half
    <3> QED BY <1>5, <2>2, <3>2, <3>3, <3>4
  <2> QED BY <2>1, <2>2
<1>9. \A y \in D : ms[y].winner = winner(y) /\ ms[y].status = IF bye(y) THEN "bye" ELSE "pending"
  BY <1>3, <1>5
<1> QED BY <1>5, <1>8, <1>9 DEF D, winner, bye

\* The height of the tournament's bracket.
IsHeight(h) == h \in Nat \ {0} /\ Holds(Field, h)

\* The size of the bracket, and half of it.
LEMMA SizeIs ==
  ASSUME NEW h, Field \in Nat, Field >= 2, IsHeight(h)
  PROVE  /\ Size = 2 ^ h /\ Size \div 2 = 2 ^ (h - 1) /\ Size \in Nat
         /\ 2 ^ h = 2 * 2 ^ (h - 1) /\ 2 ^ (h - 1) \in Nat \ {0}
         /\ 2 ^ (h - 1) < Field /\ Field <= 2 ^ h
<1> DEFINE half == 2 ^ (h - 1)
           N == 2 ^ h
<1>1. h \in Nat \ {0} /\ Size = N /\ Field <= N /\ N < 2 * Field BY DEF IsHeight, Holds, Size
<1>2. half \in Nat \ {0} /\ N = 2 * half BY <1>1, Lines
<1>3. \A a \in Nat : (2 * a) \div 2 = a OBVIOUS
<1> HIDE DEF half, N
<1>4. Size \div 2 = half /\ Size \in Nat /\ half < Field BY <1>1, <1>2, <1>3
<1> QED BY <1>1, <1>2, <1>4 DEF half, N

\* Rounds are told by the places of the matches.
LEMMA RoundsAreRows ==
  ASSUME NEW h, Field \in Nat, Field >= 2, IsHeight(h),
         NEW ms \in [1..(2 ^ h - 1) -> Match]
  PROVE  SameRounds(ms) <=> HasRounds(ms, "main", h)
<1> DEFINE D == 1..(2 ^ h - 1)
           raw == Knockout("main", Field)
<1>1. h \in Nat \ {0} /\ Holds(Field, h) BY DEF IsHeight
<1>2. HasRounds(raw, "main", h) /\ Size = 2 ^ h
  <2>1. HasRounds(raw, "main", h)
    <3> HIDE DEF raw
    <3> QED BY <1>1, RawIs DEF raw
  <2> QED BY <2>1, SizeIs
<1>3. \A x \in D : \E r \in 1..h : x \in Row(h, r) BY <1>1, RowsCover
<1>4. \A r \in 1..h : \A x \in Row(h, r) : x \in D
  <2> SUFFICES ASSUME NEW r \in 1..h, NEW x \in Row(h, r) PROVE x \in D OBVIOUS
  <2>1. /\ 2 ^ h \in Nat /\ 2 ^ (h - r) \in Nat \ {0} /\ Line(h, r + 1) = 2 ^ h - 2 ^ (h - r)
        /\ Line(h, r) \in Nat
    BY <1>1, Lines
  <2> QED BY <2>1 DEF Row
<1> HIDE DEF raw
<1>5. SameRounds(ms) <=> \A x \in D : ms[x].stage = "main" /\ ms[x].round = raw[x].round
  <2>1. DOMAIN ms = D OBVIOUS
  <2> QED BY <1>2, <2>1 DEF SameRounds, raw
<1>6. \A r \in 1..h : \A x \in Row(h, r) : raw[x].round = r BY <1>2 DEF HasRounds
<1>7. HasRounds(ms, "main", h) <=>
        \A r \in 1..h : \A x \in Row(h, r) : ms[x].stage = "main" /\ ms[x].round = r
  BY DEF HasRounds
<1> HIDE DEF D
<1> QED BY <1>3, <1>4, <1>5, <1>6, <1>7

\* The bracket that generateSingleElimination yields is sound, for two participants or
\* more: everyone sits once, byes in round 2, and no match after round 1 waits for
\* anyone but the winners of two others (single-elimination.ts 9-57, common.ts).
THEOREM GeneratorIsSound ==
  ASSUME Field \in Nat, Field >= 2
  PROVE  GenerateSingle(Field) \in Seq(Seated) /\ IsSound(GenerateSingle(Field))
<1>1. PICK h : IsHeight(h) BY SizeIsPower DEF IsHeight, Holds
<1> DEFINE half == 2 ^ (h - 1)
           N == 2 ^ h
           D == 1..(N - 1)
           ms == GenerateSingle(Field)
           bye(x) == x \in 1..half /\ Opponent(Field, h, x) = Nobody
           winner(x) == IF bye(x) THEN x ELSE Nobody
<1>2. /\ Size = N /\ Size \div 2 = half /\ N = 2 * half /\ half \in Nat \ {0} /\ N \in Nat
      /\ half < Field /\ Field <= N
  BY <1>1, SizeIs
<1>3. /\ ms \in [D -> Match] /\ HasRounds(ms, "main", h)
      /\ \A x \in D :
           /\ ms[x].winner = winner(x)
           /\ ms[x].status = IF bye(x) THEN "bye" ELSE "pending"
           /\ ms[x].p1 = IF x <= half THEN x ELSE winner(One(h, x))
           /\ ms[x].p2 = IF x <= half THEN Opponent(Field, h, x) ELSE winner(Two(h, x))
  <2> HIDE DEF ms
  <2>1. h \in Nat \ {0} /\ Holds(Field, h) BY <1>1 DEF IsHeight
  <2> QED BY <2>1, GeneratedIs DEF ms
<1> HIDE DEF ms
<1>4. SameRounds(ms) BY <1>1, <1>3, RoundsAreRows
<1>5. \A y \in Int : One(h, y) = 2 * y - N - 1 /\ Two(h, y) = 2 * y - N BY DEF One, Two
<1>6. \A x \in 1..half : Opponent(Field, h, x) = IF N - x + 1 <= Field THEN N - x + 1 ELSE 0
  BY DEF Opponent, Nobody
<1>7. \A x \in D : /\ x < N - 1 => Target(h, x) \in D
                   /\ Target(h, x) > half
                   /\ \A y \in D : One(h, y) = x \/ Two(h, y) = x <=> y = Target(h, x)
  <2> SUFFICES ASSUME NEW x \in D
               PROVE  /\ x < N - 1 => Target(h, x) \in D
                      /\ Target(h, x) > half
                      /\ \A y \in D : One(h, y) = x \/ Two(h, y) = x <=> y = Target(h, x)
    OBVIOUS
  <2>1. h \in Nat \ {0} /\ D \subseteq Int BY <1>1, <1>2 DEF IsHeight
  <2> QED BY <2>1, TargetIs
<1> HIDE DEF half, N
<1>8. \A x \in 1..half : /\ bye(x) <=> ~(N - x + 1 <= Field)
                         /\ bye(x) => x < N - 1
  BY <1>2, <1>6 DEF Nobody
<1>9. \A x \in D : /\ x <= half => x \in 1..half
                   /\ ~(x <= half) => /\ ~bye(x) /\ One(h, x) \in D /\ Two(h, x) \in D
                                      /\ One(h, x) # Two(h, x)
  BY <1>2, <1>5
<1>10. \A x \in D \cup 1..half : winner(x) \in 0..half /\ (winner(x) # Nobody <=> bye(x))
  BY <1>2 DEF Nobody
<1>11. SeatsFollow(ms)
  <2>1. ASSUME NEW x \in (half + 1)..(N - 1)
        PROVE  ms[x].p1 = ms[2 * x - N - 1].winner /\ ms[x].p2 = ms[2 * x - N].winner
    <3>1. x \in D /\ ~(x <= half) /\ One(h, x) = 2 * x - N - 1 /\ Two(h, x) = 2 * x - N
      BY <1>2, <1>5
    <3>2. ms[One(h, x)].winner = winner(One(h, x)) /\ ms[Two(h, x)].winner = winner(Two(h, x))
      BY <1>3, <1>9, <3>1
    <3>3. ms[x].p1 = winner(One(h, x)) /\ ms[x].p2 = winner(Two(h, x)) BY <1>3, <3>1
    <3> QED BY <3>1, <3>2, <3>3
  <2> HIDE DEF D
  <2> QED BY <1>2, <2>1 DEF SeatsFollow
<1>12. ResultsAreWhole(ms)
  <2> SUFFICES ASSUME NEW x \in D
        PROVE  /\ ms[x].p1 = ms[x].p2 => ms[x].p1 = Nobody
               /\ ms[x].status = "pending" =>
                    ms[x].winner = Nobody /\ (x <= half => Nobody \notin {ms[x].p1, ms[x].p2})
               /\ ms[x].status # "completed"
               /\ ms[x].status = "bye" => ms[x].winner # Nobody /\ x <= half /\ x < N - 1
    <3>1. DOMAIN ms = D BY <1>3
    <3> QED BY <1>2, <3>1 DEF ResultsAreWhole
  <2>1. ms[x].p1 = ms[x].p2 => ms[x].p1 = Nobody
    <3>1. CASE x <= half
      <4>1. ms[x].p1 = x /\ ms[x].p2 = Opponent(Field, h, x) /\ x \in 1..half BY <1>3, <1>9, <3>1
      <4>2. Opponent(Field, h, x) # x BY <1>2, <1>6, <4>1
      <4> QED BY <4>1, <4>2
    <3>2. CASE ~(x <= half)
      <4>1. /\ ms[x].p1 = winner(One(h, x)) /\ ms[x].p2 = winner(Two(h, x))
            /\ One(h, x) # Two(h, x)
        BY <1>3, <1>9, <3>2
      <4> QED BY <4>1
    <3> QED BY <3>1, <3>2
  <2>2. ms[x].winner = winner(x) /\ ms[x].status = IF bye(x) THEN "bye" ELSE "pending" BY <1>3
  <2>3. bye(x) => winner(x) # Nobody /\ x <= half /\ x < N - 1 BY <1>2, <1>8, <1>10
  <2>4. ~bye(x) /\ x <= half => Nobody \notin {ms[x].p1, ms[x].p2}
    <3> SUFFICES ASSUME ~bye(x), x <= half PROVE Nobody \notin {ms[x].p1, ms[x].p2} OBVIOUS
    <3>1. ms[x].p1 = x /\ ms[x].p2 = Opponent(Field, h, x) /\ x \in 1..half BY <1>3, <1>9
    <3> QED BY <3>1 DEF Nobody
  <2> HIDE DEF D, bye
  <2> QED BY <2>1, <2>2, <2>3, <2>4
<1> DEFINE isAt(x, p) == IF p <= half
                         THEN IF bye(p) THEN x = Target(h, p) ELSE x = p
                         ELSE x = N - p + 1
<1>13. ASSUME NEW p \in 1..Field, NEW x \in D
       PROVE  x \in PlacesOf(ms, p) <=> isAt(x, p)
  <2>1. x \in PlacesOf(ms, p) <=> ~bye(x) /\ (ms[x].p1 = p \/ ms[x].p2 = p)
    <3>1. DOMAIN ms = D /\ ms[x].status = IF bye(x) THEN "bye" ELSE "pending" BY <1>3
    <3>2. p # Nobody BY DEF Nobody
    <3> HIDE DEF bye, D
    <3> QED BY <3>1, <3>2 DEF PlacesOf, Players
  <2>2. CASE x <= half
    <3>1. ms[x].p1 = x /\ ms[x].p2 = Opponent(Field, h, x) /\ x \in 1..half BY <1>3, <1>9, <2>2
    <3>2. bye(x) <=> ~(N - x + 1 <= Field) BY <1>8, <3>1
    <3>3. Opponent(Field, h, x) = IF N - x + 1 <= Field THEN N - x + 1 ELSE 0 BY <1>6, <3>1
    <3>4. CASE p <= half
      <4>1. p \in 1..half /\ p \in D BY <1>2, <3>4
      <4>2. Target(h, p) # x BY <1>2, <1>7, <2>2, <4>1
      <4>3. N - x + 1 # p BY <1>2, <2>2, <3>4
      <4> HIDE DEF bye, D
      <4> QED BY <2>1, <3>1, <3>2, <3>3, <3>4, <4>2, <4>3
    <3>5. CASE ~(p <= half)
      <4>1. x # p /\ (N - x + 1 = p <=> x = N - p + 1) BY <1>2, <2>2, <3>5
      <4> HIDE DEF bye, D
      <4> QED BY <2>1, <3>1, <3>2, <3>3, <3>5, <4>1
    <3> QED BY <3>4, <3>5
  <2>3. CASE ~(x <= half)
    <3>1. /\ ms[x].p1 = winner(One(h, x)) /\ ms[x].p2 = winner(Two(h, x)) /\ ~bye(x)
      BY <1>3, <1>9, <2>3
    <3>2. x \in PlacesOf(ms, p) <=> bye(p) /\ (One(h, x) = p \/ Two(h, x) = p)
      <4>1. p # Nobody BY DEF Nobody
      <4> HIDE DEF bye, D
      <4> QED BY <2>1, <3>1, <4>1
    <3>3. bye(p) => p <= half /\ p \in D BY <1>2, <1>8
    <3>4. p <= half => x # p BY <2>3
    <3>5. ~(p <= half) => x # N - p + 1 BY <1>2, <2>3
    <3>6. bye(p) => (One(h, x) = p \/ Two(h, x) = p <=> x = Target(h, p)) BY <1>7, <3>3
    <3> HIDE DEF bye, D
    <3> QED BY <3>2, <3>3, <3>4, <3>5, <3>6
  <2> QED BY <2>2, <2>3
<1>14. ASSUME NEW p \in 1..Field PROVE \E x \in D : PlacesOf(ms, p) = {x}
  <2>1. CASE p <= half
    <3>1. p \in 1..half /\ p \in D BY <1>2, <2>1
    <3>2. bye(p) => Target(h, p) \in D BY <1>7, <1>8, <3>1
    <3>3. \E x \in D : \A y \in D : isAt(y, p) <=> y = x
      <4> HIDE DEF bye, D
      <4> QED BY <2>1, <3>1, <3>2
    <3>4. PlacesOf(ms, p) \subseteq D
      <4>1. DOMAIN ms = D BY <1>3
      <4> QED BY <4>1 DEF PlacesOf
    <3> HIDE DEF isAt, D
    <3> QED BY <1>13, <3>3, <3>4
  <2>2. CASE ~(p <= half)
    <3>1. N - p + 1 \in D BY <1>2, <2>2
    <3>2. \A y \in D : isAt(y, p) <=> y = N - p + 1 BY <2>2
    <3>3. PlacesOf(ms, p) \subseteq D
      <4>1. DOMAIN ms = D BY <1>3
      <4> QED BY <4>1 DEF PlacesOf
    <3> HIDE DEF isAt, D
    <3> QED BY <1>13, <3>1, <3>2, <3>3
  <2> QED BY <2>1, <2>2
<1>15. ms \in Seq(Seated)
  <2>1. ASSUME NEW x \in D PROVE ms[x] \in Seated
    <3>1. ms[x] \in Match BY <1>3
    <3>2. ms[x].winner \in 0..Field
      <4>1. winner(x) \in 0..half BY <1>10
      <4> QED BY <1>2, <1>3, <4>1
    <3>3. ms[x].p1 \in 0..Field /\ ms[x].p2 \in 0..Field
      <4>1. CASE x <= half
        <5>1. ms[x].p1 = x /\ ms[x].p2 = Opponent(Field, h, x) /\ x \in 1..half BY <1>3, <1>9, <4>1
        <5>2. Opponent(Field, h, x) \in 0..Field BY <1>2, <1>6, <5>1
        <5> QED BY <1>2, <5>1, <5>2
      <4>2. CASE ~(x <= half)
        <5>1. ms[x].p1 = winner(One(h, x)) /\ ms[x].p2 = winner(Two(h, x)) BY <1>3, <4>2
        <5>2. winner(One(h, x)) \in 0..half /\ winner(Two(h, x)) \in 0..half BY <1>9, <1>10, <4>2
        <5> QED BY <1>2, <5>1, <5>2
      <4> QED BY <4>1, <4>2
    <3> QED BY <3>1, <3>2, <3>3 DEF Match, Seated
  <2>2. ms \in [D -> Seated]
    <3> HIDE DEF D
    <3> QED BY <1>3, <2>1
  <2>3. N - 1 \in Nat BY <1>2
  <2> QED BY <2>2, <2>3
<1>16. IsSound(ms)
  <2>1. DOMAIN ms = D BY <1>3
  <2> QED BY <1>4, <1>11, <1>12, <1>14, <2>1 DEF IsSound
<1> QED BY <1>15, <1>16 DEF ms

-----------------------------------------------------------------------------
(* A score keeps a bracket sound.                                          *)

\* A score changes the match, and one seat of the match the winner goes to.
LEMMA ScoredIs ==
  ASSUME NEW h \in Nat \ {0}, NEW stage, NEW ms \in [1..(2 ^ h - 1) -> Match],
         HasRounds(ms, stage, h), NEW x \in 1..(2 ^ h - 1), NEW side \in Sides,
         NEW w, w = IF side = 1 THEN ms[x].p1 ELSE ms[x].p2,
         NEW ps, ps = ApplySingle(ms, x, Win(side, 1))
  PROVE  /\ DOMAIN ps = 1..(2 ^ h - 1) /\ HasRounds(ps, stage, h)
         /\ \A z \in 1..(2 ^ h - 1) :
              /\ ps[z].status = IF z = x THEN "completed" ELSE ms[z].status
              /\ ps[z].winner = IF z = x THEN w ELSE ms[z].winner
              /\ ps[z].p1 = IF One(h, z) = x THEN w ELSE ms[z].p1
              /\ ps[z].p2 = IF Two(h, z) = x THEN w ELSE ms[z].p2
<1> DEFINE D == 1..(2 ^ h - 1)
           won == [ms[x] EXCEPT !.status = "completed", !.by = 1, !.winner = w]
           done == SetResult(ms, x, Win(side, 1))
           s == NextSide(done, x)
<1>1. \A z \in D : ms[z] \in Match OBVIOUS
<1>2. done = [ms EXCEPT ![x] = won]
  <2>1. Win(side, 1).by = 1 /\ Win(side, 1).side = side BY DEF Win
  <2> QED BY <2>1 DEF SetResult
<1>3. /\ won \in Match /\ won.status = "completed" /\ won.winner = w
      /\ won.p1 = ms[x].p1 /\ won.p2 = ms[x].p2
      /\ won.stage = ms[x].stage /\ won.round = ms[x].round
  <2>1. ms[x] \in Match BY <1>1
  <2> QED BY <2>1 DEF Match
<1> HIDE DEF won
<1>4. /\ done \in [D -> Match] /\ done[x] = won /\ \A z \in D : z # x => done[z] = ms[z]
  BY <1>1, <1>2, <1>3
<1> HIDE DEF done
<1>5. \A r \in 1..h : \A z \in Row(h, r) : z \in D
  <2> SUFFICES ASSUME NEW r \in 1..h, NEW z \in Row(h, r) PROVE z \in D OBVIOUS
  <2>1. RoundOf(ms, stage, r) = Row(h, r) BY RoundIs
  <2> QED BY <2>1 DEF RoundOf
<1>6. HasRounds(done, stage, h)
  <2>1. DOMAIN done = D BY <1>4
  <2>2. \A z \in D : done[z].stage = ms[z].stage /\ done[z].round = ms[z].round BY <1>3, <1>4
  <2> HIDE DEF D
  <2> QED BY <1>5, <2>1, <2>2 DEF HasRounds, D
<1>7. /\ NextMatch(done, x) = IF x < 2 ^ h - 1 THEN {Target(h, x)} ELSE {}
      /\ s = 1 + ((x + 1) % 2)
  BY <1>6, NextIs
<1>8. /\ 2 ^ h \in Nat /\ ~(x < 2 ^ h - 1) => Target(h, x) \notin D
      /\ (x + 1) % 2 \in {0, 1}
      /\ \A y \in Int : /\ One(h, y) = x <=> y = Target(h, x) /\ (x + 1) % 2 = 0
                        /\ Two(h, y) = x <=> y = Target(h, x) /\ (x + 1) % 2 = 1
  BY TargetIs
<1>9. s = 1 <=> (x + 1) % 2 = 0 BY <1>7, <1>8
<1>10. \A y \in D : y \in NextMatch(done, x) <=> y = Target(h, x) BY <1>7, <1>8
<1>11. ps = [y \in D |-> IF y \notin NextMatch(done, x) THEN done[y]
                         ELSE IF s = 1 THEN First(done[y], w) ELSE Second(done[y], w)]
  <2>1. done[x].winner = w /\ DOMAIN done = D BY <1>3, <1>4
  <2> HIDE DEF s
  <2> QED BY <2>1 DEF ApplySingle, Advance, Seat, First, Second, done, s
<1>12. D \subseteq Int BY <1>8
<1>13. /\ \A z \in D : One(h, z) = x => z = Target(h, x) /\ s = 1
       /\ \A z \in D : Two(h, z) = x => z = Target(h, x) /\ s # 1
       /\ \A z \in D : z = Target(h, x) => (One(h, z) = x <=> s = 1) /\ (Two(h, z) = x <=> s # 1)
  BY <1>8, <1>9, <1>12
<1>14. \A m \in Match :
         /\ First(m, w).p1 = w /\ First(m, w).p2 = m.p2
         /\ First(m, w).stage = m.stage /\ First(m, w).round = m.round
         /\ First(m, w).winner = m.winner /\ First(m, w).status = m.status
  BY DEF Match, First
<1>15. \A m \in Match :
         /\ Second(m, w).p1 = m.p1 /\ Second(m, w).p2 = w
         /\ Second(m, w).stage = m.stage /\ Second(m, w).round = m.round
         /\ Second(m, w).winner = m.winner /\ Second(m, w).status = m.status
  BY DEF Match, Second
<1> HIDE DEF s
<1>16. \A y \in D : done[y] \in Match BY <1>4
<1> HIDE DEF D
<1>17. ASSUME NEW z \in D
       PROVE  /\ ps[z].stage = done[z].stage /\ ps[z].round = done[z].round
              /\ ps[z].winner = done[z].winner /\ ps[z].status = done[z].status
              /\ ps[z].p1 = IF One(h, z) = x THEN w ELSE done[z].p1
              /\ ps[z].p2 = IF Two(h, z) = x THEN w ELSE done[z].p2
  <2>1. CASE z # Target(h, x)
    <3>1. One(h, z) # x /\ Two(h, z) # x BY <1>13, <2>1
    <3>2. ps[z] = done[z] BY <1>10, <1>11, <2>1
    <3> QED BY <3>1, <3>2
  <2>2. CASE z = Target(h, x) /\ s = 1
    <3>1. One(h, z) = x /\ Two(h, z) # x BY <1>13, <2>2
    <3>2. ps[z] = First(done[z], w) BY <1>10, <1>11, <2>2
    <3> QED BY <1>14, <1>16, <3>1, <3>2
  <2>3. CASE z = Target(h, x) /\ s # 1
    <3>1. One(h, z) # x /\ Two(h, z) = x BY <1>13, <2>3
    <3>2. ps[z] = Second(done[z], w) BY <1>10, <1>11, <2>3
    <3> QED BY <1>15, <1>16, <3>1, <3>2
  <2> QED BY <2>1, <2>2, <2>3
<1>18. \A z \in D : /\ done[z].status = IF z = x THEN "completed" ELSE ms[z].status
                    /\ done[z].winner = IF z = x THEN w ELSE ms[z].winner
                    /\ done[z].p1 = ms[z].p1 /\ done[z].p2 = ms[z].p2
  BY <1>3, <1>4
<1>19. DOMAIN ps = D BY <1>11
<1>20. HasRounds(ps, stage, h)
  BY <1>5, <1>6, <1>17, <1>19 DEF HasRounds, D
<1> QED BY <1>17, <1>18, <1>19, <1>20 DEF D

\* A score of a ready match leaves a sound bracket: the winner goes on to a free seat, the
\* loser stays where he lost.
LEMMA ScoreIsSound ==
  ASSUME Field \in Nat, Field >= 2, NEW ms \in [Matches -> Seated], IsSound(ms),
         NEW x \in Matches, Ready(ms[x]), NEW side \in Sides
  PROVE  IsSound(ApplySingle(ms, x, Win(side, 1)))
<1>1. PICK h : IsHeight(h) BY SizeIsPower DEF IsHeight, Holds
<1> DEFINE half == 2 ^ (h - 1)
           N == 2 ^ h
           D == 1..(N - 1)
           ps == ApplySingle(ms, x, Win(side, 1))
           w == IF side = 1 THEN ms[x].p1 ELSE ms[x].p2
           l == IF side = 1 THEN ms[x].p2 ELSE ms[x].p1
           T == Target(h, x)
<1>2. /\ Size = N /\ Size \div 2 = half /\ N = 2 * half /\ half \in Nat \ {0} /\ N \in Nat
      /\ h \in Nat \ {0}
  BY <1>1, SizeIs DEF IsHeight
<1>3. ms \in [D -> Seated] /\ Matches = D
  <2>1. DOMAIN ms = D BY <1>2 DEF IsSound, SameRounds
  <2> QED BY <2>1
<1>4. ms \in [D -> Match]
  <2>1. Seated \subseteq Match BY DEF Seated, Match
  <2> QED BY <1>3, <2>1
<1>5. HasRounds(ms, "main", h) BY <1>1, <1>4, RoundsAreRows DEF IsSound
<1>6. /\ DOMAIN ps = D /\ HasRounds(ps, "main", h)
      /\ \A z \in D :
           /\ ps[z].status = IF z = x THEN "completed" ELSE ms[z].status
           /\ ps[z].winner = IF z = x THEN w ELSE ms[z].winner
           /\ ps[z].p1 = IF One(h, z) = x THEN w ELSE ms[z].p1
           /\ ps[z].p2 = IF Two(h, z) = x THEN w ELSE ms[z].p2
  <2>1. x \in D BY <1>3
  <2>2. w = (IF side = 1 THEN ms[x].p1 ELSE ms[x].p2) /\ ps = ApplySingle(ms, x, Win(side, 1)) OBVIOUS
  <2>3. ms \in [1..(2 ^ h - 1) -> Match] /\ x \in 1..(2 ^ h - 1) /\ h \in Nat \ {0}
    BY <1>2, <1>4, <2>1
  <2> HIDE DEF w, ps, half, N, D, T, l
  <2>4. /\ DOMAIN ps = 1..(2 ^ h - 1) /\ HasRounds(ps, "main", h)
        /\ \A z \in 1..(2 ^ h - 1) :
             /\ ps[z].status = IF z = x THEN "completed" ELSE ms[z].status
             /\ ps[z].winner = IF z = x THEN w ELSE ms[z].winner
             /\ ps[z].p1 = IF One(h, z) = x THEN w ELSE ms[z].p1
             /\ ps[z].p2 = IF Two(h, z) = x THEN w ELSE ms[z].p2
    BY <1>5, <2>2, <2>3, ScoredIs
  <2> QED BY <2>4 DEF D, N
<1> HIDE DEF ps
<1>7. \A y \in Int : One(h, y) = 2 * y - N - 1 /\ Two(h, y) = 2 * y - N BY DEF One, Two
<1>8. /\ x < N - 1 => T \in D /\ x < T
      /\ ~(x < N - 1) => T \notin D
      /\ T > half
      /\ \A y \in D : One(h, y) = x \/ Two(h, y) = x <=> y = T
  <2>1. x \in D /\ D \subseteq Int BY <1>2, <1>3
  <2> QED BY <1>2, <2>1, TargetIs
<1>9. D \subseteq Int /\ x \in D /\ N \in Nat BY <1>2, <1>3
<1>10. /\ \A z \in (half + 1)..(N - 1) : /\ ms[z].p1 = ms[2 * z - N - 1].winner
                                         /\ ms[z].p2 = ms[2 * z - N].winner
       /\ \A z \in D : /\ ms[z].p1 = ms[z].p2 => ms[z].p1 = Nobody
                       /\ ms[z].status = "pending" => ms[z].winner = Nobody
                       /\ ms[z].status = "pending" /\ z <= half =>
                            ms[z].p1 # Nobody /\ ms[z].p2 # Nobody
                       /\ ms[z].status = "completed" =>
                            /\ ms[z].winner \in {ms[z].p1, ms[z].p2}
                            /\ ms[z].p1 # Nobody /\ ms[z].p2 # Nobody
                       /\ ms[z].status = "bye" => ms[z].winner # Nobody /\ z <= half /\ z < N - 1
       /\ \A p \in 1..Field : \E z \in D : PlacesOf(ms, p) = {z}
  BY <1>2, <1>3 DEF IsSound, SeatsFollow, ResultsAreWhole, Players
<1> HIDE DEF T, half, N
<1>11. ms[x].status = "pending" /\ ms[x].winner = Nobody /\ ms[x].p1 # Nobody /\ ms[x].p2 # Nobody
  BY <1>9, <1>10 DEF Ready
<1>12. /\ {ms[x].p1, ms[x].p2} = {w, l} /\ w # l /\ w # Nobody /\ l # Nobody
       /\ w \in 1..Field /\ l \in 1..Field
  <2>1. ms[x].p1 # ms[x].p2 BY <1>9, <1>10, <1>11
  <2>2. ms[x] \in Seated BY <1>3, <1>9
  <2>3. ms[x].p1 \in 0..Field /\ ms[x].p2 \in 0..Field BY <2>2 DEF Seated
  <2>4. ms[x].p1 \in 1..Field /\ ms[x].p2 \in 1..Field BY <1>11, <2>3 DEF Nobody
  <2> QED BY <1>11, <2>1, <2>4
<1> HIDE DEF w, l
\* The seat that the winner takes is empty, in a match that nobody has played.
<1>13. ASSUME T \in D
       PROVE  /\ ms[T].status = "pending" /\ T # x /\ ~(T <= half)
              /\ One(h, T) \in D /\ Two(h, T) \in D /\ One(h, T) # Two(h, T)
              /\ One(h, T) = x => ms[T].p1 = Nobody
              /\ Two(h, T) = x => ms[T].p2 = Nobody
              /\ One(h, T) = x \/ Two(h, T) = x
  <2>1. T \in (half + 1)..(N - 1) BY <1>2, <1>8, <1>13
  <2>2. /\ One(h, T) = 2 * T - N - 1 /\ Two(h, T) = 2 * T - N
        /\ One(h, T) \in D /\ Two(h, T) \in D /\ One(h, T) # Two(h, T)
    BY <1>2, <1>7, <2>1
  <2>3. ms[T].p1 = ms[One(h, T)].winner /\ ms[T].p2 = ms[Two(h, T)].winner BY <1>10, <2>1, <2>2
  <2>4. One(h, T) = x \/ Two(h, T) = x BY <1>8, <1>13
  <2>5. ms[T].status \in {"pending", "completed", "bye"}
    <3>1. ms[T] \in Seated BY <1>3, <1>13
    <3> QED BY <3>1 DEF Seated
  <2>6. ~(T <= half) BY <1>2, <2>1
  <2>7. ms[T].p1 = Nobody \/ ms[T].p2 = Nobody BY <1>11, <2>3, <2>4
  <2>8. ms[T].status = "pending" BY <1>10, <1>13, <2>5, <2>6, <2>7
  <2>9. T # x BY <1>8, <1>9, <1>13
  <2> QED BY <1>11, <2>2, <2>3, <2>4, <2>6, <2>8, <2>9
<1>14. \A z \in D : z # T => ps[z].p1 = ms[z].p1 /\ ps[z].p2 = ms[z].p2
  BY <1>6, <1>8
<1>15. x # T BY <1>9, <1>13
<1>16. SameRounds(ps)
  <2>1. ApplySingle(ms, x, Win(side, 1)) \in [D -> Match]
    <3>1. SetResult(ms, x, Win(side, 1)) \in [D -> Match]
      <4>1. SetResult(ms, x, Win(side, 1)) =
              [ms EXCEPT ![x] = [ms[x] EXCEPT !.status = "completed", !.by = 1, !.winner = w]]
        BY DEF SetResult, Win, w
      <4>2. ms[x] \in Match /\ w \in Nat BY <1>4, <1>9, <1>12
      <4>3. [ms[x] EXCEPT !.status = "completed", !.by = 1, !.winner = w] \in Match
        BY <4>2 DEF Match
      <4> DEFINE won == [ms[x] EXCEPT !.status = "completed", !.by = 1, !.winner = w]
      <4> HIDE DEF won, D
      <4> QED BY <1>4, <1>9, <4>1, <4>3 DEF won
    <3> DEFINE done == SetResult(ms, x, Win(side, 1))
    <3>2. \A m \in Match, a \in Nat : [m EXCEPT !.p1 = a] \in Match /\ [m EXCEPT !.p2 = a] \in Match
      BY DEF Match
    <3>3. done[x].winner \in Nat
      <4>1. done[x] \in Match BY <1>9, <3>1
      <4> QED BY <4>1 DEF Match
    <3> HIDE DEF done, D
    <3>4. \A y \in D : done[y] \in Match BY <3>1 DEF done
    <3>5. DOMAIN done = D BY <3>1 DEF done
    <3> QED BY <3>2, <3>3, <3>4, <3>5 DEF ApplySingle, Advance, Seat, done
  <2> QED BY <1>1, <1>6, <2>1, RoundsAreRows DEF ps, D, N
<1>17. SeatsFollow(ps)
  <2>1. ASSUME NEW z \in (half + 1)..(N - 1)
        PROVE  ps[z].p1 = ps[2 * z - N - 1].winner /\ ps[z].p2 = ps[2 * z - N].winner
    <3>1. /\ z \in D /\ One(h, z) = 2 * z - N - 1 /\ Two(h, z) = 2 * z - N
          /\ One(h, z) \in D /\ Two(h, z) \in D
      BY <1>2, <1>7
    <3>2. ms[z].p1 = ms[One(h, z)].winner /\ ms[z].p2 = ms[Two(h, z)].winner BY <1>10, <3>1
    <3> HIDE DEF D
    <3> QED BY <1>6, <3>1, <3>2
  <2> QED BY <1>2, <2>1 DEF SeatsFollow
<1>18. ASSUME NEW z \in D
       PROVE  /\ ps[z].p1 = ps[z].p2 => ps[z].p1 = Nobody
              /\ ps[z].status = "pending" =>
                   ps[z].winner = Nobody /\ (z <= half => ps[z].p1 # Nobody /\ ps[z].p2 # Nobody)
              /\ ps[z].status = "completed" =>
                   ps[z].winner \in {ps[z].p1, ps[z].p2} /\ ps[z].p1 # Nobody /\ ps[z].p2 # Nobody
              /\ ps[z].status = "bye" => ps[z].winner # Nobody /\ z <= half /\ z < N - 1
  <2>1. CASE z = x
    <3>1. ps[z].status = "completed" /\ ps[z].winner = w BY <1>6, <2>1
    <3>2. ps[z].p1 = ms[x].p1 /\ ps[z].p2 = ms[x].p2 BY <1>14, <1>15, <2>1
    <3> QED BY <1>11, <1>12, <3>1, <3>2
  <2>2. CASE z = T
    <3>1. ps[z].status = "pending" /\ ps[z].winner = Nobody /\ ~(z <= half)
      BY <1>6, <1>10, <1>13, <2>2
    <3>2. /\ One(h, z) = x => ps[z].p1 = w /\ ps[z].p2 = ms[z].p2
          /\ Two(h, z) = x => ps[z].p2 = w /\ ps[z].p1 = ms[z].p1
          /\ One(h, z) = x \/ Two(h, z) = x
      BY <1>6, <1>13, <2>2
    <3>3. w \notin {ms[z].p1, ms[z].p2}
      <4>1. PICK y \in D : PlacesOf(ms, w) = {y} BY <1>10, <1>12
      <4>2. x \in PlacesOf(ms, w)
        <5>1. x \in DOMAIN ms /\ w \in Players(ms[x]) BY <1>3, <1>9, <1>12 DEF Players
        <5> QED BY <1>11, <5>1 DEF PlacesOf
      <4>3. w \in {ms[z].p1, ms[z].p2} => z \in PlacesOf(ms, w)
        <5>1. z \in DOMAIN ms /\ ms[z].status = "pending" BY <1>3, <1>13, <2>2
        <5> QED BY <1>12, <5>1 DEF PlacesOf, Players
      <4> QED BY <1>15, <2>2, <4>1, <4>2, <4>3
    <3> QED BY <3>1, <3>2, <3>3
  <2>3. CASE z # x /\ z # T
    <3>1. /\ ps[z].status = ms[z].status /\ ps[z].winner = ms[z].winner
          /\ ps[z].p1 = ms[z].p1 /\ ps[z].p2 = ms[z].p2
      BY <1>6, <1>14, <2>3
    <3> QED BY <1>10, <3>1
  <2> QED BY <2>1, <2>2, <2>3
<1>19. ResultsAreWhole(ps)
  <2> HIDE DEF D
  <2> QED BY <1>2, <1>6, <1>18 DEF ResultsAreWhole, Players
<1>20. ASSUME NEW p \in 1..Field, NEW z \in D, z # x, z # T
       PROVE  z \in PlacesOf(ps, p) <=> z \in PlacesOf(ms, p)
  <2>1. /\ ps[z].status = ms[z].status /\ ps[z].winner = ms[z].winner
        /\ ps[z].p1 = ms[z].p1 /\ ps[z].p2 = ms[z].p2
    BY <1>6, <1>14, <1>20
  <2>2. Players(ps[z]) = Players(ms[z]) /\ Loser(ps[z]) = Loser(ms[z]) BY <2>1 DEF Players, Loser
  <2>3. DOMAIN ms = D /\ DOMAIN ps = D BY <1>3, <1>6
  <2> HIDE DEF D
  <2> QED BY <2>1, <2>2, <2>3 DEF PlacesOf
<1>21. ASSUME NEW p \in 1..Field
       PROVE  /\ x \in PlacesOf(ms, p) <=> p \in {w, l}
              /\ x \in PlacesOf(ps, p) <=> p = l \/ (p = w /\ x = N - 1)
  <2>1. DOMAIN ms = D /\ DOMAIN ps = D /\ p # Nobody BY <1>3, <1>6 DEF Nobody
  <2>2. x \in PlacesOf(ms, p) <=> p \in {w, l}
    <3>1. p \in Players(ms[x]) <=> p \in {w, l} BY <1>12, <2>1 DEF Players
    <3> QED BY <1>9, <1>11, <2>1, <3>1 DEF PlacesOf
  <2>3. Loser(ps[x]) = l
    <3>1. /\ ps[x].winner = w /\ ps[x].p1 = ms[x].p1 /\ ps[x].p2 = ms[x].p2
      BY <1>6, <1>9, <1>14, <1>15
    <3> QED BY <1>12, <3>1 DEF Loser
  <2>4. ps[x].status = "completed" /\ ps[x].winner = w BY <1>6, <1>9
  <2>5. x \in PlacesOf(ps, p) <=> p = l \/ (p = w /\ x = N - 1)
    BY <1>2, <1>9, <2>1, <2>3, <2>4 DEF PlacesOf
  <2> QED BY <2>2, <2>5
<1>22. ASSUME NEW p \in 1..Field, T \in D
       PROVE  T \in PlacesOf(ps, p) <=> T \in PlacesOf(ms, p) \/ p = w
  <2>1. ps[T].status = "pending" /\ ms[T].status = "pending" BY <1>6, <1>13, <1>22
  <2>2. DOMAIN ms = D /\ DOMAIN ps = D /\ p # Nobody BY <1>3, <1>6 DEF Nobody
  <2>3. p \in {ps[T].p1, ps[T].p2} <=> p \in {ms[T].p1, ms[T].p2} \/ p = w
    <3>1. /\ ps[T].p1 = IF One(h, T) = x THEN w ELSE ms[T].p1
          /\ ps[T].p2 = IF Two(h, T) = x THEN w ELSE ms[T].p2
      BY <1>6, <1>22
    <3> QED BY <1>13, <1>22, <2>2, <3>1
  <2> HIDE DEF D
  <2> QED BY <1>22, <2>1, <2>2, <2>3 DEF PlacesOf, Players
<1>23. ASSUME NEW p \in 1..Field PROVE \E z \in D : PlacesOf(ps, p) = {z}
  <2>1. PICK y \in D : PlacesOf(ms, p) = {y} BY <1>10
  <2>2. PlacesOf(ps, p) \subseteq D BY <1>6 DEF PlacesOf
  <2> DEFINE y2 == IF p = w /\ x < N - 1 THEN T ELSE y
  <2>3. p \in {w, l} => y = x BY <1>21, <2>1
  <2>4. x < N - 1 \/ x = N - 1 BY <1>9
  <2>5. y2 \in D BY <1>8
  <2>6. ASSUME NEW z \in D PROVE z \in PlacesOf(ps, p) <=> z = y2
    <3>0. x < N - 1 => x # N - 1 BY <1>9
    <3>1. CASE z = x
      <4>1. z \in PlacesOf(ps, p) <=> p = l \/ (p = w /\ x = N - 1) BY <1>21, <3>1
      <4>2. x = y <=> p \in {w, l} BY <1>21, <2>1
      <4> HIDE DEF D
      <4> QED BY <1>12, <1>15, <2>4, <3>0, <3>1, <4>1, <4>2
    <3>2. CASE z = T
      <4>1. z \in PlacesOf(ps, p) <=> z = y \/ p = w BY <1>22, <2>1, <3>2
      <4>2. x < N - 1 BY <1>8, <3>2
      <4> HIDE DEF D
      <4> QED BY <3>2, <4>1, <4>2
    <3>3. CASE z # x /\ z # T
      <4>1. z \in PlacesOf(ps, p) <=> z = y BY <1>20, <2>1, <3>3
      <4> HIDE DEF D
      <4> QED BY <2>3, <3>3, <4>1
    <3> QED BY <3>1, <3>2, <3>3
  <2> HIDE DEF D, y2
  <2> QED BY <2>2, <2>5, <2>6
<1> QED BY <1>6, <1>16, <1>17, <1>19, <1>23 DEF IsSound, ps

-----------------------------------------------------------------------------
(* pickAssignments: ranks, and the plan.                                   *)

\* The elements of a finite set of numbers, counted from its least.
LEMMA Ranks ==
  ASSUME NEW S \in SUBSET Nat, IsFiniteSet(S)
  PROVE  /\ Cardinality(S) \in Nat
         /\ \A x \in S : Rank(x, S) \in 0..(Cardinality(S) - 1)
         /\ \A x, y \in S : Rank(x, S) = Rank(y, S) => x = y
         /\ \A k \in 0..(Cardinality(S) - 1) : \E x \in S : Rank(x, S) = k
<1> DEFINE below(x) == {y \in S : y < x}
           card == Cardinality(S)
           rank == [x \in S |-> Rank(x, S)]
<1>1. card \in Nat /\ S \subseteq Nat
  BY FS_CardinalityType
<1>2. \A x \in S : below(x) \in SUBSET S /\ below(x) # S
  OBVIOUS
<1>3. \A x, y \in S : x < y => below(x) \in SUBSET below(y) /\ below(x) # below(y)
  <2> SUFFICES ASSUME NEW x \in S, NEW y \in S, x < y
               PROVE  below(x) \in SUBSET below(y) /\ x \in below(y) /\ x \notin below(x)
    OBVIOUS
  <2>1. x \in Nat /\ y \in Nat
    BY <1>1
  <2>2. \A z \in S : z < x => z < y
    BY <1>1
  <2>3. ~(x < x)
    BY <2>1
  <2> QED BY <2>2, <2>3, Zenon
<1>4. \A x : Rank(x, S) = Cardinality(below(x))
  BY DEF Rank
<1> HIDE DEF below, card, rank
<1>5. ASSUME NEW x \in S PROVE IsFiniteSet(below(x)) /\ Rank(x, S) \in Nat /\ Rank(x, S) < card
  <2>1. IsFiniteSet(below(x)) /\ Cardinality(below(x)) <= card
        /\ (card = Cardinality(below(x)) => S = below(x))
    BY <1>2, FS_Subset, Zenon DEF card
  <2>2. Cardinality(below(x)) \in Nat
    BY <2>1, FS_CardinalityType
  <2> QED BY <1>1, <1>2, <1>4, <2>1, <2>2
<1>6. ASSUME NEW x \in S, NEW y \in S, x < y PROVE Rank(x, S) < Rank(y, S)
  <2>1. Cardinality(below(x)) <= Cardinality(below(y))
        /\ (Cardinality(below(y)) = Cardinality(below(x)) => below(y) = below(x))
    BY <1>3, <1>5, <1>6, FS_Subset, Zenon
  <2> QED BY <1>3, <1>4, <1>5, <1>6, <2>1
<1>7. \A x \in S : Rank(x, S) \in 0..(card - 1)
  BY <1>1, <1>5
<1>8. ASSUME NEW x \in S, NEW y \in S, Rank(x, S) = Rank(y, S) PROVE x = y
  <2>1. x < y \/ y < x \/ x = y
    BY <1>1
  <2>2. Rank(x, S) \in Nat /\ Rank(y, S) \in Nat
    BY <1>5
  <2> QED BY <1>6, <1>8, <2>1, <2>2
<1>9. ASSUME NEW k \in 0..(card - 1), \A x \in S : Rank(x, S) # k PROVE FALSE
  <2> DEFINE U == 0..(card - 1)
             T == U \ {k}
  <2>1. IsFiniteSet(U) /\ Cardinality(U) = card /\ k \in U
    BY <1>1, FS_Interval
  <2> HIDE DEF U
  <2>2. IsFiniteSet(T) /\ Cardinality(T) = card - 1
    BY <2>1, FS_RemoveElement
  <2>3. rank \in [S -> T]
    BY <1>7, <1>9 DEF rank, U
  <2> HIDE DEF T
  <2>4. Cardinality(T) < Cardinality(S)
    BY <1>1, <2>2 DEF card
  <2>5. \E x, y \in S : x # y /\ rank[x] = rank[y]
    BY <2>2, <2>3, <2>4, FS_PigeonHole
  <2> QED BY <1>8, <2>5 DEF rank
<1> QED BY <1>1, <1>7, <1>8, <1>9 DEF card

\* What is assumed of the constants; a tournament starts with two participants or more
\* (tournament routes.ts 447-452).
Setup == /\ Field \in Nat /\ TableCount \in Nat /\ MaxScores \in Nat /\ MaxFaults \in Nat
         /\ Field >= 2

\* The plan gives free tables to ready matches without one, each to one, and leaves
\* no table free while a match waits.
LEMMA Picks ==
  ASSUME NEW b, NEW t, DOMAIN b \in SUBSET Nat, IsFiniteSet(DOMAIN b), TableCount \in Nat
  PROVE  LET plan == PickAssignments(b, t) IN
         /\ DOMAIN plan \subseteq {x \in ReadyMatches(b) : t[x] = NoTable}
         /\ \A x \in DOMAIN plan : plan[x] \in Tables \ Occupied(b, t)
         /\ \A x, y \in DOMAIN plan : plan[x] = plan[y] => x = y
         /\ \/ DOMAIN plan = {x \in ReadyMatches(b) : t[x] = NoTable}
            \/ \A n \in Tables \ Occupied(b, t) : \E x \in DOMAIN plan : plan[x] = n
<1> DEFINE free == Tables \ Occupied(b, t)
           wait == {x \in ReadyMatches(b) : t[x] = NoTable}
           taken == {y \in wait : Rank(y, wait) < Cardinality(free)}
           pick(x) == CHOOSE n \in free : Rank(n, free) = Rank(x, wait)
           plan == PickAssignments(b, t)
<1>1. plan = [x \in taken |-> pick(x)]
  BY DEF PickAssignments
<1>2. free \in SUBSET Nat /\ IsFiniteSet(free)
  <2>1. IsFiniteSet(Tables)
    BY FS_Interval DEF Tables
  <2> QED BY <2>1, FS_Subset DEF Tables
<1>3. wait \in SUBSET Nat /\ IsFiniteSet(wait)
  BY FS_Subset DEF ReadyMatches
<1> HIDE DEF free, wait, plan
<1>4. ASSUME NEW x \in taken PROVE pick(x) \in free /\ Rank(pick(x), free) = Rank(x, wait)
  <2>1. Rank(x, wait) \in 0..(Cardinality(free) - 1)
    BY <1>2, <1>3, Ranks
  <2>2. \E n \in free : Rank(n, free) = Rank(x, wait)
    BY <1>2, <2>1, Ranks
  <2> QED BY <2>2
<1>5. DOMAIN plan = taken /\ \A x \in taken : plan[x] = pick(x)
  BY <1>1
<1> HIDE DEF pick
<1>6. \A x, y \in taken : pick(x) = pick(y) => x = y
  BY <1>3, <1>4, Ranks
<1>7. ASSUME taken # wait, NEW n \in free PROVE \E x \in taken : pick(x) = n
  <2>1. PICK y \in wait : ~(Rank(y, wait) < Cardinality(free))
    BY <1>7
  <2>2. Rank(y, wait) \in 0..(Cardinality(wait) - 1) /\ Cardinality(wait) \in Nat
    BY <1>3, Ranks
  <2>3. Rank(n, free) \in 0..(Cardinality(free) - 1) /\ Cardinality(free) \in Nat
    BY <1>2, Ranks
  <2>4. Rank(n, free) \in 0..(Cardinality(wait) - 1) /\ Rank(n, free) < Cardinality(free)
    BY <2>1, <2>2, <2>3
  <2>5. PICK x \in wait : Rank(x, wait) = Rank(n, free)
    BY <1>3, <2>4, Ranks
  <2>6. x \in taken
    BY <2>4, <2>5
  <2>7. pick(x) \in free /\ Rank(pick(x), free) = Rank(n, free)
    BY <1>4, <2>5, <2>6
  <2>8. \A m, k \in free : Rank(m, free) = Rank(k, free) => m = k
    BY <1>2, Ranks, Zenon
  <2>9. pick(x) = n
    BY <2>7, <2>8, Zenon
  <2> QED BY <2>6, <2>9
<1>8. taken \subseteq wait
  OBVIOUS
<1> HIDE DEF taken
<1>9. /\ DOMAIN plan \subseteq wait
      /\ \A x \in DOMAIN plan : plan[x] \in free
      /\ \A x, y \in DOMAIN plan : plan[x] = plan[y] => x = y
      /\ DOMAIN plan = wait \/ \A n \in free : \E x \in DOMAIN plan : plan[x] = n
  BY <1>4, <1>5, <1>6, <1>7, <1>8
<1> QED BY <1>9 DEF plan, wait, free

\* Tables that are given as planned are exclusive if they were, and busy.
LEMMA PlanIsGood ==
  ASSUME NEW b, NEW t, DOMAIN b \in SUBSET Nat, IsFiniteSet(DOMAIN b), TableCount \in Nat,
         DOMAIN t = DOMAIN b, \A x \in DOMAIN b : t[x] \in Tables \cup {NoTable},
         \A x, y \in ReadyMatches(b) : t[x] = t[y] /\ t[x] # NoTable => x = y,
         NEW s, s = Labelled(t, PickAssignments(b, t))
  PROVE  /\ DOMAIN s = DOMAIN b
         /\ \A x, y \in ReadyMatches(b) : s[x] = s[y] /\ s[x] # NoTable => x = y
         /\ (\A x \in ReadyMatches(b) : s[x] # NoTable) \/ Tables = Occupied(b, s)
<1> DEFINE plan == PickAssignments(b, t)
<1>1. DOMAIN s = DOMAIN b
      /\ \A x \in DOMAIN b : s[x] = IF x \in DOMAIN plan THEN plan[x] ELSE t[x]
  BY DEF Labelled
<1>2. /\ DOMAIN plan \subseteq {x \in ReadyMatches(b) : t[x] = NoTable}
      /\ \A x \in DOMAIN plan : plan[x] \in Tables \ Occupied(b, t)
      /\ \A x, y \in DOMAIN plan : plan[x] = plan[y] => x = y
      /\ \/ DOMAIN plan = {x \in ReadyMatches(b) : t[x] = NoTable}
         \/ \A n \in Tables \ Occupied(b, t) : \E x \in DOMAIN plan : plan[x] = n
  BY Picks, Zenon
<1>3. NoTable \notin Tables /\ ReadyMatches(b) \subseteq DOMAIN b
  BY DEF NoTable, Tables, ReadyMatches
<1> HIDE DEF plan
<1>4. ASSUME NEW x \in ReadyMatches(b), NEW y \in ReadyMatches(b), s[x] = s[y], s[x] # NoTable
      PROVE  x = y
  <2>1. \A z \in ReadyMatches(b) : t[z] # NoTable => t[z] \in Occupied(b, t)
    BY DEF Occupied
  <2> QED BY <1>1, <1>2, <1>3, <1>4, <2>1
<1>5. ASSUME DOMAIN plan = {x \in ReadyMatches(b) : t[x] = NoTable}, NEW x \in ReadyMatches(b)
      PROVE  s[x] # NoTable
  <2>1. CASE x \in DOMAIN plan
    <3>1. s[x] = plan[x] /\ plan[x] \in Tables
      BY <1>1, <1>2, <1>3, <2>1
    <3> QED BY <1>3, <3>1
  <2>2. CASE x \notin DOMAIN plan
    BY <1>1, <1>3, <1>5, <2>2
  <2> QED BY <2>1, <2>2
<1>6. CASE \A n \in Tables \ Occupied(b, t) : \E x \in DOMAIN plan : plan[x] = n
  <2>1. Occupied(b, s) \subseteq Tables
    BY <1>1, <1>2, <1>3 DEF Occupied
  <2>2. ASSUME NEW n \in Tables PROVE n \in Occupied(b, s)
    <3>1. CASE n \in Occupied(b, t)
      <4>1. PICK x \in ReadyMatches(b) : t[x] = n
        BY <3>1 DEF Occupied
      <4>2. x \notin DOMAIN plan
        BY <1>2, <1>3, <4>1
      <4> QED BY <1>1, <1>3, <4>1, <4>2 DEF Occupied
    <3>2. CASE n \notin Occupied(b, t)
      BY <1>1, <1>2, <1>3, <1>6, <3>2 DEF Occupied
    <3> QED BY <3>1, <3>2
  <2> QED BY <2>1, <2>2
<1> QED BY <1>1, <1>2, <1>4, <1>5, <1>6

-----------------------------------------------------------------------------
(* A score.                                                                *)

\* A seated bracket stays one.
LEMMA SeatKeeps ==
  ASSUME NEW D, NEW b \in [D -> Seated], NEW targets, NEW side, NEW player \in 0..Field
  PROVE  Seat(b, targets, side, player) \in [D -> Seated]
BY DEF Seat, Seated

LEMMA ScoreKeeps ==
  ASSUME NEW D, NEW b \in [D -> Seated], NEW x \in D, NEW side \in Sides
  PROVE  ApplySingle(b, x, Win(side, 1)) \in [D -> Seated]
<1> DEFINE done == SetResult(b, x, Win(side, 1))
<1>1. done \in [D -> Seated]
  BY DEF SetResult, Win, Seated
<1> HIDE DEF done
<1>2. done[x].winner \in 0..Field
  BY <1>1 DEF Seated
<1> QED BY <1>1, <1>2, SeatKeeps DEF ApplySingle, Advance, done

-----------------------------------------------------------------------------
(* The requests.                                                           *)

\* The rows: matches are numbered, and have a table of the tournament or none.
LEMMA Rows ==
  ASSUME Setup, IInv
  PROVE  /\ Matches \in SUBSET Nat /\ IsFiniteSet(Matches)
         /\ board \in [Matches -> Seated]
         /\ table \in [Matches -> Tables \cup {NoTable}]
         /\ ReadyMatches(board) \subseteq Matches
         /\ \A b : b \in [Matches -> Seated] => DOMAIN b = Matches /\ b \in Seq(Seated)
<1>1. Matches = 1..Len(board) /\ Len(board) \in Nat /\ board \in [Matches -> Seated]
  BY DEF IInv, Matches
<1>2. IsFiniteSet(Matches)
  BY <1>1, FS_Interval
<1>3. \A b : b \in [Matches -> Seated] => DOMAIN b = Matches /\ b \in Seq(Seated)
  BY <1>1
<1> QED BY <1>1, <1>2, <1>3 DEF IInv, TypeOK, ReadyMatches, Matches

\* Seated rows are matches, and seat participants of the tournament.
LEMMA SeatedAreMatches ==
  ASSUME Setup
  PROVE  /\ Seated \subseteq Match /\ Seq(Seated) \subseteq Seq(Match)
         /\ \A m \in Seated : Players(m) \subseteq 1..Field
<1>1. Seated \subseteq Match
  BY DEF Setup, Seated, Match
<1>2. Seq(Seated) \subseteq Seq(Match)
  BY <1>1
<1>3. ASSUME NEW m \in Seated PROVE Players(m) \subseteq 1..Field
  <2>1. m.p1 \in 0..Field /\ m.p2 \in 0..Field
    BY DEF Seated
  <2>2. \A p \in 0..Field : p # 0 => p \in 1..Field
    BY DEF Setup
  <2> QED BY <2>1, <2>2 DEF Players, Nobody
<1> QED BY <1>1, <1>2, <1>3

\* A request at another step, or crossed, is otherwise the same.
LEMMA SetPc ==
  ASSUME NEW r, IsWhole(r), NEW pc \in Pcs
  PROVE  LET n == [r EXCEPT !.pc = pc]
         IN /\ IsWhole(n) /\ n.pc = pc /\ n.x = r.x /\ n.next = r.next /\ n.plan = r.plan
            /\ n.ready = r.ready /\ n.crossed = r.crossed
BY DEF IsWhole

LEMMA SetCrossed ==
  ASSUME NEW r, IsWhole(r)
  PROVE  LET n == [r EXCEPT !.crossed = TRUE]
         IN /\ IsWhole(n) /\ n.crossed /\ n.x = r.x /\ n.next = r.next /\ n.plan = r.plan
            /\ n.ready = r.ready /\ n.pc = r.pc
BY DEF IsWhole

\* A request that ends keeps the others as they are, and in turn nobody is left.
LEMMA EndKeeps ==
  ASSUME IInv, NEW c \in Calls, NEW from, from # "idle", End(c, from),
         board' = board, past' = past
  PROVE  /\ CallsAreWhole' /\ OneAtATime' /\ HeldIsTrue'
         /\ \A d \in Calls : call'[d].pc \in Pcs
         /\ InTurn' => InTurn /\ \A d \in Calls : call'[d].pc = "idle"
<1>1. /\ call[c].pc = from
      /\ \A d \in Calls : call'[d] = IF d = c THEN Idle ELSE call[d]
      /\ call' = [d \in Calls |-> call'[d]]
  BY DEF End, IInv, CallsAreWhole
<1>2. CallsAreWhole'
  <2>1. IsRequest(Idle)'
    BY DEF IsRequest, IsWhole, Idle, Pcs
  <2>2. \A r : IsRequest(r) => IsRequest(r)'
    BY DEF IsRequest, IsWhole, Matches
  <2> QED BY <1>1, <2>1, <2>2 DEF IInv, CallsAreWhole
<1>3. InTurn' => InTurn /\ \A d \in Calls : call'[d].pc = "idle" /\ ~call'[d].crossed
  BY <1>1 DEF IInv, OneAtATime, InTurn, Idle
<1>4. OneAtATime' /\ HeldIsTrue'
  BY <1>3 DEF OneAtATime, HeldIsTrue
<1>5. \A d \in Calls : call'[d].pc \in Pcs
  BY <1>1 DEF IInv, TypeOK, Idle, Pcs
<1> QED BY <1>2, <1>3, <1>4, <1>5

\* A score is taken up: the request holds the bracket it read, scored.
LEMMA ScoreStep ==
  ASSUME Setup, IInv, NEW c \in Calls, NEW x \in Matches, NEW side \in Sides, Score(c, x, side)
  PROVE  IInv'
<1> DEFINE next == ApplySingle(board, x, Win(side, 1))
           new == [Idle EXCEPT !.pc = "open", !.x = x, !.next = next]
<1>1. /\ \A d \in Calls : call'[d] = IF d = c THEN new ELSE call[d]
      /\ call' = [d \in Calls |-> call'[d]]
  BY DEF Score, IInv, CallsAreWhole
<1>2. next \in [Matches -> Seated]
  BY Rows, ScoreKeeps
<1>3. Ready(board[x]) \/ board[x].status = "completed"
  BY DEF Score
<1>4. /\ IsWhole(new) /\ new.pc = "open" /\ new.x = x /\ new.next = next
      /\ new.crossed = FALSE /\ new.ready = {}
  <2> HIDE DEF next
  <2> QED BY DEF IsWhole, Idle, Pcs
<1> HIDE DEF new
<1> HIDE DEF next
<1>5. InTurn' => InTurn /\ \A d \in Calls \ {c} : call[d].pc = "idle"
  BY DEF Score, InTurn
<1>6. TypeOK' /\ (board \in Seq(Seated))'
  BY <1>1, <1>4 DEF Score, Setup, IInv, TypeOK, rows, Matches, Pcs
<1>7. CallsAreWhole'
  <2>1. IsRequest(new)
    BY <1>2, <1>4 DEF IsRequest
  <2>2. \A r : IsRequest(r) => IsRequest(r)'
    BY DEF Score, rows, IsRequest, IsWhole, Matches
  <2> QED BY <1>1, <2>1, <2>2 DEF IInv, CallsAreWhole
<1>8. OneAtATime'
  BY <1>1, <1>5, <1>4 DEF IInv, OneAtATime
<1>9. HeldIsTrue'
  <2> SUFFICES ASSUME InTurn', NEW d \in Calls, call'[d].pc # "idle"
               PROVE  call'[d].pc = "open" /\ NextIsScored(d)'
    BY DEF HeldIsTrue
  <2>1. d = c
    BY <1>1, <1>5
  <2> QED BY <1>1, <1>3, <1>4, <2>1 DEF NextIsScored, next, Score, rows
<1>10. TablesAreExclusive'
  BY <1>5 DEF Score, rows, IInv, TablesAreExclusive
<1>11. WorkIsDone'
  <2> SUFFICES ASSUME InTurn', faults' = 0 PROVE TablesAreBusy' /\ AllAreTold'
    BY DEF WorkIsDone
  <2>1. InTurn /\ faults = 0 /\ \A d \in Calls : call[d].pc = "idle"
    BY <1>5 DEF Score, rows
  <2>2. TablesAreBusy /\ AllAreTold
    BY <2>1 DEF IInv, WorkIsDone, WillAssign, WillTell
  <2> QED BY <2>2 DEF TablesAreBusy, AllAreTold, Score, rows
<1> QED BY <1>6, <1>7, <1>8, <1>9, <1>10, <1>11 DEF IInv

\* Its transaction begins.
LEMMA OpenStep ==
  ASSUME Setup, IInv, NEW c \in Calls, Open(c)
  PROVE  IInv'
<1>1. /\ call[c].pc = "open"
      /\ \A d \in Calls : call'[d] = IF d = c THEN [call[c] EXCEPT !.pc = "commit"] ELSE call[d]
      /\ call' = [d \in Calls |-> call'[d]]
      /\ \A d \in Calls : IsRequest(call[d])
  BY DEF Open, IInv, CallsAreWhole
<1>2. UNCHANGED <<board, table, notified, told, saved, scores, faults, past>>
  BY DEF Open, rows
<1>3. \A d \in Calls : /\ call'[d].x = call[d].x /\ call'[d].next = call[d].next
                       /\ call'[d].plan = call[d].plan /\ call'[d].ready = call[d].ready
                       /\ call'[d].crossed = call[d].crossed
                       /\ call'[d].pc = IF d = c THEN "commit" ELSE call[d].pc
  <2> SUFFICES ASSUME NEW d \in Calls
      PROVE  /\ call'[d].x = call[d].x /\ call'[d].next = call[d].next
             /\ call'[d].plan = call[d].plan /\ call'[d].ready = call[d].ready
             /\ call'[d].crossed = call[d].crossed
             /\ call'[d].pc = IF d = c THEN "commit" ELSE call[d].pc
    OBVIOUS
  <2> DEFINE n == [call[c] EXCEPT !.pc = "commit"]
  <2>1. IsWhole(call[c]) /\ "commit" \in Pcs
    BY <1>1 DEF IsRequest, Pcs
  <2>2. n.pc = "commit" /\ n.x = call[c].x /\ n.next = call[c].next /\ n.plan = call[c].plan
        /\ n.ready = call[c].ready /\ n.crossed = call[c].crossed
    BY <2>1, SetPc
  <2> HIDE DEF n
  <2> QED BY <1>1, <2>2 DEF n
<1>4. TypeOK' /\ (board \in Seq(Seated))' /\ TablesAreExclusive'
  BY <1>2, <1>3 DEF IInv, TypeOK, Matches, Pcs, TablesAreExclusive, InTurn
<1>5. CallsAreWhole'
  <2>1. \A r : IsRequest(r) => IsRequest(r)'
    BY <1>2 DEF IsRequest, IsWhole, Matches
  <2>2. IsRequest(call[c])
    BY DEF IInv, CallsAreWhole
  <2>3. IsRequest([call[c] EXCEPT !.pc = "commit"])
    <3>1. IsWhole(call[c]) /\ "commit" \in Pcs
      BY <2>2 DEF IsRequest, Pcs
    <3> QED BY <1>1, <2>2, <3>1, SetPc DEF IsRequest
  <2> QED BY <1>1, <2>1, <2>3 DEF IInv, CallsAreWhole
<1>6. OneAtATime'
  BY <1>1, <1>2, <1>3 DEF IInv, OneAtATime, InTurn
<1>7. HeldIsTrue'
  BY <1>1, <1>2, <1>3 DEF IInv, HeldIsTrue, NextIsScored, InTurn
<1>8. WorkIsDone'
  BY <1>1, <1>2, <1>3
  DEF IInv, WorkIsDone, WillAssign, WillTell, TablesAreBusy, AllAreTold, InTurn
<1> QED BY <1>4, <1>5, <1>6, <1>7, <1>8 DEF IInv

\* The rows are replaced, labels and marks are gone; other statements under way are
\* crossed.
LEMMA CommitStep ==
  ASSUME Setup, IInv, NEW c \in Calls, Commit(c)
  PROVE  IInv'
<1>1. /\ call[c].pc = "commit" /\ \A d \in Calls : IsRequest(call[d])
      /\ \A d \in Calls : call'[d] = IF d = c THEN [Crossed(c)[c] EXCEPT !.pc = "reassign"]
                                     ELSE Crossed(c)[d]
      /\ call' = [d \in Calls |-> call'[d]]
  BY DEF Commit, Crossed, IInv, CallsAreWhole
<1>2. /\ call'[c] = [call[c] EXCEPT !.pc = "reassign"]
      /\ \A d \in Calls \ {c} :
           \/ call'[d] = call[d]
           \/ call[d].pc # "idle" /\ call'[d] = [call[d] EXCEPT !.crossed = TRUE]
  <2>1. Crossed(c)[c] = call[c]
    BY DEF Crossed
  <2>2. \A d \in Calls \ {c} : \/ Crossed(c)[d] = call[d]
                               \/ /\ call[d].pc # "idle"
                                  /\ Crossed(c)[d] = [call[d] EXCEPT !.crossed = TRUE]
    BY DEF Crossed
  <2> QED BY <1>1, <2>1, <2>2, Zenon
<1>3. \A d \in Calls : /\ call'[d].pc = IF d = c THEN "reassign" ELSE call[d].pc
                       /\ \/ call'[d].crossed = call[d].crossed
                          \/ d # c /\ call[d].pc # "idle"
  <2>1. IsWhole(call[c]) /\ "reassign" \in Pcs
    BY <1>1 DEF IsRequest, Pcs
  <2>2. call'[c].pc = "reassign" /\ call'[c].crossed = call[c].crossed
    BY <1>2, <2>1, SetPc
  <2>3. ASSUME NEW d \in Calls \ {c}
        PROVE  /\ call'[d].pc = call[d].pc
               /\ call'[d].crossed = call[d].crossed \/ call[d].pc # "idle"
    <3>1. IsWhole(call[d])
      BY <1>1 DEF IsRequest
    <3> QED BY <1>2, <3>1, SetCrossed
  <2> QED BY <2>2, <2>3
<1>4. /\ board' = call[c].next /\ table' = [x \in Matches |-> NoTable] /\ notified' = {}
      /\ UNCHANGED <<told, saved, scores, faults, past>>
  BY DEF Commit, Replace, MarksAfter
<1>5. board' \in [Matches -> Seated] /\ board' \in Seq(Seated) /\ Matches' = Matches
  <2>1. call[c].next \in [Matches -> Seated]
    BY <1>1 DEF IsRequest
  <2> QED BY <1>4, <2>1, Rows DEF Matches
<1>6. TypeOK'
  BY <1>1, <1>4, <1>5, <1>3, SeatedAreMatches DEF IInv, TypeOK, Pcs
<1>7. CallsAreWhole'
  <2>1. \A r : IsRequest(r) => IsRequest(r)'
    BY <1>5 DEF IsRequest, IsWhole
  <2>2. IsRequest([call[c] EXCEPT !.pc = "reassign"])
    <3>1. IsWhole(call[c]) /\ "reassign" \in Pcs
      BY <1>1 DEF IsRequest, Pcs
    <3> QED BY <1>1, <3>1, SetPc DEF IsRequest
  <2>3. ASSUME NEW d \in Calls \ {c} PROVE IsRequest([call[d] EXCEPT !.crossed = TRUE])
    BY <1>1, SetCrossed DEF IsRequest
  <2> QED BY <1>1, <1>2, <2>1, <2>2, <2>3 DEF CallsAreWhole
<1>8. InTurn' => InTurn /\ \A d \in Calls \ {c} : call'[d].pc = "idle"
  BY <1>1, <1>4, <1>3 DEF InTurn, IInv, OneAtATime
<1>9. OneAtATime'
  BY <1>1, <1>4, <1>8, <1>3 DEF IInv, OneAtATime, InTurn
<1>10. HeldIsTrue'
  BY <1>1, <1>4, <1>8, <1>3 DEF HeldIsTrue
<1>11. TablesAreExclusive'
  BY <1>4, <1>5 DEF TablesAreExclusive, ReadyMatches, Matches
<1>12. WorkIsDone'
  BY <1>1, <1>3 DEF WorkIsDone, WillAssign, WillTell
<1> QED BY <1>5, <1>6, <1>7, <1>9, <1>10, <1>11, <1>12 DEF IInv

\* A crossed statement fails: then requests have not taken turns.
LEMMA FailStep ==
  ASSUME Setup, IInv, NEW c \in Calls, CommitFails(c) \/ AssignFails(c)
  PROVE  IInv'
<1>1. /\ \E from \in {"commit", "assign"} : End(c, from)
      /\ call[c].crossed
      /\ UNCHANGED <<board, table, notified, told, saved, scores, faults, past>>
  BY DEF CommitFails, AssignFails, rows
<1>2. CallsAreWhole' /\ OneAtATime' /\ HeldIsTrue' /\ \A d \in Calls : call'[d].pc \in Pcs
  BY <1>1, EndKeeps
<1>3. ~InTurn'
  BY <1>1 DEF IInv, OneAtATime, InTurn
<1>4. TypeOK' /\ (board \in Seq(Seated))'
  BY <1>1, <1>2 DEF IInv, TypeOK, Matches
<1> QED BY <1>2, <1>3, <1>4 DEF IInv, TablesAreExclusive, WorkIsDone

\* Whom messages name is told.
LEMMA MessagesTell ==
  ASSUME NEW S, NEW b, NEW t, NEW T, Messages(S, b, t) \subseteq T, NEW x \in S
  PROVE  <<x, Players(b[x])>> \in Pairs(T)
<1> DEFINE m == <<x, Players(b[x]), t[x]>>
<1>1. m \in T
  BY DEF Messages
<1>2. <<m[1], m[2]>> = <<x, Players(b[x])>>
  OBVIOUS
<1> HIDE DEF m
<1> QED BY <1>1, <1>2 DEF Pairs

\* An empty plan changes no table, and then the tables are busy.
LEMMA NoPlanIsBusy ==
  ASSUME Setup, IInv, InTurn, DOMAIN PickAssignments(board, table) = {}
  PROVE  TablesAreBusy
<1>1. Labelled(table, PickAssignments(board, table)) = table
  BY Rows DEF Labelled
<1>2. DOMAIN board = Matches
  BY DEF Matches
<1> QED BY <1>1, <1>2, Rows, PlanIsGood DEF TablesAreBusy, IInv, TablesAreExclusive, Setup

\* A plan is read; without one the tables are busy.
LEMMA ReassignStep ==
  ASSUME Setup, IInv, NEW c \in Calls, Reassign(c)
  PROVE  IInv'
<1> DEFINE plan == PickAssignments(board, table)
           old == call[c]
           new == IF DOMAIN plan = {} THEN [old EXCEPT !.pc = "load"]
                  ELSE [old EXCEPT !.pc = "assign", !.plan = plan]
<1>1. /\ old.pc = "reassign" /\ \A d \in Calls : IsRequest(call[d])
      /\ \A d \in Calls : call'[d] = IF d = c THEN new ELSE call[d]
      /\ call' = [d \in Calls |-> call'[d]]
  BY DEF Reassign, IInv, CallsAreWhole
<1>2. UNCHANGED <<board, table, notified, told, saved, scores, faults, past>>
  BY DEF Reassign, rows
<1>3. \A x \in DOMAIN plan : plan[x] \in Tables
  BY Rows, Picks DEF Matches, Setup
<1>4. /\ IsWhole(new) /\ new.x = old.x /\ new.crossed = old.crossed
      /\ new.pc = IF DOMAIN plan = {} THEN "load" ELSE "assign"
      /\ new.pc = "assign" => new.plan = plan
  <2>1. IsWhole(old)
    BY <1>1 DEF IsRequest
  <2> HIDE DEF old, plan
  <2> QED BY <2>1 DEF IsWhole, Pcs
<1> HIDE DEF new
<1>5. TypeOK' /\ (board \in Seq(Seated))' /\ TablesAreExclusive'
  BY <1>1, <1>2, <1>4 DEF IInv, TypeOK, Matches, Pcs, TablesAreExclusive, InTurn
<1>6. CallsAreWhole'
  <2>1. \A r : IsRequest(r) => IsRequest(r)'
    BY <1>2 DEF IsRequest, IsWhole, Matches
  <2>2. IsRequest(new)
    BY <1>1, <1>3, <1>4 DEF IsRequest
  <2> QED BY <1>1, <2>1, <2>2 DEF CallsAreWhole
<1>7. OneAtATime'
  BY <1>1, <1>2, <1>4 DEF IInv, OneAtATime, InTurn
<1>8. HeldIsTrue'
  BY <1>1, <1>2, <1>4 DEF IInv, HeldIsTrue, NextIsScored, InTurn
<1>9. WorkIsDone'
  <2> SUFFICES ASSUME InTurn', faults' = 0
               PROVE  (WillAssign' \/ TablesAreBusy') /\ WillTell'
    BY DEF WorkIsDone
  <2>1. WillTell'
    BY <1>1, <1>4 DEF WillTell
  <2>2. CASE DOMAIN plan = {}
    <3>1. InTurn
      BY <1>2 DEF InTurn
    <3>2. TablesAreBusy
      BY <2>2, <3>1, NoPlanIsBusy
    <3>3. TablesAreBusy'
      BY <1>2, <3>2 DEF TablesAreBusy
    <3> QED BY <2>1, <3>3
  <2>3. CASE DOMAIN plan # {}
    BY <1>1, <1>4, <2>1, <2>3 DEF WillAssign
  <2> QED BY <2>1, <2>2, <2>3
<1> QED BY <1>5, <1>6, <1>7, <1>8, <1>9 DEF IInv

\* The labels of the plan are written, and the tables are busy.
LEMMA AssignStep ==
  ASSUME Setup, IInv, NEW c \in Calls, Assign(c)
  PROVE  IInv'
<1> DEFINE plan == call[c].plan
           new == [call[c] EXCEPT !.pc = "load"]
<1>1. /\ call[c].pc = "assign" /\ \A d \in Calls : IsRequest(call[d])
      /\ \A d \in Calls : call'[d] = IF d = c THEN new ELSE call[d]
      /\ call' = [d \in Calls |-> call'[d]]
  BY DEF Assign, IInv, CallsAreWhole
<1>2. /\ table' = Labelled(table, plan)
      /\ UNCHANGED <<board, notified, told, saved, scores, faults, past>>
  BY DEF Assign
<1>3. IsWhole(new) /\ new.x = call[c].x /\ new.crossed = call[c].crossed /\ new.pc = "load"
  BY <1>1, SetPc DEF IsRequest, Pcs
<1> HIDE DEF new
<1>4. table' \in [Matches -> Tables \cup {NoTable}]
  BY <1>1, <1>2, Rows DEF IsRequest, Labelled
<1>5. InTurn => /\ \A x, y \in ReadyMatches(board) :
                      table'[x] = table'[y] /\ table'[x] # NoTable => x = y
                /\ TablesAreBusy'
  <2> SUFFICES ASSUME InTurn
               PROVE  /\ \A x, y \in ReadyMatches(board) :
                           table'[x] = table'[y] /\ table'[x] # NoTable => x = y
                      /\ TablesAreBusy'
    OBVIOUS
  <2>1. table' = Labelled(table, PickAssignments(board, table))
    BY <1>1, <1>2 DEF IInv, HeldIsTrue
  <2>2. DOMAIN board = Matches
    BY DEF Matches
  <2>3. /\ \A x, y \in ReadyMatches(board) :
             table'[x] = table'[y] /\ table'[x] # NoTable => x = y
        /\ \/ \A x \in ReadyMatches(board) : table'[x] # NoTable
           \/ Tables = Occupied(board, table')
    BY <2>1, <2>2, Rows, PlanIsGood DEF IInv, TablesAreExclusive, Setup
  <2> QED BY <1>2, <2>3 DEF TablesAreBusy
<1>6. TypeOK' /\ (board \in Seq(Seated))'
  BY <1>1, <1>2, <1>3, <1>4 DEF IInv, TypeOK, Matches, Pcs
<1>7. CallsAreWhole'
  <2>1. \A r : IsRequest(r) => IsRequest(r)'
    BY <1>2 DEF IsRequest, IsWhole, Matches
  <2>2. IsRequest(new)
    BY <1>1, <1>3 DEF IsRequest
  <2> QED BY <1>1, <2>1, <2>2 DEF CallsAreWhole
<1>8. OneAtATime'
  BY <1>1, <1>2, <1>3 DEF IInv, OneAtATime, InTurn
<1>9. HeldIsTrue'
  <2>1. InTurn' => InTurn /\ \A d \in Calls \ {c} : call'[d].pc = "idle"
    BY <1>1, <1>2 DEF InTurn, IInv, OneAtATime
  <2> QED BY <1>1, <1>2, <1>3, <2>1 DEF IInv, HeldIsTrue
<1>10. TablesAreExclusive'
  BY <1>2, <1>5 DEF TablesAreExclusive, InTurn
<1>11. WorkIsDone'
  BY <1>1, <1>2, <1>3, <1>5 DEF WorkIsDone, WillTell, InTurn
<1> QED BY <1>6, <1>7, <1>8, <1>9, <1>10, <1>11 DEF IInv

\* The matches to announce are read.
LEMMA LoadStep ==
  ASSUME Setup, IInv, NEW c \in Calls, Load(c)
  PROVE  IInv'
<1> DEFINE ready == ReadyMatches(board) \ notified
           old == call[c]
           new == [old EXCEPT !.pc = "send", !.next = board, !.plan = table, !.ready = ready]
<1>1. /\ old.pc = "load" /\ old.x \in Matches /\ \A d \in Calls : IsRequest(call[d])
  BY DEF Load, IInv, CallsAreWhole, IsRequest, End
<1>2. UNCHANGED <<board, table, notified, told, scores, faults, past>>
  BY DEF Load, rows
<1>3. saved' \subseteq Matches
  BY <1>1 DEF Load, Answer, IInv, TypeOK
<1>4. TablesAreExclusive'
  BY <1>2 DEF IInv, TablesAreExclusive, InTurn
<1>5. CASE ready = {}
  <2>1. End(c, "load")
    BY <1>5 DEF Load
  <2>2. /\ CallsAreWhole' /\ OneAtATime' /\ HeldIsTrue'
        /\ \A d \in Calls : call'[d].pc \in Pcs
        /\ InTurn' => InTurn /\ \A d \in Calls : call'[d].pc = "idle"
    BY <1>2, <2>1, EndKeeps
  <2>3. TypeOK' /\ (board \in Seq(Seated))'
    BY <1>2, <1>3, <2>2 DEF IInv, TypeOK, Matches
  <2>4. WorkIsDone'
    <3> SUFFICES ASSUME InTurn, faults = 0 PROVE TablesAreBusy' /\ AllAreTold'
      BY <1>2, <2>2 DEF WorkIsDone
    <3>1. notified = {} /\ ReadyMatches(board) = {}
      BY <1>1, <1>5 DEF IInv, HeldIsTrue
    <3> QED BY <1>2, <3>1 DEF TablesAreBusy, AllAreTold
  <2> QED BY <1>4, <2>2, <2>3, <2>4 DEF IInv
<1>6. CASE ready # {}
  <2>1. /\ \A d \in Calls : call'[d] = IF d = c THEN new ELSE call[d]
        /\ call' = [d \in Calls |-> call'[d]]
    BY <1>6 DEF Load, IInv, CallsAreWhole
  <2>2. /\ IsWhole(new) /\ new.x = old.x /\ new.crossed = old.crossed /\ new.pc = "send"
        /\ new.next = board /\ new.plan = table /\ new.ready = ready
    <3>1. IsWhole(old) /\ ready \subseteq Matches
      BY <1>1, Rows DEF IsRequest
    <3> HIDE DEF old, ready
    <3> QED BY <3>1 DEF IsWhole, Pcs
  <2> HIDE DEF new
  <2>3. TypeOK' /\ (board \in Seq(Seated))'
    BY <1>2, <1>3, <2>1, <2>2 DEF IInv, TypeOK, Matches, Pcs
  <2>4. CallsAreWhole'
    <3>1. \A r : IsRequest(r) => IsRequest(r)'
      BY <1>2 DEF IsRequest, IsWhole, Matches
    <3>2. IsRequest(new)
      BY <1>1, <2>2, Rows DEF IsRequest
    <3> QED BY <1>1, <2>1, <3>1, <3>2 DEF CallsAreWhole
  <2>5. OneAtATime'
    BY <1>1, <1>2, <2>1, <2>2 DEF IInv, OneAtATime, InTurn
  <2>6. InTurn' => InTurn /\ \A d \in Calls \ {c} : call'[d].pc = "idle"
    BY <1>1, <1>2, <2>1 DEF InTurn, IInv, OneAtATime
  <2>7. HeldIsTrue'
    <3>1. InTurn => ready = ReadyMatches(board)
      BY <1>1 DEF IInv, HeldIsTrue
    <3> QED BY <1>1, <1>2, <2>1, <2>2, <2>6, <3>1 DEF HeldIsTrue
  <2>8. WorkIsDone'
    <3>1. WillTell'
      BY <2>1, <2>2 DEF WillTell
    <3>2. InTurn => ~WillAssign
      BY <1>1 DEF IInv, OneAtATime, WillAssign
    <3> QED BY <1>2, <3>1, <3>2 DEF IInv, WorkIsDone, TablesAreBusy, InTurn
  <2> QED BY <1>4, <2>3, <2>4, <2>5, <2>7, <2>8 DEF IInv
<1> QED BY <1>5, <1>6

\* The messages go out.
LEMMA SendStep ==
  ASSUME Setup, IInv, NEW c \in Calls, Send(c)
  PROVE  IInv'
<1> DEFINE old == call[c]
           new == [old EXCEPT !.pc = "mark", !.next = <<>>, !.plan = <<>>]
           sent == Messages(old.ready, old.next, old.plan)
<1>1. /\ old.pc = "send" /\ \A d \in Calls : IsRequest(call[d])
      /\ \A d \in Calls : call'[d] = IF d = c THEN new ELSE call[d]
      /\ call' = [d \in Calls |-> call'[d]]
  BY DEF Send, IInv, CallsAreWhole
<1>2. /\ told' = told \cup sent
      /\ UNCHANGED <<board, table, notified, saved, scores, faults, past>>
  BY DEF Send, rows
<1>3. /\ old.ready \subseteq Matches /\ old.next \in [Matches -> Seated]
      /\ old.plan \in [Matches -> Tables \cup {NoTable}]
  BY <1>1 DEF IsRequest, IsWhole
<1>4. IsWhole(new) /\ new.x = old.x /\ new.crossed = old.crossed /\ new.pc = "mark"
  <2>1. IsWhole(old)
    BY <1>1 DEF IsRequest
  <2> HIDE DEF old
  <2> QED BY <2>1 DEF IsWhole, Pcs
<1>5. \A m \in sent : m[1] \in Matches /\ m[2] \subseteq 1..Field /\ m[3] \in Tables \cup {NoTable}
  BY <1>3, SeatedAreMatches DEF Messages
<1> HIDE DEF new
<1>6. TypeOK' /\ (board \in Seq(Seated))' /\ TablesAreExclusive'
  BY <1>1, <1>2, <1>4, <1>5 DEF IInv, TypeOK, Matches, Pcs, TablesAreExclusive, InTurn
<1>7. CallsAreWhole'
  <2>1. \A r : IsRequest(r) => IsRequest(r)'
    BY <1>2 DEF IsRequest, IsWhole, Matches
  <2>2. IsRequest(new)
    BY <1>1, <1>4 DEF IsRequest
  <2> QED BY <1>1, <2>1, <2>2 DEF CallsAreWhole
<1>8. OneAtATime'
  BY <1>1, <1>2, <1>4 DEF IInv, OneAtATime, InTurn
<1>9. InTurn' => InTurn /\ \A d \in Calls \ {c} : call'[d].pc = "idle"
  BY <1>1, <1>2 DEF InTurn, IInv, OneAtATime
<1>10. HeldIsTrue'
  BY <1>4, <1>1, <1>9 DEF HeldIsTrue
<1>11. WorkIsDone'
  <2> SUFFICES ASSUME InTurn, faults = 0 PROVE TablesAreBusy' /\ AllAreTold'
    BY <1>2, <1>9 DEF WorkIsDone
  <2>1. ~WillAssign
    BY <1>1 DEF IInv, OneAtATime, WillAssign
  <2>2. TablesAreBusy'
    BY <1>2, <2>1 DEF IInv, WorkIsDone, TablesAreBusy
  <2>3. old.next = board /\ old.ready = ReadyMatches(board)
    BY <1>1 DEF IInv, HeldIsTrue
  <2>4. AllAreTold'
    <3>1. Messages(ReadyMatches(board), board, old.plan) \subseteq told'
      BY <1>2, <2>3
    <3>2. \A x \in ReadyMatches(board) : <<x, Players(board[x])>> \in Pairs(told')
      BY <3>1, MessagesTell
    <3> QED BY <1>2, <3>2 DEF AllAreTold
  <2> QED BY <2>2, <2>4
<1> QED BY <1>6, <1>7, <1>8, <1>10, <1>11 DEF IInv

\* The matches are marked as announced.
LEMMA MarkStep ==
  ASSUME Setup, IInv, NEW c \in Calls, Mark(c)
  PROVE  IInv'
<1>1. call[c].pc = "mark" /\ IsRequest(call[c]) /\ End(c, "mark")
  BY DEF Mark, End, IInv, CallsAreWhole
<1>2. /\ saved' \subseteq Matches /\ notified' \subseteq Matches
      /\ UNCHANGED <<board, table, told, scores, faults, past>>
  BY <1>1 DEF Mark, Answer, IInv, TypeOK, IsRequest, IsWhole
<1>3. /\ CallsAreWhole' /\ OneAtATime' /\ HeldIsTrue'
      /\ \A d \in Calls : call'[d].pc \in Pcs
      /\ InTurn' => InTurn /\ \A d \in Calls : call'[d].pc = "idle"
  BY <1>1, <1>2, EndKeeps
<1>4. TypeOK' /\ (board \in Seq(Seated))' /\ TablesAreExclusive'
  BY <1>2, <1>3 DEF IInv, TypeOK, Matches, TablesAreExclusive, InTurn
<1>5. WorkIsDone'
  <2>1. InTurn => ~WillAssign /\ ~WillTell
    BY <1>1 DEF IInv, OneAtATime, WillAssign, WillTell
  <2> QED BY <1>2, <2>1 DEF IInv, WorkIsDone, TablesAreBusy, AllAreTold, InTurn
<1> QED BY <1>3, <1>4, <1>5 DEF IInv

\* A fault.
LEMMA AbandonStep ==
  ASSUME Setup, IInv, NEW c \in Calls, Abandon(c)
  PROVE  IInv'
<1>1. /\ \E from \in Pcs \ {"idle"} : End(c, from)
      /\ UNCHANGED <<board, table, notified, told, saved, scores, past>>
      /\ faults' \in 0..MaxFaults /\ faults' # 0
  BY DEF Abandon, rows, IInv, TypeOK, Setup
<1>2. CallsAreWhole' /\ OneAtATime' /\ HeldIsTrue' /\ \A d \in Calls : call'[d].pc \in Pcs
  BY <1>1, EndKeeps
<1>3. TypeOK' /\ (board \in Seq(Seated))' /\ TablesAreExclusive'
  BY <1>1, <1>2 DEF IInv, TypeOK, Matches, TablesAreExclusive, InTurn
<1> QED BY <1>1, <1>2, <1>3 DEF IInv, WorkIsDone

\* The start assigns tables and announces the ready matches.
LEMMA InitKeeps ==
  ASSUME Setup, Init
  PROVE  IInv
<1> DEFINE none == [x \in DOMAIN board |-> NoTable]
<1>1. board \in Seq(Seated) /\ call = [c \in Calls |-> Idle] /\ past = {}
  BY GeneratorIsSound DEF Init, Setup
<1>2. /\ Matches = 1..Len(board) /\ Len(board) \in Nat /\ Matches \in SUBSET Nat
      /\ IsFiniteSet(Matches) /\ Matches = DOMAIN board /\ board \in [Matches -> Seated]
  <2>1. Matches = 1..Len(board) /\ Len(board) \in Nat
    BY <1>1 DEF Matches
  <2>2. IsFiniteSet(1..Len(board))
    BY <2>1, FS_Interval
  <2> QED BY <1>1, <2>1, <2>2 DEF Matches
<1>3. table = Labelled(none, PickAssignments(board, none))
  BY DEF Init
<1>4. \A x \in DOMAIN PickAssignments(board, none) : PickAssignments(board, none)[x] \in Tables
  <2> HIDE DEF none
  <2>1. DOMAIN board \in SUBSET Nat /\ IsFiniteSet(DOMAIN board) /\ TableCount \in Nat
    BY <1>2 DEF Setup
  <2>2. \A x \in DOMAIN PickAssignments(board, none) :
          PickAssignments(board, none)[x] \in Tables \ Occupied(board, none)
    BY <2>1, Picks, Zenon
  <2> QED BY <2>2
<1>5. table \in [Matches -> Tables \cup {NoTable}]
  BY <1>2, <1>3, <1>4 DEF Labelled
<1>6. /\ \A x, y \in ReadyMatches(board) : table[x] = table[y] /\ table[x] # NoTable => x = y
      /\ TablesAreBusy
  <2>1. DOMAIN none = DOMAIN board /\ (\A x \in DOMAIN board : none[x] = NoTable)
        /\ \A x \in ReadyMatches(board) : none[x] = NoTable
    BY DEF ReadyMatches
  <2> HIDE DEF none
  <2> QED BY <1>2, <1>3, <2>1, PlanIsGood DEF Setup, TablesAreBusy
<1>7. notified = ReadyMatches(board) /\ told = Messages(notified, board, table)
  BY DEF Init
<1>8. ReadyMatches(board) \subseteq Matches
  BY DEF ReadyMatches, Matches
<1>9. \A m \in told : m[1] \in Matches /\ m[2] \subseteq 1..Field /\ m[3] \in Tables \cup {NoTable}
  BY <1>2, <1>5, <1>7, <1>8, SeatedAreMatches DEF Messages
<1>10. TypeOK
  BY <1>1, <1>5, <1>7, <1>8, <1>9, SeatedAreMatches DEF Init, TypeOK, Setup, Idle, Pcs
<1>11. CallsAreWhole
  <2>1. IsRequest(Idle)
    BY DEF IsRequest, IsWhole, Idle, Pcs
  <2> QED BY <1>1, <2>1 DEF CallsAreWhole
<1>12. OneAtATime /\ HeldIsTrue
  BY <1>1 DEF OneAtATime, HeldIsTrue, Idle
<1>13. AllAreTold
  BY <1>7, MessagesTell DEF AllAreTold
<1> QED BY <1>1, <1>6, <1>10, <1>11, <1>12, <1>13 DEF IInv, TablesAreExclusive, WorkIsDone

\* Every request, and every step of one, keeps the invariant.
LEMMA NextKeeps ==
  ASSUME Setup, IInv, [Next]_vars
  PROVE  IInv'
<1>1. CASE UNCHANGED vars
  BY <1>1
  DEF vars, rows, IInv, TypeOK, CallsAreWhole, IsRequest, IsWhole, OneAtATime, HeldIsTrue,
      NextIsScored, TablesAreExclusive, WorkIsDone, WillAssign, WillTell, TablesAreBusy,
      AllAreTold, InTurn, Matches
<1>2. CASE Next
  <2>1. PICK c \in Calls : \/ Step(c) \/ Abandon(c)
                         \/ \E x \in Matches, side \in Sides : Score(c, x, side)
    BY <1>2 DEF Next
  <2> QED BY <2>1, ScoreStep, OpenStep, CommitStep, FailStep, ReassignStep, AssignStep,
             LoadStep, SendStep, MarkStep, AbandonStep DEF Step
<1> QED BY <1>1, <1>2

\* IInv holds in every state of the specification: rows are whole, a request that
\* takes its turn finds what it read, and every ready match has or will get its table
\* and its message (tournament routes.ts 500-560, table-assign.ts 18-60).
THEOREM Invariance ==
  ASSUME Setup
  PROVE  Spec => []IInv
<1>1. Init => IInv
  BY InitKeeps
<1>2. IInv /\ [Next]_vars => IInv'
  BY NextKeeps
<1> QED BY <1>1, <1>2, PTL DEF Spec

\* What a reader wants of it.
LEMMA InvariantSays ==
  ASSUME IInv
  PROVE  TypeOK /\ TablesAreUsed /\ ReadyIsAnnounced
<1>1. Quiet => TablesAreBusy /\ AllAreTold
  BY DEF IInv, Quiet, WorkIsDone, WillAssign, WillTell
<1> QED BY <1>1 DEF IInv, TablesAreUsed, NoTableIsIdle, ReadyIsAnnounced

-----------------------------------------------------------------------------
(* The bracket that is played: the operators of BracketPlay are those here. *)

\* A winner advances there as here.
LEMMA AdvancesAlike ==
  ASSUME NEW ms, NEW x
  PROVE  Play!Advance(ms, x) = Advance(ms, x)
BY Zenon DEF Advance, Play!Advance, NextMatch, Play!NextMatch, NextSide, Play!NextSide,
             MatchAt, Play!MatchAt, Position, Play!Position, Seat, Play!Seat,
             RoundOf, Play!RoundOf, Cardinality, Play!Cardinality

\* The generated bracket is the same, and so tournaments begin alike.
LEMMA InitPlays ==
  ASSUME Init
  PROVE  Play!Init
<1>1. Play!GenerateSingle(Field) = GenerateSingle(Field)
  BY Zenon
  DEF GenerateSingle, Play!GenerateSingle, AdvanceByes, Play!AdvanceByes, Knockout,
      Play!Knockout, FirstRound, Play!FirstRound, EmptyRound, Play!EmptyRound, EmptyMatch,
      Play!EmptyMatch, Pairing, Play!Pairing, SnakeSeed, Play!SnakeSeed, NextPow2,
      Play!NextPow2, Log2, Play!Log2, Nobody, Play!Nobody, FSets!FoldSet, Play!FSets!FoldSet,
      FSets!MapThenFoldSet, Play!FSets!MapThenFoldSet, Seqs!FlattenSeq, Play!Seqs!FlattenSeq,
      Advance, Play!Advance, Seat, Play!Seat, NextMatch, Play!NextMatch, NextSide,
      Play!NextSide, MatchAt, Play!MatchAt, Position, Play!Position, RoundOf, Play!RoundOf,
      Cardinality, Play!Cardinality
<1> QED BY <1>1 DEF Init, Play!Init, Play!GenerateBracket, Tournament

\* Requests that take turns play the bracket.
LEMMA StepPlays ==
  ASSUME Setup, IInv, [Next]_vars
  PROVE  PlaysOn
<1> SUFFICES ASSUME InTurn', board' # board PROVE Play!Next
  BY DEF PlaysOn
<1>1. PICK c \in Calls : Commit(c)
  <2>1. ~UNCHANGED vars
    BY DEF vars, rows
  <2>2. PICK c \in Calls : \/ Step(c) \/ Abandon(c)
                         \/ \E x \in Matches, side \in Sides : Score(c, x, side)
    BY <2>1 DEF Next
  <2> QED BY <2>2 DEF Step, Abandon, Score, Open, CommitFails, Reassign, Assign, AssignFails,
             Load, Send, Mark, rows
<1>2. call[c].pc = "commit" /\ InTurn /\ board' = call[c].next
  BY <1>1 DEF Commit, Replace, InTurn
<1>3. NextIsScored(c) /\ call[c].x \in Matches
  BY <1>2 DEF IInv, HeldIsTrue, CallsAreWhole, IsRequest
<1>4. PICK side \in Sides : board' = ApplySingle(board, call[c].x, Win(side, 1))
  BY <1>2, <1>3 DEF NextIsScored
<1>5. Play!Playable(call[c].x)
  BY <1>3 DEF NextIsScored, Play!Playable, Tournament, Ready, Play!Ready, Nobody, Play!Nobody
<1>6. Play!Win(side, 1) \in Play!Wins
  BY DEF Play!Wins, Tournament, Sides, Play!Sides
<1> DEFINE played == call[c].x
<1>7. board' = Play!ApplyMatchResult(Tournament.format, board, played, Play!Win(side, 1),
                                     Tournament.field)
  <2>1. Tournament.format = "single"
    BY DEF Tournament
  <2>2. Play!ApplyMatchResult(Tournament.format, board, played, Play!Win(side, 1),
                              Tournament.field)
          = Play!ApplySingle(board, played, Play!Win(side, 1))
    BY <2>1 DEF Play!ApplyMatchResult
  <2>3. Play!Win(side, 1) = Win(side, 1)
    BY DEF Win, Play!Win
  <2>4. \A ms, x, win : Play!SetResult(ms, x, win) = SetResult(ms, x, win)
    BY Zenon DEF SetResult, Play!SetResult
  <2>5. \A ms, x, win : Play!ApplySingle(ms, x, win) = ApplySingle(ms, x, win)
    BY <2>4, AdvancesAlike DEF ApplySingle, Play!ApplySingle
  <2> QED BY <1>4, <2>2, <2>3, <2>5
<1> QED BY <1>3, <1>5, <1>6, <1>7 DEF Play!Next, Play!Score, Play!Matches, Matches, Tournament

\* Requests that take turns refine BracketPlay: the rows begin as its bracket, and a
\* commit is a score of a match that may be played (tournament routes.ts 500-560).
THEOREM Refinement ==
  ASSUME Setup
  PROVE  Spec => PlaysTheBracket
<1>1. Init => Play!Init
  BY InitPlays
<1>2. IInv /\ [Next]_vars => PlaysOn
  BY StepPlays
<1> QED BY <1>1, <1>2, Invariance, PTL DEF Spec, PlaysTheBracket

-----------------------------------------------------------------------------
(* Nobody is stranded.                                                     *)

\* In a sound bracket everybody has a place, and a match can be played until the
\* final has been.
LEMMA SoundBoardsGoOn ==
  ASSUME Field \in Nat, Field >= 2, board \in Seq(Seated), IsSound(board)
  PROVE  PlayUncorrected!EveryoneHasOnePlace /\ PlayUncorrected!SomeoneCanPlay
<1>1. PICK h : IsHeight(h) BY SizeIsPower DEF IsHeight, Holds
<1> DEFINE half == 2 ^ (h - 1)
           N == 2 ^ h
           D == 1..(N - 1)
<1>2. /\ Size = N /\ Size \div 2 = half /\ N = 2 * half /\ half \in Nat \ {0} /\ N \in Nat
      /\ h \in Nat \ {0}
  BY <1>1, SizeIs DEF IsHeight
<1> HIDE DEF half, N
<1>3. board \in [D -> Seated] /\ DOMAIN board = D /\ Len(board) = N - 1
  <2>1. DOMAIN board = 1..Len(board) /\ Len(board) \in Nat /\ board \in [1..Len(board) -> Seated]
    OBVIOUS
  <2>2. DOMAIN board = D BY <1>2 DEF IsSound, SameRounds
  <2>3. Len(board) = N - 1 BY <1>2, <2>1, <2>2
  <2> QED BY <2>1, <2>2, <2>3
<1>4. /\ \A z \in (half + 1)..(N - 1) : /\ board[z].p1 = board[2 * z - N - 1].winner
                                        /\ board[z].p2 = board[2 * z - N].winner
      /\ \A z \in D : /\ board[z].status = "pending" /\ z <= half =>
                           board[z].p1 # Nobody /\ board[z].p2 # Nobody
                      /\ board[z].status = "completed" =>
                           /\ board[z].winner \in {board[z].p1, board[z].p2}
                           /\ board[z].p1 # Nobody /\ board[z].p2 # Nobody
                      /\ board[z].status = "bye" => board[z].winner # Nobody /\ z < N - 1
      /\ \A p \in 1..Field : \E z \in D : PlacesOf(board, p) = {z}
  BY <1>2, <1>3 DEF IsSound, SeatsFollow, ResultsAreWhole, Players
<1>5. \A z \in D : board[z].status \in {"pending", "completed", "bye"}
  <2>1. \A z \in D : board[z] \in Seated BY <1>3
  <2> QED BY <2>1 DEF Seated
<1>6. N - 1 \in D /\ D \subseteq Nat BY <1>2
<1> DEFINE last == N - 1
           over == board[last].status = "completed"
           wait(p) == {x \in D : board[x].status = "pending" /\ p \in Players(board[x])}
           lost(p) == {x \in D : board[x].status = "completed" /\ Loser(board[x]) = p}
<1>7. over \/ \E x \in D : Ready(board[x])
  <2> SUFFICES ASSUME ~over PROVE \E x \in D : Ready(board[x]) OBVIOUS
  <2>1. board[last].status = "pending" BY <1>4, <1>5, <1>6
  <2> DEFINE B == {x \in D : board[x].status = "pending"}
  <2>2. PICK x \in B : \A y \in B : x <= y
    <3>1. B \subseteq Nat /\ last \in B BY <1>6, <2>1
    <3> HIDE DEF B
    <3> QED BY <3>1, LeastNatural
  <2>3. CASE x <= half BY <1>4, <2>3 DEF Ready
  <2>4. CASE ~(x <= half)
    <3> DEFINE a == 2 * x - N - 1  b == 2 * x - N
    <3>1. x \in (half + 1)..(N - 1) /\ a \in D /\ b \in D /\ a < x /\ b < x
      BY <1>2, <1>6, <2>4
    <3>2. board[x].p1 = board[a].winner /\ board[x].p2 = board[b].winner BY <1>4, <3>1
    <3>3. ~(x <= a) /\ ~(x <= b) BY <1>6, <3>1
    <3>4. board[a].status # "pending" /\ board[b].status # "pending" BY <2>2, <3>1, <3>3
    <3> HIDE DEF a, b, D
    <3>5. board[a].winner # Nobody /\ board[b].winner # Nobody
      BY <1>4, <1>5, <3>1, <3>4
    <3> QED BY <3>2, <3>5 DEF Ready
  <2> QED BY <2>3, <2>4
<1> HIDE DEF D
<1>8. ASSUME NEW p \in 1..Field
      PROVE  /\ IsFiniteSet(lost(p)) /\ Cardinality(lost(p)) \in {0, 1}
             /\ Cardinality(wait(p)) =
                  IF Cardinality(lost(p)) >= 1 \/ (over /\ p \in Players(board[last])) THEN 0 ELSE 1
  <2>1. PICK y \in D : PlacesOf(board, p) = {y} BY <1>4
  <2>2. PlacesOf(board, p) =
          wait(p) \cup lost(p) \cup {x \in D : board[x].status = "completed" /\ board[x].winner = p
                                               /\ x = last}
    BY <1>2, <1>3 DEF PlacesOf
  <2>3. Cardinality({}) = 0 /\ \A z : Cardinality({z}) = 1 /\ IsFiniteSet({z}) /\ IsFiniteSet({})
    BY FS_EmptySet, FS_Singleton
  <2>4. over => (p \in Players(board[last]) => last \in PlacesOf(board, p))
    <3> SUFFICES ASSUME over, p \in Players(board[last]) PROVE last \in PlacesOf(board, p) OBVIOUS
    <3>1. p = board[last].winner \/ p = Loser(board[last])
      BY <1>4, <1>6 DEF Players, Loser
    <3> QED BY <1>6, <2>2, <3>1
  <2>5. \A x \in D : x \in lost(p) => board[x].status = "completed"
    OBVIOUS
  <2>6. CASE board[y].status = "pending"
    <3>1. lost(p) = {} /\ y \notin lost(p)
      BY <2>1, <2>2, <2>6
    <3>2. wait(p) = {y} BY <2>1, <2>2, <2>6
    <3>3. ~(over /\ p \in Players(board[last])) BY <2>1, <2>4, <2>6
    <3>4. Cardinality(lost(p)) = 0 /\ Cardinality(wait(p)) = 1 /\ IsFiniteSet(lost(p))
      <4> HIDE DEF lost, wait
      <4> QED BY <2>3, <3>1, <3>2
    <3> HIDE DEF lost, wait, over, last
    <3> QED BY <3>3, <3>4
  <2>7. CASE board[y].status # "pending"
    <3>1. wait(p) = {} BY <2>1, <2>2, <2>7
    <3>2. y \in lost(p) => lost(p) = {y} BY <2>1, <2>2
    <3>3. y \notin lost(p) => /\ lost(p) = {} /\ over /\ p \in Players(board[last])
      <4> SUFFICES ASSUME y \notin lost(p)
                   PROVE  lost(p) = {} /\ over /\ p \in Players(board[last])
        OBVIOUS
      <4>1. lost(p) = {} BY <2>1, <2>2
      <4>2. y = last /\ board[y].status = "completed" /\ board[y].winner = p
        BY <2>1, <2>2, <2>7
      <4>3. p \in {board[y].p1, board[y].p2} /\ p # Nobody BY <1>4, <4>2 DEF Nobody
      <4> QED BY <4>1, <4>2, <4>3 DEF Players
    <3>4. /\ Cardinality(wait(p)) = 0 /\ IsFiniteSet(lost(p))
          /\ y \in lost(p) => Cardinality(lost(p)) = 1
          /\ y \notin lost(p) => Cardinality(lost(p)) = 0
      <4> HIDE DEF lost, wait, over
      <4> QED BY <2>3, <3>1, <3>2, <3>3
    <3> HIDE DEF lost, wait, over, last
    <3> QED BY <3>3, <3>4
  <2> QED BY <2>6, <2>7
<1> DEFINE T == [Tournament EXCEPT !.corrections = FALSE]
<1>9. T.format = "single" /\ T.field = Field BY DEF Tournament
<1>10. \A m : /\ PlayUncorrected!Ready(m) <=> Ready(m)
              /\ PlayUncorrected!Players(m) = Players(m)
              /\ PlayUncorrected!Loser(m) = Loser(m)
  BY DEF Ready, PlayUncorrected!Ready, Players, PlayUncorrected!Players, Loser,
         PlayUncorrected!Loser, Nobody, PlayUncorrected!Nobody
<1>11. /\ PlayUncorrected!Matches = D /\ PlayUncorrected!Entrants = 1..Field
       /\ PlayUncorrected!Final = last /\ PlayUncorrected!Lives = 1
       /\ PlayUncorrected!Over <=> over
  <2>1. PlayUncorrected!Plays({"single"}) /\ ~PlayUncorrected!Plays({"page"})
        /\ ~PlayUncorrected!Plays({"round-robin"}) /\ ~PlayUncorrected!Plays({"swiss"})
    BY <1>9 DEF PlayUncorrected!Plays
  <2>2. PlayUncorrected!Final = last /\ PlayUncorrected!Lives = 1
    BY <1>3, <2>1 DEF PlayUncorrected!Final, PlayUncorrected!Lives
  <2> QED BY <1>3, <1>9, <2>1, <2>2
          DEF PlayUncorrected!Matches, PlayUncorrected!Entrants, PlayUncorrected!Over
<1>12. \A S : PlayUncorrected!Cardinality(S) = Cardinality(S)
  BY Zenon DEF Cardinality, PlayUncorrected!Cardinality
<1>13. \A p : /\ PlayUncorrected!Waiting(p) = wait(p)
              /\ PlayUncorrected!Losses(p) = Cardinality(lost(p))
  BY <1>10, <1>11, <1>12
  DEF PlayUncorrected!Waiting, PlayUncorrected!Losses, PlayUncorrected!Lost
<1> HIDE DEF wait, lost, over, last
<1>14. \A p \in PlayUncorrected!Entrants :
         LET done == \/ PlayUncorrected!Losses(p) >= PlayUncorrected!Lives
                     \/ /\ PlayUncorrected!Over
                        /\ p \in PlayUncorrected!Players(board[PlayUncorrected!Final])
         IN PlayUncorrected!Cardinality(PlayUncorrected!Waiting(p)) = IF done THEN 0 ELSE 1
  BY <1>8, <1>10, <1>11, <1>12, <1>13
<1>15. PlayUncorrected!EveryoneHasOnePlace
  BY <1>14, Zenon DEF PlayUncorrected!EveryoneHasOnePlace
<1>16. PlayUncorrected!SomeoneCanPlay
  BY <1>7, <1>10, <1>11 DEF PlayUncorrected!SomeoneCanPlay
<1> QED BY <1>15, <1>16

\* Brackets stay sound.
LEMMA SoundStep ==
  ASSUME Field \in Nat, Field >= 2, IInv, BracketsAreSound, [Next]_vars
  PROVE  BracketsAreSound'
<1> SUFFICES ASSUME "correction" \notin past'
             PROVE  /\ IsSound(board')
                    /\ \A c \in Calls : call'[c].pc \in {"open", "commit"} => IsSound(call'[c].next)
  <2>1. IsSound(board)' <=> IsSound(board')
    BY DEF IsSound, SameRounds, SeatsFollow, ResultsAreWhole, PlacesOf, Size
  <2>2. \A c \in Calls : IsSound(call[c].next)' <=> IsSound(call'[c].next)
    BY DEF IsSound, SameRounds, SeatsFollow, ResultsAreWhole, PlacesOf, Size
  <2> QED BY <2>1, <2>2 DEF BracketsAreSound
<1>1. "correction" \notin past
  <2>1. past \subseteq past' 
    BY DEF Next, vars, rows, Step, Abandon, Score, Open, Commit, CommitFails, Reassign, Assign,
           AssignFails, Load, Send, Mark
  <2> QED BY <2>1
<1>2. /\ IsSound(board)
      /\ \A c \in Calls : call[c].pc \in {"open", "commit"} => IsSound(call[c].next)
  BY <1>1 DEF BracketsAreSound
<1>3. board \in [Matches -> Seated] /\ Matches = DOMAIN board
  BY DEF IInv, Matches
<1>4. call = [c \in Calls |-> call[c]] /\ \A c \in Calls : IsWhole(call[c])
  BY DEF IInv, CallsAreWhole, IsRequest
\* Until a commit only the scored bracket of a request is new.
<1> DEFINE kept(d) == call'[d].pc \in {"open", "commit"} =>
                        call[d].pc \in {"open", "commit"} /\ call'[d].next = call[d].next
<1>5. \/ board' = board /\ \A d \in Calls : kept(d)
      \/ \E c \in Calls : \/ Commit(c)
                          \/ \E x \in Matches, side \in Sides : Score(c, x, side)
  <2>1. CASE UNCHANGED vars BY <2>1 DEF vars, rows
  <2>2. CASE Next
    <3>1. PICK c \in Calls : \/ Step(c) \/ Abandon(c)
                            \/ \E x \in Matches, side \in Sides : Score(c, x, side)
      BY <2>2 DEF Next
    <3>2. CASE Open(c) BY <1>4, <3>2 DEF Open, rows
    <3>3. CASE CommitFails(c) BY <1>4, <3>3 DEF CommitFails, End, Idle, rows
    <3>4. CASE Reassign(c) BY <1>4, <3>4 DEF Reassign, rows
    <3>5. CASE Assign(c) BY <1>4, <3>5 DEF Assign, rows
    <3>6. CASE AssignFails(c) BY <1>4, <3>6 DEF AssignFails, End, Idle, rows
    <3>7. CASE Load(c)
      <4> DEFINE sent == [call[c] EXCEPT !.pc = "send", !.next = board, !.plan = table,
                                         !.ready = ReadyMatches(board) \ notified]
      <4>1. board' = board BY <3>7 DEF Load, rows
      <4>2. call' = [call EXCEPT ![c] = Idle] \/ call' = [call EXCEPT ![c] = sent]
        BY <3>7, Zenon DEF Load, End
      <4>3. Idle.pc = "idle" /\ sent.pc = "send" BY <1>4 DEF Idle, IsWhole
      <4> HIDE DEF sent
      <4>4. \A d \in Calls \ {c} : call'[d] = call[d] BY <1>4, <4>2
      <4>5. call'[c] \in {Idle, sent} BY <1>4, <4>2
      <4> QED BY <4>1, <4>3, <4>4, <4>5
    <3>8. CASE Send(c) BY <1>4, <3>8 DEF Send, rows
    <3>9. CASE Mark(c) BY <1>4, <3>9 DEF Mark, End, Idle, rows
    <3>10. CASE Abandon(c) BY <1>4, <3>10 DEF Abandon, End, Idle, rows
    <3> HIDE DEF kept
    <3> QED BY <3>1, <3>2, <3>3, <3>4, <3>5, <3>6, <3>7, <3>8, <3>9, <3>10 DEF Step
  <2> QED BY <2>1, <2>2
<1>6. CASE board' = board /\ \A d \in Calls : kept(d) BY <1>2, <1>6
<1> HIDE DEF kept
<1>7. ASSUME NEW c \in Calls, Commit(c)
      PROVE  /\ IsSound(board')
             /\ \A d \in Calls : call'[d].pc \in {"open", "commit"} => IsSound(call'[d].next)
  <2>1. call[c].pc = "commit" /\ board' = call[c].next BY <1>7 DEF Commit, Replace
  <2>2. ASSUME NEW d \in Calls, call'[d].pc \in {"open", "commit"}
        PROVE  call[d].pc \in {"open", "commit"} /\ call'[d].next = call[d].next
    <3>1. call' = [Crossed(c) EXCEPT ![c].pc = "reassign"] BY <1>7 DEF Commit
    <3>2. DOMAIN Crossed(c) = Calls /\ Crossed(c)[d] \in {call[d], [call[d] EXCEPT !.crossed = TRUE]}
      BY DEF Crossed
    <3>3. IsWhole(call[d]) BY <1>4
    <3>4. d # c BY <2>2, <3>1, <3>2, <1>4 DEF Crossed, IsWhole
    <3>5. call'[d] = Crossed(c)[d] BY <3>1, <3>2, <3>4
    <3> QED BY <2>2, <3>2, <3>3, <3>5 DEF IsWhole
  <2> QED BY <1>2, <2>1, <2>2
<1>8. ASSUME NEW c \in Calls, NEW x \in Matches, NEW side \in Sides, Score(c, x, side)
      PROVE  /\ IsSound(board')
             /\ \A d \in Calls : call'[d].pc \in {"open", "commit"} => IsSound(call'[d].next)
  <2>1. Score(c, x, side) BY <1>8
  <2>2. Ready(board[x]) /\ board' = board BY <2>1 DEF Score, rows
  <2> DEFINE next == ApplySingle(board, x, Win(side, 1))
  <2>3. IsSound(next) BY <1>2, <1>3, <2>2, ScoreIsSound
  <2> HIDE DEF next
  <2>4. call' = [call EXCEPT ![c] = [Idle EXCEPT !.pc = "open", !.x = x, !.next = next]]
    BY <2>1 DEF Score, next
  <2>5. \A d \in Calls : call'[d] = IF d = c THEN [Idle EXCEPT !.pc = "open", !.x = x, !.next = next]
                                    ELSE call[d]
    BY <1>4, <2>4
  <2>6. call'[c].next = next BY <2>5 DEF Idle
  <2> QED BY <1>2, <2>2, <2>3, <2>5, <2>6
<1> QED BY <1>5, <1>6, <1>7, <1>8

LEMMA SoundStart ==
  ASSUME Setup, Init
  PROVE  BracketsAreSound
<1>1. IsSound(board) BY GeneratorIsSound DEF Init, Setup
<1>2. \A c \in Calls : call[c].pc = "idle" BY DEF Init, Idle
<1> QED BY <1>1, <1>2 DEF BracketsAreSound

LEMMA SoundSays ==
  ASSUME Setup, IInv, BracketsAreSound
  PROVE  NobodyIsStranded
BY SoundBoardsGoOn DEF Setup, IInv, BracketsAreSound, NobodyIsStranded

\* Whatever requests cross, fail or die, as long as no score is corrected the rows, and
\* those a request is about to store, are a sound bracket (tournament routes.ts 500-560:
\* a commit replaces all rows, and one that was crossed fails).
THEOREM Soundness ==
  ASSUME Setup
  PROVE  Spec => []BracketsAreSound
<1>1. Init => BracketsAreSound
  BY SoundStart
<1>2. IInv /\ BracketsAreSound /\ [Next]_vars => BracketsAreSound'
  BY SoundStep DEF Setup
<1> QED BY <1>1, <1>2, Invariance, PTL DEF Spec

\* NobodyIsStranded for any number of participants, two or more: everyone who has not
\* lost waits in one match, and some match can be played until the final has been.
THEOREM NoOneIsStranded ==
  ASSUME Setup
  PROVE  Spec => []NobodyIsStranded
<1>1. IInv /\ BracketsAreSound => NobodyIsStranded
  BY SoundSays
<1> QED BY <1>1, Invariance, Soundness, PTL
=============================================================================
