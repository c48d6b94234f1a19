------------------------------ MODULE Brackets ------------------------------
(***************************************************************************)
(* The knockout brackets of packages/shared/src/bracket: single and double *)
(* elimination and page playoff, as operators on a sequence of matches.    *)
(* The generators number matches consecutively, so a match is its place in *)
(* the sequence.  Participants are 1..n in the order of their seeds.  Of a *)
(* score the winner's side and the difference matter; draws are refused.   *)
(***************************************************************************)
EXTENDS Naturals, Sequences, FiniteSets
FSets == INSTANCE FiniteSetsExt
Seqs == INSTANCE SequencesExt

Nobody == 0
Sides == {1, 2}
Stages == {"main", "winners", "losers", "grand-final", "final", "third-place",
           "group:A", "group:B", "group:C", "group:D", "playoff"}
Match == [stage : Stages, round : Nat, p1 : Nat, p2 : Nat, winner : Nat, by : Nat,
          status : {"pending", "completed", "bye"}]

Win(side, by) == [side |-> side, by |-> by]

Players(m) == {m.p1, m.p2} \ {Nobody}
Ready(m) == m.status = "pending" /\ m.p1 # Nobody /\ m.p2 # Nobody
Loser(m) == IF m.winner = m.p1 THEN m.p2 ELSE m.p1

-----------------------------------------------------------------------------
(* Sizes, seats and rounds (common.ts).                                    *)

NextPow2(n) == CHOOSE s \in {2 ^ k : k \in 0..n} : n <= s /\ s < 2 * n
Log2(s) == CHOOSE k \in 0..s : 2 ^ k = s

\* Seat k (from 0) of the first round; the seeds past n are nobody.
SnakeSeed(n, size) ==
  [k \in 0..(size - 1) |->
     LET i == IF k % 2 = 0 THEN k \div 2 ELSE size - 1 - (k \div 2)
     IN IF i < n THEN i + 1 ELSE Nobody]

EmptyMatch(stage, round) == [stage |-> stage, round |-> round, p1 |-> Nobody,
  p2 |-> Nobody, winner |-> Nobody, by |-> 0, status |-> "pending"]

EmptyRound(stage, round, count) == [i \in 1..count |-> EmptyMatch(stage, round)]

\* A match of two, or the bye of one.
Pairing(stage, round, a, b) ==
  [EmptyMatch(stage, round) EXCEPT !.p1 = a, !.p2 = b,
     !.status = IF Nobody \in {a, b} THEN "bye" ELSE "pending",
     !.winner = IF a = Nobody THEN b ELSE IF b = Nobody THEN a ELSE Nobody]

FirstRound(stage, n) ==
  LET seat == SnakeSeed(n, NextPow2(n))
  IN [i \in 1..(NextPow2(n) \div 2) |-> Pairing(stage, 1, seat[2 * i - 2], seat[2 * i - 1])]

RoundOf(ms, stage, round) ==
  {x \in DOMAIN ms : ms[x].stage = stage /\ ms[x].round = round}
Position(ms, x) ==
  Cardinality({y \in RoundOf(ms, ms[x].stage, ms[x].round) : y < x})

\* The match at a position of a round, as a set of at most one.
MatchAt(ms, stage, round, pos) ==
  {x \in RoundOf(ms, stage, round) : Position(ms, x) = pos}

\* Seats are found by their match, or by their match and side.
Seat(ms, targets, side, player) ==
  [x \in DOMAIN ms |-> IF x \notin targets THEN ms[x]
                       ELSE IF side = 1 THEN [ms[x] EXCEPT !.p1 = player]
                       ELSE [ms[x] EXCEPT !.p2 = player]]

-----------------------------------------------------------------------------
(* Single elimination.                                                     *)

\* Two neighbours of a round meet in the next one.
NextMatch(ms, x) ==
  MatchAt(ms, ms[x].stage, ms[x].round + 1, Position(ms, x) \div 2)
NextSide(ms, x) == 1 + (Position(ms, x) % 2)

\* Mutant: a taken seat is not overwritten.
Advance_FreeSeat(ms, x) ==
  LET seat(y) == IF NextSide(ms, x) = 1 THEN ms[y].p1 ELSE ms[y].p2
  IN Seat(ms, {y \in NextMatch(ms, x) : seat(y) = Nobody}, NextSide(ms, x), ms[x].winner)

Advance(ms, x) == Seat(ms, NextMatch(ms, x), NextSide(ms, x), ms[x].winner)

\* Mutant: byes are not advanced.
AdvanceByes_None(ms, stage) == ms
AdvanceByes(ms, stage) ==
  FSets!FoldSet(LAMBDA x, acc : Advance(acc, x), ms,
          {x \in DOMAIN ms : ms[x].stage = stage /\ ms[x].winner # Nobody})

\* A knockout from round 1 to the final, without the advanced byes.
Knockout(stage, n) ==
  LET size == NextPow2(n)
  IN FirstRound(stage, n) \o
     Seqs!FlattenSeq([r \in 1..(Log2(size) - 1) |->
                   EmptyRound(stage, r + 1, size \div 2 ^ (r + 1))])

GenerateSingle(n) == AdvanceByes(Knockout("main", n), "main")

SetResult(ms, x, win) ==
  [ms EXCEPT ![x].status = "completed",
             ![x].by = win.by,
             ![x].winner = IF win.side = 1 THEN ms[x].p1 ELSE ms[x].p2]

ApplySingle(ms, x, win) == Advance(SetResult(ms, x, win), x)

-----------------------------------------------------------------------------
(* Double elimination: winners, losers, and one grand final.               *)

LosersRound(size, r) ==
  LET count == size \div 2 ^ ((r + 1) \div 2 + 1)
  IN EmptyRound("losers", r, IF count > 0 THEN count ELSE 1)

GenerateDouble(n) ==
  LET size == NextPow2(n)
  IN AdvanceByes(Knockout("winners", n) \o
       Seqs!FlattenSeq([r \in 1..(2 * (Log2(size) - 1)) |-> LosersRound(size, r)]) \o
       EmptyRound("grand-final", 1, 1), "winners")

GrandFinal(ms) == RoundOf(ms, "grand-final", 1)

AdvanceWinner(ms, x) ==
  IF NextMatch(ms, x) # {} THEN Advance(ms, x)
  ELSE Seat(ms, GrandFinal(ms), 1, ms[x].winner)

\* The losers of round 1 open the losers' bracket, later ones join every second
\* round.
LosersTarget(round) == IF round = 1 THEN 1 ELSE 2 * (round - 1)

\* Mutant: the loser takes the first seat in every round.
SendLoser_FirstSeat(ms, x) ==
  IF ms[x].round = 1
  THEN Seat(ms, MatchAt(ms, "losers", 1, Position(ms, x) \div 2), NextSide(ms, x), Loser(ms[x]))
  ELSE Seat(ms, MatchAt(ms, "losers", LosersTarget(ms[x].round), Position(ms, x)), 1, Loser(ms[x]))

\* From round 2 on the loser takes the second seat, or the first if only that
\* one is free.
SendLoser(ms, x) ==
  LET loser == Loser(ms[x])
      round == LosersTarget(ms[x].round)
      pos == Position(ms, x)
  IN IF loser = Nobody THEN ms
     ELSE IF ms[x].round = 1
     THEN Seat(ms, MatchAt(ms, "losers", round, pos \div 2), NextSide(ms, x), loser)
     ELSE LET target == MatchAt(ms, "losers", round, pos)
              free(y) == IF ms[y].p2 = Nobody THEN 2 ELSE 1
              open == {y \in target : Nobody \in {ms[y].p1, ms[y].p2}}
          IN FSets!FoldSet(LAMBDA y, acc : Seat(acc, {y}, free(y), loser), ms, open)

\* Mutant: every losers' round halves the field.
AdvanceLosersWinner_Pairs(ms, x) ==
  IF RoundOf(ms, "losers", ms[x].round + 1) = {}
  THEN Seat(ms, GrandFinal(ms), 2, ms[x].winner)
  ELSE Advance(ms, x)

AdvanceLosersWinner(ms, x) ==
  LET round == ms[x].round
  IN IF RoundOf(ms, "losers", round + 1) = {}
     THEN Seat(ms, GrandFinal(ms), 2, ms[x].winner)
     ELSE IF round % 2 = 1
     THEN Seat(ms, MatchAt(ms, "losers", round + 1, Position(ms, x)), 1, ms[x].winner)
     ELSE Advance(ms, x)

ApplyDouble(ms, x, win) ==
  LET done == SetResult(ms, x, win)
  IN CASE ms[x].stage = "winners" -> SendLoser(AdvanceWinner(done, x), x)
       [] ms[x].stage = "losers" -> AdvanceLosersWinner(done, x)
       [] OTHER -> done

-----------------------------------------------------------------------------
(* Page playoff of the best four.                                          *)

GeneratePage(n) ==
  << [EmptyMatch("main", 1) EXCEPT !.p1 = 1, !.p2 = 2],
     [EmptyMatch("main", 1) EXCEPT !.p1 = 3, !.p2 = 4],
     EmptyMatch("final", 2), EmptyMatch("third-place", 2) >>

\* Mutant: the losers of round 1 are sent home.
ApplyPage_NoThirdPlace(ms, x, win) ==
  LET done == SetResult(ms, x, win)
  IN IF x \in {1, 2} THEN Seat(done, {3}, x, done[x].winner) ELSE done

ApplyPage(ms, x, win) ==
  LET done == SetResult(ms, x, win)
  IN IF x \in {1, 2}
     THEN Seat(Seat(done, {3}, x, done[x].winner), {4}, x, Loser(done[x]))
     ELSE done

=============================================================================
