------------------------------ MODULE Leagues ------------------------------
(***************************************************************************)
(* The other formats of packages/shared/src/bracket: round robin, swiss    *)
(* and groups with a playoff, the standings they rest on, the final places *)
(* of a tournament, and the choice of the format (index.ts).               *)
(***************************************************************************)
EXTENDS Brackets, Integers

(* Standings (standings.ts): wins, then the balance of scores, then the    *)
(* seed; a bye counts for nothing.                                         *)

Won(ms, xs, p) == {x \in xs : ms[x].status = "completed" /\ ms[x].winner = p}
Lost(ms, xs, p) == {x \in xs : ms[x].status = "completed" /\ Loser(ms[x]) = p}
Balance(ms, xs, p) == FSets!MapThenSumSet(LAMBDA x : ms[x].by, Won(ms, xs, p))
                      - FSets!MapThenSumSet(LAMBDA x : ms[x].by, Lost(ms, xs, p))

\* Of two keys the greater one, in the order of their entries.
Above(a, b) == \E i \in DOMAIN a : a[i] > b[i] /\ \A j \in 1..(i - 1) : a[j] = b[j]

\* The domain of key, the greatest key first.
Ranked(key) ==
  LET place(p) == Cardinality({q \in DOMAIN key : Above(key[q], key[p])}) + 1
  IN [i \in 1..Cardinality(DOMAIN key) |-> CHOOSE p \in DOMAIN key : place(p) = i]

Standings(ms, xs, players) ==
  Ranked([p \in players |-> <<Cardinality(Won(ms, xs, p)), Balance(ms, xs, p), -p>>])

-----------------------------------------------------------------------------
(* Round robin: the circle method.                                         *)

\* Mutant: the first place of the circle moves like the others.
CirclePlace_AllMove(n, round, k) == (k - round + 1 + n) % n

\* Who (from 0) sits on place k of a circle of n: place 0 is fixed, the others
\* move on by one every round.
CirclePlace(n, round, k) ==
  IF k = 0 THEN 0 ELSE 1 + ((k - round + n - 1) % (n - 1))

\* Everyone of the sequence meets everyone; an odd one out has a bye.
RoundRobin(stage, players) ==
  LET n == Len(players) + (Len(players) % 2)
      half == n \div 2
      at(round, k) == LET i == CirclePlace(n, round, k)
                      IN IF i < Len(players) THEN players[i + 1] ELSE Nobody
      pair(round, i) == LET a == at(round, i)
                            b == at(round, n - 1 - i)
                        IN IF a = Nobody THEN Pairing(stage, round, b, a)
                           ELSE Pairing(stage, round, a, b)
  IN [x \in 1..((n - 1) * half) |-> pair(1 + ((x - 1) \div half), (x - 1) % half)]

Seeds(n) == [i \in 1..n |-> i]

Closed(m) == m.status \in {"completed", "bye"}

-----------------------------------------------------------------------------
(* Swiss: every round is paired from the standings so far.                 *)

SwissRounds(n) == FSets!Max({3, Log2(NextPow2(n))})

Met(ms) == {Players(ms[x]) : x \in DOMAIN ms}

Seated(ms) == UNION {Players(ms[x]) : x \in DOMAIN ms}

\* The next one of the order who is free and not met yet, else the next one who is
\* free, else a bye.
Partner(order, met, used, a) ==
  LET free == {i \in DOMAIN order : order[i] \notin used \cup {a}}
      fresh == {i \in free : {a, order[i]} \notin met}
  IN IF free = {} THEN Nobody ELSE order[FSets!Min(IF fresh = {} THEN free ELSE fresh)]

PairNext(round, order, met, acc, a) ==
  IF a \in Seated(acc) THEN acc
  ELSE Append(acc, Pairing("main", round, a, Partner(order, met, Seated(acc), a)))

\* From the top of the standings everyone who is not seated yet gets a partner.
SwissPairings(ms, n, round) ==
  LET order == Standings(ms, DOMAIN ms, 1..n)
      met == Met(ms)
      pair(acc, a) == PairNext(round, order, met, acc, a)
  IN Seqs!FoldLeft(pair, <<>>, order)

LastRound(ms) == FSets!Max({ms[x].round : x \in DOMAIN ms})

NextSwissRound(ms, n) ==
  LET round == LastRound(ms)
  IN IF round < SwissRounds(n) /\ \A x \in RoundOf(ms, "main", round) : Closed(ms[x])
     THEN ms \o SwissPairings(ms, n, round + 1) ELSE ms

-----------------------------------------------------------------------------
(* Groups with a playoff of the best two of each.                          *)

\* Bound: groups A to D, for up to 17 participants.
GroupStages == <<"group:A", "group:B", "group:C", "group:D">>
GroupCount(n) == FSets!Max({2, (n + 2) \div 4})

\* There and back again over the groups, in the order of the seeds.
GroupOf(p, groups) ==
  LET i == (p - 1) % (2 * groups) IN IF i < groups THEN i + 1 ELSE 2 * groups - i

InOrder(S) == [i \in 1..Cardinality(S) |->
                 CHOOSE p \in S : Cardinality({q \in S : q < p}) = i - 1]
GroupMembers(n, g) == InOrder({p \in 1..n : GroupOf(p, GroupCount(n)) = g})

GenerateGroups(n) ==
  LET size == NextPow2(2 * GroupCount(n))
  IN Seqs!FlattenSeq([g \in 1..GroupCount(n) |-> RoundRobin(GroupStages[g], GroupMembers(n, g))]) \o
     Seqs!FlattenSeq([r \in 1..Log2(size) |-> EmptyRound("playoff", r, size \div 2 ^ r)])

\* Mutant: a group that is done is enough.
GroupsDone_One(ms) ==
  \E stage \in {ms[x].stage : x \in DOMAIN ms} \ {"playoff"} :
    \A x \in DOMAIN ms : ms[x].stage = stage => Closed(ms[x])

GroupsDone(ms) == \A x \in DOMAIN ms : ms[x].stage # "playoff" => Closed(ms[x])

\* The firsts of all groups, then the seconds.
Advancers(ms, groups) ==
  LET group(g) == {x \in DOMAIN ms : ms[x].stage = GroupStages[g]}
      table(g) == Standings(ms, group(g), UNION {Players(ms[x]) : x \in group(g)})
  IN [i \in 1..(2 * groups) |-> IF i <= groups THEN table(i)[1] ELSE table(i - groups)[2]]

FillPlayoff(ms, groups) ==
  LET first == RoundOf(ms, "playoff", 1)
      seat == SnakeSeed(2 * groups, NextPow2(2 * groups))
      advancers == Advancers(ms, groups)
      at(k) == IF seat[k] = Nobody THEN Nobody ELSE advancers[seat[k]]
  IN IF ~GroupsDone(ms) \/ \E x \in first : Players(ms[x]) # {} THEN ms
     ELSE AdvanceByes([x \in DOMAIN ms |->
            IF x \notin first THEN ms[x]
            ELSE Pairing("playoff", 1, at(2 * Position(ms, x)), at(2 * Position(ms, x) + 1))],
            "playoff")

ApplyGroups(ms, x, win, groups) ==
  IF ms[x].stage = "playoff" THEN ApplySingle(ms, x, win)
  ELSE FillPlayoff(SetResult(ms, x, win), groups)

-----------------------------------------------------------------------------
(* Final places (player-stats.ts): the round of the last defeat, then wins, *)
(* balance and seed.                                                       *)

Infinity == 1000   \* more than any round

\* Mutant: what its comment says, the round of the last defeat.
ExitRound_LastDefeat(ms, p) ==
  LET lost == {ms[x].round : x \in Lost(ms, DOMAIN ms, p)}
  IN IF lost = {} THEN Infinity ELSE FSets!Max(lost)

\* Rounds are taken into the maximum that starts at infinity.
ExitRound(ms, p) == FSets!Max({Infinity} \cup {ms[x].round : x \in Lost(ms, DOMAIN ms, p)})

Placements(ms, n) ==
  IF \A x \in DOMAIN ms : ~Closed(ms[x]) THEN <<>>
  ELSE Ranked([p \in 1..n |-> <<ExitRound(ms, p), Cardinality(Won(ms, DOMAIN ms, p)),
                                Balance(ms, DOMAIN ms, p), -p>>])

-----------------------------------------------------------------------------
(* The formats together (index.ts).                                        *)

Formats == {"single", "double", "page", "round-robin", "swiss", "groups"}

MinParticipants(format) == IF format \in {"double", "page", "groups"} THEN 4 ELSE 2

GenerateBracket(format, n) ==
  CASE format = "single" -> GenerateSingle(n)
    [] format = "double" -> GenerateDouble(n)
    [] format = "page" -> GeneratePage(n)
    [] format = "round-robin" -> RoundRobin("main", Seeds(n))
    [] format = "swiss" -> SwissPairings(<<>>, n, 1)
    [] format = "groups" -> GenerateGroups(n)

ApplyMatchResult(format, ms, x, win, n) ==
  CASE format = "single" -> ApplySingle(ms, x, win)
    [] format = "double" -> ApplyDouble(ms, x, win)
    [] format = "page" -> ApplyPage(ms, x, win)
    [] format = "round-robin" -> SetResult(ms, x, win)
    [] format = "swiss" -> NextSwissRound(SetResult(ms, x, win), n)
    [] format = "groups" -> ApplyGroups(ms, x, win, GroupCount(n))
=============================================================================
