----------------------------- MODULE BracketPlay -----------------------------
(***************************************************************************)
(* A tournament of any format of Leagues: any playable match may be scored *)
(* next, with any winner.  Playable is what the bracket views let an       *)
(* organizer click (BracketViewer.tsx, onMatchClick): both participants    *)
(* known, no bye.  A completed match stays clickable, so a score may be    *)
(* corrected; some organizers do and some do not.  Others only play the    *)
(* matches as listed, and verify-brackets.ts plays them with one score.    *)
(***************************************************************************)
EXTENDS Leagues

CONSTANT Tournaments   \* the tournaments to play

Paces == {"free", "listed", "scripted"}

Tournament == [format : Formats,
               field : Nat,              \* number of participants
               corrections : BOOLEAN,    \* are completed matches scored again?
               margins : SUBSET Nat,     \* bound: the differences of scores
               pace : Paces]             \* in any order, as listed, or by the script

ASSUME PlayAssumption == /\ Tournaments \subseteq Tournament
                         /\ \A t \in Tournaments : t.field >= MinParticipants(t.format)

\* Bounds: every round comes before Infinity, and every group has a name.
ASSUME BoundAssumption == \A t \in Tournaments :
  /\ t.field <= Infinity
  /\ t.format = "groups" => GroupCount(t.field) <= Len(GroupStages)

VARIABLES tournament,   \* the one that is played
          matches       \* its bracket

vars == <<tournament, matches>>

Init == /\ tournament \in Tournaments
        /\ matches = GenerateBracket(tournament.format, tournament.field)

Matches == DOMAIN matches

IsFirstReady(x) == \A y \in Matches : Ready(matches[y]) => x <= y

Playable(x) == \/ /\ Ready(matches[x])
                  /\ tournament.pace = "free" \/ IsFirstReady(x)
               \/ tournament.corrections /\ matches[x].status = "completed"

\* The script always lets the first participant win by two.
Wins == IF tournament.pace = "scripted" THEN {Win(1, 2)}
        ELSE {Win(side, by) : side \in Sides, by \in tournament.margins}

Score(x, win) ==
  /\ Playable(x)
  /\ matches' = ApplyMatchResult(tournament.format, matches, x, win, tournament.field)
  /\ UNCHANGED tournament

Next == \E x \in Matches, win \in Wins : Score(x, win)

Spec == Init /\ [][Next]_vars

-----------------------------------------------------------------------------
Plays(formats) == tournament.format \in formats

Entrants == 1..tournament.field

\* The deciding match of a knockout: the last one, or the page playoff's final.
Final == IF Plays({"page"}) THEN 3 ELSE Len(matches)
Lives == IF Plays({"single"}) THEN 1 ELSE 2

AllClosed == \A x \in Matches : Closed(matches[x])
Over == CASE Plays({"round-robin"}) -> AllClosed
          [] Plays({"swiss"}) -> AllClosed /\ LastRound(matches) = SwissRounds(tournament.field)
          [] OTHER -> matches[Final].status = "completed"

Losses(p) == Cardinality(Lost(matches, Matches, p))
Waiting(p) == {x \in Matches : /\ matches[x].status = "pending"
                               /\ p \in Players(matches[x])}

\* Matches keep their type, and only entered participants sit in them.
TypeOK == /\ matches \in Seq(Match)
          /\ tournament \in Tournaments
          /\ \A x \in Matches : Players(matches[x]) \cup {matches[x].winner} \subseteq Entrants \cup {Nobody}

\* The tournament gets to its end: until the final, or the last round of a
\* league, is played some match can be played (generators, BYE advance and the
\* advance of results leave no match waiting for a participant who never comes).
SomeoneCanPlay == Over \/ \E x \in Matches : Ready(matches[x])

\* Nobody is forgotten and nobody is in two places: until scores are corrected, a
\* participant of an elimination who has a life left waits in exactly one match,
\* one who is out or has played the final waits in none.
EveryoneHasOnePlace ==
  Plays({"single", "double"}) /\ ~tournament.corrections => \A p \in Entrants :
    LET done == Losses(p) >= Lives \/ (Over /\ p \in Players(matches[Final]))
    IN Cardinality(Waiting(p)) = IF done THEN 0 ELSE 1

\* Results and seats agree, also after corrections: the winner of a played match
\* or of a bye is the one who sits in the next match of the knockout.
WinnersMoveOn ==
  Plays({"single", "double", "groups"}) =>
    \A x \in Matches :
      matches[x].winner # Nobody /\ matches[x].stage \in {"main", "winners", "playoff"} =>
        \A y \in NextMatch(matches, x) :
          matches[x].winner = IF NextSide(matches, x) = 1 THEN matches[y].p1 ELSE matches[y].p2

\* A played semifinal of the page playoff sends its winner to the final and its
\* loser to the match for third place, also after corrections.
SemifinalsFeedBoth ==
  Plays({"page"}) => \A x \in {1, 2} : matches[x].status = "completed" =>
    /\ matches[x].winner \in Players(matches[3])
    /\ Loser(matches[x]) \in Players(matches[4])
    /\ Players(matches[3]) \cap Players(matches[4]) = {}

\* The loser of a winners' match sits in the losers' match it falls into, on the
\* second seat from round 2 on (sendLoserToLB), while no score is corrected.
LosersTakeTheirSeat ==
  Plays({"double"}) /\ ~tournament.corrections => \A x \in Matches :
    matches[x].stage = "winners" /\ matches[x].status = "completed" /\ matches[x].round > 1
    => \A y \in MatchAt(matches, "losers", LosersTarget(matches[x].round),
                        Position(matches, x)) : matches[y].p2 = Loser(matches[x])

\* Whoever has played a knockout match sits where the result sends him (single-
\* elimination.ts 95-120, double-elimination.ts 130-215): all of these.
ResultsSeatPlayers == WinnersMoveOn /\ SemifinalsFeedBoth /\ LosersTakeTheirSeat

-----------------------------------------------------------------------------
(* Leagues.                                                                *)

\* Every round seats each of the players once, in a match or with a bye.
SeatsEveryone(xs, players) ==
  \A r \in {matches[x].round : x \in xs} : \A p \in players :
    Cardinality({x \in xs : matches[x].round = r /\ p \in Players(matches[x])}) = 1

Meetings(xs, p, q) == Cardinality({x \in xs : Players(matches[x]) = {p, q}})

\* In a round robin and in every group each pair meets exactly once
\* (generateRoundRobin); swiss rounds, paired from the standings, seat everyone
\* once and pair nobody with the opponent of the round before while the field
\* leaves a choice (generateRoundPairings).
EveryoneMeetsOnce ==
  /\ Plays({"round-robin", "groups"}) =>
       \A stage \in {matches[x].stage : x \in Matches} \ {"playoff"} :
         LET xs == {x \in Matches : matches[x].stage = stage}
             players == UNION {Players(matches[x]) : x \in xs}
         IN /\ SeatsEveryone(xs, players)
            /\ \A p, q \in players : p # q => Meetings(xs, p, q) = 1
  /\ Plays({"swiss"}) =>
       LET early == {x \in Matches : matches[x].round <= 2 \/ tournament.field = 4}
       IN /\ SeatsEveryone(Matches, Entrants)
          /\ tournament.field >= 4 =>
               \A p, q \in Entrants : p # q => Meetings(early, p, q) <= 1

\* The playoff takes two of every group, and nobody who won fewer matches in the
\* group than one who is left out (tryFillPlayoff), while no score is corrected.
TheBestAdvance ==
  Plays({"groups"}) /\ ~tournament.corrections =>
    LET in == UNION {Players(matches[x]) : x \in RoundOf(matches, "playoff", 1)}
    IN in # {} =>
         \A g \in 1..GroupCount(tournament.field) :
           LET xs == {x \in Matches : matches[x].stage = GroupStages[g]}
               players == {p \in Entrants : GroupOf(p, GroupCount(tournament.field)) = g}
           IN /\ Cardinality(players \cap in) = 2
              /\ \A p \in players \cap in, q \in players \ in :
                   Cardinality(Won(matches, xs, p)) >= Cardinality(Won(matches, xs, q))

\* The place shown in a player's profile is the rank of the standings, for round
\* robin and swiss (player-stats.ts says so of computePlacements).
PlacesFollowStandings ==
  Plays({"round-robin", "swiss"}) /\ (\E x \in Matches : Closed(matches[x])) =>
    Placements(matches, tournament.field) = Standings(matches, Matches, Entrants)

\* The winner of a finished knockout has the first place (player-stats.ts: 1 is
\* the champion's).
ChampionIsFirst ==
  Plays({"single", "double"}) /\ Over =>
    Placements(matches, tournament.field)[1] = matches[Final].winner
=============================================================================
