--------------------------- MODULE TournamentPage ---------------------------
(***************************************************************************)
(* The page of a tournament, open before its organizer and before a player *)
(* (apps/web/src/pages/TournamentDetail.tsx), and the checks of the        *)
(* handlers behind its buttons (services/tournament/src/routes.ts).  A     *)
(* page offers what the tournament it shows allows, and that may be old;   *)
(* handlers check what they have read, and write later.                    *)
(*                                                                         *)
(* Of a tournament there is its status, whether it has matches, who is in  *)
(* it, and whether one of them has checked in and paid.                    *)
(***************************************************************************)
EXTENDS Naturals, FiniteSets

CONSTANTS
  Places,        \* maxParticipants
  MinPlayers,    \* minParticipantsFor the format
  Me, Guests,    \* the player at his page; whom the organizer may add
  Marked,        \* the participant who is checked in, and pays
  Clicks,        \* requests, each made once: a bound
  None

VARIABLES
  server,        \* the tournament
  shown,         \* what each page has of it
  answer,        \* what is on its way to each page: a tournament, or none
  click          \* requests: how far, whose, which button, whom it adds, what the page
                 \* showed, what the handler read; history: did the tournament differ
                 \* from what the page showed, before the request was over?

vars == <<server, shown, answer, click>>

Viewers == {"organizer", "player"}
Flags == {"checkedIn", "paid"}
Buttons == {"register", "add", "start", "complete", "score"} \cup Flags
Statuses == {"DRAFT", "REGISTRATION", "ACTIVE", "COMPLETED", "CANCELLED"}
Tournament == [status : Statuses, matches : BOOLEAN, players : SUBSET (Guests \cup {Me}),
               on : SUBSET Flags]

NoClick == [pc |-> "idle"]
UnderWay == {c \in Clicks : click[c].pc \in {"window", "sent", "checked"}}

\* Administrators may have given it any status.
Init ==
  /\ server \in {t \in Tournament : t.on # {} => Marked \in t.players}
  /\ shown = [v \in Viewers |-> server]
  /\ answer = [v \in Viewers |-> {}]
  /\ click = [c \in Clicks |-> NoClick]

Full(t) == Cardinality(t.players) >= Places
Open(t) == t.status \in {"REGISTRATION", "DRAFT"}

-----------------------------------------------------------------------------
\* Mutant: a tournament without enough participants can be started.
Offers_Start(v, button, who, t) ==
  /\ v = "organizer" /\ button = "start"
  /\ Open(t) /\ ~t.matches

\* What a page offers for the tournament that it shows.
Offers(v, button, who, t) ==
  \/ /\ v = "player" /\ button = "register" /\ who = Me
     /\ t.status = "REGISTRATION" /\ ~Full(t) /\ Me \notin t.players
  \/ /\ v = "organizer" /\ button = "add" /\ who \in Guests \ t.players
     /\ ~Full(t) /\ Open(t)
  \/ /\ v = "organizer" /\ button = "start" /\ who = None
     /\ Open(t) /\ ~t.matches /\ Cardinality(t.players) >= MinPlayers
  \/ /\ v = "organizer" /\ button = "complete" /\ who = None
     /\ t.status # "COMPLETED" /\ (t.status = "ACTIVE" \/ t.matches)
  \/ /\ v = "organizer" /\ button = "score" /\ who = None
     /\ t.matches /\ t.status # "COMPLETED"
  \/ v = "organizer" /\ button \in Flags /\ who = None /\ Marked \in t.players

\* Mutant: participants are added to a draft only when registration has begun.
Accepts_NoDraft(button, who, t) ==
  CASE button \in {"register", "add"} ->
         t.status = "REGISTRATION" /\ ~Full(t) /\ who \notin t.players
    [] button = "start" -> t.status \notin {"ACTIVE", "COMPLETED"}
                           /\ Cardinality(t.players) >= MinPlayers
    [] button = "score" -> t.status # "COMPLETED" /\ t.matches
    [] OTHER -> TRUE

\* What a handler checks of the tournament it has read.
Accepts(button, who, t) ==
  CASE button \in {"register", "add"} -> Open(t) /\ ~Full(t) /\ who \notin t.players
    [] button = "start" -> t.status \notin {"ACTIVE", "COMPLETED"}
                           /\ Cardinality(t.players) >= MinPlayers
    [] button = "score" -> t.status # "COMPLETED" /\ t.matches
    [] OTHER -> TRUE

\* A button opens a window, whose button sends the request, or sends it.
Press(c, v, button, who) ==
  /\ click[c].pc = "idle"
  /\ Offers(v, button, who, shown[v])
  /\ click' = [click EXCEPT ![c] =
       [pc |-> IF button \in {"register", "add", "score"} THEN "window" ELSE "sent",
        button |-> button, who |-> who, saw |-> shown[v],
        read |-> {}, old |-> shown[v] # server]]
  /\ UNCHANGED <<server, shown, answer>>

Confirm(c) ==
  /\ click[c].pc = "window"
  /\ click' = [click EXCEPT ![c].pc = "sent"]
  /\ UNCHANGED <<server, shown, answer>>

Check(c) ==
  /\ click[c].pc = "sent"
  /\ click' = [click EXCEPT ![c].pc = IF Accepts(click[c].button, click[c].who, server)
                                      THEN "checked" ELSE "refused",
                            ![c].read = server.on]
  /\ UNCHANGED <<server, shown, answer>>

\* Mutant: a mark is set, not turned round.
Written_Set(c) ==
  LET button == click[c].button IN
  CASE button = "start" -> [server EXCEPT !.status = "ACTIVE", !.matches = TRUE]
    [] button = "complete" -> [server EXCEPT !.status = "COMPLETED"]
    [] button \in {"register", "add"} -> [server EXCEPT !.players = @ \cup {click[c].who}]
    [] button \in Flags -> [server EXCEPT !.on = @ \cup {button}]
    [] button = "score" -> server

Written(c) ==
  LET button == click[c].button IN
  CASE button = "start" -> [server EXCEPT !.status = "ACTIVE", !.matches = TRUE]
    [] button = "complete" -> [server EXCEPT !.status = "COMPLETED"]
    [] button \in {"register", "add"} -> [server EXCEPT !.players = @ \cup {click[c].who}]
    [] button \in Flags ->
         [server EXCEPT !.on = IF button \in click[c].read THEN @ \ {button} ELSE @ \cup {button}]
    [] button = "score" -> server

\* The statements that follow; a participant who is there already is refused.
Write(c) ==
  /\ click[c].pc = "checked"
  /\ server' = Written(c)
  /\ click' = [d \in Clicks |->
       IF d = c THEN [click[c] EXCEPT !.pc = IF click[c].who \in server.players
                                             THEN "refused" ELSE "done"]
       ELSE IF d \in UnderWay THEN [click[d] EXCEPT !.old = @ \/ server' # server]
       ELSE click[d]]
  /\ UNCHANGED <<shown, answer>>

\* A tournament is read for a page, after a request of its own or when it is
\* opened, and comes there later.
Read(v) ==
  /\ answer[v] = {} /\ server # shown[v]
  /\ answer' = [answer EXCEPT ![v] = {server}]
  /\ UNCHANGED <<server, shown, click>>

Show(v) ==
  /\ \E t \in answer[v] : shown' = [shown EXCEPT ![v] = t]
  /\ answer' = [answer EXCEPT ![v] = {}]
  /\ UNCHANGED <<server, click>>

Next ==
  \/ \E c \in Clicks, v \in Viewers, button \in Buttons, who \in Guests \cup {Me, None} :
       Press(c, v, button, who)
  \/ \E c \in Clicks : Confirm(c) \/ Check(c) \/ Write(c)
  \/ \E v \in Viewers : Read(v) \/ Show(v)

Spec == Init /\ [][Next]_vars

-----------------------------------------------------------------------------
\* Every variable keeps its type.
TypeOK ==
  /\ server \in Tournament
  /\ shown \in [Viewers -> Tournament]
  /\ \A v \in Viewers : answer[v] \subseteq Tournament /\ Cardinality(answer[v]) <= 1
  /\ \A c \in Clicks : click[c].pc # "idle" => /\ click[c].button \in Buttons
                                               /\ click[c].saw \in Tournament
                                               /\ click[c].read \subseteq Flags

\* What the page offers is done, unless the tournament had changed after it was
\* shown: a page and the handlers agree on what each status allows
\* (TournamentDetail.tsx 103-108, 404-436, 637-689; tournament routes.ts 313-517).
OffersAreGood == \A c \in Clicks : click[c].pc = "refused" => click[c].old

\* A mark is turned round from what the page showed, unless it was old: two
\* requests that cross may both turn it the same way (routes.ts 388-417).
MarksWhatWasMeant ==
  \A c \in Clicks :
    LET button == click[c].button IN
    click[c].pc = "checked" /\ click'[c].pc = "done" /\ button \in Flags =>
      \/ click[c].old
      \/ button \in server'.on <=> button \notin click[c].saw.on

-----------------------------------------------------------------------------
(* The inductive invariant, in parts.                                      *)

ClickTypes ==
  [pc : {"window", "sent", "checked", "refused", "done"}, button : Buttons,
   who : Guests \cup {Me, None}, saw : Tournament, read : SUBSET Flags, old : BOOLEAN]

\* A request under way that is not old is offered, for what the tournament still is.
OffersStand ==
  \A c \in UnderWay : ~click[c].old =>
    /\ click[c].saw = server
    /\ \E v \in Viewers : Offers(v, click[c].button, click[c].who, server)
    /\ click[c].pc = "checked" => click[c].read = server.on

AddsSomebody ==
  \A c \in UnderWay : click[c].button \in {"register", "add"} => click[c].who \in Guests \cup {Me}

IInv == /\ TypeOK /\ click \in [Clicks -> {NoClick} \cup ClickTypes]
        /\ OffersAreGood /\ OffersStand /\ AddsSomebody
=============================================================================
