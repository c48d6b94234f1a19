-------------------------- MODULE Sessions_proofs --------------------------
(***************************************************************************)
(* Proofs about Sessions, for every set of tabs, browsers, tokens and      *)
(* requests and any number of faults.  IInv (in Sessions) is inductive;    *)
(* that ended sessions stay ended needs no invariant, only what each step  *)
(* may make of the table; that a session survives needs SessionsKept.      *)
(***************************************************************************)
EXTENDS Sessions, TLAPS

Row == [Tokens -> {"free", "live", "expired", "revoked"}]
Mem == [user : BOOLEAN, token : {"none", "good", "old"}, boot : {"asks", "done"}]
Call == [pc : Pcs, shown : Tokens \cup {None}, got : Tokens \cup {None}]
Req == [pc : {"idle", "sent", "waits", "again", "left"}, tab : Tabs \cup {None},
        what : Kinds, fresh : BOOLEAN, shown : Tokens \cup {None}]

\* TypeOK by its parts.
Types ==
  /\ row \in Row
  /\ cookie \in [Browsers -> Tokens \cup {None}]
  /\ stored \in [Browsers -> BOOLEAN]
  /\ tab \in [Tabs -> Mem]
  /\ flight \in [Flights -> Call]
  /\ api \in [Requests -> Req]
  /\ everywhere \in BOOLEAN
  /\ faults \in 0..MaxFaults

LEMMA TypesIsTypeOK == TypeOK <=> Types
BY DEF TypeOK, Types, Row, Mem, Call, Req

\* What the functions that carry a token show was issued.
Issued(n) == n # None => row[n] # "free"
CallIssued(c) ==
  /\ Issued(c.shown)
  /\ c.pc \in {"judged", "reused"} => c.shown # None
  /\ c.pc = "granted" => c.got # None /\ Issued(c.got)

LEMMA ShownByParts ==
  ShownWereIssued <=> /\ \A b \in Browsers : Issued(cookie[b])
                      /\ \A f \in Flights : CallIssued(flight[f])
                      /\ \A r \in Requests : Issued(api[r].shown)
BY DEF ShownWereIssued, CallIssued, Issued

-----------------------------------------------------------------------------
(* What the helpers make of the table, the calls and the memory.           *)

LEMMA FreshType == ASSUME Spare # {} PROVE Fresh \in Tokens
BY DEF Fresh, Spare

LEMMA RevokedFacts ==
  ASSUME row \in Row, NEW S
  PROVE  /\ Revoked(S) \in Row
         /\ \A n \in Tokens : /\ Revoked(S)[n] = "free" <=> row[n] = "free"
                              /\ Revoked(S)[n] = "live" => row[n] = "live"
BY DEF Revoked, Row, Unrevoked

\* A step that keeps every issued token issued keeps what was shown issued.
LEMMA KeepsIssued ==
  ASSUME SessionsAssumption, \A n \in Tokens : row[n] # "free" => row'[n] # "free"
  PROVE  /\ \A n \in Tokens \cup {None} : Issued(n) => Issued(n)'
         /\ \A c \in Call : CallIssued(c) => CallIssued(c)'
BY DEF Issued, CallIssued, Call, SessionsAssumption

LEMMA SentType ==
  ASSUME SessionsAssumption, Types, NEW t \in Tabs
  PROVE  Sent(t) \in Call /\ Sent(t).pc = "sent" /\ Sent(t).shown = cookie[Home[t]]
BY DEF Sent, Types, Call, Pcs, SessionsAssumption

LEMMA NoFlightType ==
  NoFlight \in Call /\ NoFlight.pc = "idle" /\ NoFlight.shown = None
BY DEF NoFlight, Call, Pcs

LEMMA NoRequestType ==
  NoRequest \in Req /\ NoRequest.pc = "idle" /\ NoRequest.shown = None
BY DEF NoRequest, Req, Kinds

LEMMA LeftType ==
  ASSUME Types, NEW r \in Requests
  PROVE  /\ Left(r) \in Req /\ Left(r).pc = "left" /\ Left(r).tab = None
         /\ Left(r).shown = api[r].shown
BY DEF Left, Types, Req

LEMMA RememberType ==
  ASSUME SessionsAssumption, Types, NEW t \in Tabs, NEW m \in Mem, Remember(t, m)
  PROVE  tab' \in [Tabs -> Mem] /\ stored' \in [Browsers -> BOOLEAN]
BY DEF Remember, Types, Mem, SessionsAssumption

LEMMA MemTypes ==
  ASSUME Types, NEW t \in Tabs
  PROVE  SignedIn \in Mem /\ Blank \in Mem /\ Expired(t) \in Mem
BY DEF SignedIn, Blank, Expired, Mem, Types

\* The requests that resume carry the cookie or nothing, and none waits.
LEMMA ResumeFacts ==
  ASSUME Types, NEW t \in Tabs, NEW ok \in BOOLEAN, NEW c \in Tokens \cup {None}
  PROVE  /\ Resume(t, ok, c) \in [Requests -> Req]
         /\ \A r \in Requests :
              /\ Resume(t, ok, c)[r].shown \in {api[r].shown, c, None}
              /\ Resume(t, ok, c)[r].pc = "waits" =>
                   Resume(t, ok, c)[r] = api[r] /\ api[r].tab # t
<1>1. \A r \in Requests : api[r] \in Req BY DEF Types
<1>2. ASSUME NEW r \in Requests
      PROVE  /\ Resume(t, ok, c)[r] \in Req
             /\ Resume(t, ok, c)[r].shown \in {api[r].shown, c, None}
             /\ Resume(t, ok, c)[r].pc = "waits" =>
                  Resume(t, ok, c)[r] = api[r] /\ api[r].tab # t
  BY <1>1, <1>2, NoRequestType DEF Resume, Req
<1> QED BY <1>2 DEF Resume

LEMMA SettleFacts ==
  ASSUME SessionsAssumption, Types, NEW t \in Tabs, NEW w \in Ways,
         NEW ok \in BOOLEAN, cookie' \in [Browsers -> Tokens \cup {None}],
         Settle(t, w, ok)
  PROVE  /\ tab' \in [Tabs -> Mem] /\ stored' \in [Browsers -> BOOLEAN]
         /\ api' \in [Requests -> Req]
         /\ \A r \in Requests :
              /\ api'[r].shown \in {api[r].shown, cookie'[Home[t]], None}
              /\ api'[r].pc = "waits" =>
                   api'[r] = api[r] /\ (w = "try" => api[r].tab # t)
<1>1. cookie'[Home[t]] \in Tokens \cup {None} BY DEF SessionsAssumption
<1>2. PICK m \in Mem : Remember(t, m)
  <2>1. [tab[t] EXCEPT !.token = "good"] \in Mem BY DEF Types, Mem
  <2> QED BY <2>1, MemTypes DEF Settle, Ways
<1>3. CASE w = "try"
  BY <1>1, <1>2, <1>3, ResumeFacts, RememberType DEF Settle
<1>4. CASE w # "try"
  BY <1>2, <1>4, RememberType DEF Settle, Types
<1> QED BY <1>3, <1>4
-----------------------------------------------------------------------------
(* Types.                                                                  *)

LEMMA InitTypes == ASSUME SessionsAssumption, Init PROVE IInv
<1>1. Types
  <2>1. flight \in [Flights -> Call] /\ api \in [Requests -> Req]
    BY NoFlightType, NoRequestType DEF Init
  <2>2. row \in Row /\ tab \in [Tabs -> Mem] BY DEF Init, Row, Mem, Blank
  <2>3. cookie \in [Browsers -> Tokens \cup {None}] /\ stored \in [Browsers -> BOOLEAN]
    BY DEF Init
  <2>4. everywhere \in BOOLEAN BY DEF Init
  <2>5. faults \in 0..MaxFaults BY DEF Init, SessionsAssumption
  <2> QED BY <2>1, <2>2, <2>3, <2>4, <2>5 DEF Types
<1>2. ShownWereIssued
  BY NoFlightType DEF Init, ShownWereIssued, NoRequest, NoFlight
<1>3. WaitersAreAwaited /\ OnlyFaultsLeave
  BY NoRequestType DEF Init, WaitersAreAwaited, OnlyFaultsLeave
<1> QED BY <1>1, <1>2, <1>3, TypesIsTypeOK DEF IInv

LEMMA LoadTypes ==
  ASSUME SessionsAssumption, Types, NEW t \in Tabs, Load(t) PROVE Types'
<1>1. Sent(t) \in Call /\ NoFlight \in Call BY SentType, NoFlightType
<1>2. stored[Home[t]] \in BOOLEAN BY DEF Types, SessionsAssumption
<1>3. tab' \in [Tabs -> Mem] BY <1>2 DEF Load, Types, Mem
<1>4. flight' \in [Flights -> Call]
  <2> DEFINE fly == IF stored[Home[t]] THEN Sent(t) ELSE NoFlight
             left == [flight EXCEPT ![<<t, "boot">>] = fly, ![<<t, "try">>] = NoFlight]
  <2>1. left \in [Flights -> Call] BY <1>1 DEF Types
  <2>2. CASE flight' = left BY <2>1, <2>2
  <2>3. ASSUME NEW w \in Ways, flight' = [left EXCEPT ![<<t, "orphan">>] = flight[<<t, w>>]]
        PROVE  flight' \in [Flights -> Call]
    <3>1. flight[<<t, w>>] \in Call BY DEF Types, Flights
    <3> QED BY <2>1, <2>3, <3>1
  <2> QED BY <2>2, <2>3 DEF Load
<1>5. api' \in [Requests -> Req] BY NoRequestType, LeftType DEF Load, Types
<1>6. faults' \in 0..MaxFaults BY DEF Load, Types, SessionsAssumption
<1> QED BY <1>3, <1>4, <1>5, <1>6 DEF Load, Types

LEMMA AskTypes ==
  ASSUME SessionsAssumption, Types, NEW r \in Requests, NEW t \in Tabs,
         NEW what \in Kinds, Ask(r, t, what)
  PROVE  Types'
<1> DEFINE q == [pc |-> "sent", tab |-> t, what |-> what, fresh |-> tab[t].token = "good",
                shown |-> IF what = "logout" THEN cookie[Home[t]] ELSE None]
<1>1. q \in Req
  <2>1. cookie[Home[t]] \in Tokens \cup {None} BY DEF Types, SessionsAssumption
  <2> QED BY <2>1 DEF Req
<1>2. api' = [api EXCEPT ![r] = q] BY DEF Ask
<1> HIDE DEF q
<1>3. api' \in [Requests -> Req] BY <1>1, <1>2 DEF Types
<1>4. faults' \in 0..MaxFaults BY DEF Ask, Types, SessionsAssumption
<1> QED BY <1>3, <1>4 DEF Ask, Types

LEMMA DoneTypes ==
  ASSUME Types, NEW r \in Requests PROVE Done(r) \in [Requests -> Req]
BY NoRequestType DEF Done, Types

\* A request out of its slot belongs to a tab; the handlers look at its pc.
LEMMA AnswerTypes ==
  ASSUME SessionsAssumption, Types, NEW r \in Requests,
         api[r].pc \notin {"idle", "left"} => api[r].tab \in Tabs,
         Answer(r) \/ DropRequest(r)
  PROVE  Types'
<1>1. api[r].tab \in Tabs
  BY DEF Answer, Unauthorized, LoggedIn, Served, DropRequest
<1> DEFINE t == api[r].tab
<1>2. Done(r) \in [Requests -> Req] BY DoneTypes
<1>3. /\ Remember(t, Expired(t)) => tab' \in [Tabs -> Mem] /\ stored' \in [Browsers -> BOOLEAN]
  BY <1>1, RememberType, MemTypes
<1>4. CASE Unauthorized(r)
  <2>1. api' \in [Requests -> Req]
    <3>1. [api[r] EXCEPT !.pc = "waits"] \in Req BY DEF Types, Req
    <3>2. [api EXCEPT ![r].pc = "waits"] \in [Requests -> Req] BY <3>1 DEF Types
    <3> QED BY <1>2, <1>4, <3>2 DEF Unauthorized
  <2>2. flight' \in [Flights -> Call]
    BY <1>1, <1>4, SentType DEF Unauthorized, Types
  <2>3. tab' \in [Tabs -> Mem] /\ stored' \in [Browsers -> BOOLEAN]
    BY <1>3, <1>4 DEF Unauthorized, Types
  <2> QED BY <1>4, <2>1, <2>2, <2>3 DEF Unauthorized, Types
<1>5. CASE LoggedIn(r)
  <2>1. Fresh \in Tokens BY <1>5, FreshType DEF LoggedIn
  <2>2. row' \in Row /\ cookie' \in [Browsers -> Tokens \cup {None}]
    BY <1>5, <2>1 DEF LoggedIn, Types, Row
  <2>3. [tab[t] EXCEPT !.user = TRUE, !.token = "good"] \in Mem
    <3>1. tab[t] \in Mem BY <1>1 DEF Types
    <3> QED BY <3>1 DEF Mem
  <2>4. tab' \in [Tabs -> Mem] /\ stored' \in [Browsers -> BOOLEAN]
    BY <1>1, <1>5, <2>3, RememberType DEF LoggedIn
  <2> QED BY <1>2, <1>5, <2>2, <2>4 DEF LoggedIn, Types
<1>6. CASE Served(r)
  <2>1. row' \in Row
    <3>1. api[r].what \in Kinds BY DEF Types, Req
    <3> QED BY <1>6, <3>1, RevokedFacts DEF Served, Types, Kinds
  <2>2. cookie' \in [Browsers -> Tokens \cup {None}] BY <1>6 DEF Served, Types
  <2>3. tab' \in [Tabs -> Mem] /\ stored' \in [Browsers -> BOOLEAN]
    BY <1>3, <1>6 DEF Served, Types
  <2>4. everywhere' \in BOOLEAN BY <1>6 DEF Served, Types
  <2> QED BY <1>2, <1>6, <2>1, <2>2, <2>3, <2>4 DEF Served, Types
<1>7. CASE DropRequest(r)
  <2>1. tab' \in [Tabs -> Mem] /\ stored' \in [Browsers -> BOOLEAN]
    BY <1>3, <1>7 DEF DropRequest, Types
  <2>2. faults' \in 0..MaxFaults BY <1>7 DEF DropRequest, Types, SessionsAssumption
  <2>3. api' \in [Requests -> Req] BY <1>7, LeftType, NoRequestType DEF DropRequest, Types
  <2> QED BY <1>7, <2>1, <2>2, <2>3 DEF DropRequest, Types
<1> QED BY <1>4, <1>5, <1>6, <1>7 DEF Answer

LEMMA UnheardTypes ==
  ASSUME SessionsAssumption, Types, NEW r \in Requests, Unheard(r) PROVE Types'
<1>1. api' \in [Requests -> Req] BY DoneTypes DEF Unheard
<1>2. row' \in Row
  <2>1. Spare # {} => [row EXCEPT ![Fresh] = "live"] \in Row BY FreshType DEF Types, Row
  <2> QED BY <2>1, RevokedFacts DEF Unheard, Types
<1>3. everywhere' \in BOOLEAN BY DEF Unheard, Types
<1> QED BY <1>1, <1>2, <1>3 DEF Unheard, Types

LEMMA HandleTypes ==
  ASSUME SessionsAssumption, Types, NEW f \in Flights, Handle(f) PROVE Types'
<1>1. CASE Find(f)
  <2>1. Verdict(flight[f].shown) \in Pcs BY DEF Verdict, Pcs
  <2>2. flight' \in [Flights -> Call] BY <1>1, <2>1 DEF Find, Types, Call
  <2> QED BY <1>1, <2>2 DEF Find, Types
<1>2. CASE RevokeAll(f)
  <2>1. flight' \in [Flights -> Call] BY <1>2 DEF RevokeAll, Types, Call, Pcs
  <2> QED BY <1>2, <2>1, RevokedFacts DEF RevokeAll, Types
<1>3. CASE Rotate(f)
  <2>1. Fresh \in Tokens BY <1>3, FreshType DEF Rotate
  <2>2. flight' \in [Flights -> Call] BY <1>3, <2>1 DEF Rotate, Types, Call, Pcs
  <2>3. row' \in Row BY <1>3, <2>1, RevokedFacts DEF Rotate, Types, Row
  <2> QED BY <1>3, <2>2, <2>3 DEF Rotate, Types
<1> QED BY <1>1, <1>2, <1>3 DEF Handle

LEMMA EndTypes ==
  ASSUME SessionsAssumption, Types, NEW t \in Tabs, NEW w \in Ways,
         Arrive(t, w) \/ Drop(t, w)
  PROVE  Types' /\ cookie' \in [Browsers -> Tokens \cup {None}]
<1>1. flight[<<t, w>>] \in Call BY DEF Types, Flights
<1>2. CASE Arrive(t, w)
  <2>1. cookie' \in [Browsers -> Tokens \cup {None}]
    BY <1>1, <1>2 DEF Arrive, Types, Call
  <2>2. flight' \in [Flights -> Call] BY <1>2, NoFlightType DEF Arrive, Types
  <2>3. (flight[<<t, w>>].pc = "granted") \in BOOLEAN OBVIOUS
  <2> QED BY <1>2, <2>1, <2>2, <2>3, SettleFacts DEF Arrive, Types
<1>3. CASE Drop(t, w)
  <2>1. cookie' \in [Browsers -> Tokens \cup {None}] BY <1>3 DEF Drop, Types
  <2>2. flight' \in [Flights -> Call] BY <1>1, <1>3, NoFlightType DEF Drop, Types
  <2>3. faults' \in 0..MaxFaults BY <1>3 DEF Drop, Types, SessionsAssumption
  <2> QED BY <1>3, <2>1, <2>2, <2>3, SettleFacts DEF Drop, Types
<1> QED BY <1>2, <1>3
-----------------------------------------------------------------------------
(* What was shown was issued.                                              *)

LEMMA LoadIssued ==
  ASSUME SessionsAssumption, IInv, Types, NEW t \in Tabs, Load(t)
  PROVE  ShownWereIssued'
<1>1. /\ \A b \in Browsers : Issued(cookie[b])
      /\ \A f \in Flights : CallIssued(flight[f])
      /\ \A r \in Requests : Issued(api[r].shown)
  BY ShownByParts DEF IInv
<1>2. CallIssued(Sent(t)) /\ CallIssued(NoFlight)
  BY <1>1, SentType, NoFlightType DEF CallIssued, Issued, SessionsAssumption
<1>3. \A f \in Flights : CallIssued(flight'[f])
  BY <1>1, <1>2 DEF Load, Types, Flights
<1>4. \A r \in Requests : Issued(api'[r].shown)
  BY <1>1, NoRequestType, LeftType DEF Load, Issued
<1>5. row' = row /\ cookie' = cookie BY DEF Load
<1> QED BY <1>1, <1>3, <1>4, <1>5 DEF ShownWereIssued, CallIssued, Issued

LEMMA RequestIssued ==
  ASSUME SessionsAssumption, IInv, Types, Types',
         NEW r \in Requests,
         \/ \E t \in Tabs, what \in Kinds : Ask(r, t, what)
         \/ Answer(r) \/ DropRequest(r) \/ Unheard(r)
  PROVE  ShownWereIssued'
<1>1. /\ \A b \in Browsers : Issued(cookie[b])
      /\ \A f \in Flights : CallIssued(flight[f])
      /\ \A q \in Requests : Issued(api[q].shown)
  BY ShownByParts DEF IInv
<1>2. \A n \in Tokens : row[n] # "free" => row'[n] # "free"
  <2>1. CASE LoggedIn(r) BY <2>1, FreshType DEF LoggedIn, Types, Row
  <2>2. CASE Served(r)
    <3>1. api[r].what \in Kinds BY DEF Types, Req
    <3> QED BY <2>2, <3>1, RevokedFacts DEF Served, Types, Kinds
  <2>3. CASE Unauthorized(r) \/ DropRequest(r) \/ \E t \in Tabs, what \in Kinds : Ask(r, t, what)
    BY <2>3 DEF Unauthorized, DropRequest, Ask
  <2>4. CASE Unheard(r)
    <3>1. Spare # {} => \A n \in Tokens : [row EXCEPT ![Fresh] = "live"][n] \in {row[n], "live"}
      BY FreshType DEF Types, Row
    <3> QED BY <2>4, <3>1, RevokedFacts DEF Unheard, Types
  <2> QED BY <2>1, <2>2, <2>3, <2>4 DEF Answer
<1>3. /\ \A n \in Tokens \cup {None} : Issued(n) => Issued(n)'
      /\ \A c \in Call : CallIssued(c) => CallIssued(c)'
  BY <1>2, KeepsIssued
<1>4. \A b \in Browsers : (Issued(cookie[b]))'
  <2>1. CASE LoggedIn(r)
    <3>1. row'[Fresh] = "live" BY <2>1, FreshType DEF LoggedIn, Types, Row
    <3>2. \A b \in Browsers : cookie'[b] \in {cookie[b], Fresh}
      BY <2>1 DEF LoggedIn, Types
    <3> QED BY <1>1, <1>3, <3>1, <3>2 DEF Issued, Types
  <2>2. CASE ~LoggedIn(r)
    <3>1. \A b \in Browsers : cookie'[b] \in {cookie[b], None}
      BY <2>2 DEF Answer, Served, Unauthorized, DropRequest, Unheard, Ask, Types
    <3> QED BY <1>1, <1>3, <3>1 DEF Issued, Types
  <2> QED BY <2>1, <2>2
<1>5. \A f \in Flights : (CallIssued(flight[f]))'
  <2>1. CASE Unauthorized(r)
    <3>1. \A f \in Flights : flight[f] \in Call BY DEF Types
    <3>2. ASSUME NEW t \in Tabs PROVE CallIssued(Sent(t))
      <4>1. Issued(cookie[Home[t]]) BY <1>1 DEF SessionsAssumption
      <4> QED BY <4>1, SentType DEF CallIssued
    <3>3. PICK t : t = api[r].tab OBVIOUS
    <3>4. CASE flight' = flight BY <1>1, <1>3, <3>1, <3>4 DEF CallIssued, Issued
    <3>5. CASE flight' = [flight EXCEPT ![<<t, "try">>] = Sent(t)]
      <4>1. row' = row BY <2>1 DEF Unauthorized
      <4>2. CASE t \in Tabs
        <5>1. \A f \in Flights : CallIssued(flight'[f])
          BY <1>1, <3>2, <3>5, <4>2 DEF Types
        <5> QED BY <4>1, <5>1 DEF CallIssued, Issued
      <4>3. CASE t \notin Tabs
        <5>1. \A f \in Flights : f # <<t, "try">> BY <4>3 DEF Flights
        <5>2. flight' = flight BY <3>5, <5>1 DEF Types
        <5> QED BY <1>1, <4>1, <5>2 DEF CallIssued, Issued
      <4> QED BY <4>2, <4>3
    <3> QED BY <2>1, <3>3, <3>4, <3>5 DEF Unauthorized
  <2>2. CASE ~Unauthorized(r)
    <3>1. flight' = flight BY <2>2 DEF Answer, LoggedIn, Served, DropRequest, Unheard, Ask
    <3>2. \A f \in Flights : flight[f] \in Call BY DEF Types
    <3> QED BY <1>1, <1>3, <3>1, <3>2 DEF CallIssued, Issued
  <2> QED BY <2>1, <2>2
<1>6. \A q \in Requests : (Issued(api[q].shown))'
  <2>1. ASSUME NEW q \in Requests PROVE (Issued(api[q].shown))'
    <3>1. \A b \in Browsers : cookie[b] \in Tokens \cup {None} BY DEF Types
    <3>2. api[q].shown \in Tokens \cup {None} BY DEF Types, Req
    <3>3. \/ api'[q].shown \in {api[q].shown, None}
          \/ \E t \in Tabs : api'[q].shown = cookie[Home[t]]
      <4>1. CASE \E t \in Tabs, what \in Kinds : Ask(r, t, what)
        BY <4>1 DEF Ask, Types
      <4>2. CASE Unauthorized(r) BY <4>2, NoRequestType DEF Unauthorized, Done, Types, Req
      <4>3. CASE LoggedIn(r) \/ Served(r) \/ DropRequest(r) \/ Unheard(r)
        BY <4>3, NoRequestType, LeftType DEF LoggedIn, Served, DropRequest, Unheard, Done, Types
      <4> QED BY <4>1, <4>2, <4>3 DEF Answer
    <3> QED BY <1>1, <1>3, <3>1, <3>2, <3>3 DEF Issued, SessionsAssumption
  <2> QED BY <2>1
<1> QED BY <1>4, <1>5, <1>6, ShownByParts DEF ShownWereIssued, CallIssued, Issued

LEMMA HandleIssued ==
  ASSUME SessionsAssumption, IInv, Types, NEW f \in Flights, Handle(f)
  PROVE  ShownWereIssued'
<1>1. /\ \A b \in Browsers : Issued(cookie[b])
      /\ \A g \in Flights : CallIssued(flight[g])
      /\ \A q \in Requests : Issued(api[q].shown)
  BY ShownByParts DEF IInv
<1>2. \A n \in Tokens : row[n] # "free" => row'[n] # "free"
  <2>1. CASE Rotate(f) BY <2>1, FreshType, RevokedFacts DEF Rotate, Types, Row
  <2>2. CASE RevokeAll(f) BY <2>2, RevokedFacts DEF RevokeAll, Types
  <2>3. CASE Find(f) BY <2>3 DEF Find
  <2> QED BY <2>1, <2>2, <2>3 DEF Handle
<1>3. /\ \A n \in Tokens \cup {None} : Issued(n) => Issued(n)'
      /\ \A c \in Call : CallIssued(c) => CallIssued(c)'
  BY <1>2, KeepsIssued
<1>4. /\ cookie' = cookie /\ api' = api
      /\ \A g \in Flights : g # f => flight'[g] = flight[g]
  BY DEF Handle, Find, RevokeAll, Rotate, Types
<1>5. flight[f] \in Call /\ CallIssued(flight[f]) BY <1>1 DEF Types
<1>6. (CallIssued(flight[f]))'
  <2>1. CASE Find(f)
    <3>1. flight'[f] = [flight[f] EXCEPT !.pc = Verdict(flight[f].shown)] /\ row' = row
      BY <2>1 DEF Find, Types
    <3> QED BY <1>5, <3>1 DEF CallIssued, Issued, Verdict, Call
  <2>2. CASE RevokeAll(f)
    <3>1. flight'[f] = [flight[f] EXCEPT !.pc = "refused"] BY <2>2 DEF RevokeAll, Types
    <3> QED BY <1>3, <1>5, <3>1 DEF CallIssued, Issued, Call
  <2>3. CASE Rotate(f)
    <3>1. flight'[f] = [flight[f] EXCEPT !.pc = "granted", !.got = Fresh]
      BY <2>3 DEF Rotate, Types
    <3>2. Fresh \in Tokens /\ Fresh # None
      BY <2>3, FreshType DEF Rotate, SessionsAssumption
    <3>3. row'[Fresh] = "live" BY <2>3, <3>2, RevokedFacts DEF Rotate, Types, Row
    <3>4. (Issued(flight[f].shown))'
      <4>1. flight'[f].shown = flight[f].shown BY <1>5, <3>1 DEF Call
      <4> QED BY <1>3, <1>5, <4>1 DEF CallIssued, Issued, Call
    <3> QED BY <1>5, <3>1, <3>2, <3>3, <3>4 DEF CallIssued, Issued, Call
  <2> QED BY <2>1, <2>2, <2>3 DEF Handle
<1>7. \A g \in Flights : (CallIssued(flight[g]))'
  <2>1. \A g \in Flights : flight[g] \in Call BY DEF Types
  <2> QED BY <1>1, <1>3, <1>4, <1>6, <2>1 DEF CallIssued, Issued
<1>8. /\ \A b \in Browsers : cookie[b] \in Tokens \cup {None}
      /\ \A q \in Requests : api[q].shown \in Tokens \cup {None}
  BY DEF Types, Req
<1> QED BY <1>1, <1>3, <1>4, <1>7, <1>8 DEF ShownWereIssued, CallIssued, Issued

LEMMA EndIssued ==
  ASSUME SessionsAssumption, IInv, Types, NEW t \in Tabs, NEW w \in Ways,
         Arrive(t, w) \/ Drop(t, w)
  PROVE  ShownWereIssued'
<1>1. /\ \A b \in Browsers : Issued(cookie[b])
      /\ \A g \in Flights : CallIssued(flight[g])
      /\ \A q \in Requests : Issued(api[q].shown)
  BY ShownByParts DEF IInv
<1>2. row' = row BY DEF Arrive, Drop
<1>3. flight[<<t, w>>] \in Call /\ CallIssued(flight[<<t, w>>])
  BY <1>1 DEF Types, Flights
<1>4. cookie' \in [Browsers -> Tokens \cup {None}] BY EndTypes
<1>5. \A b \in Browsers : Issued(cookie'[b])
  BY <1>1, <1>3 DEF Arrive, Drop, CallIssued, Issued, Types
<1>6. \A g \in Flights : CallIssued(flight'[g])
  <2>1. CallIssued(NoFlight) BY NoFlightType DEF CallIssued, Issued
  <2> QED BY <1>1, <1>3, <2>1 DEF Arrive, Drop, Types
<1>7. \A q \in Requests : Issued(api'[q].shown)
  <2>1. PICK ok \in BOOLEAN : Settle(t, w, ok)
    <3>1. CASE Arrive(t, w)
      <4>1. (flight[<<t, w>>].pc = "granted") \in BOOLEAN OBVIOUS
      <4> QED BY <3>1, <4>1 DEF Arrive
    <3>2. CASE Drop(t, w) BY <3>2 DEF Drop
    <3> QED BY <3>1, <3>2
  <2>2. \A q \in Requests : api'[q].shown \in {api[q].shown, cookie'[Home[t]], None}
    BY <1>4, <2>1, SettleFacts
  <2> QED BY <1>1, <1>5, <2>2 DEF Issued, SessionsAssumption
<1> QED BY <1>2, <1>5, <1>6, <1>7 DEF ShownWereIssued, CallIssued, Issued
-----------------------------------------------------------------------------
(* Nobody waits for nothing.                                               *)

LEMMA WaitersStep ==
  ASSUME SessionsAssumption, IInv, Types, [Next]_vars PROVE WaitersAreAwaited'
<1> USE DEF IInv
<1>1. ASSUME NEW t \in Tabs, Load(t) PROVE WaitersAreAwaited'
  <2>1. ASSUME NEW r \in Requests, api'[r].pc \notin {"idle", "left"}
        PROVE  /\ api'[r] = api[r] /\ api[r].tab # t /\ api[r].tab \in Tabs
               /\ flight'[<<api[r].tab, "try">>] = flight[<<api[r].tab, "try">>]
    <3>1. api'[r] = api[r] /\ api[r].tab # t
      BY <1>1, <2>1, NoRequestType, LeftType DEF Load
    <3>2. api[r].tab \in Tabs BY <2>1, <3>1 DEF WaitersAreAwaited
    <3> QED BY <1>1, <3>1, <3>2 DEF Load, Types, Flights, Ways
  <2> QED BY <2>1 DEF WaitersAreAwaited
<1>2. ASSUME NEW t \in Tabs, Vanish(t) PROVE WaitersAreAwaited'
  BY <1>2 DEF Vanish, WaitersAreAwaited, Types, Flights, Ways
<1>3. ASSUME NEW t \in Tabs, AgeAccess(t) PROVE WaitersAreAwaited'
  BY <1>3 DEF AgeAccess, WaitersAreAwaited
<1>4. ASSUME NEW r \in Requests, NEW t \in Tabs, NEW what \in Kinds, Ask(r, t, what)
      PROVE  WaitersAreAwaited'
  BY <1>4 DEF Ask, WaitersAreAwaited, Types
<1>5. ASSUME NEW r \in Requests, Answer(r) \/ DropRequest(r) \/ Unheard(r)
      PROVE  WaitersAreAwaited'
  <2>1. CASE Unauthorized(r)
    <3> DEFINE t == api[r].tab
    <3>1. t \in Tabs BY <2>1 DEF Unauthorized, WaitersAreAwaited
    <3>2. /\ api'[r].pc \in {"waits", "idle"} /\ (api'[r].pc = "waits" => api'[r].tab = t)
          /\ \A q \in Requests : q # r => api'[q] = api[q]
      BY <2>1, NoRequestType DEF Unauthorized, Done, Types, Req
    <3>3. api'[r].pc = "waits" => flight'[<<t, "try">>].pc # "idle"
      BY <2>1, <3>1, <3>2, SentType, NoRequestType DEF Unauthorized, Done, Types, Flights, Ways
    <3>4. \A f \in Flights : flight[f].pc # "idle" => flight'[f].pc # "idle"
      BY <2>1, <3>1, SentType DEF Unauthorized, Types
    <3>5. \A s \in Tabs : <<s, "try">> \in Flights BY DEF Flights, Ways
    <3> QED BY <3>1, <3>2, <3>3, <3>4, <3>5 DEF WaitersAreAwaited
  <2>2. CASE LoggedIn(r) \/ Served(r) \/ DropRequest(r) \/ Unheard(r)
    <3>1. flight' = flight /\ \A q \in Requests : q # r => api'[q] = api[q]
      BY <2>2 DEF LoggedIn, Served, DropRequest, Unheard, Done, Types
    <3>2. api'[r].pc \in {"idle", "left"}
      BY <2>2, NoRequestType, LeftType DEF LoggedIn, Served, DropRequest, Unheard, Done, Types
    <3> QED BY <3>1, <3>2 DEF WaitersAreAwaited
  <2> QED BY <1>5, <2>1, <2>2 DEF Answer
<1>6. ASSUME NEW f \in Flights, Handle(f) PROVE WaitersAreAwaited'
  <2>1. api' = api BY <1>6 DEF Handle, Find, RevokeAll, Rotate
  <2>2. \A g \in Flights : flight[g].pc # "idle" => flight'[g].pc # "idle"
    BY <1>6 DEF Handle, Find, RevokeAll, Rotate, Verdict, Types, Call
  <2>3. \A s \in Tabs : <<s, "try">> \in Flights BY DEF Flights, Ways
  <2> QED BY <2>1, <2>2, <2>3 DEF WaitersAreAwaited
<1>7. ASSUME NEW t \in Tabs, NEW w \in Ways, Arrive(t, w) \/ Drop(t, w)
      PROVE  WaitersAreAwaited'
  <2>1. cookie' \in [Browsers -> Tokens \cup {None}] BY <1>7, EndTypes
  <2>2. PICK ok \in BOOLEAN : Settle(t, w, ok)
    <3>1. (flight[<<t, w>>].pc = "granted") \in BOOLEAN OBVIOUS
    <3> QED BY <1>7, <3>1 DEF Arrive, Drop
  <2>3. ASSUME NEW r \in Requests, api'[r].pc \notin {"idle", "left"}
        PROVE  api'[r].tab = api[r].tab /\ api[r].pc \notin {"idle", "left"}
    <3>1. CASE w = "try"
      BY <2>1, <2>2, <2>3, <3>1, NoRequestType DEF Settle, Resume, Types, Req, SessionsAssumption
    <3>2. CASE w # "try" BY <2>2, <2>3, <3>2 DEF Settle
    <3> QED BY <3>1, <3>2
  <2>4. ASSUME NEW r \in Requests, api'[r].pc = "waits"
        PROVE  flight'[<<api[r].tab, "try">>].pc # "idle"
    <3>1. api'[r] = api[r] /\ (w = "try" => api[r].tab # t)
      BY <2>1, <2>2, <2>4, SettleFacts
    <3>2. api[r].tab \in Tabs /\ flight[<<api[r].tab, "try">>].pc # "idle"
      BY <2>4, <3>1 DEF WaitersAreAwaited
    <3>3. <<api[r].tab, "try">> # <<t, w>> /\ <<api[r].tab, "try">> # <<t, "orphan">>
      BY <3>1
    <3>4. flight'[<<api[r].tab, "try">>] = flight[<<api[r].tab, "try">>]
      BY <1>7, <3>2, <3>3 DEF Arrive, Drop, Types, Flights, Ways
    <3> QED BY <3>2, <3>4
  <2> QED BY <2>3, <2>4 DEF WaitersAreAwaited
<1>8. ASSUME NEW n \in Tokens, AgeRefresh(n) PROVE WaitersAreAwaited'
  BY <1>8 DEF AgeRefresh, WaitersAreAwaited
<1>9. CASE UNCHANGED vars BY <1>9 DEF vars, WaitersAreAwaited
<1> QED BY <1>1, <1>2, <1>3, <1>4, <1>5, <1>6, <1>7, <1>8, <1>9 DEF Next

-----------------------------------------------------------------------------
LEMMA TypeStep == ASSUME SessionsAssumption, IInv, Types, [Next]_vars PROVE Types'
<1>1. ASSUME NEW t \in Tabs, Vanish(t) PROVE Types'
  BY <1>1, NoFlightType DEF Vanish, Types
<1>2. ASSUME NEW t \in Tabs, AgeAccess(t) PROVE Types'
  BY <1>2 DEF AgeAccess, Types, Mem
<1>3. ASSUME NEW r \in Requests, Answer(r) \/ DropRequest(r) PROVE Types'
  BY <1>3, AnswerTypes DEF IInv, WaitersAreAwaited
<1>4. ASSUME NEW n \in Tokens, AgeRefresh(n) PROVE Types'
  BY <1>4 DEF AgeRefresh, Types, Row
<1>5. CASE UNCHANGED vars BY <1>5 DEF vars, Types
<1> QED BY <1>1, <1>2, <1>3, <1>4, <1>5, LoadTypes, AskTypes, UnheardTypes, HandleTypes,
        EndTypes
        DEF Next

LEMMA IssuedStep ==
  ASSUME SessionsAssumption, IInv, Types, Types', [Next]_vars PROVE ShownWereIssued'
<1>1. ASSUME NEW t \in Tabs, Vanish(t) PROVE ShownWereIssued'
  <2>1. \A f \in Flights : flight'[f] \in {flight[f], NoFlight}
    BY <1>1 DEF Vanish, Types
  <2> QED BY <1>1, <2>1, NoFlightType DEF Vanish, IInv, ShownWereIssued
<1>2. ASSUME NEW t \in Tabs, AgeAccess(t) PROVE ShownWereIssued'
  BY <1>2 DEF AgeAccess, IInv, ShownWereIssued
<1>3. ASSUME NEW n \in Tokens, AgeRefresh(n) PROVE ShownWereIssued'
  <2>1. \A m \in Tokens : row[m] # "free" => row'[m] # "free"
    BY <1>3 DEF AgeRefresh, Types, Row
  <2>2. /\ \A b \in Browsers : cookie[b] \in Tokens \cup {None}
        /\ \A f \in Flights : flight[f] \in Call
        /\ \A r \in Requests : api[r].shown \in Tokens \cup {None}
    BY DEF Types, Req
  <2>3. cookie' = cookie /\ flight' = flight /\ api' = api BY <1>3 DEF AgeRefresh
  <2> QED BY <2>1, <2>2, <2>3, KeepsIssued, ShownByParts
          DEF IInv, ShownWereIssued, CallIssued, Issued
<1>4. CASE UNCHANGED vars BY <1>4 DEF vars, IInv, ShownWereIssued
<1> QED BY <1>1, <1>2, <1>3, <1>4, LoadIssued, RequestIssued, HandleIssued, EndIssued
        DEF Next

\* A page load or a broken connection that leaves a request behind is a fault.
LEMMA LeavesStep ==
  ASSUME SessionsAssumption, IInv, Types, [Next]_vars PROVE OnlyFaultsLeave'
<1>0. faults \in Nat BY DEF Types, SessionsAssumption
<1>1. faults' = faults \/ faults' = faults + 1
  BY DEF Next, vars, Load, Vanish, AgeAccess, AgeRefresh, Ask,
         Answer, Unauthorized, LoggedIn, Served, DropRequest, Unheard, Handle, Find, RevokeAll,
         Rotate, Arrive, Drop
<1>2. SUFFICES ASSUME faults = 0, faults' = 0, \A r \in Requests : api[r].pc # "left"
               PROVE  \A r \in Requests : api'[r].pc # "left"
  BY <1>0, <1>1 DEF IInv, OnlyFaultsLeave
<1>3. ASSUME NEW t \in Tabs, Load(t) PROVE \A r \in Requests : api'[r].pc # "left"
  BY <1>2, <1>3, NoRequestType DEF Load
<1>4. ASSUME NEW r \in Requests, NEW t \in Tabs, NEW what \in Kinds, Ask(r, t, what)
      PROVE  \A q \in Requests : api'[q].pc # "left"
  BY <1>2, <1>4 DEF Ask, Types
<1>5. ASSUME NEW r \in Requests, Answer(r) \/ DropRequest(r) \/ Unheard(r)
      PROVE  \A q \in Requests : api'[q].pc # "left"
  <2>1. ~DropRequest(r) /\ ~Unheard(r) BY <1>2 DEF DropRequest, Unheard
  <2>2. api' \in {Done(r), [api EXCEPT ![r].pc = "waits"]}
    BY <1>5, <2>1 DEF Answer, Unauthorized, LoggedIn, Served
  <2> QED BY <1>2, <2>2, NoRequestType DEF Done, Types, Req
<1>6. ASSUME NEW t \in Tabs, NEW w \in Ways, Arrive(t, w)
      PROVE  \A q \in Requests : api'[q].pc # "left"
  BY <1>2, <1>6, NoRequestType DEF Arrive, Settle, Resume, Types, Req
<1>7. ASSUME NEW t \in Tabs, NEW w \in Ways, Drop(t, w) PROVE FALSE
  BY <1>2, <1>7 DEF Drop
<1>8. CASE UNCHANGED api BY <1>2, <1>8
<1> QED BY <1>3, <1>4, <1>5, <1>6, <1>7, <1>8
        DEF Next, vars, Vanish, AgeAccess, AgeRefresh, Handle, Find, RevokeAll, Rotate

\* The types, that every token shown, kept or handed out was issued by the
\* service, and that a request waits only for a refresh under way hold for any
\* tabs, browsers and requests and however many calls are lost or overlap
\* (refresh-token.ts 44-88, client.ts 46-97).
THEOREM SessionsSafe == Spec => []IInv
<1>1. Init => IInv BY SessionsAssumption, InitTypes
<1>2. IInv /\ [Next]_vars => IInv'
  <2> SUFFICES ASSUME IInv, [Next]_vars PROVE IInv' OBVIOUS
  <2>1. Types BY TypesIsTypeOK DEF IInv
  <2>2. Types' BY <2>1, TypeStep, SessionsAssumption
  <2>3. TypeOK' BY <2>2 DEF TypeOK, Types, Row, Mem, Call, Req
  <2> QED BY <2>1, <2>2, <2>3, IssuedStep, WaitersStep, LeavesStep, SessionsAssumption
          DEF IInv
<1> QED BY <1>1, <1>2, PTL DEF Spec

\* Once every session has ended only a login, or a rotation that judged its
\* token before the end (refresh-token.ts 49-85), brings one back, for any
\* tabs, browsers and requests.
THEOREM EndIsFinal == Spec => EndedForGood
<1>1. ASSUME TypeOK, [Next]_vars, Alive = {}, Alive' # {}
      PROVE  \/ \E f \in Flights : flight[f].pc = "judged"
             \/ \E r \in Requests : api[r].what = "login" /\ api[r].pc # "idle"
  <2>1. PICK n \in Tokens : row'[n] = "live" BY <1>1 DEF Alive
  <2>2. row[n] # "live" /\ row \in Row BY <1>1 DEF Alive, TypeOK, Row
  <2>3. ASSUME NEW f \in Flights, Handle(f) PROVE flight[f].pc = "judged"
    BY <2>1, <2>2, <2>3, RevokedFacts DEF Handle, Find, RevokeAll, Rotate
  <2>4. ASSUME NEW r \in Requests, Answer(r)
        PROVE  api[r].what = "login" /\ api[r].pc # "idle"
    <3>1. api[r].what \in Kinds BY <1>1 DEF TypeOK
    <3> QED BY <2>1, <2>2, <2>4, <3>1, RevokedFacts
            DEF Answer, Unauthorized, LoggedIn, Served, Kinds
  <2>5. ASSUME NEW r \in Requests, Unheard(r)
        PROVE  api[r].what = "login" /\ api[r].pc # "idle"
    BY <2>1, <2>2, <2>5, RevokedFacts DEF Unheard
  <2>6. ASSUME NEW m \in Tokens, AgeRefresh(m) PROVE FALSE
    BY <2>1, <2>2, <2>6 DEF AgeRefresh, Row
  <2>7. row' # row BY <2>1, <2>2
  <2> QED BY <1>1, <2>3, <2>4, <2>5, <2>6, <2>7
          DEF Next, vars, Load, Vanish, AgeAccess, Ask, DropRequest, Arrive, Drop
<1>2. TypeOK /\ [Next]_vars =>
        [ \/ Alive # {} \/ Alive' = {}
          \/ \E f \in Flights : flight[f].pc = "judged"
          \/ \E r \in Requests : api[r].what = "login" /\ api[r].pc # "idle" ]_vars
  BY <1>1
<1>3. IInv => TypeOK BY DEF IInv
<1> QED BY <1>2, <1>3, SessionsSafe, PTL DEF Spec, EndedForGood
-----------------------------------------------------------------------------
(* Sessions survive.  SessionsKept is inductive when pages wait for their  *)
(* bootstrap: a step of one tab leaves the others alone, and what it takes *)
(* was nobody's.                                                           *)

Kept(t) == CookieIsGood(t) /\ OneRefresh(t) /\ OwnRequests(t)

\* A tab a step leaves alone; a token of its may have expired.
LeftAlone(t) ==
  /\ tab'[t].user = tab[t].user /\ tab'[t].boot = tab[t].boot
  /\ stored'[Home[t]] = stored[Home[t]] /\ cookie'[Home[t]] = cookie[Home[t]]
  /\ \A w \in Ways \cup {"orphan"} : flight'[<<t, w>>] = flight[<<t, w>>]
  /\ \A r \in Requests : api[r].tab = t \/ api'[r].tab = t => api'[r] = api[r]
  /\ \A n \in Tokens : HeldBy(t, n) =>
       row'[n] = row[n] \/ (row[n] = "live" /\ row'[n] = "expired")

\* What a step may give a tab: what nobody held.
TakesWhatIsSpare(t) ==
  \A n \in Tokens : HeldBy(t, n)' => HeldBy(t, n) \/ \A s \in Tabs : ~HeldBy(s, n)

LEMMA Fields ==
  ASSUME SessionsAssumption, Types, NEW t \in Tabs
  PROVE  /\ Home[t] \in Browsers /\ cookie[Home[t]] \in Tokens \cup {None}
         /\ stored[Home[t]] \in BOOLEAN /\ tab[t] \in Mem
         /\ \A w \in Ways \cup {"orphan"} : <<t, w>> \in Flights /\ flight[<<t, w>>] \in Call
BY DEF SessionsAssumption, Types, Flights

LEMMA LeftAloneHolds ==
  ASSUME NEW t \in Tabs, LeftAlone(t)
  PROVE  \A n \in Tokens : HeldBy(t, n)' <=> HeldBy(t, n)
<1>1. \A w \in Ways : flight'[<<t, w>>] = flight[<<t, w>>] BY DEF LeftAlone
<1>2. cookie'[Home[t]] = cookie[Home[t]] BY DEF LeftAlone
<1>3. \A r \in Requests : api[r].tab = t \/ api'[r].tab = t => api'[r] = api[r]
  BY DEF LeftAlone
<1> QED BY <1>1, <1>2, <1>3 DEF HeldBy

LEMMA LeftAloneKept ==
  ASSUME SessionsAssumption, Types, NEW t \in Tabs, LeftAlone(t), Kept(t)
  PROVE  Kept(t)'
<1> DEFINE c == cookie[Home[t]]
<1>1. c \in Tokens \cup {None} /\ c' = c BY Fields DEF LeftAlone
<1>2. \A w \in Ways \cup {"orphan"} : flight[<<t, w>>] \in Call
                                  /\ flight'[<<t, w>>] = flight[<<t, w>>]
  BY Fields DEF LeftAlone
<1>3. /\ c # None => row'[c] = row[c] \/ (row[c] = "live" /\ row'[c] = "expired")
      /\ \A w \in Ways : flight[<<t, w>>].got \in Tokens =>
           LET n == flight[<<t, w>>].got IN
           row'[n] = row[n] \/ (row[n] = "live" /\ row'[n] = "expired")
  BY <1>1 DEF LeftAlone, HeldBy
<1>4. CookieIsGood(t)'
  BY <1>1, <1>2, <1>3 DEF Kept, CookieIsGood, LeftAlone, Unrevoked
<1>5. ASSUME NEW w \in Ways PROVE CallFits(flight[<<t, w>>], c)'
  <2>1. CallFits(flight[<<t, w>>], c) BY DEF Kept, OneRefresh
  <2> QED BY <1>1, <1>2, <1>3, <2>1 DEF CallFits, Unrevoked, Call
<1>6. \A r \in Requests : api[r].tab = t \/ api'[r].tab = t => api'[r] = api[r]
  BY DEF LeftAlone
<1>7. OneRefresh(t)' BY <1>1, <1>2, <1>5, <1>6 DEF Kept, OneRefresh, LeftAlone, Ways
<1>8. OwnRequests(t)' BY <1>6 DEF Kept, OwnRequests
<1> QED BY <1>4, <1>7, <1>8 DEF Kept

\* The frame of every action: it is of one tab.
LEMMA OneTabsStep ==
  ASSUME SessionsAssumption, Types, Quiet, SessionsKept, NEW t \in Tabs,
         \A s \in Tabs : s # t => LeftAlone(s), TakesWhatIsSpare(t), Kept(t)'
  PROVE  SessionsKept'
<1>1. OneHolder /\ \A s \in Tabs : Kept(s) BY DEF SessionsKept, Kept
<1>2. \A s \in Tabs : Kept(s)' BY <1>1, LeftAloneKept
<1>3. OneHolder'
  <2>1. ASSUME NEW s \in Tabs, s # t, NEW n \in Tokens PROVE HeldBy(s, n)' <=> HeldBy(s, n)
    BY <2>1, LeftAloneHolds
  <2>2. \A n \in Tokens : HeldBy(t, n)' => HeldBy(t, n) \/ \A s \in Tabs : ~HeldBy(s, n)
    BY DEF TakesWhatIsSpare
  <2>3. ASSUME NEW s \in Tabs, NEW u \in Tabs, NEW n \in Tokens,
               HeldBy(s, n)', HeldBy(u, n)'
        PROVE  s = u
    BY <1>1, <2>1, <2>2, <2>3 DEF OneHolder
  <2> QED BY <2>3 DEF OneHolder
<1> QED BY <1>2, <1>3 DEF SessionsKept, Kept

\* A fresh token is nobody's.
LEMMA FreshIsSpare ==
  ASSUME SessionsAssumption, Spare # {}
  PROVE  Fresh \in Tokens /\ \A s \in Tabs : ~HeldBy(s, Fresh)
<1>1. Fresh \in Spare
  <2>1. PICK n \in Tokens : n \in Spare BY DEF Spare
  <2> QED BY <2>1 DEF Fresh
<1>2. ASSUME NEW s \in Tabs, HeldBy(s, Fresh) PROVE Held(Fresh)
  <2>1. Home[s] \in Browsers /\ \A w \in Ways : <<s, w>> \in Flights
    BY DEF SessionsAssumption, Flights
  <2> QED BY <1>2, <2>1 DEF HeldBy, Held
<1> QED BY <1>1, <1>2 DEF Spare

\* Other tabs keep their own browser, calls and requests.
LEMMA OthersApart ==
  ASSUME SessionsAssumption, Quiet, NEW t \in Tabs, NEW s \in Tabs, s # t
  PROVE  Home[s] # Home[t] /\ \A v, w : <<s, v>> # <<t, w>>
BY DEF Quiet

-----------------------------------------------------------------------------
(* Each action keeps the sessions of an undisturbed system.                *)

LEMMA LoadKeeps ==
  ASSUME SessionsAssumption, IInv, Types, Quiet, SessionsKept, NEW t \in Tabs,
         Load(t), Quiet'
  PROVE  SessionsKept' /\ tab'[t].user = tab[t].user
<1> DEFINE c == cookie[Home[t]]
           known == stored[Home[t]]
<1>1. CookieIsGood(t) /\ OneRefresh(t) /\ OwnRequests(t) BY DEF SessionsKept
<1>2. known = tab[t].user /\ known \in BOOLEAN /\ (known <=> c # None)
  BY <1>1, Fields DEF CookieIsGood
<1>3. \A w \in Ways : flight[<<t, w>>].pc = "idle"
  <2>1. faults = 0 /\ faults' = 0 BY DEF Quiet
  <2>2. {w \in Ways : flight[<<t, w>>].pc # "idle"} = {} BY <2>1 DEF Load
  <2> QED BY <2>2
<1>4. flight' = [flight EXCEPT ![<<t, "boot">>] = IF known THEN Sent(t) ELSE NoFlight,
                               ![<<t, "try">>] = NoFlight]
  <2>1. {w \in Ways : flight[<<t, w>>].pc # "idle"} = {} BY <1>3
  <2> QED BY <2>1 DEF Load
<1>5. /\ flight'[<<t, "boot">>] = IF known THEN Sent(t) ELSE NoFlight
      /\ flight'[<<t, "try">>] = NoFlight
      /\ flight'[<<t, "orphan">>] = flight[<<t, "orphan">>]
      /\ \A s \in Tabs, w \in Ways \cup {"orphan"} :
           s # t => flight'[<<s, w>>] = flight[<<s, w>>]
  BY <1>4 DEF Types, Flights, Ways
<1>6. /\ tab'[t] = [user |-> known, token |-> "none",
                    boot |-> IF known THEN "asks" ELSE "done"]
      /\ \A s \in Tabs : s # t => tab'[s] = tab[s]
  BY DEF Load, Types
<1>7. \A r \in Requests : api'[r] = IF api[r].tab = t THEN NoRequest ELSE api[r]
  <2>1. faults = 0 /\ faults' = 0 BY DEF Quiet
  <2>2. {r \in Requests : api[r].tab = t /\ Matters(r)} = {} BY <2>1 DEF Load
  <2> QED BY <2>2 DEF Load
<1>8. row' = row /\ cookie' = cookie /\ stored' = stored BY DEF Load
<1>9. NoRequest.tab = None /\ None \notin Tabs /\ NoRequest.shown = None
  BY DEF NoRequest, SessionsAssumption
<1>10. \A s \in Tabs : s # t => LeftAlone(s)
  BY <1>5, <1>6, <1>7, <1>8, <1>9 DEF LeftAlone
<1>11. /\ Sent(t).pc = "sent" /\ Sent(t).shown = c /\ Sent(t).got = None
       /\ NoFlight.pc = "idle" /\ NoFlight.shown = None /\ NoFlight.got = None
  BY DEF Sent, NoFlight
<1>12. TakesWhatIsSpare(t)
  <2>1. ASSUME NEW n \in Tokens, HeldBy(t, n)' PROVE HeldBy(t, n)
    <3>1. n # None BY DEF SessionsAssumption
    <3> QED BY <1>5, <1>7, <1>8, <1>9, <1>11, <2>1, <3>1 DEF HeldBy, Ways
  <2> QED BY <2>1 DEF TakesWhatIsSpare
<1>13. CookieIsGood(t)'
  <2>1. c # None => row[c] \in Unrevoked BY <1>1, <1>3 DEF CookieIsGood
  <2> QED BY <1>2, <1>6, <1>8, <2>1 DEF CookieIsGood
<1>14. OneRefresh(t)'
  <2>1. \A w \in Ways : CallFits(flight[<<t, w>>], c)'
    BY <1>5, <1>8, <1>11 DEF CallFits, Ways
  <2>2. \A r \in Requests : api'[r].tab # t BY <1>7, <1>9
  <2> QED BY <1>1, <1>2, <1>5, <1>6, <1>11, <2>1, <2>2 DEF OneRefresh
<1>15. OwnRequests(t)' BY <1>7, <1>9 DEF OwnRequests
<1> QED BY <1>2, <1>6, <1>10, <1>12, <1>13, <1>14, <1>15, OneTabsStep DEF Kept

LEMMA AskKeeps ==
  ASSUME SessionsAssumption, ~EarlyRequests, IInv, Types, Quiet, SessionsKept,
         NEW r \in Requests, NEW t \in Tabs, NEW what \in Kinds,
         Ask(r, t, what), Quiet'
  PROVE  SessionsKept'
<1> DEFINE c == cookie[Home[t]]
           shown == IF what = "logout" THEN c ELSE None
<1>1. CookieIsGood(t) /\ OneRefresh(t) /\ OwnRequests(t) BY DEF SessionsKept
<1>2. UNCHANGED <<row, cookie, stored, tab, flight>> BY DEF Ask
<1>3. /\ api[r].pc = "idle" /\ api'[r].tab = t /\ api'[r].what = what
      /\ api'[r].shown = shown /\ api'[r].pc = "sent"
      /\ \A q \in Requests : q # r => api'[q] = api[q]
  BY DEF Ask, Types
<1>4. \/ \A q \in Requests : api[q].tab # t
      \/ what = "page" /\ \A q \in Requests : api[q].tab = t => api[q].what = "page"
  <2>1. faults = 0 /\ faults' = 0 BY DEF Quiet
  <2> DEFINE mine == {q \in Requests : api[q].tab = t}
             kinds == {what} \cup {api[q].what : q \in mine}
  <2>2. mine = {} \/ kinds = {"page"} BY <2>1 DEF Ask
  <2>3. CASE kinds = {"page"}
    <3>1. what \in kinds /\ \A q \in mine : api[q].what \in kinds OBVIOUS
    <3> QED BY <2>3, <3>1
  <2> QED BY <2>2, <2>3
<1>5. tab[t].boot # "asks"
  <2>1. tab[t].boot \in {"asks", "done"} BY Fields DEF Mem
  <2> QED BY <1>1, <2>1 DEF Ask, OneRefresh
<1>6. \A s \in Tabs : api[r].tab # s
  BY <1>3 DEF SessionsKept, OwnRequests
<1>7. \A s \in Tabs : s # t => LeftAlone(s)
  BY <1>2, <1>3, <1>6 DEF LeftAlone
<1>8. TakesWhatIsSpare(t)
  <2>1. ASSUME NEW n \in Tokens, HeldBy(t, n)' PROVE HeldBy(t, n)
    <3>1. n # None BY DEF SessionsAssumption
    <3> QED BY <1>2, <1>3, <2>1, <3>1 DEF HeldBy
  <2> QED BY <2>1 DEF TakesWhatIsSpare
<1>9. CookieIsGood(t)' BY <1>1, <1>2 DEF CookieIsGood
<1>10. OneRefresh(t)'
  <2>1. \A w \in Ways : CallFits(flight[<<t, w>>], c)'
    BY <1>1, <1>2 DEF OneRefresh, CallFits
  <2>2. flight[<<t, "try">>].pc # "idle" =>
          \E q \in Requests : api'[q].tab = t /\ api'[q].pc = "waits"
    BY <1>1, <1>3 DEF OneRefresh
  <2> QED BY <1>1, <1>2, <1>5, <2>1, <2>2 DEF OneRefresh
<1>11. OwnRequests(t)' BY <1>1, <1>3, <1>4 DEF OwnRequests
<1> QED BY <1>7, <1>8, <1>9, <1>10, <1>11, OneTabsStep DEF Kept

LEMMA UnauthorizedKeeps ==
  ASSUME SessionsAssumption, IInv, Types, Quiet, SessionsKept, NEW r \in Requests,
         NEW t \in Tabs, t = api[r].tab, Unauthorized(r), Quiet'
  PROVE  /\ SessionsKept'
         /\ \A s \in Tabs : tab[s].user /\ ~tab'[s].user => LogsOut(s)
<1> DEFINE c == cookie[Home[t]]
<1>1. t = api[r].tab OBVIOUS
<1>2. CookieIsGood(t) /\ OneRefresh(t) /\ OwnRequests(t) BY <1>1 DEF SessionsKept
<1>3. row' = row /\ cookie' = cookie BY DEF Unauthorized
<1>4. \A q \in Requests : q # r => api'[q] = api[q]
  BY DEF Unauthorized, Done, Types
<1>5. NoRequest.tab = None /\ None \notin Tabs /\ NoRequest.shown = None
  BY DEF NoRequest, SessionsAssumption
<1>6. /\ Sent(t).pc = "sent" /\ Sent(t).shown = c /\ Sent(t).got = None
      /\ NoFlight.pc = "idle" /\ NoFlight.shown = None /\ NoFlight.got = None
  BY DEF Sent, NoFlight
<1>7. CASE api[r].pc = "sent"
  <2>1. /\ api'[r].pc = "waits" /\ api'[r].tab = t /\ api'[r].what = api[r].what
        /\ api'[r].shown = api[r].shown
    <3>1. api[r] \in Req BY DEF Types
    <3>2. api' = [api EXCEPT ![r].pc = "waits"] BY <1>7 DEF Unauthorized
    <3> QED BY <3>1, <3>2 DEF Types, Req
  <2>2. tab' = tab /\ stored' = stored BY <1>7 DEF Unauthorized
  <2>3. flight' = IF flight[<<t, "try">>].pc = "idle"
                  THEN [flight EXCEPT ![<<t, "try">>] = Sent(t)] ELSE flight
    BY <1>7 DEF Unauthorized
  <2>4. /\ flight'[<<t, "try">>] = IF flight[<<t, "try">>].pc = "idle" THEN Sent(t)
                                   ELSE flight[<<t, "try">>]
        /\ \A s \in Tabs, w \in Ways \cup {"orphan"} :
             s # t \/ w # "try" => flight'[<<s, w>>] = flight[<<s, w>>]
    BY <1>1, <2>3 DEF Types, Flights, Ways
  <2>5. \A s \in Tabs : s # t => LeftAlone(s)
    BY <1>3, <1>4, <2>1, <2>2, <2>4 DEF LeftAlone
  <2>6. TakesWhatIsSpare(t)
    <3>1. ASSUME NEW n \in Tokens, HeldBy(t, n)' PROVE HeldBy(t, n)
      <4>1. n # None BY DEF SessionsAssumption
      <4> QED BY <1>3, <1>4, <1>6, <2>1, <2>4, <3>1, <4>1 DEF HeldBy, Ways
    <3> QED BY <3>1 DEF TakesWhatIsSpare
  <2>7. tab[t].boot # "asks" /\ flight[<<t, "boot">>].pc = "idle"
    BY <1>2 DEF OneRefresh
  <2>8. CookieIsGood(t)'
    BY <1>2, <1>3, <2>2, <2>4, <2>7 DEF CookieIsGood, Ways
  <2>9. OneRefresh(t)'
    <3>1. \A w \in Ways : CallFits(flight[<<t, w>>], c)'
      BY <1>2, <1>3, <1>6, <2>1, <2>4 DEF OneRefresh, CallFits, Ways
    <3> QED BY <1>1, <1>2, <1>3, <2>1, <2>2, <2>4, <2>7, <3>1 DEF OneRefresh, Ways
  <2>10. OwnRequests(t)' BY <1>2, <1>4, <2>1 DEF OwnRequests
  <2> QED BY <1>1, <2>2, <2>5, <2>6, <2>8, <2>9, <2>10, OneTabsStep DEF Kept
<1>8. CASE api[r].pc = "again"
  <2>1. api'[r] = NoRequest BY <1>8 DEF Unauthorized, Done, Types
  <2>2. flight' = flight BY <1>8 DEF Unauthorized
  <2>3. api[r].what = "login" BY <1>2, <1>8 DEF Unauthorized, OwnRequests
  <2>4. tab' = tab /\ stored' = stored BY <1>8, <2>3 DEF Unauthorized
  <2>5. \A s \in Tabs : s # t => LeftAlone(s)
    BY <1>3, <1>4, <1>5, <2>1, <2>2, <2>4 DEF LeftAlone
  <2>6. TakesWhatIsSpare(t)
    <3>1. ASSUME NEW n \in Tokens, HeldBy(t, n)' PROVE HeldBy(t, n)
      BY <1>3, <1>4, <1>5, <2>1, <2>2, <3>1 DEF HeldBy
    <3> QED BY <3>1 DEF TakesWhatIsSpare
  <2>7. CookieIsGood(t)' BY <1>2, <1>3, <2>2, <2>4 DEF CookieIsGood
  <2>8. OneRefresh(t)'
    <3>1. \A w \in Ways : CallFits(flight[<<t, w>>], c)'
      BY <1>2, <1>3, <2>2 DEF OneRefresh, CallFits
    <3>2. \A q \in Requests : api[q].pc = "waits" => api'[q] = api[q]
      BY <1>4, <1>8
    <3> QED BY <1>1, <1>2, <1>3, <2>2, <2>4, <3>1, <3>2 DEF OneRefresh
  <2>9. OwnRequests(t)' BY <1>2, <1>4, <1>5, <2>1 DEF OwnRequests
  <2> QED BY <2>4, <2>5, <2>6, <2>7, <2>8, <2>9, OneTabsStep DEF Kept
<1> QED BY <1>7, <1>8 DEF Unauthorized

\* A login, a logout and a logout everywhere have their tab to themselves.
LEMMA OneIsAlone ==
  ASSUME SessionsAssumption, Types, SessionsKept, Quiet, NEW r \in Requests,
         NEW t \in Tabs, t = api[r].tab, api[r].what # "page", api[r].pc # "waits"
  PROVE  /\ \A q \in Requests : api[q].tab = t => q = r
         /\ \A w \in Ways : flight[<<t, w>>].pc = "idle"
         /\ tab[t].boot # "asks"
<1>1. OneRefresh(t) /\ OwnRequests(t) BY DEF SessionsKept
<1>2. \A q \in Requests : api[q].tab = t => q = r BY <1>1 DEF OwnRequests
<1>3. tab[t].boot # "asks" BY <1>1 DEF OneRefresh
<1>4. flight[<<t, "boot">>].pc = "idle" /\ flight[<<t, "try">>].pc = "idle"
  BY <1>1, <1>2, <1>3 DEF OneRefresh
<1> QED BY <1>2, <1>3, <1>4 DEF Ways

LEMMA LoggedInKeeps ==
  ASSUME SessionsAssumption, IInv, Types, Quiet, SessionsKept, NEW r \in Requests,
         NEW t \in Tabs, t = api[r].tab, LoggedIn(r), Quiet'
  PROVE  /\ SessionsKept'
         /\ \A s \in Tabs : tab[s].user => tab'[s].user
<1> DEFINE c == cookie[Home[t]]
<1>1. CookieIsGood(t) /\ OneRefresh(t) /\ OwnRequests(t) BY DEF SessionsKept
<1>2. /\ \A q \in Requests : api[q].tab = t => q = r
      /\ \A w \in Ways : flight[<<t, w>>].pc = "idle"
      /\ tab[t].boot # "asks"
  BY OneIsAlone DEF LoggedIn
<1>3. Fresh \in Tokens /\ \A s \in Tabs : ~HeldBy(s, Fresh)
  BY FreshIsSpare DEF LoggedIn
<1>4. Fresh # None /\ None \notin Tabs BY <1>3 DEF SessionsAssumption
<1>5. /\ row'[Fresh] = "live"
      /\ \A n \in Tokens : n # Fresh => row'[n] = row[n]
  BY <1>3 DEF LoggedIn, Types, Row
<1>6. /\ cookie'[Home[t]] = Fresh
      /\ \A s \in Tabs : s # t => cookie'[Home[s]] = cookie[Home[s]]
  BY OthersApart, Fields DEF LoggedIn, Types
<1>7. /\ tab'[t].user = TRUE /\ tab'[t].boot = tab[t].boot
      /\ \A s \in Tabs : s # t => tab'[s] = tab[s]
  <2>1. Remember(t, [tab[t] EXCEPT !.user = TRUE, !.token = "good"]) BY DEF LoggedIn
  <2>2. tab[t] \in Mem BY Fields
  <2>3. tab' = [tab EXCEPT ![t] = [tab[t] EXCEPT !.user = TRUE, !.token = "good"]]
    BY <2>1 DEF Remember
  <2> QED BY <2>2, <2>3 DEF Types, Mem
<1>8. /\ stored'[Home[t]] = TRUE
      /\ \A s \in Tabs : s # t => stored'[Home[s]] = stored[Home[s]]
  <2>1. stored' = [stored EXCEPT ![Home[t]] = TRUE] 
    <3>1. tab[t] \in Mem BY Fields
    <3>2. stored' = [stored EXCEPT ![Home[t]] =
                       [tab[t] EXCEPT !.user = TRUE, !.token = "good"].user]
      BY DEF LoggedIn, Remember
    <3> QED BY <3>1, <3>2 DEF Mem
  <2> QED BY <2>1, OthersApart, Fields DEF Types
<1>9. /\ api'[r].tab = None /\ api'[r].shown = None
      /\ \A q \in Requests : q # r => api'[q] = api[q]
  BY DEF LoggedIn, Done, Types, NoRequest
<1>10. flight' = flight BY DEF LoggedIn
<1>11. \A s \in Tabs : s # t => LeftAlone(s)
  BY <1>3, <1>4, <1>5, <1>6, <1>7, <1>8, <1>9, <1>10 DEF LeftAlone
<1>12. TakesWhatIsSpare(t)
  <2>1. ASSUME NEW n \in Tokens, HeldBy(t, n)' PROVE HeldBy(t, n) \/ n = Fresh
    BY <1>4, <1>6, <1>9, <1>10, <2>1 DEF HeldBy
  <2> QED BY <1>3, <2>1 DEF TakesWhatIsSpare
<1>13. CookieIsGood(t)'
  BY <1>4, <1>5, <1>6, <1>7, <1>8 DEF CookieIsGood, Unrevoked
<1>14. OneRefresh(t)'
  <2>1. \A w \in Ways : CallFits(flight[<<t, w>>], c)'
    BY <1>2, <1>10 DEF CallFits
  <2> QED BY <1>1, <1>2, <1>7, <1>10, <2>1 DEF OneRefresh, Ways
<1>15. OwnRequests(t)' BY <1>2, <1>4, <1>9 DEF OwnRequests
<1> QED BY <1>7, <1>11, <1>12, <1>13, <1>14, <1>15, OneTabsStep DEF Kept

LEMMA ServedKeeps ==
  ASSUME SessionsAssumption, IInv, Types, Quiet, SessionsKept, NEW r \in Requests,
         NEW t \in Tabs, t = api[r].tab, Served(r), Quiet'
  PROVE  /\ SessionsKept'
         /\ \A s \in Tabs : tab[s].user /\ ~tab'[s].user => LogsOut(s)
<1> DEFINE c == cookie[Home[t]]
<1>1. CookieIsGood(t) /\ OneRefresh(t) /\ OwnRequests(t) BY DEF SessionsKept
<1>2. api[r].what \in {"page", "logout"}
  <2>1. api[r].what \in Kinds BY DEF Types, Req
  <2>2. api[r].what # "everywhere" BY DEF Served, Quiet
  <2> QED BY <2>1, <2>2 DEF Kinds, Served
<1>3. /\ api'[r].tab = None /\ api'[r].shown = None /\ None \notin Tabs
      /\ None \notin Tokens
      /\ \A q \in Requests : q # r => api'[q] = api[q]
  BY DEF Served, Done, Types, NoRequest, SessionsAssumption
<1>4. flight' = flight BY DEF Served
<1>5. CASE api[r].what = "page"
  <2>1. UNCHANGED <<row, cookie, tab, stored>> BY <1>5 DEF Served
  <2>2. \A s \in Tabs : s # t => LeftAlone(s)
    BY <1>3, <1>4, <2>1 DEF LeftAlone
  <2>3. TakesWhatIsSpare(t)
    <3>1. ASSUME NEW n \in Tokens, HeldBy(t, n)' PROVE HeldBy(t, n)
      BY <1>3, <1>4, <2>1, <3>1 DEF HeldBy
    <3> QED BY <3>1 DEF TakesWhatIsSpare
  <2>4. CookieIsGood(t)' BY <1>1, <1>4, <2>1 DEF CookieIsGood
  <2>5. OneRefresh(t)'
    <3>1. \A w \in Ways : CallFits(flight[<<t, w>>], c)'
      BY <1>1, <1>4, <2>1 DEF OneRefresh, CallFits
    <3>2. \A q \in Requests : api[q].pc = "waits" => api'[q] = api[q]
      BY <1>3 DEF Served
    <3> QED BY <1>1, <1>3, <1>4, <2>1, <3>1, <3>2 DEF OneRefresh
  <2>6. OwnRequests(t)' BY <1>1, <1>3 DEF OwnRequests
  <2> QED BY <2>1, <2>2, <2>3, <2>4, <2>5, <2>6, OneTabsStep DEF Kept
<1>6. CASE api[r].what = "logout"
  <2>1. /\ \A q \in Requests : api[q].tab = t => q = r
        /\ \A w \in Ways : flight[<<t, w>>].pc = "idle"
        /\ tab[t].boot # "asks"
    BY <1>6, OneIsAlone DEF Served
  <2>2. /\ cookie'[Home[t]] = None
        /\ \A s \in Tabs : s # t => cookie'[Home[s]] = cookie[Home[s]]
    BY <1>6, OthersApart, Fields DEF Served, Types
  <2>3. /\ tab'[t].user = FALSE /\ tab'[t].boot = tab[t].boot
        /\ \A s \in Tabs : s # t => tab'[s] = tab[s]
    <3>1. tab' = [tab EXCEPT ![t] = Expired(t)] BY <1>6 DEF Served, Remember
    <3>2. tab[t] \in Mem BY Fields
    <3> QED BY <3>1, <3>2 DEF Types, Mem, Expired
  <2>4. /\ stored'[Home[t]] = FALSE
        /\ \A s \in Tabs : s # t => stored'[Home[s]] = stored[Home[s]]
    <3>1. tab[t] \in Mem BY Fields
    <3>2. stored' = [stored EXCEPT ![Home[t]] = Expired(t).user]
      BY <1>6 DEF Served, Remember
    <3>3. Expired(t).user = FALSE BY <3>1 DEF Expired, Mem
    <3> QED BY <3>2, <3>3, OthersApart, Fields DEF Types
  <2>5. \A n \in Tokens : n # api[r].shown => row'[n] = row[n]
    BY <1>6 DEF Served, Revoked, Types, Row
  <2>6. \A s \in Tabs, n \in Tokens : s # t /\ HeldBy(s, n) => n # api[r].shown
    <3>1. \A n \in Tokens : n = api[r].shown => HeldBy(t, n) BY DEF HeldBy
    <3> QED BY <3>1 DEF SessionsKept, OneHolder
  <2>7. \A s \in Tabs : s # t => LeftAlone(s)
    BY <1>3, <1>4, <2>2, <2>3, <2>4, <2>5, <2>6 DEF LeftAlone
  <2>8. TakesWhatIsSpare(t)
    <3>1. ASSUME NEW n \in Tokens, HeldBy(t, n)' PROVE HeldBy(t, n)
      BY <1>3, <1>4, <2>2, <3>1 DEF HeldBy
    <3> QED BY <3>1 DEF TakesWhatIsSpare
  <2>9. CookieIsGood(t)' BY <2>2, <2>3, <2>4 DEF CookieIsGood
  <2>10. OneRefresh(t)'
    <3>1. \A w \in Ways : CallFits(flight[<<t, w>>], c)'
      BY <1>4, <2>1 DEF CallFits
    <3> QED BY <1>1, <1>4, <2>1, <2>3, <3>1 DEF OneRefresh, Ways
  <2>11. OwnRequests(t)' BY <1>3, <2>1 DEF OwnRequests
  <2>12. LogsOut(t) BY <1>6 DEF LogsOut
  <2> QED BY <2>3, <2>7, <2>8, <2>9, <2>10, <2>11, <2>12, OneTabsStep DEF Kept
<1> QED BY <1>2, <1>5, <1>6

LEMMA HandleKeeps ==
  ASSUME SessionsAssumption, IInv, Types, Quiet, SessionsKept,
         NEW t \in Tabs, NEW v \in Ways, Handle(<<t, v>>)
  PROVE  SessionsKept'
<1> DEFINE c == cookie[Home[t]]
           f == flight[<<t, v>>]
<1>1. CookieIsGood(t) /\ OneRefresh(t) /\ OwnRequests(t) BY DEF SessionsKept
<1>2. UNCHANGED <<cookie, stored, tab, api>> BY DEF Handle, Find, RevokeAll, Rotate
<1>3. c \in Tokens \cup {None} /\ None \notin Tokens /\ f \in Call /\ <<t, v>> \in Flights
  BY Fields DEF SessionsAssumption
<1>4. CallFits(f, c) BY <1>1 DEF OneRefresh
<1>5. f.pc # "reused" BY <1>4 DEF CallFits
<1>6. \A g \in Flights : g # <<t, v>> => flight'[g] = flight[g]
  BY <1>3 DEF Handle, Find, RevokeAll, Rotate, Types
<1>7. \A s \in Tabs, w \in Ways \cup {"orphan"} :
        s # t \/ w # v => flight'[<<s, w>>] = flight[<<s, w>>]
  BY <1>6 DEF Flights
\* The other way of the tab does not refresh at the same time.
<1>8. ASSUME f.pc # "idle", NEW w \in Ways, w # v PROVE flight[<<t, w>>].pc = "idle"
  BY <1>1, <1>8 DEF OneRefresh, Ways
<1>9. CASE Find(<<t, v>>)
  <2>1. flight'[<<t, v>>] = [f EXCEPT !.pc = Verdict(c)] /\ f.pc = "sent" /\ row' = row
    BY <1>3, <1>4, <1>9 DEF Find, Types, CallFits
  <2>2. /\ flight'[<<t, v>>].pc = Verdict(c) /\ flight'[<<t, v>>].shown = c
        /\ flight'[<<t, v>>].got = None
    BY <1>3, <1>4, <2>1 DEF CallFits, Call
  <2>3. c # None => row[c] \in Unrevoked
    BY <1>1, <1>8, <2>1 DEF CookieIsGood
  <2>4. \A s \in Tabs : s # t => LeftAlone(s) BY <1>2, <1>7, <2>1 DEF LeftAlone
  <2>5. TakesWhatIsSpare(t)
    <3>1. ASSUME NEW n \in Tokens, HeldBy(t, n)' PROVE HeldBy(t, n)
      BY <1>2, <1>3, <1>7, <2>2, <3>1 DEF HeldBy
    <3> QED BY <3>1 DEF TakesWhatIsSpare
  <2>6. CookieIsGood(t)' BY <1>1, <1>2, <2>1, <2>3 DEF CookieIsGood
  <2>7. OneRefresh(t)'
    <3>1. CallFits(flight[<<t, v>>], c)'
      BY <1>2, <2>1, <2>2, <2>3 DEF CallFits, Verdict, Unrevoked
    <3>2. ASSUME NEW w \in Ways PROVE CallFits(flight[<<t, w>>], c)'
      <4>1. CASE w = v BY <3>1, <4>1
      <4>2. CASE w # v
        <5>1. flight'[<<t, w>>].pc = "idle" BY <1>7, <1>8, <2>1, <4>2
        <5> QED BY <5>1 DEF CallFits
      <4> QED BY <4>1, <4>2
    <3>3. \A w \in Ways : flight'[<<t, w>>].pc # "idle" => flight[<<t, w>>].pc # "idle"
      BY <1>7, <2>1
    <3>4. flight'[<<t, "orphan">>] = flight[<<t, "orphan">>] BY <1>7 DEF Ways
    <3> QED BY <1>1, <1>2, <3>2, <3>3, <3>4 DEF OneRefresh, Ways
  <2>8. OwnRequests(t)' BY <1>1, <1>2 DEF OwnRequests
  <2> QED BY <2>4, <2>5, <2>6, <2>7, <2>8, OneTabsStep DEF Kept
<1>10. CASE RevokeAll(<<t, v>>) BY <1>5, <1>10 DEF RevokeAll
<1>11. CASE Rotate(<<t, v>>)
  <2>1. Fresh \in Tokens /\ \A s \in Tabs : ~HeldBy(s, Fresh)
    BY <1>11, FreshIsSpare DEF Rotate
  <2>2. /\ flight'[<<t, v>>] = [f EXCEPT !.pc = "granted", !.got = Fresh]
        /\ f.pc = "judged" /\ f.shown = c
    BY <1>3, <1>4, <1>11 DEF Rotate, Types, CallFits
  <2>3. /\ flight'[<<t, v>>].pc = "granted" /\ flight'[<<t, v>>].shown = c
        /\ flight'[<<t, v>>].got = Fresh
    BY <1>3, <2>2 DEF Call
  <2>4. c # None
    <3>1. f.shown # None BY <1>3, <2>2 DEF IInv, ShownWereIssued
    <3> QED BY <2>2, <3>1
  <2>5. /\ row'[Fresh] = "live"
        /\ \A n \in Tokens : n # Fresh /\ n # c => row'[n] = row[n]
    BY <1>11, <2>1, <2>2 DEF Rotate, Revoked, Types, Row
  <2>6. \A s \in Tabs, n \in Tokens : s # t /\ HeldBy(s, n) => n # c /\ n # Fresh
    <3>1. HeldBy(t, c) BY DEF HeldBy
    <3> QED BY <2>1, <3>1 DEF SessionsKept, OneHolder
  <2>7. \A s \in Tabs : s # t => LeftAlone(s)
    BY <1>2, <1>7, <2>5, <2>6 DEF LeftAlone
  <2>8. TakesWhatIsSpare(t)
    <3>1. ASSUME NEW n \in Tokens, HeldBy(t, n)' PROVE HeldBy(t, n) \/ n = Fresh
      BY <1>2, <1>7, <2>3, <3>1 DEF HeldBy
    <3> QED BY <2>1, <3>1 DEF TakesWhatIsSpare
  <2>9. CookieIsGood(t)' BY <1>1, <1>2, <2>3 DEF CookieIsGood
  <2>10. OneRefresh(t)'
    <3>1. CallFits(flight[<<t, v>>], c)'
      BY <1>2, <1>3, <2>1, <2>3, <2>4, <2>5 DEF CallFits, Unrevoked
    <3>2. ASSUME NEW w \in Ways PROVE CallFits(flight[<<t, w>>], c)'
      <4>1. CASE w = v BY <3>1, <4>1
      <4>2. CASE w # v
        <5>1. flight'[<<t, w>>].pc = "idle" BY <1>7, <1>8, <2>2, <4>2
        <5> QED BY <5>1 DEF CallFits
      <4> QED BY <4>1, <4>2
    <3>3. \A w \in Ways : flight'[<<t, w>>].pc # "idle" => flight[<<t, w>>].pc # "idle"
      BY <1>7, <2>2
    <3>4. flight'[<<t, "orphan">>] = flight[<<t, "orphan">>] BY <1>7 DEF Ways
    <3> QED BY <1>1, <1>2, <3>2, <3>3, <3>4 DEF OneRefresh, Ways
  <2>11. OwnRequests(t)' BY <1>1, <1>2 DEF OwnRequests
  <2> QED BY <2>7, <2>8, <2>9, <2>10, <2>11, OneTabsStep DEF Kept
<1> QED BY <1>9, <1>10, <1>11 DEF Handle

\* A waiting request is sent again or given up, the others are left alone.
LEMMA ResumeKeeps ==
  ASSUME SessionsAssumption, Types, NEW t \in Tabs, NEW ok \in BOOLEAN,
         NEW c \in Tokens \cup {None}, OwnRequests(t), NEW q \in Requests
  PROVE  LET a == Resume(t, ok, c)[q] IN
         /\ a.tab = t => /\ api[q].tab = t /\ a.what = api[q].what
                         /\ a.pc # "idle" /\ (a.pc = "again" => a.fresh)
         /\ a.tab = t /\ a.shown # None => a.shown \in {c, api[q].shown}
         /\ \A s \in Tabs : s # t /\ (api[q].tab = s \/ a.tab = s) => a = api[q]
<1>1. NoRequest.tab = None /\ None \notin Tabs BY DEF NoRequest, SessionsAssumption
<1>2. api[q] \in Req BY DEF Types
<1>3. CASE api[q].pc # "waits" \/ api[q].tab # t
  <2>1. Resume(t, ok, c)[q] = api[q] BY <1>3 DEF Resume
  <2> QED BY <2>1 DEF OwnRequests
<1>4. CASE api[q].pc = "waits" /\ api[q].tab = t /\ ok
  <2>1. Resume(t, ok, c)[q] = [api[q] EXCEPT !.pc = "again", !.fresh = TRUE,
                    !.shown = IF api[q].what = "logout" THEN c ELSE None]
    BY <1>4 DEF Resume
  <2> QED BY <1>2, <1>4, <2>1 DEF Req
<1>5. CASE api[q].pc = "waits" /\ api[q].tab = t /\ ~ok
  <2>1. Resume(t, ok, c)[q] = NoRequest BY <1>5 DEF Resume
  <2> QED BY <1>1, <1>5, <2>1
<1> QED BY <1>3, <1>4, <1>5

LEMMA ArriveKeeps ==
  ASSUME SessionsAssumption, IInv, Types, Quiet, SessionsKept,
         NEW t \in Tabs, NEW v \in Ways, Arrive(t, v)
  PROVE  /\ SessionsKept'
         /\ \A s \in Tabs : tab[s].user /\ ~tab'[s].user =>
              \E n \in Tokens : row[n] = "expired"
<1> DEFINE c == cookie[Home[t]]
           f == flight[<<t, v>>]
           ok == f.pc = "granted"
           d == CASE f.pc = "granted" -> f.got
                  [] f.pc = "refused" -> None
                  [] f.pc = "none" -> c
<1>1. CookieIsGood(t) /\ OneRefresh(t) /\ OwnRequests(t) BY DEF SessionsKept
<1>2. c \in Tokens \cup {None} /\ None \notin Tokens /\ f \in Call /\ <<t, v>> \in Flights
  BY Fields DEF SessionsAssumption
<1>3. /\ f.pc \in {"granted", "refused", "none"} /\ f.shown = c
      /\ f.pc = "none" => c = None
      /\ f.pc = "refused" => c # None /\ row[c] = "expired"
      /\ f.pc = "granted" => c # None /\ f.got # None /\ row[f.got] \in Unrevoked
  BY <1>1 DEF OneRefresh, CallFits, Arrive
<1>4. d \in Tokens \cup {None} /\ (d # None <=> ok) /\ (ok => row[d] \in Unrevoked)
  BY <1>2, <1>3 DEF Call
<1>5. /\ cookie'[Home[t]] = d
      /\ \A s \in Tabs : s # t => cookie'[Home[s]] = cookie[Home[s]]
  <2>1. cookie' = [cookie EXCEPT ![Home[t]] = d]
    <3>1. cookie = [cookie EXCEPT ![Home[t]] = c] BY DEF Types
    <3> QED BY <1>3, <3>1 DEF Arrive
  <2> QED BY <2>1, OthersApart, Fields DEF Types
<1>6. /\ flight'[<<t, v>>] = NoFlight
      /\ \A s \in Tabs, w \in Ways \cup {"orphan"} :
           s # t \/ w # v => flight'[<<s, w>>] = flight[<<s, w>>]
  BY <1>2 DEF Arrive, Types, Flights
<1>7. /\ NoFlight.pc = "idle" /\ NoFlight.shown = None /\ NoFlight.got = None
      /\ f.pc # "idle"
  BY <1>3 DEF NoFlight
<1>8. \A w \in Ways : flight'[<<t, w>>].pc = "idle"
  BY <1>1, <1>6, <1>7 DEF OneRefresh, Ways
<1>9. /\ Settle(t, v, ok) /\ row' = row BY DEF Arrive
\* What the tab remembers: its user is there if and only if it was granted.
<1>10. PICK m : /\ Remember(t, m) /\ (m.user <=> ok) /\ m.user \in BOOLEAN
                /\ m.boot # "asks"
  <2>1. tab[t] \in Mem BY Fields
  <2>2. CASE v = "boot" /\ ok
    <3>1. Remember(t, SignedIn) BY <1>9, <2>2 DEF Settle
    <3>2. SignedIn.user = TRUE /\ SignedIn.boot # "asks" BY DEF SignedIn
    <3> QED BY <2>2, <3>1, <3>2
  <2>3. CASE v = "try" /\ ok
    <3>1. tab[t].boot # "asks" /\ tab[t].user
      BY <1>1, <1>3, <1>7, <2>3 DEF OneRefresh, CookieIsGood
    <3>2. Remember(t, [tab[t] EXCEPT !.token = "good"]) BY <1>9, <2>3 DEF Settle
    <3> QED BY <2>1, <2>3, <3>1, <3>2 DEF Mem
  <2>4. CASE v = "boot" /\ ~ok
    <3>1. Remember(t, Blank) BY <1>9, <2>4 DEF Settle
    <3>2. Blank.user = FALSE /\ Blank.boot # "asks" BY DEF Blank
    <3> QED BY <2>4, <3>1, <3>2
  <2>5. CASE v = "try" /\ ~ok
    <3>1. tab[t].boot # "asks" BY <1>1, <1>7, <2>5 DEF OneRefresh
    <3>2. Remember(t, Expired(t)) BY <1>9, <2>5 DEF Settle
    <3>3. Expired(t).user = FALSE /\ Expired(t).boot = tab[t].boot
      BY <2>1 DEF Mem, Expired
    <3> QED BY <2>5, <3>1, <3>2, <3>3
  <2> QED BY <2>2, <2>3, <2>4, <2>5 DEF Ways
<1>11. tab'[t] = m /\ stored'[Home[t]] = m.user
  BY <1>10, Fields DEF Remember, Types
<1>12. \A s \in Tabs : s # t => tab'[s] = tab[s] /\ stored'[Home[s]] = stored[Home[s]]
  BY <1>10, OthersApart, Fields DEF Remember, Types
\* Its requests: those that waited go on with the cookie that came.
<1>13. ASSUME NEW q \in Requests
       PROVE  /\ api'[q].tab = t => /\ api[q].tab = t /\ api'[q].what = api[q].what
                                    /\ api'[q].pc # "idle"
                                    /\ (api'[q].pc = "again" => api'[q].fresh)
              /\ api'[q].tab = t /\ api'[q].shown # None =>
                   api'[q].shown \in {d, api[q].shown}
              /\ \A s \in Tabs : s # t /\ (api[q].tab = s \/ api'[q].tab = s) =>
                   api'[q] = api[q]
  <2>1. CASE v = "try"
    <3>1. ok \in BOOLEAN OBVIOUS
    <3>2. api' = Resume(t, ok, d) BY <1>5, <1>9, <2>1 DEF Settle
    <3> HIDE DEF ok, d
    <3> QED BY <1>1, <1>4, <3>1, <3>2, ResumeKeeps
  <2>2. CASE v # "try"
    <3>1. api' = api BY <1>9, <2>2 DEF Settle
    <3> QED BY <1>1, <3>1 DEF OwnRequests
  <2> QED BY <2>1, <2>2
<1>14. tab'[t].boot # "asks" BY <1>10, <1>11
<1>15. \A s \in Tabs : s # t => LeftAlone(s)
  BY <1>5, <1>6, <1>9, <1>12, <1>13 DEF LeftAlone
<1>16. TakesWhatIsSpare(t)
  <2>1. ASSUME NEW n \in Tokens, HeldBy(t, n)' PROVE HeldBy(t, n)
    <3>1. n # None BY <1>2
    <3>2. n = d => HeldBy(t, n) BY <1>3, <3>1 DEF HeldBy
    <3>3. n \notin {flight'[<<t, v>>].shown, flight'[<<t, v>>].got} BY <1>6, <1>7, <3>1
    <3>4. CASE cookie'[Home[t]] = n BY <1>5, <3>2, <3>4
    <3>5. ASSUME NEW w \in Ways, n \in {flight'[<<t, w>>].shown, flight'[<<t, w>>].got}
          PROVE  HeldBy(t, n)
      <4>1. flight'[<<t, w>>] = flight[<<t, w>>] BY <1>6, <3>3, <3>5
      <4> QED BY <3>5, <4>1 DEF HeldBy
    <3>6. ASSUME NEW q \in Requests, api'[q].tab = t, api'[q].shown = n
          PROVE  HeldBy(t, n)
      <4>1. api[q].tab = t /\ n \in {d, api[q].shown} BY <1>13, <3>1, <3>6
      <4> QED BY <3>2, <4>1 DEF HeldBy
    <3> QED BY <2>1, <3>4, <3>5, <3>6 DEF HeldBy
  <2> QED BY <2>1 DEF TakesWhatIsSpare
<1>17. CookieIsGood(t)'
  BY <1>4, <1>5, <1>9, <1>10, <1>11 DEF CookieIsGood
<1>18. OneRefresh(t)'
  <2>1. \A w \in Ways : CallFits(flight[<<t, w>>], c)' BY <1>8 DEF CallFits
  <2>2. flight'[<<t, "orphan">>] = flight[<<t, "orphan">>] BY <1>6 DEF Ways
  <2> QED BY <1>1, <1>8, <1>14, <2>1, <2>2 DEF OneRefresh, Ways
<1>19. OwnRequests(t)' BY <1>1, <1>13 DEF OwnRequests
<1>20. tab[t].user /\ ~tab'[t].user => \E n \in Tokens : row[n] = "expired"
  BY <1>1, <1>2, <1>3, <1>10, <1>11 DEF CookieIsGood
<1> QED BY <1>12, <1>15, <1>16, <1>17, <1>18, <1>19, <1>20, OneTabsStep DEF Kept

LEMMA AgeKeeps ==
  ASSUME SessionsAssumption, IInv, Types, Quiet, SessionsKept,
         \/ \E t \in Tabs : AgeAccess(t)
         \/ \E n \in Tokens : AgeRefresh(n)
         \/ UNCHANGED vars
  PROVE  SessionsKept' /\ \A t \in Tabs : tab'[t].user = tab[t].user
<1>1. UNCHANGED <<cookie, stored, flight, api>> BY DEF AgeAccess, AgeRefresh, vars
<1>2. \A t \in Tabs : tab'[t].user = tab[t].user /\ tab'[t].boot = tab[t].boot
  <2>1. ASSUME NEW s \in Tabs, AgeAccess(s), NEW t \in Tabs
        PROVE  tab'[t].user = tab[t].user /\ tab'[t].boot = tab[t].boot
    <3>1. tab[s] \in Mem /\ tab' = [tab EXCEPT ![s].token = "old"]
      BY <2>1, Fields DEF AgeAccess
    <3> QED BY <3>1 DEF Types, Mem
  <2>2. ASSUME tab' = tab, NEW t \in Tabs
        PROVE  tab'[t].user = tab[t].user /\ tab'[t].boot = tab[t].boot
    BY <2>2
  <2> QED BY <2>1, <2>2 DEF AgeRefresh, vars
<1>3. \A n \in Tokens : row'[n] = row[n] \/ (row[n] = "live" /\ row'[n] = "expired")
  BY DEF AgeAccess, AgeRefresh, vars, Types, Row
<1>4. \A t \in Tabs : LeftAlone(t) BY <1>1, <1>2, <1>3 DEF LeftAlone
<1>5. \A t \in Tabs : Kept(t)' BY <1>4, LeftAloneKept DEF SessionsKept, Kept
<1>6. OneHolder' BY <1>4, LeftAloneHolds DEF SessionsKept, OneHolder
<1> QED BY <1>2, <1>5, <1>6 DEF SessionsKept, Kept

\* What disturbed the sessions is not forgotten.
LEMMA QuietBefore ==
  ASSUME SessionsAssumption, Types, [Next]_vars, Quiet' PROVE Quiet
<1>1. faults \in Nat BY DEF Types, SessionsAssumption
<1>2. faults' = faults \/ faults' = faults + 1
  BY DEF Next, vars, Load, Vanish, AgeAccess, AgeRefresh, Ask, Answer, Unauthorized,
         LoggedIn, Served, DropRequest, Unheard, Handle, Find, RevokeAll, Rotate, Arrive,
         Drop
<1>3. everywhere => everywhere'
  BY DEF Next, vars, Load, Vanish, AgeAccess, AgeRefresh, Ask, Answer, Unauthorized,
         LoggedIn, Served, DropRequest, Unheard, Handle, Find, RevokeAll, Rotate, Arrive,
         Drop
<1> QED BY <1>1, <1>2, <1>3 DEF Quiet

LEMMA SessionsStep ==
  ASSUME SessionsAssumption, ~EarlyRequests, IInv, Types, SessionsKept,
         [Next]_vars, Quiet'
  PROVE  /\ SessionsKept'
         /\ \A t \in Tabs : tab[t].user /\ ~tab'[t].user =>
              LogsOut(t) \/ \E n \in Tokens : row[n] = "expired"
<1> DEFINE Stays == \A t \in Tabs : tab[t].user /\ ~tab'[t].user =>
                      LogsOut(t) \/ \E n \in Tokens : row[n] = "expired"
<1>1. Quiet BY QuietBefore
<1>2. faults = 0 /\ faults' = 0 BY <1>1 DEF Quiet
<1>3. \A t \in Tabs : OneRefresh(t) BY <1>1 DEF SessionsKept
<1>4. ASSUME NEW t \in Tabs, Load(t) PROVE SessionsKept' /\ Stays
  <2>1. SessionsKept' /\ tab'[t].user = tab[t].user BY <1>1, <1>4, LoadKeeps
  <2>2. \A s \in Tabs : s # t => tab'[s] = tab[s] BY <1>4 DEF Load, Types
  <2> QED BY <2>1, <2>2
<1>5. ASSUME NEW t \in Tabs, Vanish(t) PROVE FALSE
  BY <1>3, <1>5 DEF Vanish, OneRefresh
<1>6. ASSUME NEW r \in Requests, NEW t \in Tabs, NEW what \in Kinds, Ask(r, t, what)
      PROVE  SessionsKept' /\ Stays
  <2>1. SessionsKept' BY <1>1, <1>6, AskKeeps
  <2>2. tab' = tab BY <1>6 DEF Ask
  <2> QED BY <2>1, <2>2
<1>7. ASSUME NEW r \in Requests, Answer(r) PROVE SessionsKept' /\ Stays
  <2>1. api[r].tab \in Tabs
    BY <1>7 DEF IInv, WaitersAreAwaited, Answer, Unauthorized, LoggedIn, Served
  <2>2. CASE Unauthorized(r) BY <1>1, <2>1, <2>2, UnauthorizedKeeps
  <2>3. CASE LoggedIn(r) BY <1>1, <2>1, <2>3, LoggedInKeeps
  <2>4. CASE Served(r) BY <1>1, <2>1, <2>4, ServedKeeps
  <2> QED BY <1>7, <2>2, <2>3, <2>4 DEF Answer
<1>8. ASSUME NEW r \in Requests, DropRequest(r) \/ Unheard(r) PROVE FALSE
  BY <1>2, <1>8 DEF DropRequest, Unheard, IInv, OnlyFaultsLeave
<1>9. ASSUME NEW g \in Flights, Handle(g) PROVE SessionsKept' /\ Stays
  <2>1. PICK t \in Tabs, w \in Ways \cup {"orphan"} : g = <<t, w>> BY DEF Flights
  <2>2. flight[g].pc # "idle" BY <1>9 DEF Handle, Find, RevokeAll, Rotate
  <2>3. w \in Ways BY <1>3, <2>1, <2>2 DEF OneRefresh
  <2>4. SessionsKept' BY <1>1, <1>9, <2>1, <2>3, HandleKeeps
  <2>5. tab' = tab BY <1>9 DEF Handle, Find, RevokeAll, Rotate
  <2> QED BY <2>4, <2>5
<1>10. ASSUME NEW t \in Tabs, NEW w \in Ways, Arrive(t, w) PROVE SessionsKept' /\ Stays
  BY <1>1, <1>10, ArriveKeeps
<1>11. ASSUME NEW t \in Tabs, NEW w \in Ways, Drop(t, w) PROVE FALSE
  BY <1>2, <1>11 DEF Drop
<1>12. CASE \/ \E t \in Tabs : AgeAccess(t)
            \/ \E n \in Tokens : AgeRefresh(n)
            \/ UNCHANGED vars
  <2>1. SessionsKept' /\ \A t \in Tabs : tab'[t].user = tab[t].user
    BY <1>1, <1>12, AgeKeeps
  <2> QED BY <2>1
<1> QED BY <1>4, <1>5, <1>6, <1>7, <1>8, <1>9, <1>10, <1>11, <1>12 DEF Next

LEMMA InitKept == ASSUME SessionsAssumption, Init PROVE SessionsKept
<1>1. /\ \A b \in Browsers : cookie[b] = None /\ stored[b] = FALSE
      /\ \A t \in Tabs : tab[t].user = FALSE /\ tab[t].boot = "done"
      /\ \A f \in Flights : flight[f].pc = "idle" /\ flight[f].shown = None
                            /\ flight[f].got = None
      /\ \A r \in Requests : api[r].tab = None /\ api[r].shown = None
  BY DEF Init, Blank, NoFlight, NoRequest
<1>2. None \notin Tokens /\ None \notin Tabs BY DEF SessionsAssumption
<1>3. ASSUME NEW t \in Tabs
      PROVE  /\ Home[t] \in Browsers
             /\ \A w \in Ways \cup {"orphan"} : <<t, w>> \in Flights
  BY DEF SessionsAssumption, Flights
<1>4. OneHolder BY <1>1, <1>2, <1>3 DEF OneHolder, HeldBy
<1>5. ASSUME NEW t \in Tabs PROVE CookieIsGood(t) /\ OneRefresh(t) /\ OwnRequests(t)
  <2>1. CookieIsGood(t) BY <1>1, <1>3 DEF CookieIsGood
  <2>2. OneRefresh(t) BY <1>1, <1>3 DEF OneRefresh, CallFits, Ways
  <2>3. OwnRequests(t) BY <1>1, <1>2 DEF OwnRequests
  <2> QED BY <2>1, <2>2, <2>3
<1> QED BY <1>4, <1>5 DEF SessionsKept

\* A tab alone in its browser keeps its user through access tokens that age,
\* requests refused at once, page loads and other browsers' sessions, for any
\* tabs, tokens and requests, when pages wait for their bootstrap (client.ts
\* 69-97, store/auth.ts 130-142).
THEOREM SessionsSurvive == ~EarlyRequests /\ Spec => SessionSurvives
<1> SUFFICES ASSUME ~EarlyRequests PROVE Spec => SessionSurvives OBVIOUS
<1>1. Init => SessionsKept BY SessionsAssumption, InitKept
<1>2. ASSUME IInv, SessionsKept, [Next]_vars PROVE SessionsKept'
  <2>1. Types BY <1>2, TypesIsTypeOK DEF IInv
  <2>2. CASE Quiet' BY <1>2, <2>1, <2>2, SessionsStep, SessionsAssumption
  <2>3. CASE ~Quiet' BY <2>3 DEF SessionsKept
  <2> QED BY <2>2, <2>3
<1>3. ASSUME IInv, SessionsKept, [Next]_vars,
             NEW t \in Tabs, tab[t].user, ~tab'[t].user
      PROVE  LogsOut(t) \/ Disturbed
  <2>1. Types /\ Types' 
    <3>1. Types BY <1>3, TypesIsTypeOK DEF IInv
    <3> QED BY <1>3, <3>1, TypeStep, SessionsAssumption
  <2>2. CASE Quiet'
    BY <1>3, <2>1, <2>2, SessionsStep, SessionsAssumption DEF Disturbed
  <2>3. CASE ~Quiet'
    <3>1. CASE faults' # 0
      <4>1. faults' \in Nat BY <2>1 DEF Types, SessionsAssumption
      <4> QED BY <3>1, <4>1 DEF Disturbed
    <3>2. CASE everywhere' /\ ~everywhere
      <4>1. tab' = tab
        BY <1>3, <3>2 DEF Next, vars, Load, Vanish, AgeAccess, AgeRefresh, Ask,
          Answer, Unauthorized, LoggedIn, Served, DropRequest, Unheard, Handle, Find,
          RevokeAll, Rotate, Arrive, Drop
      <4> QED BY <1>3, <4>1
    <3>3. CASE \E s, u \in Tabs : Home[s] = Home[u] /\ s # u
      BY <3>3 DEF Disturbed
    <3> QED BY <2>3, <3>1, <3>2, <3>3 DEF Quiet, Disturbed
  <2> QED BY <2>2, <2>3
<1>4. IInv /\ SessionsKept /\ [Next]_vars => SessionsKept' BY <1>2
<1>5. IInv /\ SessionsKept /\ [Next]_vars =>
        [\A t \in Tabs : tab[t].user /\ ~tab'[t].user => LogsOut(t) \/ Disturbed]_vars
  BY <1>3
<1> QED BY <1>1, <1>4, <1>5, SessionsSafe, PTL DEF Spec, SessionSurvives

=============================================================================
