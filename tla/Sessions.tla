------------------------------ MODULE Sessions ------------------------------
(***************************************************************************)
(* Sessions of one account: the refresh tokens of the auth service         *)
(* (services/auth/src/refresh-token.ts and the login, refresh and logout   *)
(* handlers of routes.ts) and the web client that uses them                *)
(* (apps/web/src/api/client.ts, store/auth.ts).                            *)
(*                                                                         *)
(* A browser keeps one cookie and one stored user for all its tabs; a tab  *)
(* keeps its user and its access token in memory.  A tab refreshes in two  *)
(* ways that do not know of each other: the bootstrap of a page load, and  *)
(* the single flight that requests answered 401 share.  The handler finds  *)
(* and judges the token first and rotates it in a later transaction.       *)
(***************************************************************************)
EXTENDS Naturals, FiniteSets

CONSTANTS
  Tabs, Browsers,
  Home,           \* the browser of each tab
  Tokens,         \* refresh token values
  Requests,       \* requests the tabs may have under way
  None,
  EarlyRequests,  \* may a page ask before its bootstrap is answered?
  MaxFaults       \* bound: lost answers, interrupted loads, overlaps

ASSUME SessionsAssumption ==
  /\ Home \in [Tabs -> Browsers]
  /\ None \notin Tokens \cup Tabs
  /\ EarlyRequests \in BOOLEAN
  /\ MaxFaults \in Nat

Kinds == {"page", "login", "logout", "everywhere"}
Ways == {"boot", "try"}                     \* the two ways a tab refreshes
Flights == Tabs \X (Ways \cup {"orphan"})   \* and a call its page gave up

VARIABLES
  row,         \* the RefreshToken table: what became of each token
  cookie,      \* the refresh cookie of each browser
  stored,      \* does the browser's local storage hold a user?
  tab,         \* a tab's memory: user, access token, bootstrap
  flight,      \* the refresh calls under way, as handler and answer
  api,         \* the other requests under way
  everywhere,  \* history: has the account logged out everywhere?
  faults       \* history: how many of those have happened

vars == <<row, cookie, stored, tab, flight, api, everywhere, faults>>

NoFlight == [pc |-> "idle", shown |-> None, got |-> None]
NoRequest == [pc |-> "idle", tab |-> None, what |-> "page", fresh |-> FALSE,
              shown |-> None]
Blank == [user |-> FALSE, token |-> "none", boot |-> "done"]

Alive == {n \in Tokens : row[n] = "live"}
Unrevoked == {"live", "expired"}

\* A token nobody holds is never shown again, whatever its row says: it can
\* stand for the next random one.
Held(n) == \/ \E b \in Browsers : cookie[b] = n
           \/ \E f \in Flights : n \in {flight[f].shown, flight[f].got}
           \/ \E r \in Requests : api[r].shown = n

Spare == {n \in Tokens : ~Held(n)}
Fresh == CHOOSE n \in Tokens : n \in Spare

Revoked(S) == [n \in Tokens |->
                 IF n \in S /\ row[n] \in Unrevoked THEN "revoked" ELSE row[n]]

Init ==
  /\ row = [n \in Tokens |-> "free"]
  /\ cookie = [b \in Browsers |-> None]
  /\ stored = [b \in Browsers |-> FALSE]
  /\ tab = [t \in Tabs |-> Blank]
  /\ flight = [f \in Flights |-> NoFlight]
  /\ api = [r \in Requests |-> NoRequest]
  /\ everywhere = FALSE
  /\ faults = 0

-----------------------------------------------------------------------------
\* The client's memory.  The store persists its user at every change.
Remember(t, m) ==
  /\ tab' = [tab EXCEPT ![t] = m]
  /\ stored' = [stored EXCEPT ![Home[t]] = m.user]

SignedIn == [user |-> TRUE, token |-> "good", boot |-> "done"]
Expired(t) == [tab[t] EXCEPT !.user = FALSE, !.token = "none"]

Sent(t) == [pc |-> "sent", shown |-> cookie[Home[t]], got |-> None]

\* A request whose page has gone, or whose connection has: it may be handled still.
Left(r) == [api[r] EXCEPT !.pc = "left", !.tab = None]

Matters(r) == api[r].what # "page" /\ api[r].pc \in {"sent", "again"}

\* A page load forgets the tab's memory but for the stored user, and the
\* bootstrap refreshes when there is one.  What the old page had under way is
\* abandoned: its handler runs on, its answer reaches nobody.
Load(t) ==
  LET busy == {w \in Ways : flight[<<t, w>>].pc # "idle"}
      leaving == {r \in Requests : api[r].tab = t /\ Matters(r)}
      known == stored[Home[t]]
      fly == IF known THEN Sent(t) ELSE NoFlight
      left == [flight EXCEPT ![<<t, "boot">>] = fly, ![<<t, "try">>] = NoFlight]
  IN
  /\ tab' = [tab EXCEPT ![t] = [user |-> known, token |-> "none",
                                boot |-> IF known THEN "asks" ELSE "done"]]
  /\ \/ busy = {} /\ flight' = left
     \/ /\ flight[<<t, "orphan">>].pc = "idle"
        /\ \E w \in busy :
             /\ busy = {w}
             /\ flight' = [left EXCEPT ![<<t, "orphan">>] = flight[<<t, w>>]]
  /\ \/ busy = {} /\ leaving = {} /\ UNCHANGED faults
     \/ /\ busy # {} \/ leaving # {}
        /\ faults < MaxFaults /\ faults' = faults + 1
  /\ api' = [r \in Requests |-> IF api[r].tab # t THEN api[r]
                               ELSE IF r \in leaving THEN Left(r) ELSE NoRequest]
  /\ UNCHANGED <<row, cookie, stored, everywhere>>

\* A page, the login form or the menu sends a request.  The form waits for its
\* answer before it submits again.  A login or logout that overlaps another
\* request of its tab is one of the faults counted.
Ask(r, t, what) ==
  LET mine == {q \in Requests : api[q].tab = t}
      kinds == {what} \cup {api[q].what : q \in mine} IN
  /\ api[r].pc = "idle"
  /\ IF what = "login"
     THEN ~tab[t].user /\ \A q \in mine : api[q].what # "login"
     ELSE tab[t].user /\ (EarlyRequests \/ tab[t].boot = "done")
  /\ \/ (mine = {} \/ kinds = {"page"}) /\ UNCHANGED faults
     \/ /\ mine # {} /\ kinds # {"page"}
        /\ faults < MaxFaults /\ faults' = faults + 1
  /\ api' = [api EXCEPT ![r] = [pc |-> "sent", tab |-> t, what |-> what,
                                fresh |-> tab[t].token = "good",
                                shown |-> IF what = "logout" THEN cookie[Home[t]]
                                                             ELSE None]]
  /\ UNCHANGED <<row, cookie, stored, tab, flight, everywhere>>

Done(r) == [api EXCEPT ![r] = NoRequest]

\* Mutants: each request refreshes on its own; a request asks for ever.
Unauthorized_EachOnItsOwn(r) ==
  LET t == api[r].tab IN
  /\ api[r].what = "login" \/ ~api[r].fresh
  /\ api[r].pc = "sent"
  /\ api' = [api EXCEPT ![r].pc = "waits"]
  /\ flight' = IF flight[<<t, "try">>].pc = "idle"
               THEN [flight EXCEPT ![<<t, "try">>] = Sent(t)]
               ELSE [flight EXCEPT ![<<t, "orphan">>] = Sent(t)]
  /\ UNCHANGED <<row, cookie, stored, tab, everywhere, faults>>

Unauthorized_AsksForEver(r) ==
  LET t == api[r].tab IN
  /\ api[r].what = "login" \/ ~api[r].fresh
  /\ api[r].pc \in {"sent", "again"}
  /\ api' = [api EXCEPT ![r].pc = "waits"]
  /\ flight' = IF flight[<<t, "try">>].pc = "idle"
               THEN [flight EXCEPT ![<<t, "try">>] = Sent(t)] ELSE flight
  /\ UNCHANGED <<row, cookie, stored, tab, everywhere, faults>>

\* Answered 401: the first time the request waits for the tab's one refresh,
\* which it starts if none is under way; the second time it is an error.
\* A logout that fails forgets the user all the same.
Unauthorized(r) ==
  LET t == api[r].tab IN
  /\ api[r].what = "login" \/ ~api[r].fresh
  /\ \/ /\ api[r].pc = "sent"
        /\ api' = [api EXCEPT ![r].pc = "waits"]
        /\ flight' = IF flight[<<t, "try">>].pc = "idle"
                     THEN [flight EXCEPT ![<<t, "try">>] = Sent(t)] ELSE flight
        /\ UNCHANGED <<stored, tab>>
     \/ /\ api[r].pc = "again"
        /\ api' = Done(r)
        /\ IF api[r].what = "logout" THEN Remember(t, Expired(t))
                                     ELSE UNCHANGED <<stored, tab>>
        /\ UNCHANGED flight
  /\ UNCHANGED <<row, cookie, everywhere, faults>>

\* The right password: a token is issued, the answer sets cookie and store.
LoggedIn(r) ==
  LET t == api[r].tab IN
  /\ api[r].pc \in {"sent", "again"} /\ api[r].what = "login"
  /\ Spare # {}
  /\ row' = [row EXCEPT ![Fresh] = "live"]
  /\ cookie' = [cookie EXCEPT ![Home[t]] = Fresh]
  /\ Remember(t, [tab[t] EXCEPT !.user = TRUE, !.token = "good"])
  /\ api' = Done(r)
  /\ UNCHANGED <<flight, everywhere, faults>>

\* A request with a valid access token is served.  Logging out revokes the
\* token that came with it, logging out everywhere all tokens; both clear the
\* cookie.  Only the former is called by the web client.
Served(r) ==
  LET t == api[r].tab
      what == api[r].what IN
  /\ api[r].pc \in {"sent", "again"} /\ what # "login" /\ api[r].fresh
  /\ row' = CASE what = "page" -> row
              [] what = "logout" -> Revoked({api[r].shown})
              [] what = "everywhere" -> Revoked(Tokens)
  /\ cookie' = IF what = "page" THEN cookie
                                ELSE [cookie EXCEPT ![Home[t]] = None]
  /\ IF what = "logout" THEN Remember(t, Expired(t)) ELSE UNCHANGED <<stored, tab>>
  /\ everywhere' = (everywhere \/ what = "everywhere")
  /\ api' = Done(r)
  /\ UNCHANGED <<flight, faults>>

-----------------------------------------------------------------------------
\* rotateRefreshToken finds the token and judges what it found ...
Verdict(n) == CASE n = None -> "none"
                [] n # None /\ row[n] = "revoked" -> "reused"
                [] n # None /\ row[n] = "live" -> "judged"
                [] OTHER -> "refused"

Find(f) ==
  /\ flight[f].pc = "sent"
  /\ flight' = [flight EXCEPT ![f].pc = Verdict(flight[f].shown)]
  /\ UNCHANGED <<row, cookie, stored, tab, api, everywhere, faults>>

\* Mutant: the replay is noticed and the rotation goes on.
RevokeAll_GoesOn(f) ==
  /\ flight[f].pc = "reused"
  /\ Spare # {}
  /\ row' = [Revoked(Tokens) EXCEPT ![Fresh] = "live"]
  /\ flight' = [flight EXCEPT ![f].pc = "granted", ![f].got = Fresh]
  /\ UNCHANGED <<cookie, stored, tab, api, everywhere, faults>>

\* ... a token used before ends every session of the account ...
RevokeAll(f) ==
  /\ flight[f].pc = "reused"
  /\ row' = Revoked(Tokens)
  /\ flight' = [flight EXCEPT ![f].pc = "refused"]
  /\ UNCHANGED <<cookie, stored, tab, api, everywhere, faults>>

\* ... and one that was live is revoked, whatever it is by now, for a new one.
Rotate(f) ==
  /\ flight[f].pc = "judged"
  /\ Spare # {}
  /\ row' = [Revoked({flight[f].shown}) EXCEPT ![Fresh] = "live"]
  /\ flight' = [flight EXCEPT ![f].pc = "granted", ![f].got = Fresh]
  /\ UNCHANGED <<cookie, stored, tab, api, everywhere, faults>>

\* The requests that waited for the tab's refresh are sent again, or fail.
Resume(t, ok, c) ==
  [r \in Requests |->
     IF api[r].pc # "waits" \/ api[r].tab # t THEN api[r]
     ELSE IF ok THEN [api[r] EXCEPT !.pc = "again", !.fresh = TRUE,
                        !.shown = IF api[r].what = "logout" THEN c ELSE None]
     ELSE NoRequest]

\* What the client makes of the end of a refresh, good or bad.
Settle(t, w, ok) ==
  /\ Remember(t, CASE ok /\ w = "boot" -> SignedIn
                   [] ok /\ w = "try" -> [tab[t] EXCEPT !.token = "good"]
                   [] ~ok /\ w = "boot" -> Blank
                   [] ~ok /\ w = "try" -> Expired(t))
  /\ api' = IF w = "try" THEN Resume(t, ok, cookie'[Home[t]]) ELSE api

\* The answer arrives: it sets the cookie, or clears it, or says there was none.
Arrive(t, w) ==
  LET f == flight[<<t, w>>] IN
  /\ f.pc \in {"granted", "refused", "none"}
  /\ cookie' = CASE f.pc = "granted" -> [cookie EXCEPT ![Home[t]] = f.got]
                 [] f.pc = "refused" -> [cookie EXCEPT ![Home[t]] = None]
                 [] f.pc = "none" -> cookie
  /\ Settle(t, w, f.pc = "granted")
  /\ flight' = [flight EXCEPT ![<<t, w>>] = NoFlight]
  /\ UNCHANGED <<row, everywhere, faults>>

\* The answer to an abandoned call reaches nobody.
Vanish(t) ==
  /\ flight[<<t, "orphan">>].pc \in {"granted", "refused", "none"}
  /\ flight' = [flight EXCEPT ![<<t, "orphan">>] = NoFlight]
  /\ UNCHANGED <<row, cookie, stored, tab, api, everywhere, faults>>

\* The connection of a refresh breaks: the client sees a failure, the handler
\* may run on.
Drop(t, w) ==
  /\ flight[<<t, w>>].pc # "idle" /\ flight[<<t, "orphan">>].pc = "idle"
  /\ faults < MaxFaults
  /\ faults' = faults + 1
  /\ cookie' = cookie
  /\ Settle(t, w, FALSE)
  /\ flight' = [flight EXCEPT ![<<t, "orphan">>] = flight[<<t, w>>],
                              ![<<t, w>>] = NoFlight]
  /\ UNCHANGED <<row, everywhere>>

\* The connection of another request breaks: the client sees a failure, the
\* handler may have the request, or not.
DropRequest(r) ==
  /\ api[r].pc \in {"sent", "again"} /\ faults < MaxFaults
  /\ faults' = faults + 1
  /\ IF api[r].what = "logout" THEN Remember(api[r].tab, Expired(api[r].tab))
                               ELSE UNCHANGED <<stored, tab>>
  /\ api' = [api EXCEPT ![r] = IF api[r].what = "page" THEN NoRequest ELSE Left(r)]
  /\ UNCHANGED <<row, cookie, flight, everywhere>>

\* A request that was left is handled, its answer reaches nobody; or it is refused,
\* or was lost.
Unheard(r) ==
  LET what == api[r].what IN
  /\ api[r].pc = "left"
  /\ \/ /\ what = "login" /\ Spare # {}
        /\ row' = [row EXCEPT ![Fresh] = "live"] /\ UNCHANGED everywhere
     \/ /\ what # "login" /\ api[r].fresh
        /\ row' = Revoked(IF what = "logout" THEN {api[r].shown} ELSE Tokens)
        /\ everywhere' = (everywhere \/ what = "everywhere")
     \/ UNCHANGED <<row, everywhere>>
  /\ api' = Done(r)
  /\ UNCHANGED <<cookie, stored, tab, flight, faults>>

\* Access tokens live for minutes, refresh tokens for days.
AgeAccess(t) ==
  /\ tab[t].token = "good"
  /\ tab' = [tab EXCEPT ![t].token = "old"]
  /\ UNCHANGED <<row, cookie, stored, flight, api, everywhere, faults>>

AgeRefresh(n) ==
  /\ row[n] = "live"
  /\ row' = [row EXCEPT ![n] = "expired"]
  /\ UNCHANGED <<cookie, stored, tab, flight, api, everywhere, faults>>

-----------------------------------------------------------------------------
Answer(r) == Unauthorized(r) \/ LoggedIn(r) \/ Served(r)
Handle(f) == Find(f) \/ RevokeAll(f) \/ Rotate(f)

Next ==
  \/ \E t \in Tabs : Load(t) \/ Vanish(t) \/ AgeAccess(t)
  \/ \E r \in Requests, t \in Tabs, what \in Kinds : Ask(r, t, what)
  \/ \E r \in Requests : Answer(r) \/ DropRequest(r) \/ Unheard(r)
  \/ \E f \in Flights : Handle(f)
  \/ \E t \in Tabs, w \in Ways : Arrive(t, w) \/ Drop(t, w)
  \/ \E n \in Tokens : AgeRefresh(n)

Spec == Init /\ [][Next]_vars

\* The services handle what they are sent and the answers travel.
Fairness ==
  /\ \A r \in Requests : WF_vars(Answer(r) \/ Unheard(r))
  /\ \A t \in Tabs, w \in Ways : WF_vars(Handle(<<t, w>>) \/ Arrive(t, w))

FairSpec == Spec /\ Fairness

-----------------------------------------------------------------------------
Pcs == {"idle", "sent", "reused", "judged", "granted", "refused", "none"}

\* Every variable keeps its type.
TypeOK ==
  /\ row \in [Tokens -> {"free", "live", "expired", "revoked"}]
  /\ cookie \in [Browsers -> Tokens \cup {None}]
  /\ stored \in [Browsers -> BOOLEAN]
  /\ tab \in [Tabs -> [user : BOOLEAN, token : {"none", "good", "old"},
                      boot : {"asks", "done"}]]
  /\ flight \in [Flights -> [pc : Pcs, shown : Tokens \cup {None},
                            got : Tokens \cup {None}]]
  /\ api \in [Requests -> [pc : {"idle", "sent", "waits", "again", "left"},
                          tab : Tabs \cup {None}, what : Kinds,
                          fresh : BOOLEAN, shown : Tokens \cup {None}]]
  /\ everywhere \in BOOLEAN
  /\ faults \in 0..MaxFaults

\* A call that judged its token good was shown a token the service issued, and
\* an answer that grants carries one (refresh-token.ts 49-87): no cookie is
\* ever set to a value that is not in the table.
ShownWereIssued ==
  /\ \A b \in Browsers : cookie[b] # None => row[cookie[b]] # "free"
  /\ \A f \in Flights :
       /\ flight[f].shown # None => row[flight[f].shown] # "free"
       /\ flight[f].pc \in {"judged", "reused"} => flight[f].shown # None
       /\ flight[f].pc = "granted" =>
            flight[f].got # None /\ row[flight[f].got] # "free"
  /\ \A r \in Requests : api[r].shown # None => row[api[r].shown] # "free"

\* A request waits only for a refresh that is under way (client.ts 46-67): the
\* shared promise is never one that nobody will settle.
WaitersAreAwaited ==
  \A r \in Requests :
    /\ api[r].pc \notin {"idle", "left"} => api[r].tab \in Tabs
    /\ api[r].pc = "waits" => flight[<<api[r].tab, "try">>].pc # "idle"

\* Nothing is left behind but by a fault.
OnlyFaultsLeave == faults = 0 => \A r \in Requests : api[r].pc # "left"

IInv == TypeOK /\ ShownWereIssued /\ WaitersAreAwaited /\ OnlyFaultsLeave

\* Once every session of the account has ended, by a reused token or a logout
\* everywhere, none comes back to life except through a rotation that had
\* judged its token before (refresh-token.ts 49-85) or a login.
EndedForGood ==
  [][ \/ Alive # {} \/ Alive' = {}
      \/ \E f \in Flights : flight[f].pc = "judged"
      \/ \E r \in Requests : api[r].what = "login" /\ api[r].pc # "idle" ]_vars

LogsOut(t) == \E r \in Requests : api[r].tab = t /\ api[r].what = "logout"

\* What may end a tab's session without its user asking for it.
Disturbed ==
  \/ faults' > 0 \/ everywhere
  \/ \E n \in Tokens : row[n] = "expired"
  \/ \E s, t \in Tabs : s # t /\ Home[s] = Home[t]

\* A tab alone in its browser keeps its user, through access tokens that age,
\* requests refused at once, page loads and other browsers' sessions, until
\* the user logs out (client.ts 69-97, store/auth.ts 130-142).
SessionSurvives ==
  [][\A t \in Tabs :
       tab[t].user /\ ~tab'[t].user => LogsOut(t) \/ Disturbed]_vars

\* The invariant behind SessionSurvives: while nothing was disturbed, a tab's
\* user, the stored one and the cookie agree, the tab has at most one refresh
\* under way, which shows the cookie, and a token has one browser.
Quiet == /\ faults = 0 /\ ~everywhere
         /\ \A s, t \in Tabs : Home[s] = Home[t] => s = t

HeldBy(t, n) ==
  \/ cookie[Home[t]] = n
  \/ \E w \in Ways : n \in {flight[<<t, w>>].shown, flight[<<t, w>>].got}
  \/ \E r \in Requests : api[r].tab = t /\ api[r].shown = n

OneHolder ==
  \A s, t \in Tabs, n \in Tokens : HeldBy(s, n) /\ HeldBy(t, n) => s = t

\* A call that shows the cookie c, as it should: never a token used before.
CallFits(f, c) ==
  /\ f.pc # "idle" => f.shown = c
  /\ f.pc = "sent" => f.got = None
  /\ f.pc = "none" => c = None
  /\ f.pc = "refused" => c # None /\ row[c] = "expired"
  /\ f.pc = "granted" => c # None /\ f.got # None /\ row[f.got] \in Unrevoked
  /\ f.pc # "reused"

OwnRequests(t) ==
  \A q, r \in Requests :
    api[q].tab = t => /\ api[q].pc # "idle"
                      /\ api[q].pc = "again" => api[q].fresh
                      /\ api[r].tab = t /\ api[r].what # "page" => q = r

CookieIsGood(t) ==
  LET c == cookie[Home[t]] IN
  /\ tab[t].user <=> c # None
  /\ stored[Home[t]] = tab[t].user
  /\ c # None => \/ row[c] \in Unrevoked
                 \/ \E w \in Ways : flight[<<t, w>>].pc = "granted"

OneRefresh(t) ==
  /\ flight[<<t, "orphan">>].pc = "idle"
  /\ flight[<<t, "boot">>].pc # "idle" => tab[t].boot = "asks"
  /\ tab[t].boot = "asks" => tab[t].user /\ \A r \in Requests : api[r].tab # t
  /\ flight[<<t, "try">>].pc # "idle" =>
       \E r \in Requests : api[r].tab = t /\ api[r].pc = "waits"
  /\ \A w \in Ways : CallFits(flight[<<t, w>>], cookie[Home[t]])

SessionsKept ==
  Quiet => OneHolder /\ \A t \in Tabs : CookieIsGood(t) /\ OneRefresh(t) /\ OwnRequests(t)

\* A tab that has restored its session keeps it.  store/auth.ts 120-123 says of
\* the bootstrap "Если успех — у нас новый accessToken и актуальный user" (if it
\* succeeds, there is a new access token and a current user); the page that a
\* reload shows at once has asked without a token by then, and the refresh its
\* 401 starts shows the cookie that the bootstrap's rotation revokes.
RestoredSessionStays ==
  [][\A t \in Tabs :
       tab[t].user /\ tab[t].boot = "done" /\ ~tab'[t].user
         => LogsOut(t) \/ Disturbed]_vars

\* Every request comes to an end: it is answered, sent again once after a
\* refresh, or fails (client.ts 46-97).
RequestsEnd ==
  \A r \in Requests : api[r].pc # "idle" ~> api[r].pc = "idle"
=============================================================================
