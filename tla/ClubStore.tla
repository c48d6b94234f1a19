----------------------------- MODULE ClubStore -----------------------------
(***************************************************************************)
(* The socket of a club's dashboard: the store (apps/web/src/store/club.ts *)
(* 98-268) and the layout that mounts it (ClubDashboardLayout.tsx 51-65).  *)
(*                                                                         *)
(* A socket is closed by the page ("closing") or by anybody else           *)
(* ("broken"); its close event comes later, in any order with the rest.    *)
(***************************************************************************)
EXTENDS Naturals

CONSTANTS
  Sockets,    \* used again once their close event has come
  None,
  MaxBoots    \* bound: bootstraps that wait for their answer

VARIABLES
  user, token,   \* useAuthStore: signed in, and with a token in memory
  mounted,       \* ClubDashboardLayout is shown
  boots,         \* bootstraps that wait for GET /club/status
  ws,            \* the socket of the store
  sock,          \* each socket
  closingIntentionally,
  timer,         \* reconnectTimer is running
  late           \* history: a bootstrap was answered after its page had gone

auth == <<user, token>>
vars == <<auth, mounted, boots, ws, sock, closingIntentionally, timer, late>>

Init ==
  /\ user = TRUE /\ token \in BOOLEAN   \* a reloaded page has no token yet
  /\ mounted = FALSE /\ boots = 0
  /\ ws = None
  /\ sock = [s \in Sockets |-> "none"]
  /\ closingIntentionally = FALSE
  /\ timer = FALSE
  /\ late = FALSE

-----------------------------------------------------------------------------
Live(s) == sock[s] \in {"connecting", "open"}

\* ws.close() of a socket that may be closed already.
ClosedByUs(s) == IF s # None /\ Live(s) THEN [sock EXCEPT ![s] = "closing"] ELSE sock

\* Mutant: the socket before it is forgotten instead of closed.
Connect_Forgets(hasToken) ==
  IF ~(user /\ hasToken) THEN UNCHANGED <<ws, sock, closingIntentionally>>
  ELSE \E s \in Sockets :
         /\ sock[s] = "none"
         /\ ws' = s
         /\ sock' = [sock EXCEPT ![s] = "connecting"]
         /\ UNCHANGED closingIntentionally

\* connect: without a user or a token it does nothing, and nobody tries again.
Connect(hasToken) ==
  IF ~(user /\ hasToken) THEN UNCHANGED <<ws, sock, closingIntentionally>>
  ELSE \E s \in Sockets :
         /\ sock[s] = "none"
         /\ ws' = s
         /\ sock' = [ClosedByUs(ws) EXCEPT ![s] = "connecting"]
         /\ closingIntentionally' = (ws # None \/ closingIntentionally)

\* The effect of the layout: bootstrap ...
Mount ==
  /\ ~mounted /\ user /\ boots < MaxBoots
  /\ mounted' = TRUE
  /\ boots' = boots + 1
  /\ UNCHANGED <<auth, ws, sock, closingIntentionally, timer, late>>

\* ... which goes on when the status is answered, or is not: a request that is
\* answered 401 refreshes the token first.
Booted ==
  /\ boots > 0
  /\ boots' = boots - 1
  /\ token' \in IF user THEN {TRUE, token} ELSE {token}
  /\ Connect(token')
  /\ late' = (late \/ ~mounted)
  /\ UNCHANGED <<user, mounted, timer>>

\* Its cleanup: teardown.  React runs it when the page goes, or the user does.
Unmount ==
  /\ mounted
  /\ mounted' = FALSE
  /\ closingIntentionally' = (ws # None \/ closingIntentionally)
  /\ sock' = ClosedByUs(ws)
  /\ ws' = None
  /\ timer' = FALSE
  /\ late' = FALSE
  /\ UNCHANGED <<auth, boots>>

SignOut ==
  /\ user
  /\ user' = FALSE /\ token' = FALSE
  /\ UNCHANGED <<mounted, boots, ws, sock, closingIntentionally, timer, late>>

SignIn ==
  /\ ~user /\ ~mounted
  /\ user' = TRUE /\ token' = TRUE
  /\ UNCHANGED <<mounted, boots, ws, sock, closingIntentionally, timer, late>>

-----------------------------------------------------------------------------
Open(s) ==
  /\ sock[s] = "connecting"
  /\ sock' = [sock EXCEPT ![s] = "open"]
  /\ UNCHANGED <<auth, mounted, boots, ws, closingIntentionally, timer, late>>

\* The network or the server ends it.
Break(s) ==
  /\ Live(s)
  /\ sock' = [sock EXCEPT ![s] = "broken"]
  /\ UNCHANGED <<auth, mounted, boots, ws, closingIntentionally, timer, late>>

\* Mutant: a socket that is not the store's any more is retried too.
OnClose_Stale(s) ==
  /\ sock[s] \in {"closing", "broken"}
  /\ sock' = [sock EXCEPT ![s] = "none"]
  /\ ws' = IF ws = s THEN None ELSE ws
  /\ closingIntentionally' = (closingIntentionally /\ ws # s)
  /\ timer' = (timer \/ ~closingIntentionally)
  /\ UNCHANGED <<auth, mounted, boots, late>>

\* onclose.  Only the store's socket takes the flag back, so the close event of
\* a socket that teardown or connect has put aside leaves it up for the next.
OnClose(s) ==
  /\ sock[s] \in {"closing", "broken"}
  /\ sock' = [sock EXCEPT ![s] = "none"]
  /\ ws' = IF ws = s THEN None ELSE ws
  /\ closingIntentionally' = (closingIntentionally /\ ws # s)
  /\ timer' = (timer \/ (ws = s /\ ~closingIntentionally))
  /\ UNCHANGED <<auth, mounted, boots, late>>

Reconnect ==
  /\ timer
  /\ timer' = FALSE
  /\ Connect(token)
  /\ UNCHANGED <<auth, mounted, boots, late>>

Next ==
  \/ Mount \/ Booted \/ Unmount \/ SignOut \/ SignIn \/ Reconnect
  \/ \E s \in Sockets : Open(s) \/ Break(s) \/ OnClose(s)

Spec == Init /\ [][Next]_vars

-----------------------------------------------------------------------------
TypeOK ==
  /\ user \in BOOLEAN /\ token \in BOOLEAN /\ mounted \in BOOLEAN
  /\ closingIntentionally \in BOOLEAN /\ timer \in BOOLEAN /\ late \in BOOLEAN
  /\ boots \in 0..MaxBoots
  /\ ws \in Sockets \cup {None}
  /\ sock \in [Sockets -> {"none", "connecting", "open", "closing", "broken"}]

\* The dashboard has one connection: a socket that is open or opening is the
\* store's, in whatever order pages come and go, answers arrive late, timers
\* fire and close events are delivered (store/club.ts 122-133, 178-185).
OneSocket == \A s \in Sockets : Live(s) => ws = s

\* A page that is gone has no socket and no timer, unless its bootstrap was
\* answered after it had gone (store/club.ts 98-133, 245-267).
GoneIsQuiet == ~mounted /\ ~late => ws = None /\ ~timer

\* A connection of the store that the page did not close itself is retried
\* (store/club.ts 59-65: the flag is there for the sockets we close).
BrokenIsRetried ==
  [][\A s \in Sockets : sock[s] = "broken" /\ ws = s /\ sock'[s] = "none" => timer']_vars

-----------------------------------------------------------------------------
\* The inductive invariant.
IInv == TypeOK /\ OneSocket /\ GoneIsQuiet
=============================================================================
