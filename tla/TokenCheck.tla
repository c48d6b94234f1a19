----------------------------- MODULE TokenCheck -----------------------------
(***************************************************************************)
(* Who a request comes from.  The gateway verifies its token on the paths  *)
(* that are not public (services/gateway/src/index.ts, jwt-verifier.ts)    *)
(* and names the user to the service in its headers; on a public path the  *)
(* service verifies it itself (services/tournament/src/auth.ts,            *)
(* services/club/src/jwt-verifier.ts).  Each process keeps the public key  *)
(* of the auth service for an hour; a request that finds it older waits    *)
(* for an answer of the auth service.                                      *)
(***************************************************************************)
EXTENDS Naturals

CONSTANTS
  Processes,   \* that verify tokens: the gateway, the services behind it
  Requests,    \* under way at once
  Hour,        \* REFRESH_INTERVAL_MS
  Horizon,     \* bound: the clock
  MaxKeys      \* bound: keys the auth service is given

VARIABLES
  signer,      \* the key the auth service signs with
  began,       \* when it was given each key
  ended,       \* and when it was given the next
  cache,       \* each process: publicKey and lastFetched
  request,     \* requests: process, key of the token, how far, what came of it
  now

vars == <<signer, began, ended, cache, request, now>>

Never == Horizon + 1
Times == 0..Horizon
Keys == 1..MaxKeys
NoKey == [key |-> 0, since |-> 0]
Caches == [key : 0..MaxKeys, since : Times]
Idle(p) == [pc |-> "idle", at |-> p, token |-> 1, seen |-> 0, got |-> 0,
            judged |-> 0, known |-> FALSE]

\* warmupPublicKey: the key is fetched before the first request, or that failed.
Init ==
  /\ signer = 1
  /\ began = [k \in Keys |-> IF k = 1 THEN 0 ELSE Never]
  /\ ended = [k \in Keys |-> Never]
  /\ cache \in [Processes -> {NoKey, [key |-> 1, since |-> 0]}]
  /\ request \in {[r \in Requests |-> Idle(p)] : p \in Processes}
  /\ now = 0

Tick ==
  /\ now < Horizon /\ now' = now + 1
  /\ UNCHANGED <<signer, began, ended, cache, request>>

\* The auth service is started again with another pair of keys.
Rotate ==
  /\ signer < MaxKeys
  /\ signer' = signer + 1
  /\ began' = [began EXCEPT ![signer + 1] = now]
  /\ ended' = [ended EXCEPT ![signer] = now]
  /\ UNCHANGED <<cache, request, now>>

-----------------------------------------------------------------------------
\* Mutant: a key that was fetched is kept for good.
Fresh_Forever(p) == cache[p].key # 0

Fresh(p) == cache[p].key # 0 /\ now - cache[p].since <= Hour

Judged(r, key) == [request[r] EXCEPT !.pc = "judged", !.judged = now,
                                     !.known = (key = request[r].token)]

\* A token that some key of the auth service has signed; jwtVerify, or a fetch.
Arrive(r, p, k) ==
  /\ request[r].pc \in {"idle", "judged", "failed"}
  /\ k <= signer
  /\ LET arrived == [Idle(p) EXCEPT !.token = k, !.seen = now] IN
     request' = [request EXCEPT ![r] =
       IF Fresh(p) THEN [arrived EXCEPT !.pc = "judged", !.judged = now,
                                        !.known = (cache[p].key = k)]
       ELSE [arrived EXCEPT !.pc = "fetching"]]
  /\ UNCHANGED <<signer, began, ended, cache, now>>

\* GET /auth/public-key
Answer(r) ==
  /\ request[r].pc = "fetching"
  /\ request' = [request EXCEPT ![r].pc = "answered", ![r].got = signer]
  /\ UNCHANGED <<signer, began, ended, cache, now>>

\* Mutant: a key is as old as its answer.
Receive_Stamped(r) ==
  /\ request[r].pc = "answered"
  /\ cache' = [cache EXCEPT ![request[r].at] = [key |-> request[r].got, since |-> now]]
  /\ request' = [request EXCEPT ![r] = Judged(r, request[r].got)]
  /\ UNCHANGED <<signer, began, ended, now>>

\* A key is as old as the request for it, so that a slow answer that replaces a
\* newer one is fetched again the sooner.
Receive(r) ==
  /\ request[r].pc = "answered"
  /\ cache' = [cache EXCEPT ![request[r].at] =
                 [key |-> request[r].got, since |-> request[r].seen]]
  /\ request' = [request EXCEPT ![r] = Judged(r, request[r].got)]
  /\ UNCHANGED <<signer, began, ended, now>>

\* Without an answer the token is refused, whatever key the process holds.
Fail(r) ==
  /\ request[r].pc \in {"fetching", "answered"}
  /\ request' = [request EXCEPT ![r].pc = "failed"]
  /\ UNCHANGED <<signer, began, ended, cache, now>>

Next ==
  \/ Tick \/ Rotate
  \/ \E r \in Requests : Answer(r) \/ Receive(r) \/ Fail(r)
  \/ \E r \in Requests, p \in Processes, k \in Keys : Arrive(r, p, k)

Spec == Init /\ [][Next]_vars

-----------------------------------------------------------------------------
RequestTypes ==
  [pc : {"idle", "fetching", "answered", "judged", "failed"}, at : Processes,
   token : Keys, seen : Times, got : 0..MaxKeys, judged : Times, known : BOOLEAN]

\* Every variable keeps its type.
TypeOK ==
  /\ signer \in Keys
  /\ began \in [Keys -> 0..Never] /\ ended \in [Keys -> 0..Never]
  /\ cache \in [Processes -> Caches]
  /\ request \in [Requests -> RequestTypes]
  /\ now \in Times

Judgements == {request[r] : r \in {s \in Requests : request[s].pc = "judged"}}

\* A user is only taken for who he is by a key that the auth service had an hour
\* before, or later, however slow an answer was and whatever it overtook (gateway
\* jwt-verifier.ts 24-31, and the same lines of the other processes).
TakenIsRecent == \A j \in Judgements : j.known => ended[j.token] + Hour >= j.seen

\* A token of the auth service is refused only in the hour after its key came
\* into use, after the next key did, or because no answer came.
RefusedForAReason ==
  \A j \in Judgements :
    ~j.known => began[j.token] + Hour >= j.seen \/ ended[j.token] <= j.judged

-----------------------------------------------------------------------------
(* The inductive invariant, in parts.                                      *)

\* One key after the other is in use, the last of them still.
KeysFollow ==
  /\ \A k \in 1..signer : began[k] <= now
  /\ \A k \in signer..MaxKeys : ended[k] = Never
  /\ \A j, k \in 1..signer : j < k => ended[j] <= began[k]

\* A key that was fetched was in use when it was asked for, or later.
WasInUse(key, since) == key <= signer /\ since <= now /\ ended[key] >= since

CachesAreTrue == \A p \in Processes : cache[p].key # 0 => WasInUse(cache[p].key, cache[p].since)

RequestsAreTrue ==
  \A r \in Requests :
    /\ request[r].token <= signer /\ request[r].seen <= now
    /\ request[r].pc = "answered" =>
         request[r].got # 0 /\ WasInUse(request[r].got, request[r].seen)
    /\ request[r].pc = "judged" => request[r].judged <= now

IInv ==
  /\ TypeOK /\ TakenIsRecent /\ RefusedForAReason
  /\ KeysFollow /\ CachesAreTrue /\ RequestsAreTrue
=============================================================================
