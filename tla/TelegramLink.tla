---------------------------- MODULE TelegramLink ----------------------------
(***************************************************************************)
(* Tying an account to a Telegram chat: the link codes and the consume,    *)
(* unlink and link-token handlers of services/auth/src/routes.ts, and the  *)
(* bot's /start (services/bot/src/bot.ts, auth-client.ts).  The code is    *)
(* judged before the transaction that uses it.                             *)
(***************************************************************************)
EXTENDS Naturals, FiniteSets

CONSTANTS Users, Chats, Codes, None,
  Commands    \* /start commands under way at once

VARIABLES
  chat,       \* the chat of each user
  code,       \* the state of each link code
  owner,      \* the user who asked for it
  start,      \* each /start: its chat, its code, and how far it is
  told,       \* what the bot last answered in each chat
  crossed     \* history: have two /start of one code crossed?

vars == <<chat, code, owner, start, told, crossed>>

NoStart == [pc |-> "idle", chat |-> None, code |-> None]

Init ==
  /\ chat = [u \in Users |-> None]
  /\ code = [k \in Codes |-> "free"]
  /\ owner = [k \in Codes |-> None]
  /\ start = [s \in Commands |-> NoStart]
  /\ told = [c \in Chats |-> None]
  /\ crossed = FALSE

\* POST /auth/me/telegram/link-token; a code lives for ten minutes.
LinkToken(u, k) ==
  /\ code[k] = "free"
  /\ code' = [code EXCEPT ![k] = "fresh"]
  /\ owner' = [owner EXCEPT ![k] = u]
  /\ UNCHANGED <<chat, start, told, crossed>>

Expire(k) ==
  /\ code[k] = "fresh" /\ code' = [code EXCEPT ![k] = "expired"]
  /\ UNCHANGED <<chat, owner, start, told, crossed>>

\* DELETE /auth/me/telegram
Unlink(u) ==
  /\ chat[u] # None /\ chat' = [chat EXCEPT ![u] = None]
  /\ UNCHANGED <<code, owner, start, told, crossed>>

\* The bot's /start.
Send(s, c, k) ==
  /\ start[s] = NoStart
  /\ start' = [start EXCEPT ![s] = [pc |-> "sent", chat |-> c, code |-> k]]
  /\ crossed' = (crossed \/ \E r \in Commands : start[r].code = k)
  /\ UNCHANGED <<chat, code, owner, told>>

Tell(s, what) ==
  /\ told' = [told EXCEPT ![start[s].chat] = what]
  /\ start' = [start EXCEPT ![s] = NoStart]

Refusal(k) == CASE code[k] = "free" -> "TOKEN_NOT_FOUND"
                [] code[k] = "used" -> "TOKEN_USED"
                [] code[k] = "expired" -> "TOKEN_EXPIRED"

\* Mutant: a used code is good for as long as it lives.
Judge_Used(s) ==
  /\ start[s].pc = "sent"
  /\ IF code[start[s].code] \in {"fresh", "used"}
     THEN start' = [start EXCEPT ![s].pc = "judged"] /\ UNCHANGED told
     ELSE Tell(s, Refusal(start[s].code))
  /\ UNCHANGED <<chat, code, owner, crossed>>

Judge(s) ==
  /\ start[s].pc = "sent"
  /\ IF code[start[s].code] = "fresh"
     THEN start' = [start EXCEPT ![s].pc = "judged"] /\ UNCHANGED told
     ELSE Tell(s, Refusal(start[s].code))
  /\ UNCHANGED <<chat, code, owner, crossed>>

\* The transaction: the user's chat and the used code, or neither when another
\* user has the chat.
Consume(s) ==
  LET c == start[s].chat  k == start[s].code  u == owner[k] IN
  /\ start[s].pc = "judged"
  /\ IF \E v \in Users \ {u} : chat[v] = c
     THEN Tell(s, "CHAT_ALREADY_LINKED") /\ UNCHANGED <<chat, code>>
     ELSE /\ chat' = [chat EXCEPT ![u] = c]
          /\ code' = [code EXCEPT ![k] = "used"]
          /\ Tell(s, "linked")
  /\ UNCHANGED <<owner, crossed>>

\* The auth service does not answer.
Fail(s) ==
  /\ start[s].pc # "idle" /\ Tell(s, "OTHER")
  /\ UNCHANGED <<chat, code, owner, crossed>>

Next ==
  \/ \E u \in Users : Unlink(u)
  \/ \E u \in Users, k \in Codes : LinkToken(u, k)
  \/ \E k \in Codes : Expire(k)
  \/ \E s \in Commands, c \in Chats, k \in Codes : Send(s, c, k)
  \/ \E s \in Commands : Judge(s) \/ Consume(s) \/ Fail(s)

Spec == Init /\ [][Next]_vars

-----------------------------------------------------------------------------
\* Every variable keeps its type.
TypeOK ==
  /\ chat \in [Users -> Chats \cup {None}]
  /\ owner \in [Codes -> Users \cup {None}]
  /\ start \in [Commands -> [pc : {"idle", "sent", "judged"}, chat : Chats \cup {None},
                            code : Codes \cup {None}]]
  /\ code \in [Codes -> {"free", "fresh", "used", "expired"}]
  /\ DOMAIN told = Chats
  /\ crossed \in BOOLEAN

\* A code ties one chat only ("Одноразовый токен", schema.prisma 53: a one-time
\* token), as long as two commands do not carry it at the same moment; and a
\* chat is tied to one user, who had asked for the code it sent (routes.ts
\* 497-520).
Serves ==
  \A u \in Users :
    chat'[u] \notin {chat[u], None} =>
      /\ \E s \in Commands :
           LET k == start[s].code IN
           /\ start[s].chat = chat'[u] /\ owner[k] = u
           /\ code'[k] = "used" /\ (code[k] # "used" \/ crossed)
      /\ \A v \in Users \ {u} : chat'[v] # chat'[u]

CodesServeOnce == [][Serves]_vars

-----------------------------------------------------------------------------
(* The inductive invariant, in parts.                                      *)

StartsAreWhole ==
  \A s \in Commands : start[s] # NoStart => start[s].chat \in Chats /\ start[s].code \in Codes

\* A code that was judged is still good, unless another command carries it.
JudgedIsGood ==
  ~crossed => /\ \A s \in Commands : start[s].pc = "judged" => code[start[s].code] # "used"
              /\ \A r, s \in Commands : start[r] # NoStart /\ start[r].code = start[s].code => r = s

IInv == TypeOK /\ StartsAreWhole /\ JudgedIsGood
=============================================================================
