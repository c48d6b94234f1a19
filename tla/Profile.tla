------------------------------ MODULE Profile ------------------------------
(***************************************************************************)
(* The profile of a user: PATCH /auth/me, GET /auth/me, the API password   *)
(* and the upload of an avatar (services/auth/src/routes.ts, s3.ts), the   *)
(* settings page that calls them (SettingsTab.tsx) and the store it shows  *)
(* (apps/web/src/store/auth.ts).  The page may be open in several tabs.    *)
(*                                                                         *)
(* Texts that the page would not send, and phones of other users, are left *)
(* out: they are refused, which is a failed call.                          *)
(***************************************************************************)
EXTENDS Naturals

CONSTANTS
  Tabs, Calls,  \* requests, each made once: a bound
  Forms,        \* the text fields of each form of the page
  Values,       \* what may be typed in a field; 0 is what it had at first
  Files         \* avatars that are uploaded; 0 is none

Texts == UNION Forms
Fields == Texts \cup {"avatar", "password"}

VARIABLES
  row,          \* the user: his rows of User and ClubApiPassword
  stored,       \* avatars in the storage
  user,         \* each tab: the user of its store
  draft,        \* what its text fields hold
  typed,        \* history: the fields typed in since they were last set
  call,         \* requests and their local variables; history: what was typed
                \* when it was sent, and whether the user changed since it read
  behind        \* history: tabs that may not show the user as he is

vars == <<row, stored, user, draft, typed, call, behind>>

NoPatch == [f \in {} |-> 0]
Request(t) == [pc |-> "idle", tab |-> t, kind |-> "form", patch |-> NoPatch,
               read |-> NoPatch, meant |-> {}, stale |-> FALSE]
Over(t) == [Request(t) EXCEPT !.pc = "over"]
UnderWay == {c \in Calls : call[c].pc \notin {"idle", "over"}}

Init ==
  /\ row = [f \in Fields |-> 0]
  /\ stored = {0}
  /\ user = [t \in Tabs |-> row]
  /\ draft = [t \in Tabs |-> [f \in Texts |-> 0]]
  /\ typed = [t \in Tabs |-> {}]
  /\ call \in {[c \in Calls |-> Request(t)] : t \in Tabs}
  /\ behind = {}

page == <<user, draft, typed>>

-----------------------------------------------------------------------------
\* To type what the store has is to take the change back.
Type(t, f, v) ==
  /\ v \notin {draft[t][f], user[t][f]}
  /\ draft' = [draft EXCEPT ![t][f] = v]
  /\ typed' = [typed EXCEPT ![t] = @ \cup {f}]
  /\ UNCHANGED <<row, stored, user, call, behind>>

\* The button that takes the changes back.
Reset(t, form) ==
  /\ \E f \in form : draft[t][f] # user[t][f]
  /\ draft' = [draft EXCEPT ![t] = [f \in Texts |-> IF f \in form THEN user[t][f] ELSE @[f]]]
  /\ typed' = [typed EXCEPT ![t] = @ \ form]
  /\ UNCHANGED <<row, stored, user, call, behind>>

Sends(c, t, pc, kind, patch) ==
  /\ call[c].pc = "idle"
  /\ call' = [call EXCEPT ![c] = [Request(t) EXCEPT !.pc = pc, !.kind = kind, !.patch = patch,
                                                 !.meant = typed[t]]]
  /\ UNCHANGED <<row, stored, page, behind>>

\* Some buttons wait for the request before; "loading" does not disable one that
\* is told whether to be disabled (Button.tsx 50), such as those that save.
Waits(t, kind) == \A d \in UnderWay : call[d].tab # t \/ call[d].kind # kind

\* Mutant: all fields of the form are sent.
Save_All(c, t, form) ==
  /\ \E f \in form : draft[t][f] # user[t][f]
  /\ Sends(c, t, "sent", "form", [f \in form |-> draft[t][f]])

\* save: the fields that are not what the store has.
Save(c, t, form) ==
  LET dirty == {f \in form : draft[t][f] # user[t][f]} IN
  /\ dirty # {}
  /\ Sends(c, t, "sent", "form", [f \in dirty |-> draft[t][f]])

\* Mutant: the avatar is named before it is in the storage.
Upload_First(c, t, n) ==
  /\ n \notin stored
  /\ Waits(t, "upload") /\ Sends(c, t, "sent", "upload", [f \in {"avatar"} |-> n])

\* upload: a presigned URL, the storage, then the patch; remove, which does not
\* wait for it.
Upload(c, t, n) ==
  /\ n \notin stored
  /\ \A d \in Calls : call[d].pc = "put" => call[d].patch["avatar"] # n
  /\ Waits(t, "upload") /\ Sends(c, t, "put", "upload", [f \in {"avatar"} |-> n])

Put(c) ==
  /\ call[c].pc = "put"
  /\ stored' = stored \cup {call[c].patch["avatar"]}
  /\ call' = [call EXCEPT ![c].pc = "sent"]
  /\ UNCHANGED <<row, page, behind>>

Remove(c, t) ==
  /\ user[t]["avatar"] # 0
  /\ Sends(c, t, "sent", "remove", [f \in {"avatar"} |-> 0])

\* setApiPassword and removeApiPassword.
SetPassword(c, t) == Sends(c, t, "password", "password", [f \in {"password"} |-> 1])

RemovePassword(c, t) ==
  /\ user[t]["password"] = 1
  /\ Waits(t, "no password")
  /\ Sends(c, t, "password", "no password", [f \in {"password"} |-> 0])

-----------------------------------------------------------------------------
Patched(patch) == [f \in Fields |-> IF f \in DOMAIN patch THEN patch[f] ELSE row[f]]

\* A call changes the user: answers read before are stale, the tabs behind.
Changes(c, pc, read) ==
  /\ row' = Patched(call[c].patch)
  /\ call' = [d \in Calls |->
                IF d = c THEN [call[c] EXCEPT !.pc = pc, !.read = read]
                ELSE [call[d] EXCEPT !.stale = @ \/ call[d].pc \in {"counting", "read"}]]
  /\ behind' = Tabs
  /\ UNCHANGED <<stored, page>>

\* The answer is heard.
End(c) ==
  /\ call' = [call EXCEPT ![c] = Over(call[c].tab)]
  /\ behind' = IF call[c].stale THEN behind \cup {call[c].tab} ELSE behind \ {call[c].tab}
  /\ UNCHANGED <<row, stored>>

\* PATCH /auth/me: the row of User ...
Serve(c) ==
  /\ call[c].pc = "sent"
  /\ Changes(c, "counting", Patched(call[c].patch))

\* POST, DELETE /auth/me/api-password; GET /auth/me comes after it ...
ServePassword(c) ==
  /\ call[c].pc = "password"
  /\ Changes(c, "me", NoPatch)

\* Mutant: the user is not read again after his API password was set.
Me_Skipped(c) ==
  /\ call[c].pc = "me"
  /\ End(c) /\ UNCHANGED page

Me(c) ==
  /\ call[c].pc = "me"
  /\ call' = [call EXCEPT ![c] = [@ EXCEPT !.pc = "counting", !.read = row]]
  /\ UNCHANGED <<row, stored, page, behind>>

\* ... and then hasApiPasswordFor.
Count(c) ==
  /\ call[c].pc = "counting"
  /\ call' = [call EXCEPT ![c] = [@ EXCEPT !.pc = "read", !.read["password"] = row["password"]]]
  /\ UNCHANGED <<row, stored, page, behind>>

\* Mutant: the fields keep what they hold when the store's user changes.
Receive_Keeps(c) ==
  /\ call[c].pc = "read"
  /\ user' = [user EXCEPT ![call[c].tab] = call[c].read]
  /\ End(c)
  /\ UNCHANGED <<draft, typed>>

\* The store has the user who was answered; the effects set the text fields that
\* have changed.
Receive(c) ==
  LET t == call[c].tab  read == call[c].read
      set == {f \in Texts : read[f] # user[t][f]} IN
  /\ call[c].pc = "read"
  /\ user' = [user EXCEPT ![t] = read]
  /\ draft' = [draft EXCEPT ![t] = [f \in Texts |-> IF f \in set THEN read[f] ELSE @[f]]]
  /\ typed' = [typed EXCEPT ![t] = @ \ set]
  /\ End(c)

\* Refused, or the answer is lost: the page shows an error and keeps its user.
Fail(c) ==
  /\ c \in UnderWay
  /\ call' = [call EXCEPT ![c] = Over(call[c].tab)]
  /\ UNCHANGED <<row, stored, page, behind>>

Next ==
  \/ \E t \in Tabs, f \in Texts, v \in Values : Type(t, f, v)
  \/ \E t \in Tabs, form \in Forms : Reset(t, form)
  \/ \E c \in Calls, t \in Tabs, form \in Forms : Save(c, t, form)
  \/ \E c \in Calls, t \in Tabs, n \in Files : Upload(c, t, n)
  \/ \E c \in Calls, t \in Tabs : Remove(c, t) \/ SetPassword(c, t) \/ RemovePassword(c, t)
  \/ \E c \in Calls : \/ Put(c) \/ Serve(c) \/ ServePassword(c) \/ Me(c) \/ Count(c)
                      \/ Receive(c) \/ Fail(c)

Spec == Init /\ [][Next]_vars

-----------------------------------------------------------------------------
Rows == [Fields -> Values \cup Files \cup {0, 1}]

\* Every variable keeps its type.
TypeOK ==
  /\ row \in Rows /\ user \in [Tabs -> Rows]
  /\ stored \subseteq Files \cup {0}
  /\ draft \in [Tabs -> [Texts -> Values]]
  /\ typed \in [Tabs -> SUBSET Texts]
  /\ \A c \in Calls : /\ call[c].tab \in Tabs /\ call[c].meant \subseteq Texts
                      /\ call[c].pc = "read" => call[c].read \in Rows
  /\ behind \subseteq Tabs

\* Saving a form never undoes what was saved in another tab: a text changes only
\* to what was typed in the tab that saves it (SettingsTab.tsx 212-240).
ChangesWhatWasTyped ==
  \A f \in Texts :
    row'[f] # row[f] => \E c \in Calls : /\ call[c].pc = "sent" /\ call'[c].pc = "counting"
                                         /\ f \in call[c].meant

NothingIsUndone == [][ChangesWhatWasTyped]_vars

\* The user's avatar is one that is in the storage (SettingsTab.tsx 46-66).
AvatarIsStored == row["avatar"] \in stored

\* A tab whose last request came to its end, and whose answer the user has not
\* outrun, shows the user as he is, the API password that makes his tournaments
\* free included (store/auth.ts 97-121, routes.ts 349-354).
EndedIsShown == \A t \in Tabs \ behind : user[t] = row

-----------------------------------------------------------------------------
(* The inductive invariant, in parts.                                      *)

Patches == UNION {[S -> Values \cup Files \cup {0, 1}] : S \in SUBSET Fields}

RequestTypes ==
  [pc : {"idle", "put", "sent", "password", "me", "counting", "read", "over"}, tab : Tabs,
   kind : {"form", "upload", "remove", "password", "no password"},
   patch : Patches, read : Patches, meant : SUBSET Texts, stale : BOOLEAN]

\* The texts that a request changes were typed when it was sent, its avatar is in
\* the storage, and what it read is what the user has unless it is stale.
Whole(request) ==
  LET patch == request.patch  read == request.read IN
  /\ request.pc = "put" => DOMAIN patch = {"avatar"} /\ patch["avatar"] \in Files
  /\ request.pc = "sent" =>
       \A f \in DOMAIN patch : /\ f \in Texts => f \in request.meant /\ patch[f] \in Values
                               /\ f = "avatar" => patch[f] \in stored
  /\ request.pc = "password" => DOMAIN patch = {"password"}
  /\ request.pc \in {"counting", "read"} =>
       /\ read \in Rows /\ \A f \in Texts : read[f] \in Values
       /\ ~request.stale => read = row

RequestsAreWhole == call \in [Calls -> RequestTypes] /\ \A c \in Calls : Whole(call[c])

\* A field holds what the store has, or what was typed in it.
DraftsAreTyped ==
  \A t \in Tabs, f \in Texts : draft[t][f] # user[t][f] => f \in typed[t]

TextsAreTyped == \A f \in Texts : row[f] \in Values /\ \A t \in Tabs : user[t][f] \in Values

IInv == /\ TypeOK /\ 0 \in stored /\ AvatarIsStored /\ EndedIsShown
        /\ RequestsAreWhole /\ DraftsAreTyped /\ TextsAreTyped
=============================================================================
