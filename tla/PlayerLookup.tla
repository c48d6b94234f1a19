---------------------------- MODULE PlayerLookup ----------------------------
(***************************************************************************)
(* The window in which an organizer adds a participant by phone:           *)
(* AddParticipantModal and handleOrganizerAdd of                           *)
(* apps/web/src/pages/TournamentDetail.tsx, with the answer of             *)
(* POST /auth/lookup-by-phone.  The window stays mounted when it is        *)
(* closed; a lookup begins 400 ms after a phone has become valid, and      *)
(* nothing takes it back.                                                  *)
(***************************************************************************)
EXTENDS Naturals

CONSTANTS
  Phones,
  Accounts,    \* the phones that have an account, named by its phone
  Lookups,     \* lookups under way at once
  None         \* no phone that is valid, no account

VARIABLES
  open,        \* the window is shown
  phone,       \* the phone in the field, None while it is not valid
  found,       \* the account found
  timer,       \* the phone the debounced lookup waits with
  lookup,      \* the phone each lookup is for
  listed,      \* phones of the tournament's participants, as the page has them
  sent,        \* the last registration: phone and account
  stale        \* history: what was found is of a phone that was not in the field

vars == <<open, phone, found, timer, lookup, listed, sent, stale>>

Nobody == [phone |-> None, account |-> None]

Init ==
  /\ open = FALSE
  /\ phone = None /\ found = None /\ timer = None
  /\ lookup = [l \in Lookups |-> None]
  /\ listed \in SUBSET Phones
  /\ sent = Nobody
  /\ stale = FALSE

\* The effect of opening empties the fields ...
Open ==
  /\ ~open /\ open' = TRUE
  /\ phone' = None /\ found' = None
  /\ stale' = FALSE
  /\ UNCHANGED <<timer, lookup, listed, sent>>

\* ... and that of closing stops the timer, but not the lookups.
Close ==
  /\ open /\ open' = FALSE
  /\ timer' = None
  /\ UNCHANGED <<phone, found, lookup, listed, sent, stale>>

\* Mutant: what was found stays when the phone is changed.
Type_Keeps(p) ==
  /\ open /\ p # phone
  /\ phone' = p /\ timer' = p
  /\ UNCHANGED <<open, found, lookup, listed, sent, stale>>

\* onPhoneChange
Type(p) ==
  /\ open /\ p # phone
  /\ phone' = p /\ found' = None /\ timer' = p
  /\ stale' = FALSE
  /\ UNCHANGED <<open, lookup, listed, sent>>

\* doLookup: a phone that is listed is only told to be.
Look(p) ==
  IF p \in listed THEN UNCHANGED <<lookup, found>>
  ELSE \E l \in Lookups : /\ lookup[l] = None
                          /\ lookup' = [lookup EXCEPT ![l] = p]
                          /\ found' = None

Fire ==
  /\ timer # None /\ timer' = None
  /\ Look(timer)
  /\ UNCHANGED <<open, phone, listed, sent, stale>>

\* The answer: an account, none (404), an error, or an account that the
\* tournament has already.
Answer(l) ==
  /\ lookup[l] # None
  /\ lookup' = [lookup EXCEPT ![l] = None]
  /\ \/ /\ lookup[l] \in Accounts
        /\ found' = lookup[l]
        /\ stale' = (stale \/ phone # lookup[l])
     \/ UNCHANGED <<found, stale>>
  /\ UNCHANGED <<open, phone, timer, listed, sent>>

\* The cross beside what was found.
Forget ==
  /\ open /\ found # None /\ found' = None
  /\ UNCHANGED <<open, phone, timer, lookup, listed, sent, stale>>

\* submit: the phone in the field, the account found.  The server refuses it,
\* or the window is closed and the participants are read again.
Submit ==
  /\ open /\ phone # None /\ phone \notin listed
  /\ sent' = [phone |-> phone, account |-> found]
  /\ \/ /\ open' = FALSE /\ timer' = None
        /\ listed' = listed \cup {phone}
     \/ UNCHANGED <<open, timer, listed>>
  /\ UNCHANGED <<phone, found, lookup, stale>>

\* Participants leave.
Leave(p) ==
  /\ p \in listed /\ listed' = listed \ {p}
  /\ UNCHANGED <<open, phone, found, timer, lookup, sent, stale>>

Next ==
  \/ Open \/ Close \/ Fire \/ Forget \/ Submit
  \/ \E p \in Phones \cup {None} : Type(p)
  \/ \E p \in Phones : Leave(p)
  \/ \E l \in Lookups : Answer(l)

Spec == Init /\ [][Next]_vars

-----------------------------------------------------------------------------
\* Every variable keeps its type.
TypeOK ==
  /\ open \in BOOLEAN /\ stale \in BOOLEAN
  /\ phone \in Phones \cup {None} /\ timer \in Phones \cup {None}
  /\ found \in Accounts \cup {None}
  /\ lookup \in [Lookups -> Phones \cup {None}]
  /\ listed \subseteq Phones
  /\ sent \in [phone : Phones \cup {None}, account : Accounts \cup {None}]

\* The account that is registered is the one of the phone that is registered,
\* as long as no answer has come late, for a phone that was changed meanwhile
\* or for a window that was closed (TournamentDetail.tsx 945-958, 1004-1008).
AddsTheOneFound == sent'.account \in {None, sent'.phone} \/ sent' = sent \/ stale

AddedIsTheOneFound == [][AddsTheOneFound]_vars

-----------------------------------------------------------------------------
\* The inductive invariant: what was found belongs to the phone in the field.
IInv == TypeOK /\ (~stale => found \in {None, phone})
=============================================================================
