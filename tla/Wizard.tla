------------------------------- MODULE Wizard -------------------------------
(***************************************************************************)
(* The window that creates a tournament, in four steps                     *)
(* (apps/web/src/components/tournament/CreateTournamentWizard.tsx), opened *)
(* on the page of an organizer (pages/Workspace.tsx), and the handler that *)
(* is sent its form (services/tournament/src/routes.ts).                   *)
(*                                                                         *)
(* A form has a name, a number of participants, a date and prizes; of a    *)
(* prize there is whether it has a text.  Other fields are never required; *)
(* they, and the lengths of texts, have limits like that of the number.    *)
(***************************************************************************)
EXTENDS Naturals, Sequences, SequencesExt

CONSTANTS
  Sizes,       \* numbers of participants that may be typed, 2 or more
  MaxPrizes,   \* bound: the prizes of a form
  MaxDrafts,   \* bound: how often the window is opened
  Calls        \* requests, each made once: a bound

VARIABLES
  page,        \* "workspace" or "elsewhere"
  window,      \* open; step; form
  submitting,  \* has the page a request under way?
  draft,       \* history: how often the window was opened
  call         \* requests: how far, their form; is the page that sent it still
               \* there?; history: the draft it was, was its tournament created,
               \* and its answer lost?

vars == <<page, window, submitting, draft, call>>

Names == {"short", "good"}
Prizes == UNION {[1..n -> BOOLEAN] : n \in 1..MaxPrizes}
Forms == [name : Names, size : Sizes, dated : BOOLEAN, prizes : Prizes]
initialForm == [name |-> "short", size |-> 8, dated |-> FALSE, prizes |-> <<FALSE>>]
Closed == [open |-> FALSE, step |-> 1, form |-> initialForm]

UnderWay(c) == call[c].pc \in {"sent", "made", "refused"}

Init ==
  /\ page = "workspace"
  /\ window = Closed
  /\ submitting = FALSE
  /\ draft = 0
  /\ call = [c \in Calls |-> [pc |-> "idle", form |-> initialForm, here |-> FALSE, draft |-> 0,
                              made |-> FALSE, lost |-> FALSE]]

-----------------------------------------------------------------------------
Open ==
  /\ page = "workspace" /\ ~window.open
  /\ draft < MaxDrafts /\ draft' = draft + 1
  /\ window' = [Closed EXCEPT !.open = TRUE]
  /\ UNCHANGED <<page, submitting, call>>

\* handleClose, at any step.
Close ==
  /\ window.open
  /\ window' = Closed
  /\ UNCHANGED <<page, submitting, draft, call>>

\* The fields of the step shown.
Typed(form) ==
  CASE window.step = 1 -> {[form EXCEPT !.name = n] : n \in Names}
                          \cup {[form EXCEPT !.size = n] : n \in Sizes}
    [] window.step = 2 -> {[form EXCEPT !.dated = d] : d \in BOOLEAN}
    [] window.step = 3 ->
         {[form EXCEPT !.prizes[i] = filled] : i \in DOMAIN form.prizes, filled \in BOOLEAN}
         \cup {[form EXCEPT !.prizes = p] : p \in
                 {Append(form.prizes, FALSE)} \cup {RemoveAt(form.prizes, i) : i \in DOMAIN form.prizes}}
    [] OTHER -> {}

Type ==
  /\ window.open
  /\ \E form \in Typed(window.form) \cap Forms :
       form # window.form /\ window' = [window EXCEPT !.form = form]
  /\ UNCHANGED <<page, submitting, draft, call>>

\* Mutant: only the first step is looked at.
canGoNext_First == window.step = 1 => window.form.name # "short"

canGoNext ==
  /\ window.step = 1 => window.form.name # "short" /\ window.form.size >= 2
  /\ window.step = 3 => \A i \in DOMAIN window.form.prizes : window.form.prizes[i]

Forward ==
  /\ window.open /\ window.step < 4 /\ canGoNext
  /\ window' = [window EXCEPT !.step = @ + 1]
  /\ UNCHANGED <<page, submitting, draft, call>>

Back ==
  /\ window.open /\ window.step > 1
  /\ window' = [window EXCEPT !.step = @ - 1]
  /\ UNCHANGED <<page, submitting, draft, call>>

-----------------------------------------------------------------------------
\* Mutant: the button can be pressed while its request is under way.
Create_Again(c) ==
  /\ window.open /\ window.step = 4
  /\ call[c].pc = "idle"
  /\ submitting' = TRUE
  /\ call' = [call EXCEPT ![c] = [@ EXCEPT !.pc = "sent", !.form = window.form,
                                           !.here = TRUE, !.draft = draft]]
  /\ UNCHANGED <<page, window, draft>>

\* handleCreate: the window may then be closed, opened and filled again.
Create(c) ==
  /\ window.open /\ window.step = 4 /\ ~submitting
  /\ call[c].pc = "idle"
  /\ submitting' = TRUE
  /\ call' = [call EXCEPT ![c] = [@ EXCEPT !.pc = "sent", !.form = window.form,
                                           !.here = TRUE, !.draft = draft]]
  /\ UNCHANGED <<page, window, draft>>

\* createTournamentSchema: a date needs a zone, which the page's has not.
Accepted(form) ==
  /\ form.name # "short" /\ form.size \in 2..500 /\ ~form.dated
  /\ Len(form.prizes) <= 20 /\ \A i \in DOMAIN form.prizes : form.prizes[i]

\* POST /organizer/tournaments
Serve(c) ==
  /\ call[c].pc = "sent"
  /\ call' = [call EXCEPT ![c].pc = IF Accepted(call[c].form) THEN "made" ELSE "refused",
                          ![c].made = Accepted(call[c].form)]
  /\ UNCHANGED <<page, window, submitting, draft>>

Leaves == [d \in Calls |-> [call[d] EXCEPT !.here = FALSE]]

\* Whatever the organizer does meanwhile, the page of the new tournament is shown.
Receive(c) ==
  /\ call[c].pc = "made"
  /\ page' = "elsewhere" /\ window' = Closed /\ submitting' = FALSE
  /\ call' = [Leaves EXCEPT ![c].pc = "done", ![c].form = initialForm]
  /\ UNCHANGED draft

\* Mutant: the button stays as it is after an error.
Fail_Submitting(c) ==
  /\ UnderWay(c)
  /\ call' = [call EXCEPT ![c] = [@ EXCEPT !.pc = "failed", !.form = initialForm,
                                           !.here = FALSE, !.lost = (call[c].pc = "made")]]
  /\ UNCHANGED <<page, window, submitting, draft>>

\* Refused, or the answer is lost: the form is kept.
Fail(c) ==
  /\ UnderWay(c)
  /\ submitting' = (submitting /\ ~call[c].here)
  /\ call' = [call EXCEPT ![c] = [@ EXCEPT !.pc = "failed", !.form = initialForm,
                                           !.here = FALSE, !.lost = (call[c].pc = "made")]]
  /\ UNCHANGED <<page, window, draft>>

\* The component goes with its page.
Leave ==
  /\ page = "workspace"
  /\ page' = "elsewhere" /\ window' = Closed /\ submitting' = FALSE
  /\ call' = Leaves
  /\ UNCHANGED draft

Return ==
  /\ page = "elsewhere"
  /\ page' = "workspace"
  /\ UNCHANGED <<window, submitting, draft, call>>

Next ==
  \/ Open \/ Close \/ Type \/ Forward \/ Back \/ Leave \/ Return
  \/ \E c \in Calls : Create(c) \/ Serve(c) \/ Receive(c) \/ Fail(c)

Spec == Init /\ [][Next]_vars

-----------------------------------------------------------------------------
\* Every variable keeps its type.
TypeOK ==
  /\ page \in {"workspace", "elsewhere"}
  /\ window \in [open : BOOLEAN, step : 1..4, form : Forms]
  /\ submitting \in BOOLEAN /\ draft \in 0..MaxDrafts
  /\ call \in [Calls -> [pc : {"idle", "sent", "made", "refused", "done", "failed"}, form : Forms,
                         here : BOOLEAN, draft : 0..MaxDrafts, made : BOOLEAN, lost : BOOLEAN]]

\* However an organizer went to and fro, the form of the last step is complete,
\* and is refused only for a date, or for being over a limit, at which no step
\* looks (CreateTournamentWizard.tsx 148-154, tournament routes.ts 63-77).
FormsAreComplete ==
  /\ window.step = 4 => /\ window.form.name # "short"
                        /\ \A i \in DOMAIN window.form.prizes : window.form.prizes[i]
  /\ \A c \in Calls : call[c].pc = "refused" =>
       call[c].form.dated \/ call[c].form.size > 500 \/ Len(call[c].form.prizes) > 20

\* A form creates one tournament, unless an answer was lost
\* (CreateTournamentWizard.tsx 158-194).
CreatedOnce ==
  \A c, d \in Calls :
    (c # d /\ call[c].made /\ call[d].made /\ call[c].draft = call[d].draft) =>
      call[c].lost \/ call[d].lost

\* The button waits for a request of its page, and for nothing else.
WaitsForItsRequest == submitting <=> \E c \in Calls : call[c].here /\ UnderWay(c)

-----------------------------------------------------------------------------
(* The inductive invariant, in parts.                                      *)

Complete(form) ==
  form.name # "short" /\ \A i \in DOMAIN form.prizes : form.prizes[i]

\* What the steps before have looked at stays; only what is complete is sent.
StepsAreLookedAt ==
  /\ window.step > 1 => window.form.name # "short"
  /\ window.step = 4 => Complete(window.form)
  /\ \A c \in Calls : call[c].pc = "sent" => Complete(call[c].form)

\* A request whose tournament may yet come to be, or has, with an answer.
Alive(c) == call[c].pc = "sent" \/ (call[c].made /\ ~call[c].lost)

MadeIsAnswered ==
  \A c \in Calls :
    /\ call[c].made => \/ call[c].pc \in {"made", "done"}
                       \/ call[c].pc = "failed" /\ call[c].lost
    /\ call[c].draft <= draft

\* The page has one request, and the window that is open sends no second one.
OneRequest ==
  /\ \A c, d \in Calls : call[c].here /\ UnderWay(c) /\ call[d].here /\ UnderWay(d) => c = d
  /\ window.open => \A c \in Calls :
       Alive(c) /\ call[c].draft = draft => call[c].here /\ UnderWay(c)
  /\ \A c, d \in Calls : Alive(c) /\ Alive(d) /\ call[c].draft = call[d].draft => c = d

IInv == /\ TypeOK /\ FormsAreComplete /\ CreatedOnce /\ WaitsForItsRequest
        /\ StepsAreLookedAt /\ MadeIsAnswered /\ OneRequest
=============================================================================
