---------------------------- MODULE Pages_proofs ----------------------------
(***************************************************************************)
(* Proofs about the parts of Parts that are pages, stores, the hub they    *)
(* hear from and the reminders, beside those of Parts_proofs, which cites  *)
(* them: the window that creates a tournament, the page of a tournament,   *)
(* the store of tournaments, the settings, the room of a club and the      *)
(* scheduler.  They hold for any number of requests, tabs, sockets,        *)
(* tournaments, participants and runs of the scheduler.                    *)
(***************************************************************************)
EXTENDS Parts, SequenceTheorems, FiniteSetTheorems, TLAPS

-----------------------------------------------------------------------------
(* The window that creates a tournament (Wizard).                          *)

LEMMA FirstForm ==
  ASSUME PartsAssumption
  PROVE  Creation!initialForm \in Creation!Forms /\ Creation!Closed.form = Creation!initialForm
<1>1. <<FALSE>> \in Creation!Prizes
  <2>1. <<FALSE>> \in [1..1 -> BOOLEAN]
    <3>1. <<FALSE>> \in Seq(BOOLEAN) /\ Len(<<FALSE>>) = 1
      OBVIOUS
    <3> QED BY <3>1, LenProperties
  <2>2. 1 \in 1..MaxPrizes
    BY DEF PartsAssumption
  <2> QED BY <2>1, <2>2 DEF Creation!Prizes
<1> QED BY <1>1 DEF PartsAssumption, Creation!initialForm, Creation!Forms, Creation!Names,
                    Creation!Closed

LEMMA CreationBegins == ASSUME PartsAssumption, Creation!Init PROVE Creation!IInv
<1> USE FirstForm DEF Creation!Init
<1>1. Creation!TypeOK
  <2>1. v2 \in [open : BOOLEAN, step : 1..4, form : Creation!Forms]
    BY DEF Creation!Closed
  <2>2. 0 \in 0..MaxDrafts
    BY DEF PartsAssumption
  <2>3. v5 \in [Calls -> [pc : {"idle", "sent", "made", "refused", "done", "failed"},
                         form : Creation!Forms, here : BOOLEAN, draft : 0..MaxDrafts,
                         made : BOOLEAN, lost : BOOLEAN]]
    BY <2>2
  <2> QED BY <2>1, <2>2, <2>3 DEF Creation!TypeOK
<1>2. ~v2.open /\ v2.step = 1 /\ \A c \in Calls : v5[c].pc = "idle" /\ ~v5[c].made /\ v5[c].draft = 0
  BY DEF Creation!Closed
<1>3. Creation!FormsAreComplete /\ Creation!CreatedOnce /\ Creation!WaitsForItsRequest
  BY <1>2 DEF Creation!FormsAreComplete, Creation!CreatedOnce, Creation!WaitsForItsRequest,
              Creation!UnderWay
<1>4. Creation!StepsAreLookedAt /\ Creation!MadeIsAnswered /\ Creation!OneRequest
  BY <1>2, PartsAssumption
  DEF PartsAssumption, Creation!StepsAreLookedAt, Creation!MadeIsAnswered, Creation!OneRequest,
      Creation!Alive, Creation!UnderWay
<1> QED BY <1>1, <1>3, <1>4 DEF Creation!IInv

\* The window is filled in: the requests stay.
LEMMA CreationIsFilled ==
  ASSUME PartsAssumption, Creation!IInv, Creation!Type \/ Creation!Forward \/ Creation!Back
  PROVE  Creation!IInv'
<1> DEFINE window == v2  requests == v5
<1> USE DEF Creation!IInv
<1>1. /\ UNCHANGED <<v1, v3, v4, requests>> /\ window.open /\ window'.open
      /\ window' \in [open : BOOLEAN, step : 1..4, form : Creation!Forms]
      /\ window'.step > 1 => window'.form.name # "short"
      /\ window'.step = 4 => Creation!Complete(window'.form)
  <2> USE DEF Creation!TypeOK, Creation!StepsAreLookedAt
  <2>1. CASE Creation!Type
    <3>1. PICK form \in Creation!Typed(window.form) \cap Creation!Forms :
            window' = [window EXCEPT !.form = form]
      BY <2>1 DEF Creation!Type
    <3>2. window'.step = window.step /\ window'.form = form /\ window'.open = window.open
      BY <3>1
    <3>3. window.step \in 2..3 => form.name = window.form.name
      <4>1. ASSUME window.step = 2 PROVE form.name = window.form.name
        BY <3>1, <4>1 DEF Creation!Typed, Creation!Forms
      <4>2. ASSUME window.step = 3 PROVE form.name = window.form.name
        <5> DEFINE typed == {[window.form EXCEPT !.prizes[i] = filled] :
                               i \in DOMAIN window.form.prizes, filled \in BOOLEAN}
                   fewer == {Creation!RemoveAt(window.form.prizes, i) : i \in DOMAIN window.form.prizes}
                   other == {[window.form EXCEPT !.prizes = p] :
                               p \in {Append(window.form.prizes, FALSE)} \cup fewer}
        <5>1. Creation!Typed(window.form) = typed \cup other
          BY <4>2 DEF Creation!Typed
        <5>2. CASE form \in typed
          <6>1. PICK i \in DOMAIN window.form.prizes, filled \in BOOLEAN :
                  form = [window.form EXCEPT !.prizes[i] = filled]
            BY <5>2
          <6> QED BY <6>1 DEF Creation!Forms
        <5>3. CASE form \in other
          <6>1. PICK p \in {Append(window.form.prizes, FALSE)} \cup fewer :
                  form = [window.form EXCEPT !.prizes = p]
            BY <5>3, Zenon
          <6> QED BY <6>1 DEF Creation!Forms
        <5>4. form \in typed \/ form \in other
          <6> HIDE DEF typed, other
          <6> QED BY <3>1, <5>1
        <5> HIDE DEF typed, other
        <5> QED BY <5>2, <5>3, <5>4
      <4> QED BY <4>1, <4>2
    <3>4. window.step # 4
      <4>1. ASSUME window.step = 4 PROVE Creation!Typed(window.form) = {}
        BY <4>1 DEF Creation!Typed
      <4> QED BY <3>1, <4>1
    <3> QED BY <2>1, <3>1, <3>2, <3>3, <3>4 DEF Creation!Type
  <2>2. CASE Creation!Forward
    <3>1. /\ window.step < 4 /\ window' = [window EXCEPT !.step = window.step + 1] /\ Creation!canGoNext
          /\ UNCHANGED <<v1, v3, v4, requests>> /\ window.open
      BY <2>2 DEF Creation!Forward
    <3>2. window'.step = window.step + 1 /\ window'.form = window.form /\ window'.open = window.open
      BY <3>1
    <3>3. window'.form.name # "short"
      BY <3>1, <3>2 DEF Creation!canGoNext
    <3>4. window'.step = 4 => Creation!Complete(window'.form)
      BY <3>1, <3>2, <3>3 DEF Creation!canGoNext, Creation!Complete
    <3> QED BY <3>1, <3>2, <3>3, <3>4
  <2>3. CASE Creation!Back
    BY <2>3 DEF Creation!Back
  <2> QED BY <2>1, <2>2, <2>3
<1>2. Creation!TypeOK'
  BY <1>1 DEF Creation!TypeOK
<1>3. Creation!FormsAreComplete' /\ Creation!StepsAreLookedAt'
  BY <1>1 DEF Creation!FormsAreComplete, Creation!StepsAreLookedAt, Creation!Complete
<1>4. Creation!CreatedOnce' /\ Creation!WaitsForItsRequest' /\ Creation!MadeIsAnswered'
  BY <1>1 DEF Creation!CreatedOnce, Creation!WaitsForItsRequest, Creation!MadeIsAnswered,
              Creation!UnderWay
<1>5. Creation!OneRequest'
  BY <1>1 DEF Creation!OneRequest, Creation!Alive, Creation!UnderWay
<1> QED BY <1>2, <1>3, <1>4, <1>5

\* A window that is opened is another draft than those that were sent.
LEMMA CreationOpens ==
  ASSUME PartsAssumption, Creation!IInv,
         Creation!Open \/ Creation!Close \/ Creation!Return
  PROVE  Creation!IInv'
<1> DEFINE window == v2  requests == v5
<1> USE FirstForm DEF Creation!IInv
<1>1. /\ UNCHANGED <<v3, requests>> /\ v1' \in {"workspace", "elsewhere"} /\ v4' \in 0..MaxDrafts
      /\ window' \in [open : BOOLEAN, step : 1..4, form : Creation!Forms]
      /\ window' = window \/ window'.step = 1
      /\ (v4' = v4 /\ (window'.open => window.open)) \/ v4' > v4
  <2> USE DEF Creation!TypeOK
  <2>1. CASE Creation!Open
    <3>1. v4 \in Nat /\ MaxDrafts \in Nat
      BY DEF PartsAssumption
    <3>2. v4' \in 0..MaxDrafts /\ v4' > v4 /\ UNCHANGED <<v1, v3, requests>>
      BY <2>1, <3>1 DEF Creation!Open
    <3>3. window' = [Creation!Closed EXCEPT !.open = TRUE]
      BY <2>1 DEF Creation!Open
    <3>4. Creation!Closed \in [open : BOOLEAN, step : 1..4, form : Creation!Forms] /\ Creation!Closed.step = 1
      BY DEF Creation!Closed
    <3>5. window' \in [open : BOOLEAN, step : 1..4, form : Creation!Forms] /\ window'.step = 1
      BY <3>3, <3>4
    <3> QED BY <3>2, <3>5
  <2>2. CASE Creation!Close
    BY <2>2 DEF Creation!Close, Creation!Closed
  <2>3. CASE Creation!Return
    BY <2>3 DEF Creation!Return
  <2> QED BY <2>1, <2>2, <2>3
<1>2. Creation!TypeOK'
  BY <1>1 DEF Creation!TypeOK
<1>3. Creation!FormsAreComplete' /\ Creation!StepsAreLookedAt'
  BY <1>1 DEF Creation!FormsAreComplete, Creation!StepsAreLookedAt
<1>4. Creation!CreatedOnce' /\ Creation!WaitsForItsRequest'
  BY <1>1 DEF Creation!CreatedOnce, Creation!WaitsForItsRequest, Creation!UnderWay
<1>5. v4 \in Nat /\ v4' \in Nat /\ \A c \in Calls : requests[c].draft \in Nat /\ requests[c].draft <= v4
  BY <1>1, PartsAssumption DEF PartsAssumption, Creation!TypeOK, Creation!MadeIsAnswered
<1>6. Creation!MadeIsAnswered'
  BY <1>1, <1>5 DEF Creation!MadeIsAnswered
<1>7. Creation!OneRequest'
  BY <1>1, <1>5 DEF Creation!OneRequest, Creation!Alive, Creation!UnderWay
<1> QED BY <1>2, <1>3, <1>4, <1>6, <1>7

\* The component goes, and its requests are nobody's.
LEMMA CreationLeaves ==
  ASSUME PartsAssumption, Creation!IInv, Creation!Leave
  PROVE  Creation!IInv'
<1> DEFINE window == v2  requests == v5
<1> USE FirstForm DEF Creation!IInv
<1>1. /\ v1' = "elsewhere" /\ v3' = FALSE /\ v4' = v4
      /\ window' = Creation!Closed /\ requests' = Creation!Leaves
  BY DEF Creation!Leave
<1>2. ~window'.open /\ window'.step = 1 /\ window' \in [open : BOOLEAN, step : 1..4, form : Creation!Forms]
  BY <1>1 DEF Creation!Closed
<1>3. \A c \in Calls : requests'[c] = [requests[c] EXCEPT !.here = FALSE]
  BY <1>1 DEF Creation!Leaves
<1> DEFINE Types == [pc : {"idle", "sent", "made", "refused", "done", "failed"},
                     form : Creation!Forms, here : BOOLEAN, draft : 0..MaxDrafts,
                     made : BOOLEAN, lost : BOOLEAN]
<1>a. requests \in [Calls -> Types]
  BY DEF Creation!TypeOK
<1>b. \A c \in Calls : requests[c] \in Types
  BY <1>a
<1>4. ASSUME NEW c \in Calls PROVE
        /\ requests'[c] \in Types
        /\ requests'[c].pc = requests[c].pc /\ requests'[c].form = requests[c].form /\ ~requests'[c].here
        /\ requests'[c].draft = requests[c].draft /\ requests'[c].made = requests[c].made
        /\ requests'[c].lost = requests[c].lost
  <2>1. requests'[c] = [requests[c] EXCEPT !.here = FALSE] /\ requests[c] \in Types
    BY <1>3, <1>b
  <2> QED BY <2>1
<1>5. Creation!TypeOK'
  <2>1. requests' \in [Calls -> Types]
    BY <1>1, <1>4 DEF Creation!Leaves
  <2> QED BY <1>1, <1>2, <2>1 DEF Creation!TypeOK
<1>6. Creation!FormsAreComplete' /\ Creation!StepsAreLookedAt'
  <2>1. \A c \in Calls : requests'[c].pc = requests[c].pc /\ requests'[c].form = requests[c].form
    BY <1>4
  <2>2. window'.step = 1 BY <1>2
  <2>3. Creation!FormsAreComplete' BY <2>1, <2>2 DEF Creation!FormsAreComplete
  <2>4. Creation!StepsAreLookedAt' BY <2>1, <2>2 DEF Creation!StepsAreLookedAt
  <2> QED BY <2>3, <2>4
<1>7. Creation!CreatedOnce' /\ Creation!WaitsForItsRequest' /\ Creation!MadeIsAnswered'
  BY <1>1, <1>4 DEF Creation!CreatedOnce, Creation!WaitsForItsRequest, Creation!MadeIsAnswered
<1>8. Creation!OneRequest'
  BY <1>2, <1>4 DEF Creation!OneRequest, Creation!Alive, Creation!UnderWay
<1> QED BY <1>5, <1>6, <1>7, <1>8

\* The form of the last step is sent: the button waits for it.
LEMMA CreationIsSent ==
  ASSUME PartsAssumption, Creation!IInv, NEW r \in Calls, Creation!Create(r)
  PROVE  Creation!IInv'
<1> DEFINE window == v2  requests == v5
           Types == [pc : {"idle", "sent", "made", "refused", "done", "failed"},
                     form : Creation!Forms, here : BOOLEAN, draft : 0..MaxDrafts,
                     made : BOOLEAN, lost : BOOLEAN]
<1> USE DEF Creation!IInv
<1>1. /\ UNCHANGED <<v1, window, v4>> /\ v3' = TRUE /\ v3 = FALSE /\ window.step = 4
      /\ window.open /\ requests[r].pc = "idle"
      /\ requests' = [requests EXCEPT ![r] = [requests[r] EXCEPT
                        !.pc = "sent", !.form = window.form, !.here = TRUE, !.draft = v4]]
  BY DEF Creation!Create, Creation!TypeOK
<1>2. /\ requests \in [Calls -> Types] /\ window.form \in Creation!Forms /\ v4 \in 0..MaxDrafts
      /\ v4 <= v4
  BY PartsAssumption DEF PartsAssumption, Creation!TypeOK
<1>3. /\ requests' \in [Calls -> Types] /\ requests'[r].pc = "sent" /\ requests'[r].here
      /\ requests'[r].form = window.form /\ requests'[r].draft = v4
      /\ requests'[r].made = requests[r].made
      /\ \A c \in Calls \ {r} : requests'[c] = requests[c]
  <2> DEFINE new == [requests[r] EXCEPT
                       !.pc = "sent", !.form = window.form, !.here = TRUE, !.draft = v4]
  <2>1. requests[r] \in Types
    BY <1>2
  <2>2. /\ new \in Types /\ new.pc = "sent" /\ new.here /\ new.form = window.form
        /\ new.draft = v4 /\ new.made = requests[r].made
    BY <1>2, <2>1
  <2>3. requests' = [requests EXCEPT ![r] = new]
    BY <1>1
  <2> HIDE DEF new
  <2> QED BY <1>2, <2>2, <2>3
<1>4. ~requests'[r].made
  BY <1>1, <1>3 DEF Creation!MadeIsAnswered
<1>5. \A c \in Calls : ~(requests[c].here /\ Creation!UnderWay(c))
  BY <1>1 DEF Creation!WaitsForItsRequest
<1>6. \A c \in Calls : ~(Creation!Alive(c) /\ requests[c].draft = v4)
  BY <1>1, <1>5 DEF Creation!OneRequest
<1>7. Creation!TypeOK'
  BY <1>1, <1>3 DEF Creation!TypeOK
<1>8. Creation!FormsAreComplete' /\ Creation!StepsAreLookedAt'
  <2>1. \A c \in Calls \ {r} : requests'[c] = requests[c] BY <1>3
  <2>2. window' = window /\ window.step = 4 /\ requests'[r].pc = "sent" /\ requests'[r].form = window.form
    BY <1>1, <1>3
  <2>3. Creation!FormsAreComplete' BY <2>1, <2>2 DEF Creation!FormsAreComplete
  <2>4. Creation!StepsAreLookedAt' BY <2>1, <2>2 DEF Creation!StepsAreLookedAt
  <2> QED BY <2>3, <2>4
<1>9. Creation!CreatedOnce'
  BY <1>3, <1>4 DEF Creation!CreatedOnce
<1>10. Creation!WaitsForItsRequest'
  BY <1>1, <1>3 DEF Creation!WaitsForItsRequest, Creation!UnderWay
<1>11. Creation!MadeIsAnswered'
  BY <1>1, <1>2, <1>3, <1>4 DEF Creation!MadeIsAnswered
<1>12. Creation!OneRequest'
  BY <1>1, <1>3, <1>4, <1>5, <1>6 DEF Creation!OneRequest, Creation!Alive, Creation!UnderWay
<1> QED BY <1>7, <1>8, <1>9, <1>10, <1>11, <1>12

\* A form that is complete is refused for its date, or for a limit.
LEMMA CreationIsServed ==
  ASSUME PartsAssumption, Creation!IInv, NEW r \in Calls, Creation!Serve(r)
  PROVE  Creation!IInv'
<1> DEFINE window == v2  requests == v5
           Types == [pc : {"idle", "sent", "made", "refused", "done", "failed"},
                     form : Creation!Forms, here : BOOLEAN, draft : 0..MaxDrafts,
                     made : BOOLEAN, lost : BOOLEAN]
           accepted == Creation!Accepted(requests[r].form)
<1> USE DEF Creation!IInv
<1>1. requests \in [Calls -> Types] /\ requests[r].form \in Creation!Forms
  BY DEF Creation!TypeOK
<1>2. accepted \in BOOLEAN
  BY DEF Creation!Accepted
<1>3. /\ UNCHANGED <<v1, window, v3, v4>> /\ requests[r].pc = "sent"
      /\ requests' \in [Calls -> Types]
      /\ requests'[r].pc = IF accepted THEN "made" ELSE "refused"
      /\ requests'[r].made = accepted /\ requests'[r].form = requests[r].form
      /\ requests'[r].here = requests[r].here /\ requests'[r].draft = requests[r].draft
      /\ requests'[r].lost = requests[r].lost
      /\ \A c \in Calls \ {r} : requests'[c] = requests[c]
  <2> HIDE DEF accepted
  <2> QED BY <1>1, <1>2 DEF Creation!Serve, accepted
<1>4. ~accepted => \/ requests[r].form.dated \/ requests[r].form.size > 500
                   \/ Len(requests[r].form.prizes) > 20
  <2>1. Creation!Complete(requests[r].form)
    BY <1>3 DEF Creation!StepsAreLookedAt
  <2>2. requests[r].form.size \in Nat \ {0, 1}
    BY <1>1, PartsAssumption DEF PartsAssumption, Creation!Forms
  <2>3. Len(requests[r].form.prizes) \in Nat
    <3>1. requests[r].form.prizes \in Creation!Prizes
      BY <1>1 DEF Creation!Forms
    <3>2. PICK n \in 1..MaxPrizes : requests[r].form.prizes \in [1..n -> BOOLEAN]
      BY <3>1, Zenon DEF Creation!Prizes
    <3>3. n \in Nat
      BY PartsAssumption DEF PartsAssumption
    <3>4. requests[r].form.prizes \in Seq(BOOLEAN)
      BY <3>2, <3>3
    <3> QED BY <3>4, LenProperties
  <2>4. /\ requests[r].form.size > 500 \/ requests[r].form.size \in 2..500
        /\ Len(requests[r].form.prizes) > 20 \/ Len(requests[r].form.prizes) <= 20
    <3>1. \A n \in Nat \ {0, 1} : n > 500 \/ n \in 2..500
      OBVIOUS
    <3>2. \A n \in Nat : n > 20 \/ n <= 20
      OBVIOUS
    <3> QED BY <2>2, <2>3, <3>1, <3>2, Zenon
  <2> QED BY <2>1, <2>4, Zenon DEF Creation!Complete, Creation!Accepted
<1>5. Creation!TypeOK'
  BY <1>3 DEF Creation!TypeOK
<1>6. Creation!FormsAreComplete' /\ Creation!StepsAreLookedAt'
  <2> HIDE DEF accepted
  <2>1. \A c \in Calls \ {r} : requests'[c] = requests[c] BY <1>3
  <2>2. window' = window /\ requests'[r].pc # "sent" /\ requests'[r].form = requests[r].form
        /\ (requests'[r].pc = "refused" => ~accepted)
    BY <1>2, <1>3
  <2>3. Creation!FormsAreComplete' BY <1>4, <2>1, <2>2 DEF Creation!FormsAreComplete
  <2>4. Creation!StepsAreLookedAt' BY <2>1, <2>2 DEF Creation!StepsAreLookedAt
  <2> QED BY <2>3, <2>4
<1>7. \A c \in Calls : /\ Creation!Alive(c)' => Creation!Alive(c)
                       /\ Creation!UnderWay(c)' <=> Creation!UnderWay(c)
                       /\ requests'[c].here = requests[c].here
                       /\ requests'[c].draft = requests[c].draft
  BY <1>3 DEF Creation!Alive, Creation!UnderWay
<1>8. Creation!WaitsForItsRequest'
  BY <1>3, <1>7 DEF Creation!WaitsForItsRequest
<1>9. Creation!MadeIsAnswered'
  BY <1>3 DEF Creation!MadeIsAnswered
<1>10. Creation!OneRequest'
  BY <1>3, <1>7 DEF Creation!OneRequest
<1>11. Creation!CreatedOnce'
  BY <1>10 DEF Creation!OneRequest, Creation!CreatedOnce, Creation!Alive
<1> QED BY <1>5, <1>6, <1>8, <1>9, <1>10, <1>11

\* The answer is heard, or lost.
LEMMA CreationEnds ==
  ASSUME PartsAssumption, Creation!IInv, NEW r \in Calls, Creation!Receive(r) \/ Creation!Fail(r)
  PROVE  Creation!IInv'
<1> DEFINE window == v2  requests == v5
           Types == [pc : {"idle", "sent", "made", "refused", "done", "failed"},
                     form : Creation!Forms, here : BOOLEAN, draft : 0..MaxDrafts,
                     made : BOOLEAN, lost : BOOLEAN]
<1> USE FirstForm DEF Creation!IInv
<1>1. requests \in [Calls -> Types]
  BY DEF Creation!TypeOK
<1>2. CASE Creation!Receive(r)
  <2>1. /\ v1' = "elsewhere" /\ v3' = FALSE /\ v4' = v4 /\ requests[r].pc = "made"
        /\ window' = Creation!Closed
        /\ requests' = [Creation!Leaves EXCEPT ![r].pc = "done", ![r].form = Creation!initialForm]
    BY <1>2 DEF Creation!Receive
  <2>2. ~window'.open /\ window'.step = 1 /\ window' \in [open : BOOLEAN, step : 1..4, form : Creation!Forms]
    BY <2>1 DEF Creation!Closed
  <2>3. /\ Creation!Leaves \in [Calls -> Types]
        /\ \A c \in Calls : /\ Creation!Leaves[c].pc = requests[c].pc
                            /\ Creation!Leaves[c].form = requests[c].form
                            /\ ~Creation!Leaves[c].here
                            /\ Creation!Leaves[c].draft = requests[c].draft
                            /\ Creation!Leaves[c].made = requests[c].made
                            /\ Creation!Leaves[c].lost = requests[c].lost
    BY <1>1 DEF Creation!Leaves
  <2>4. /\ requests' \in [Calls -> Types] /\ requests'[r].pc = "done"
        /\ \A c \in Calls : /\ ~requests'[c].here /\ requests'[c].draft = requests[c].draft
                            /\ requests'[c].made = requests[c].made
                            /\ requests'[c].lost = requests[c].lost
        /\ \A c \in Calls \ {r} : requests'[c].pc = requests[c].pc /\ requests'[c].form = requests[c].form
    <3> DEFINE new == [Creation!Leaves[r] EXCEPT !.pc = "done", !.form = Creation!initialForm]
    <3>1. Creation!Leaves[r] \in Types
      BY <2>3
    <3>2. /\ new \in Types /\ new.pc = "done" /\ new.here = Creation!Leaves[r].here
          /\ new.draft = Creation!Leaves[r].draft /\ new.made = Creation!Leaves[r].made
          /\ new.lost = Creation!Leaves[r].lost
      BY <3>1
    <3>3. requests' = [Creation!Leaves EXCEPT ![r] = new]
      BY <2>1, <2>3
    <3> HIDE DEF new
    <3> QED BY <2>3, <3>2, <3>3
  <2>5. Creation!TypeOK'
    BY <2>1, <2>2, <2>4 DEF Creation!TypeOK
  <2>6. Creation!FormsAreComplete' /\ Creation!StepsAreLookedAt'
    <3>1. ASSUME NEW c \in Calls, requests'[c].pc \in {"refused", "sent"}
          PROVE  requests'[c].pc = requests[c].pc /\ requests'[c].form = requests[c].form
      BY <2>4, <3>1
    <3>2. Creation!FormsAreComplete' BY <2>2, <3>1 DEF Creation!FormsAreComplete
    <3>3. Creation!StepsAreLookedAt' BY <2>2, <3>1 DEF Creation!StepsAreLookedAt
    <3> QED BY <3>2, <3>3
  <2>7. Creation!CreatedOnce' /\ Creation!WaitsForItsRequest' /\ Creation!MadeIsAnswered'
    BY <2>1, <2>4 DEF Creation!CreatedOnce, Creation!WaitsForItsRequest, Creation!MadeIsAnswered
  <2>8. Creation!OneRequest'
    BY <2>1, <2>2, <2>4 DEF Creation!OneRequest, Creation!Alive
  <2> QED BY <2>5, <2>6, <2>7, <2>8
<1>3. CASE Creation!Fail(r)
  <2>1. /\ UNCHANGED <<v1, window, v4>> /\ v3' = (v3 /\ ~requests[r].here) /\ Creation!UnderWay(r)
        /\ requests' = [requests EXCEPT ![r] = [requests[r] EXCEPT
             !.pc = "failed", !.form = Creation!initialForm, !.here = FALSE,
             !.lost = (requests[r].pc = "made")]]
    BY <1>3 DEF Creation!Fail
  <2>2. /\ requests' \in [Calls -> Types] /\ requests'[r].pc = "failed" /\ ~requests'[r].here
        /\ requests'[r].draft = requests[r].draft /\ requests'[r].made = requests[r].made
        /\ requests'[r].lost = (requests[r].pc = "made")
        /\ \A c \in Calls \ {r} : requests'[c] = requests[c]
    <3> DEFINE new == [requests[r] EXCEPT !.pc = "failed", !.form = Creation!initialForm,
                         !.here = FALSE, !.lost = (requests[r].pc = "made")]
    <3>1. requests[r] \in Types
      BY <1>1
    <3>2. /\ new \in Types /\ new.pc = "failed" /\ ~new.here
          /\ new.draft = requests[r].draft /\ new.made = requests[r].made
          /\ new.lost = (requests[r].pc = "made")
      BY <3>1
    <3>3. requests' = [requests EXCEPT ![r] = new]
      BY <2>1
    <3> HIDE DEF new
    <3> QED BY <1>1, <3>2, <3>3
  <2>3. requests'[r].made => requests'[r].lost
    BY <2>1, <2>2 DEF Creation!MadeIsAnswered, Creation!UnderWay
  <2>4. Creation!TypeOK'
    BY <2>1, <2>2 DEF Creation!TypeOK
  <2>5. Creation!FormsAreComplete' /\ Creation!StepsAreLookedAt'
    <3>1. \A c \in Calls \ {r} : requests'[c] = requests[c] BY <2>2
    <3>2. window' = window /\ requests'[r].pc = "failed" BY <2>1, <2>2
    <3>3. Creation!FormsAreComplete' BY <3>1, <3>2 DEF Creation!FormsAreComplete
    <3>4. Creation!StepsAreLookedAt' BY <3>1, <3>2 DEF Creation!StepsAreLookedAt
    <3> QED BY <3>3, <3>4
  <2>6. Creation!CreatedOnce' /\ Creation!MadeIsAnswered'
    BY <2>1, <2>2, <2>3 DEF Creation!CreatedOnce, Creation!MadeIsAnswered
  <2>7. Creation!WaitsForItsRequest'
    BY <2>1, <2>2 DEF Creation!WaitsForItsRequest, Creation!OneRequest, Creation!UnderWay
  <2>8. Creation!OneRequest'
    BY <2>1, <2>2, <2>3 DEF Creation!OneRequest, Creation!Alive, Creation!UnderWay
  <2> QED BY <2>4, <2>5, <2>6, <2>7, <2>8
<1> QED BY <1>2, <1>3

LEMMA CreationInv ==
  ASSUME PartsAssumption, Creation!IInv, [Creation!Next]_(Creation!vars)
  PROVE  Creation!IInv'
<1>1. CASE UNCHANGED Creation!vars
  BY <1>1 DEF Creation!vars, Creation!IInv, Creation!TypeOK, Creation!FormsAreComplete,
              Creation!CreatedOnce, Creation!WaitsForItsRequest, Creation!StepsAreLookedAt,
              Creation!MadeIsAnswered, Creation!OneRequest, Creation!Alive, Creation!UnderWay,
              Creation!Complete
<1>2. CASE Creation!Next
  BY <1>2, CreationIsFilled, CreationOpens, CreationLeaves, CreationIsSent, CreationIsServed,
     CreationEnds DEF Creation!Next
<1> QED BY <1>1, <1>2

-----------------------------------------------------------------------------
(* The page of a tournament (TournamentPage).                              *)

LEMMA AtMostOne ==
  /\ TheTournament!Cardinality({}) <= 1
  /\ \A t : TheTournament!Cardinality({t}) <= 1
<1>1. \A S : TheTournament!Cardinality(S) = Cardinality(S)
  BY DEF TheTournament!Cardinality, Cardinality
<1>2. Cardinality({}) = 0 /\ \A t : Cardinality({t}) = 1
  BY FS_EmptySet, FS_Singleton
<1>3. TheTournament!Cardinality({}) = 0 /\ \A t : TheTournament!Cardinality({t}) = 1
  BY <1>1, <1>2, Zenon
<1> QED BY <1>3

LEMMA TournamentBegins == ASSUME TheTournament!Init PROVE TheTournament!IInv
<1> USE DEF TheTournament!Init
<1>1. \A v \in TheTournament!Viewers : v3[v] = {}
  OBVIOUS
<1>2. TheTournament!TypeOK
  BY <1>1, AtMostOne DEF TheTournament!TypeOK, TheTournament!NoClick
<1>3. /\ \A c \in Calls : v4[c] = TheTournament!NoClick
      /\ v4 \in [Calls -> {TheTournament!NoClick} \cup TheTournament!ClickTypes]
  OBVIOUS
<1>4. TheTournament!OffersAreGood /\ TheTournament!OffersStand /\ TheTournament!AddsSomebody
  BY <1>3 DEF TheTournament!OffersAreGood, TheTournament!OffersStand, TheTournament!AddsSomebody, TheTournament!UnderWay,
              TheTournament!NoClick
<1> QED BY <1>2, <1>3, <1>4 DEF TheTournament!IInv

\* A page reads a tournament, and shows it: nothing else changes.
LEMMA TournamentIsRead ==
  ASSUME TheTournament!IInv, NEW v \in TheTournament!Viewers,
         TheTournament!Read(v) \/ TheTournament!Show(v)
  PROVE  TheTournament!IInv'
<1> DEFINE server == v1  shown == v2  answer == v3  click == v4
<1> USE DEF TheTournament!IInv
<1>1. UNCHANGED <<server, click>>
  BY DEF TheTournament!Read, TheTournament!Show
<1>2. shown' \in [TheTournament!Viewers -> TheTournament!Tournament]
  BY DEF TheTournament!Read, TheTournament!Show, TheTournament!TypeOK
<1>3. \A u \in TheTournament!Viewers :
        answer'[u] \in {answer[u], {}, {server}}
  <2>1. CASE TheTournament!Read(v)
    BY <2>1 DEF TheTournament!Read
  <2>2. CASE TheTournament!Show(v)
    BY <2>2 DEF TheTournament!Show
  <2> QED BY <2>1, <2>2
<1>4. TheTournament!TypeOK'
  BY <1>1, <1>2, <1>3, AtMostOne DEF TheTournament!TypeOK
<1>5. TheTournament!OffersAreGood' /\ TheTournament!OffersStand' /\ TheTournament!AddsSomebody'
  BY <1>1 DEF TheTournament!OffersAreGood, TheTournament!OffersStand, TheTournament!AddsSomebody, TheTournament!UnderWay
<1> QED BY <1>1, <1>4, <1>5

\* Of clicks of the right type, what TypeOK says.
LEMMA ClicksAreTyped ==
  ASSUME NEW clicks,
         clicks \in [Calls -> {TheTournament!NoClick} \cup TheTournament!ClickTypes]
  PROVE  \A c \in Calls : clicks[c].pc # "idle" =>
           /\ clicks[c].button \in TheTournament!Buttons
           /\ clicks[c].saw \in TheTournament!Tournament
           /\ clicks[c].read \subseteq TheTournament!Flags
BY DEF TheTournament!NoClick, TheTournament!ClickTypes

\* A button that is pressed was offered for the tournament shown.
LEMMA TournamentIsPressed ==
  ASSUME TheTournament!IInv, NEW r \in Calls, NEW v \in TheTournament!Viewers,
         NEW button \in TheTournament!Buttons, NEW who \in Guests \cup {Player, None},
         TheTournament!Press(r, v, button, who)
  PROVE  TheTournament!IInv' /\ TheTournament!MarksWhatWasMeant
<1> DEFINE server == v1  shown == v2  answer == v3  click == v4
           new == [pc |-> IF button \in {"register", "add", "score"} THEN "window" ELSE "sent",
                   button |-> button, who |-> who, saw |-> shown[v],
                   read |-> {}, old |-> shown[v] # server]
<1> USE DEF TheTournament!IInv
<1>1. /\ UNCHANGED <<server, shown, answer>> /\ click[r].pc = "idle"
      /\ click' = [click EXCEPT ![r] = new] /\ TheTournament!Offers(v, button, who, shown[v])
  BY DEF TheTournament!Press
<1>2. /\ new \in TheTournament!ClickTypes /\ new.pc \in {"window", "sent"} /\ new.saw = shown[v]
      /\ new.button = button /\ new.who = who /\ (~new.old => shown[v] = server)
  BY DEF TheTournament!ClickTypes, TheTournament!TypeOK
<1> HIDE DEF new
<1>3. /\ \A c \in Calls : click'[c] = IF c = r THEN new ELSE click[c]
      /\ click' \in [Calls -> {TheTournament!NoClick} \cup TheTournament!ClickTypes]
  BY <1>1, <1>2
<1>4. TheTournament!TypeOK'
  BY <1>1, <1>2, <1>3, ClicksAreTyped DEF TheTournament!TypeOK
<1>5. TheTournament!OffersAreGood' /\ TheTournament!MarksWhatWasMeant
  BY <1>1, <1>2, <1>3 DEF TheTournament!OffersAreGood, TheTournament!MarksWhatWasMeant
<1>6. TheTournament!OffersStand' /\ TheTournament!AddsSomebody'
  <2>1. button \in {"register", "add"} => who \in Guests \cup {Player}
    BY <1>1 DEF TheTournament!Offers, TheTournament!Flags
  <2> QED BY <1>1, <1>2, <1>3, <2>1
          DEF TheTournament!OffersStand, TheTournament!AddsSomebody, TheTournament!UnderWay
<1> QED BY <1>3, <1>4, <1>5, <1>6

\* A window is confirmed.
LEMMA TournamentIsConfirmed ==
  ASSUME TheTournament!IInv, NEW r \in Calls, TheTournament!Confirm(r)
  PROVE  TheTournament!IInv' /\ TheTournament!MarksWhatWasMeant
<1> DEFINE server == v1  shown == v2  answer == v3  click == v4
           new == [click[r] EXCEPT !.pc = "sent"]
<1> USE DEF TheTournament!IInv
<1>1. /\ UNCHANGED <<server, shown, answer>> /\ click[r].pc = "window"
      /\ click' = [click EXCEPT ![r] = new]
  BY DEF TheTournament!Confirm
<1>2. click[r] \in TheTournament!ClickTypes
  BY <1>1 DEF TheTournament!NoClick
<1>3. /\ new \in TheTournament!ClickTypes /\ new.pc = "sent" /\ new.saw = click[r].saw
      /\ new.button = click[r].button /\ new.who = click[r].who /\ new.old = click[r].old
  BY <1>2 DEF TheTournament!ClickTypes
<1> HIDE DEF new
<1>4. /\ \A c \in Calls : click'[c] = IF c = r THEN new ELSE click[c]
      /\ click' \in [Calls -> {TheTournament!NoClick} \cup TheTournament!ClickTypes]
  BY <1>1, <1>3
<1>5. TheTournament!TypeOK'
  BY <1>1, <1>4, ClicksAreTyped DEF TheTournament!TypeOK
<1>6. TheTournament!OffersAreGood' /\ TheTournament!MarksWhatWasMeant
  BY <1>1, <1>3, <1>4 DEF TheTournament!OffersAreGood, TheTournament!MarksWhatWasMeant
<1>7. TheTournament!OffersStand' /\ TheTournament!AddsSomebody'
  BY <1>1, <1>3, <1>4 DEF TheTournament!OffersStand, TheTournament!AddsSomebody, TheTournament!UnderWay
<1> QED BY <1>4, <1>5, <1>6, <1>7

\* What a page offers, a handler that reads the same tournament accepts.
LEMMA OfferedIsAccepted ==
  ASSUME PartsAssumption, NEW t \in TheTournament!Tournament, NEW v \in TheTournament!Viewers,
         NEW button \in TheTournament!Buttons, NEW who, TheTournament!Offers(v, button, who, t)
  PROVE  TheTournament!Accepts(button, who, t) /\ who \notin t.players
<1> USE DEF TheTournament!Offers
<1>1. CASE button \in {"register", "add"}
  BY <1>1 DEF TheTournament!Accepts, TheTournament!Open, TheTournament!Flags
<1>2. CASE button = "start"
  BY <1>2, PartsAssumption
  DEF PartsAssumption, TheTournament!Accepts, TheTournament!Open, TheTournament!Flags,
      TheTournament!Tournament
<1>3. CASE button = "score"
  BY <1>3, PartsAssumption
  DEF PartsAssumption, TheTournament!Accepts, TheTournament!Flags, TheTournament!Tournament
<1>4. CASE button \in {"complete"} \cup TheTournament!Flags
  BY <1>4, PartsAssumption
  DEF PartsAssumption, TheTournament!Accepts, TheTournament!Flags, TheTournament!Tournament
<1> QED BY <1>1, <1>2, <1>3, <1>4 DEF TheTournament!Buttons

\* A handler checks what it has read; it refuses only what was old.
LEMMA TournamentIsChecked ==
  ASSUME PartsAssumption, TheTournament!IInv, NEW r \in Calls, TheTournament!Check(r)
  PROVE  TheTournament!IInv' /\ TheTournament!MarksWhatWasMeant
<1> DEFINE server == v1  shown == v2  answer == v3  click == v4
           accepted == TheTournament!Accepts(click[r].button, click[r].who, server)
           new == [click[r] EXCEPT !.pc = IF accepted THEN "checked" ELSE "refused",
                                   !.read = server.on]
<1> USE DEF TheTournament!IInv
<1>1. /\ UNCHANGED <<server, shown, answer>> /\ click[r].pc = "sent"
      /\ click' = [click EXCEPT ![r] = new]
  BY DEF TheTournament!Check
<1>2. click[r] \in TheTournament!ClickTypes /\ server \in TheTournament!Tournament
  BY <1>1 DEF TheTournament!NoClick, TheTournament!TypeOK
<1>3. /\ new \in TheTournament!ClickTypes /\ new.pc = (IF accepted THEN "checked" ELSE "refused")
      /\ new.saw = click[r].saw /\ new.read = server.on
      /\ new.button = click[r].button /\ new.who = click[r].who /\ new.old = click[r].old
  <2> HIDE DEF accepted
  <2>1. server.on \in SUBSET TheTournament!Flags
    BY <1>2 DEF TheTournament!Tournament
  <2> QED BY <1>2, <2>1 DEF TheTournament!ClickTypes
<1>4. ~click[r].old => accepted
  <2>1. click[r].button \in TheTournament!Buttons
    BY <1>2 DEF TheTournament!ClickTypes
  <2> QED BY <1>1, <1>2, <2>1, OfferedIsAccepted DEF TheTournament!OffersStand, TheTournament!AddsSomebody, TheTournament!UnderWay
<1> HIDE DEF new, accepted
<1>5. /\ \A c \in Calls : click'[c] = IF c = r THEN new ELSE click[c]
      /\ click' \in [Calls -> {TheTournament!NoClick} \cup TheTournament!ClickTypes]
  BY <1>1, <1>3
<1>6. TheTournament!TypeOK'
  BY <1>1, <1>5, ClicksAreTyped DEF TheTournament!TypeOK
<1>7. TheTournament!OffersAreGood' /\ TheTournament!MarksWhatWasMeant
  BY <1>1, <1>3, <1>4, <1>5 DEF TheTournament!OffersAreGood, TheTournament!MarksWhatWasMeant
<1>8. TheTournament!OffersStand' /\ TheTournament!AddsSomebody'
  BY <1>1, <1>3, <1>5 DEF TheTournament!OffersStand, TheTournament!AddsSomebody, TheTournament!UnderWay
<1> QED BY <1>5, <1>6, <1>7, <1>8

\* What a handler writes makes the requests under way old, if it changes anything; a
\* mark is turned round from what the handler has read.
LEMMA TournamentIsWritten ==
  ASSUME PartsAssumption, TheTournament!IInv, NEW r \in Calls, TheTournament!Write(r)
  PROVE  TheTournament!IInv' /\ TheTournament!MarksWhatWasMeant
<1> DEFINE server == v1  shown == v2  answer == v3  click == v4
           refused == click[r].who \in server.players
           new == [click[r] EXCEPT !.pc = IF refused THEN "refused" ELSE "done"]
           aged(d) == [click[d] EXCEPT !.old = click[d].old \/ server' # server]
<1> USE DEF TheTournament!IInv
<1>1. /\ UNCHANGED <<shown, answer>> /\ click[r].pc = "checked"
      /\ server' = TheTournament!Written(r)
      /\ click' = [d \in Calls |-> IF d = r THEN new
                                   ELSE IF d \in TheTournament!UnderWay THEN aged(d) ELSE click[d]]
  BY DEF TheTournament!Write
<1>2. click[r] \in TheTournament!ClickTypes /\ server \in TheTournament!Tournament
  BY <1>1 DEF TheTournament!NoClick, TheTournament!TypeOK
<1>3. /\ click[r].button \in TheTournament!Buttons
      /\ click[r].who \in Guests \cup {Player, None}
  BY <1>2 DEF TheTournament!ClickTypes
<1>4. /\ new \in TheTournament!ClickTypes /\ new.pc = (IF refused THEN "refused" ELSE "done")
      /\ new.saw = click[r].saw /\ new.button = click[r].button /\ new.old = click[r].old
  <2> HIDE DEF refused
  <2> QED BY <1>2 DEF TheTournament!ClickTypes
<1>5. ASSUME NEW d \in TheTournament!UnderWay
      PROVE  /\ aged(d) \in TheTournament!ClickTypes /\ aged(d).pc = click[d].pc
             /\ aged(d).saw = click[d].saw /\ aged(d).button = click[d].button
             /\ aged(d).who = click[d].who /\ aged(d).read = click[d].read
             /\ (aged(d).old <=> click[d].old \/ server' # server)
  <2>1. click[d] \in TheTournament!ClickTypes
    BY <1>5 DEF TheTournament!NoClick, TheTournament!UnderWay
  <2> QED BY <2>1 DEF TheTournament!ClickTypes
<1>6. ~click[r].old => /\ click[r].saw = server /\ click[r].read = server.on
                       /\ ~refused
  BY <1>1, <1>2, <1>3, OfferedIsAccepted DEF TheTournament!OffersStand, TheTournament!AddsSomebody, TheTournament!UnderWay
<1> HIDE DEF new, aged, refused
<1>7. server' \in TheTournament!Tournament
  <2>1. click[r].button \in {"register", "add"} => click[r].who \in Guests \cup {Player}
    BY <1>1 DEF TheTournament!AddsSomebody, TheTournament!UnderWay
  <2> QED BY <1>1, <1>2, <1>3, <2>1
          DEF TheTournament!Written, TheTournament!Tournament, TheTournament!Statuses,
              TheTournament!Buttons, TheTournament!Flags
<1>8. click[r].button \in TheTournament!Flags =>
        (click[r].button \in server'.on <=> click[r].button \notin click[r].read)
  <2>1. ASSUME click[r].button \in TheTournament!Flags
        PROVE  server' = [server EXCEPT !.on = IF click[r].button \in click[r].read
                                               THEN server.on \ {click[r].button}
                                               ELSE server.on \cup {click[r].button}]
    BY <1>1, <2>1 DEF TheTournament!Written, TheTournament!Flags
  <2> QED BY <1>2, <2>1 DEF TheTournament!Tournament
<1>9. click' \in [Calls -> {TheTournament!NoClick} \cup TheTournament!ClickTypes]
  BY <1>1, <1>4, <1>5
<1>10. TheTournament!TypeOK'
  BY <1>1, <1>7, <1>9, ClicksAreTyped DEF TheTournament!TypeOK
<1>11. TheTournament!OffersAreGood' /\ TheTournament!MarksWhatWasMeant
  BY <1>1, <1>4, <1>5, <1>6, <1>8
  DEF TheTournament!OffersAreGood, TheTournament!MarksWhatWasMeant, TheTournament!UnderWay
<1>12. TheTournament!OffersStand' /\ TheTournament!AddsSomebody'
  BY <1>1, <1>4, <1>5 DEF TheTournament!OffersStand, TheTournament!AddsSomebody, TheTournament!UnderWay
<1> QED BY <1>9, <1>10, <1>11, <1>12

LEMMA TournamentInv ==
  ASSUME PartsAssumption, TheTournament!IInv, [TheTournament!Next]_(TheTournament!vars)
  PROVE  TheTournament!IInv' /\ TheTournament!MarksWhatWasMeant
<1>1. CASE UNCHANGED TheTournament!vars
  <2>1. UNCHANGED <<v1, v2, v3, v4>>
    BY <1>1 DEF TheTournament!vars
  <2> QED BY <2>1 DEF TheTournament!IInv, TheTournament!TypeOK, TheTournament!OffersAreGood,
                      TheTournament!OffersStand, TheTournament!AddsSomebody, TheTournament!UnderWay,
                      TheTournament!MarksWhatWasMeant
<1>2. ASSUME NEW v \in TheTournament!Viewers, TheTournament!Read(v) \/ TheTournament!Show(v)
      PROVE  TheTournament!IInv' /\ TheTournament!MarksWhatWasMeant
  <2>1. UNCHANGED v4
    BY <1>2 DEF TheTournament!Read, TheTournament!Show
  <2> QED BY <1>2, <2>1, TournamentIsRead DEF TheTournament!MarksWhatWasMeant
<1>3. CASE TheTournament!Next
  BY <1>2, <1>3, TournamentIsPressed, TournamentIsConfirmed, TournamentIsChecked,
     TournamentIsWritten DEF TheTournament!Next
<1> QED BY <1>1, <1>3

-----------------------------------------------------------------------------
(* The store of tournaments (TournamentCache).                             *)

LEMMA CacheNumbers ==
  ASSUME PartsAssumption
  PROVE  /\ Cache!Versions \subseteq Nat /\ 0 \in Cache!Versions
         /\ Cache!Absent \in Nat /\ Cache!Absent \notin Cache!Versions
         /\ Cache!Idle \in Cache!RequestTypes
         /\ Cache!Idle.pc = "idle" /\ Cache!Idle.of = {} /\ Cache!Idle.outrun = {}
         /\ Cache!Idle.own = 0 /\ Cache!Idle.kind \notin Cache!Changes
<1>1. /\ Cache!Versions \subseteq Nat /\ 0 \in Cache!Versions
      /\ Cache!Absent \in Nat /\ Cache!Absent \notin Cache!Versions
  BY DEF PartsAssumption, Cache!Versions, Cache!Absent
<1>2. [t \in {} |-> 0] \in UNION {[S -> Cache!Versions] : S \in SUBSET Tournaments}
  <2>1. [t \in {} |-> 0] \in [{} -> Cache!Versions] /\ {} \in SUBSET Tournaments
    OBVIOUS
  <2> QED BY <2>1
<1> QED BY <1>1, <1>2 DEF Cache!Idle, Cache!RequestTypes, Cache!Changes

LEMMA CacheBegins == ASSUME PartsAssumption, Cache!Init PROVE Cache!IInv
<1> USE CacheNumbers DEF Cache!Init
<1>1. \A c \in Calls : v4[c] = Cache!Idle
  OBVIOUS
<1>2. Cache!RequestsAreWhole
  BY <1>1 DEF Cache!RequestsAreWhole
<1>3. Cache!TypeOK /\ Cache!ReadsAreTrue /\ Cache!LastIsNewest
  BY <1>1 DEF Cache!TypeOK, Cache!ReadsAreTrue, Cache!LastIsNewest
<1> QED BY <1>2, <1>3 DEF Cache!IInv

\* A request begins, or ends without an answer, or a list gets old: nothing is read.
LEMMA CacheWaits ==
  ASSUME PartsAssumption, Cache!IInv, NEW r \in Calls, NEW new \in Cache!RequestTypes,
         UNCHANGED <<v1, v2, v5>>, v3' \subseteq Cache!Lists,
         v4' = [v4 EXCEPT ![r] = new], new.pc \in {"idle", "sent"}, new.own = 0, new.outrun = {},
         new.kind \in Cache!Changes => \A t, u \in new.of : t = u
  PROVE  Cache!IInv' /\ Cache!GoesForward /\ Cache!OwnChangeCame
<1> DEFINE version == v1  cache == v2  requests == v4  done == v5
<1> USE DEF Cache!IInv
<1>1. /\ requests' \in [Calls -> Cache!RequestTypes]
      /\ \A c \in Calls : requests'[c] = IF c = r THEN new ELSE requests[c]
  BY DEF Cache!RequestsAreWhole
<1>2. new.of \subseteq Tournaments
  BY DEF Cache!RequestTypes
<1>3. Cache!TypeOK'
  BY <1>1, <1>2 DEF Cache!TypeOK
<1>4. Cache!RequestsAreWhole'
  BY <1>1 DEF Cache!RequestsAreWhole
<1>5. Cache!ReadsAreTrue'
  BY <1>1 DEF Cache!ReadsAreTrue
<1>6. Cache!LastIsNewest'
  BY <1>1 DEF Cache!LastIsNewest
<1> QED BY <1>3, <1>4, <1>5, <1>6 DEF Cache!GoesForward, Cache!OwnChangeCame

\* The server changes a tournament; a request that changed it is to read it again.
LEMMA CacheIsBehind ==
  ASSUME PartsAssumption, Cache!IInv, NEW t \in Tournaments, v1[t] < CopyVersion,
         v1' = [v1 EXCEPT ![t] = v1[t] + 1], UNCHANGED <<v2, v3, v5>>,
         v4' \in [Calls -> Cache!RequestTypes],
         \A c \in Calls :
           \/ v4'[c] = v4[c]
           \/ /\ v4'[c].pc = "changed" /\ v4'[c].own = v1'[t]
              /\ v4'[c].of = v4[c].of /\ v4'[c].of \subseteq {t}
              /\ v4'[c].outrun = v4[c].outrun /\ v4'[c].kind = v4[c].kind /\ v4[c].pc = "sent"
  PROVE  Cache!IInv' /\ Cache!GoesForward /\ Cache!OwnChangeCame
<1> DEFINE version == v1  cache == v2  requests == v4  done == v5
<1> USE CacheNumbers DEF Cache!IInv
<1>1. /\ version' \in [Tournaments -> Cache!Versions] /\ version[t] \in Nat /\ version'[t] \in Nat
      /\ \A u \in Tournaments : version[u] \in Nat /\ version'[u] \in Nat /\ version'[u] >= version[u]
  BY PartsAssumption DEF PartsAssumption, Cache!RequestsAreWhole, Cache!Versions
<1>2. \A c \in Calls :
        \/ requests'[c] = requests[c]
        \/ /\ requests'[c].pc = "changed" /\ requests'[c].own = version'[t]
           /\ requests'[c].of = requests[c].of /\ requests'[c].of \subseteq {t}
           /\ requests'[c].outrun = requests[c].outrun /\ requests'[c].kind = requests[c].kind
           /\ requests[c].pc = "sent"
  OBVIOUS
<1>3. \A c \in Calls : requests[c] \in Cache!RequestTypes
  BY DEF Cache!RequestsAreWhole
<1>4. Cache!TypeOK'
  <2>1. \A u \in Tournaments : cache[u] = Cache!Absent \/ cache[u] \in 0..version'[u]
    BY <1>1 DEF Cache!TypeOK
  <2>2. \A u \in Tournaments : done[u] \in 0..version'[u]
    BY <1>1 DEF Cache!TypeOK
  <2>3. \A c \in Calls : /\ requests'[c].of \subseteq Tournaments
                         /\ requests'[c].outrun \subseteq requests'[c].of
                         /\ requests'[c].pc = "read" => DOMAIN requests'[c].read = requests'[c].of
    BY <1>2 DEF Cache!TypeOK
  <2> QED BY <1>1, <2>1, <2>2, <2>3 DEF Cache!TypeOK
<1>5. Cache!RequestsAreWhole'
  BY <1>1, <1>2 DEF Cache!RequestsAreWhole
<1>6. Cache!ReadsAreTrue'
  <2>1. ASSUME NEW c \in Calls, NEW u \in requests'[c].of
        PROVE  /\ requests'[c].pc = "sent" => requests'[c].own = 0
               /\ requests'[c].pc = "changed" => requests'[c].own <= version'[u]
               /\ requests'[c].pc = "read" => /\ requests'[c].own <= requests'[c].read[u]
                                              /\ requests'[c].read[u] <= version'[u]
    <3>1. CASE requests'[c] = requests[c]
      <4>1. u \in Tournaments /\ requests[c].own \in Nat
        BY <1>3, <2>1, <3>1 DEF Cache!RequestTypes
      <4>2. requests[c].pc = "read" => requests[c].read[u] \in Nat
        <5>1. requests[c].pc = "read" => requests[c].read \in [requests[c].of -> Cache!Versions]
          BY <1>3 DEF Cache!RequestTypes, Cache!TypeOK
        <5> QED BY <2>1, <3>1, <5>1
      <4> QED BY <1>1, <2>1, <3>1, <4>1, <4>2 DEF Cache!ReadsAreTrue
    <3>2. CASE /\ requests'[c].pc = "changed" /\ requests'[c].own = version'[t]
               /\ requests'[c].of \subseteq {t}
      BY <1>1, <2>1, <3>2
    <3> QED BY <1>2, <3>1, <3>2
  <2> QED BY <2>1 DEF Cache!ReadsAreTrue
<1>7. Cache!LastIsNewest'
  BY <1>2 DEF Cache!LastIsNewest
<1> QED BY <1>4, <1>5, <1>6, <1>7 DEF Cache!GoesForward, Cache!OwnChangeCame

\* An answer is read: it is as new as the server, newer than what was read before.
LEMMA CacheIsRead ==
  ASSUME PartsAssumption, Cache!IInv, NEW r \in Calls, NEW own \in Cache!Versions,
         v4[r].pc # "read", v1' \in [Tournaments -> Cache!Versions],
         \A t \in Tournaments : v1'[t] >= v1[t],
         \A t \in v4[r].of : own <= v1'[t],
         Cache!Reads(r, v1', own), UNCHANGED <<v2, v3, v5>>
  PROVE  Cache!IInv' /\ Cache!GoesForward /\ Cache!OwnChangeCame
<1> DEFINE version == v1  cache == v2  requests == v4  done == v5
           answer == [t \in requests[r].of |-> version'[t]]
           new == [requests[r] EXCEPT !.pc = "read", !.own = own, !.read = answer]
           outruns(d) == [requests[d] EXCEPT !.outrun = requests[d].outrun \cup
                                                        (requests[r].of \cap requests[d].of)]
<1> USE CacheNumbers DEF Cache!IInv
<1>1. requests' = [d \in Calls |-> IF d = r THEN new
                                   ELSE IF requests[d].pc = "read" THEN outruns(d) ELSE requests[d]]
  BY DEF Cache!Reads
<1>2. /\ \A c \in Calls : requests[c] \in Cache!RequestTypes
      /\ version \in [Tournaments -> Cache!Versions] /\ cache \in [Tournaments -> Cache!Versions \cup {Cache!Absent}]
      /\ requests[r].outrun = {}
  BY DEF Cache!RequestsAreWhole
<1>3. answer \in [requests[r].of -> Cache!Versions] /\ requests[r].of \in SUBSET Tournaments
  BY <1>2 DEF Cache!RequestTypes
<1>4. answer \in UNION {[S -> Cache!Versions] : S \in SUBSET Tournaments}
  <2> HIDE DEF answer
  <2> QED BY <1>3
<1>5. /\ new \in Cache!RequestTypes /\ new.pc = "read" /\ new.own = own /\ new.read = answer
      /\ new.of = requests[r].of /\ new.outrun = {} /\ new.kind = requests[r].kind
  <2> HIDE DEF answer
  <2> QED BY <1>2, <1>4 DEF Cache!RequestTypes
<1>6. ASSUME NEW d \in Calls
      PROVE  /\ outruns(d) \in Cache!RequestTypes /\ outruns(d).pc = requests[d].pc
             /\ outruns(d).of = requests[d].of /\ outruns(d).own = requests[d].own
             /\ outruns(d).read = requests[d].read /\ outruns(d).kind = requests[d].kind
             /\ outruns(d).outrun = requests[d].outrun \cup (requests[r].of \cap requests[d].of)
  BY <1>2 DEF Cache!RequestTypes
<1>7. DOMAIN answer = requests[r].of /\ \A t \in requests[r].of : answer[t] = version'[t]
  OBVIOUS
<1> HIDE DEF new, outruns, answer
<1>8. \A d \in Calls : requests'[d] = IF d = r THEN new
                                      ELSE IF requests[d].pc = "read" THEN outruns(d) ELSE requests[d]
  BY <1>1
<1>9. \A t \in Tournaments : version[t] \in Nat /\ version'[t] \in Nat
  BY <1>2
<1>10. Cache!TypeOK'
  <2>1. \A u \in Tournaments : cache[u] = Cache!Absent \/ cache[u] \in 0..version'[u]
    BY <1>9 DEF Cache!TypeOK
  <2>2. \A u \in Tournaments : done[u] \in 0..version'[u]
    BY <1>9 DEF Cache!TypeOK
  <2>3. \A c \in Calls : /\ requests'[c].of \subseteq Tournaments
                         /\ requests'[c].outrun \subseteq requests'[c].of
                         /\ requests'[c].pc = "read" => DOMAIN requests'[c].read = requests'[c].of
    BY <1>3, <1>5, <1>6, <1>7, <1>8 DEF Cache!TypeOK
  <2> QED BY <1>9, <2>1, <2>2, <2>3 DEF Cache!TypeOK
<1>11. Cache!RequestsAreWhole'
  <2>1. requests' \in [Calls -> Cache!RequestTypes]
    BY <1>1, <1>2, <1>5, <1>6
  <2> QED BY <1>5, <1>6, <1>8, <2>1 DEF Cache!RequestsAreWhole
<1>12. \A c \in Calls : requests[c].pc = "read" => \A t \in requests[c].of :
         requests[c].read[t] \in Nat /\ requests[c].own \in Nat /\ t \in Tournaments
  BY <1>2 DEF Cache!TypeOK, Cache!RequestTypes
<1>13. Cache!ReadsAreTrue'
  <2>1. ASSUME NEW c \in Calls, NEW u \in requests'[c].of
        PROVE  /\ requests'[c].pc = "sent" => requests'[c].own = 0
               /\ requests'[c].pc = "changed" => requests'[c].own <= version'[u]
               /\ requests'[c].pc = "read" => /\ requests'[c].own <= requests'[c].read[u]
                                              /\ requests'[c].read[u] <= version'[u]
    <3>1. CASE c = r
      BY <1>3, <1>5, <1>7, <1>8, <1>9, <2>1, <3>1
    <3>2. CASE c # r
      <4>1. u \in requests[c].of /\ u \in Tournaments /\ requests[c].own \in Nat
        BY <1>2, <1>6, <1>8, <2>1, <3>2 DEF Cache!RequestTypes
      <4> QED BY <1>6, <1>8, <1>9, <1>12, <2>1, <3>2, <4>1 DEF Cache!ReadsAreTrue
    <3> QED BY <3>1, <3>2
  <2> QED BY <2>1 DEF Cache!ReadsAreTrue
<1>14. Cache!LastIsNewest'
  <2>1. ASSUME NEW c \in Calls, NEW t \in requests'[c].of \ requests'[c].outrun,
               requests'[c].pc = "read"
        PROVE  /\ cache[t] # Cache!Absent => cache[t] <= requests'[c].read[t]
               /\ \A d \in Calls : requests'[d].pc = "read" /\ t \in requests'[d].of =>
                    requests'[d].read[t] <= requests'[c].read[t]
    <3>1. CASE c = r
      <4>1. t \in requests[r].of /\ t \in Tournaments /\ requests'[c].read[t] = version'[t]
        BY <1>3, <1>5, <1>7, <1>8, <2>1, <3>1
      <4>2. cache[t] # Cache!Absent => cache[t] <= version'[t]
        BY <1>9, <4>1 DEF Cache!TypeOK
      <4>3. ASSUME NEW d \in Calls \ {r}, requests'[d].pc = "read", t \in requests'[d].of
            PROVE  requests'[d].read[t] <= version'[t]
        BY <1>6, <1>8, <1>9, <1>12, <4>1, <4>3 DEF Cache!ReadsAreTrue
      <4> QED BY <1>9, <3>1, <4>1, <4>2, <4>3
    <3>2. CASE c # r
      <4>1. /\ requests[c].pc = "read" /\ t \in requests[c].of \ requests[c].outrun
            /\ t \notin requests[r].of /\ requests'[c].read = requests[c].read
        BY <1>6, <1>8, <2>1, <3>2
      <4>2. ASSUME NEW d \in Calls, requests'[d].pc = "read", t \in requests'[d].of
            PROVE  requests'[d].read[t] <= requests[c].read[t]
        <5>1. requests[d].pc = "read" /\ t \in requests[d].of /\ requests'[d].read = requests[d].read
          BY <1>5, <1>6, <1>8, <4>1, <4>2
        <5> QED BY <4>1, <5>1 DEF Cache!LastIsNewest
      <4> QED BY <4>1, <4>2 DEF Cache!LastIsNewest
    <3> QED BY <3>1, <3>2
  <2> QED BY <2>1 DEF Cache!LastIsNewest
<1> QED BY <1>10, <1>11, <1>13, <1>14 DEF Cache!GoesForward, Cache!OwnChangeCame

\* An answer comes: what was not outrun is newer than the cache.
LEMMA CacheIsMerged ==
  ASSUME PartsAssumption, Cache!IInv, NEW r \in Calls, Cache!Answer(r)
  PROVE  Cache!IInv' /\ Cache!GoesForward /\ Cache!OwnChangeCame
<1> DEFINE version == v1  cache == v2  requests == v4  done == v5
<1> USE CacheNumbers DEF Cache!IInv
<1>1. /\ requests[r].pc = "read" /\ UNCHANGED version
      /\ cache' = [t \in Tournaments |-> IF t \in requests[r].of THEN requests[r].read[t] ELSE cache[t]]
      /\ v3' = v3 \cup ({requests[r].kind} \cap Cache!Lists)
      /\ done' = [t \in Tournaments |-> IF t \in requests[r].of /\ requests[r].own > done[t]
                                         THEN requests[r].own ELSE done[t]]
      /\ requests' = [requests EXCEPT ![r] = Cache!Idle]
  BY DEF Cache!Answer
<1>2. /\ \A c \in Calls : requests'[c] = IF c = r THEN Cache!Idle ELSE requests[c]
      /\ requests' \in [Calls -> Cache!RequestTypes] /\ requests[r] \in Cache!RequestTypes
      /\ version \in [Tournaments -> Cache!Versions] /\ done \in [Tournaments -> Cache!Versions]
      /\ cache \in [Tournaments -> Cache!Versions \cup {Cache!Absent}]
  BY <1>1 DEF Cache!RequestsAreWhole
<1>3. requests[r].of \subseteq Tournaments /\ requests[r].own \in Cache!Versions
  BY <1>2 DEF Cache!RequestTypes
<1>4. \A t \in requests[r].of :
        /\ requests[r].read[t] \in Cache!Versions /\ requests[r].own <= requests[r].read[t]
        /\ requests[r].read[t] <= version[t]
  <2>1. requests[r].read \in [requests[r].of -> Cache!Versions]
    BY <1>1, <1>2 DEF Cache!RequestTypes, Cache!TypeOK
  <2> QED BY <1>1, <2>1 DEF Cache!ReadsAreTrue
<1>5. \A t \in Tournaments :
        /\ cache'[t] = (IF t \in requests[r].of THEN requests[r].read[t] ELSE cache[t])
        /\ done'[t] = (IF t \in requests[r].of /\ requests[r].own > done[t]
                       THEN requests[r].own ELSE done[t])
        /\ cache'[t] \in Cache!Versions \cup {Cache!Absent} /\ done'[t] \in Cache!Versions
        /\ done[t] \in Nat /\ version[t] \in Nat
  BY <1>1, <1>2, <1>3, <1>4
<1>6. Cache!TypeOK'
  <2>1. \A u \in Tournaments : cache'[u] = Cache!Absent \/ cache'[u] \in 0..version[u]
    BY <1>4, <1>5 DEF Cache!TypeOK
  <2>2. \A u \in Tournaments : done'[u] \in 0..version[u]
    <3>1. ASSUME NEW u \in requests[r].of PROVE requests[r].own <= version[u]
      BY <1>3, <1>4, <1>5
    <3> QED BY <1>3, <1>5, <3>1 DEF Cache!TypeOK
  <2>3. \A c \in Calls : /\ requests'[c].of \subseteq Tournaments
                         /\ requests'[c].outrun \subseteq requests'[c].of
                         /\ requests'[c].pc = "read" => DOMAIN requests'[c].read = requests'[c].of
    BY <1>2 DEF Cache!TypeOK
  <2>4. v3' \subseteq Cache!Lists
    BY <1>1 DEF Cache!TypeOK
  <2> QED BY <1>1, <2>1, <2>2, <2>3, <2>4 DEF Cache!TypeOK
<1>7. Cache!RequestsAreWhole'
  <2>1. /\ cache' \in [Tournaments -> Cache!Versions \cup {Cache!Absent}]
        /\ done' \in [Tournaments -> Cache!Versions]
    BY <1>1, <1>5
  <2> QED BY <1>1, <1>2, <2>1 DEF Cache!RequestsAreWhole
<1>8. Cache!ReadsAreTrue'
  BY <1>1, <1>2 DEF Cache!ReadsAreTrue
<1>9. Cache!LastIsNewest'
  BY <1>1, <1>2, <1>3, <1>5 DEF Cache!LastIsNewest, Cache!TypeOK
<1>10. Cache!GoesForward
  <2>1. ASSUME NEW t \in Tournaments, cache[t] # Cache!Absent, cache'[t] # cache[t],
               t \notin requests[r].outrun
        PROVE  cache'[t] > cache[t]
    <3>1. t \in requests[r].of /\ cache'[t] = requests[r].read[t]
      BY <1>5, <2>1
    <3>2. cache[t] <= cache'[t]
      BY <1>1, <2>1, <3>1 DEF Cache!LastIsNewest
    <3>3. cache[t] \in Nat /\ cache'[t] \in Nat
      BY <1>2, <1>5
    <3> QED BY <2>1, <3>2, <3>3
  <2> QED BY <1>2, <2>1 DEF Cache!GoesForward
<1>11. Cache!OwnChangeCame
  BY <1>4, <1>5 DEF Cache!OwnChangeCame
<1> QED BY <1>6, <1>7, <1>8, <1>9, <1>10, <1>11

LEMMA CacheInv ==
  ASSUME PartsAssumption, Cache!IInv, [Cache!Next]_(Cache!vars)
  PROVE  Cache!IInv' /\ Cache!GoesForward /\ Cache!OwnChangeCame
<1> DEFINE version == v1  cache == v2  requests == v4  done == v5
<1> USE CacheNumbers DEF Cache!IInv
<1>1. \A c \in Calls : requests[c] \in Cache!RequestTypes
  BY DEF Cache!RequestsAreWhole
<1>2. version \in [Tournaments -> Cache!Versions] /\ \A t \in Tournaments : version[t] \in Nat
  BY DEF Cache!RequestsAreWhole
<1>3. ASSUME NEW c \in Calls, NEW kind \in {"one"} \cup Cache!Lists \cup Cache!Changes,
             NEW S \in SUBSET Tournaments, Cache!Begin(c, kind, S),
             kind \in Cache!Changes => \A t, u \in S : t = u
      PROVE  Cache!IInv' /\ Cache!GoesForward /\ Cache!OwnChangeCame
  <2> DEFINE new == [Cache!Idle EXCEPT !.pc = "sent", !.kind = kind, !.of = S]
  <2>1. requests' = [requests EXCEPT ![c] = new] /\ UNCHANGED <<version, cache, v3, done>>
    BY <1>3 DEF Cache!Begin
  <2>2. /\ new \in Cache!RequestTypes /\ new.pc = "sent" /\ new.own = 0 /\ new.outrun = {}
        /\ new.kind = kind /\ new.of = S
    BY DEF Cache!RequestTypes
  <2>3. v3' \subseteq Cache!Lists
    BY <2>1 DEF Cache!TypeOK
  <2> HIDE DEF new
  <2> HIDE DEF Cache!IInv
  <2> QED BY <1>3, <2>1, <2>2, <2>3, CacheWaits
<1>4. ASSUME NEW c \in Calls, NEW t \in Tournaments, Cache!Fetch(c, t)
      PROVE  Cache!IInv' /\ Cache!GoesForward /\ Cache!OwnChangeCame
  BY <1>3, <1>4 DEF Cache!Fetch, Cache!Changes
<1>5. ASSUME NEW c \in Calls, NEW list \in Cache!Lists, Cache!FetchList(c, list)
      PROVE  Cache!IInv' /\ Cache!GoesForward /\ Cache!OwnChangeCame
  BY <1>3, <1>5 DEF Cache!FetchList, Cache!Changes, Cache!Lists
<1>6. ASSUME NEW c \in Calls, NEW t \in Tournaments, NEW kind \in Cache!Changes,
             Cache!Change(c, kind, t)
      PROVE  Cache!IInv' /\ Cache!GoesForward /\ Cache!OwnChangeCame
  BY <1>3, <1>6 DEF Cache!Change
<1>7. ASSUME NEW c \in Calls, Cache!Fail(c)
      PROVE  Cache!IInv' /\ Cache!GoesForward /\ Cache!OwnChangeCame
  BY <1>7, CacheWaits DEF Cache!Fail, Cache!TypeOK
<1>8. ASSUME NEW list \in Cache!Lists, Cache!Forget(list)
      PROVE  Cache!IInv' /\ Cache!GoesForward /\ Cache!OwnChangeCame
  <2>1. UNCHANGED <<version, cache, requests, done>> /\ v3' \subseteq Cache!Lists
    BY <1>8 DEF Cache!Forget, Cache!TypeOK
  <2> QED BY <2>1 DEF Cache!TypeOK, Cache!RequestsAreWhole, Cache!ReadsAreTrue,
                      Cache!LastIsNewest, Cache!GoesForward, Cache!OwnChangeCame
<1>9. ASSUME NEW t \in Tournaments, Cache!Others(t)
      PROVE  Cache!IInv' /\ Cache!GoesForward /\ Cache!OwnChangeCame
  BY <1>9, CacheIsBehind DEF Cache!Others, Cache!RequestsAreWhole
<1>10. ASSUME NEW c \in Calls, Cache!Serve(c)
       PROVE  Cache!IInv' /\ Cache!GoesForward /\ Cache!OwnChangeCame
  <2>1. /\ requests[c].pc \in {"sent", "changed"} /\ version' = version
        /\ Cache!Reads(c, version', requests[c].own) /\ UNCHANGED <<cache, v3, done>>
    BY <1>10 DEF Cache!Serve
  <2>2. requests[c].own \in Cache!Versions /\ requests[c].of \subseteq Tournaments
    BY <1>1 DEF Cache!RequestTypes
  <2>3. \A t \in requests[c].of : requests[c].own <= version'[t]
    BY <1>2, <2>1, <2>2 DEF Cache!ReadsAreTrue
  <2> QED BY <1>2, <2>1, <2>2, <2>3, CacheIsRead
<1>11. ASSUME NEW c \in Calls, NEW t \in Tournaments, Cache!ServeChange(c, t)
       PROVE  Cache!IInv' /\ Cache!GoesForward /\ Cache!OwnChangeCame
  <2>1. /\ requests[c].of \subseteq {t} /\ requests[c].pc = "sent" /\ version[t] < CopyVersion
        /\ version' = [version EXCEPT ![t] = version[t] + 1] /\ UNCHANGED <<cache, v3, done>>
    BY <1>11 DEF Cache!ServeChange, Cache!RequestsAreWhole
  <2>2. /\ version' \in [Tournaments -> Cache!Versions] /\ version'[t] \in Cache!Versions
        /\ \A u \in Tournaments : version'[u] >= version[u]
    BY <1>2, <2>1, PartsAssumption DEF PartsAssumption, Cache!Versions
  <2>3. CASE Cache!Reads(c, version', version'[t])
    <3>1. \A u \in requests[c].of : version'[t] <= version'[u]
      BY <2>1, <2>2
    <3> QED BY <2>1, <2>2, <2>3, <3>1, CacheIsRead
  <2>4. CASE requests' = [requests EXCEPT ![c] = [requests[c] EXCEPT !.pc = "changed",
                                                                     !.own = version'[t]]]
    <3> DEFINE new == [requests[c] EXCEPT !.pc = "changed", !.own = version'[t]]
    <3>1. /\ new \in Cache!RequestTypes /\ new.pc = "changed" /\ new.own = version'[t]
          /\ new.of = requests[c].of /\ new.outrun = requests[c].outrun
          /\ new.kind = requests[c].kind
      BY <1>1, <2>2 DEF Cache!RequestTypes
    <3>2. requests' = [requests EXCEPT ![c] = new]
      BY <2>4
    <3> HIDE DEF new
    <3>3. requests' \in [Calls -> Cache!RequestTypes]
      BY <3>1, <3>2 DEF Cache!RequestsAreWhole
    <3>4. \A d \in Calls : requests'[d] = IF d = c THEN new ELSE requests[d]
      BY <3>2 DEF Cache!RequestsAreWhole
    <3> QED BY <2>1, <3>1, <3>3, <3>4, CacheIsBehind
  <2> QED BY <1>11, <2>3, <2>4 DEF Cache!ServeChange
<1>12. CASE UNCHANGED Cache!vars
  BY <1>12 DEF Cache!vars, Cache!TypeOK, Cache!RequestsAreWhole, Cache!ReadsAreTrue,
               Cache!LastIsNewest, Cache!GoesForward, Cache!OwnChangeCame
<1> HIDE DEF Cache!IInv
<1>13. CASE \E c \in Calls : Cache!Serve(c) \/ Cache!Answer(c) \/ Cache!Fail(c)
  BY <1>7, <1>10, <1>13, CacheIsMerged
<1>14. CASE \E c \in Calls, t \in Tournaments : Cache!Fetch(c, t) \/ Cache!ServeChange(c, t)
  BY <1>4, <1>11, <1>14
<1> QED BY <1>5, <1>6, <1>8, <1>9, <1>12, <1>13, <1>14 DEF Cache!Next
-----------------------------------------------------------------------------
(* The room of a club and what its dashboards show (ClubHub).              *)

LEMMA HubBegins == ASSUME PartsAssumption, Hub!Init PROVE Hub!IInv
<1> USE DEF Hub!Init, Hub!Free, Hub!Nothing
<1>1. 0 \in Hub!Versions
  BY DEF PartsAssumption, Hub!Versions
<1>2. Hub!TypeOK
  BY <1>1 DEF Hub!TypeOK
<1>3. Hub!RoomIsTrue /\ Hub!NothingIsAhead /\ Hub!InOrder
  BY DEF Hub!RoomIsTrue, Hub!NothingIsAhead, Hub!InOrder, Hub!Busy, Hub!Sockets
<1> QED BY <1>1, <1>2, <1>3 DEF Hub!IInv

\* A socket opens, breaks or closes: the room stays true, and nothing is shown.
LEMMA RoomStaysTrue ==
  ASSUME PartsAssumption, Hub!IInv, NEW s \in Hub!Sockets,
         \/ Hub!Open(s) \/ Hub!Refuse(s) \/ Hub!AttachDesktop(s) \/ Hub!AttachBrowser(s)
         \/ Hub!Break(s) \/ Hub!Closed(s)
  PROVE  Hub!IInv' /\ Hub!GoesForward
<1> DEFINE sock == v1  desktop == v2  browsers == v3  unheard == v10
           States == {"new", "verifying", "vanished", "open", "closing", "closed"}
<1> USE DEF Hub!IInv
<1>1. UNCHANGED <<v4, v5, v6, v7, v8, v9, v11>>
  BY DEF Hub!Open, Hub!Refuse, Hub!AttachDesktop, Hub!AttachBrowser, Hub!Break, Hub!Closed,
         Hub!snapshots
<1>2. /\ sock \in [Hub!Sockets -> States] /\ desktop \in Desktops \cup {None}
      /\ browsers \subseteq Dashboards /\ unheard \subseteq Hub!Sockets
      /\ None \notin Desktops /\ Desktops \cap Dashboards = {}
      /\ Desktops \subseteq Hub!Sockets /\ Dashboards \subseteq Hub!Sockets
  BY PartsAssumption DEF PartsAssumption, Hub!TypeOK, Hub!Sockets
<1>3. /\ sock' \in [Hub!Sockets -> States] /\ desktop' \in Desktops \cup {None}
      /\ browsers' \subseteq Dashboards /\ unheard' \subseteq Hub!Sockets
      /\ Hub!RoomIsTrue'
  <2>1. CASE Hub!Open(s) \/ Hub!Refuse(s) \/ Hub!Break(s)
    <3>1. /\ UNCHANGED <<desktop, browsers, unheard>>
          /\ \/ sock[s] = "new" /\ sock' = [sock EXCEPT ![s] = "verifying"]
             \/ sock[s] = "verifying" /\ sock' = [sock EXCEPT ![s] = "closed"]
             \/ sock[s] = "verifying" /\ sock' = [sock EXCEPT ![s] = "vanished"]
             \/ sock[s] = "open" /\ sock' = [sock EXCEPT ![s] = "closing"]
      BY <2>1 DEF Hub!Open, Hub!Refuse, Hub!Break
    <3> QED BY <1>2, <3>1 DEF Hub!RoomIsTrue
  <2>2. CASE Hub!AttachDesktop(s)
    <3>1. /\ s \in Desktops /\ desktop' = s /\ browsers' = browsers
          /\ sock[s] \in {"verifying", "vanished"}
          /\ unheard' = IF sock[s] = "vanished" THEN unheard \cup {s} ELSE unheard
      BY <2>2 DEF Hub!AttachDesktop
    <3>2. \A t \in Hub!Sockets :
            sock'[t] = IF t = s THEN (IF sock[s] = "verifying" THEN "open" ELSE "closed")
                       ELSE IF t = desktop /\ sock[t] = "open" THEN "closing" ELSE sock[t]
      BY <2>2, <3>1 DEF Hub!AttachDesktop
    <3>3. sock' \in [Hub!Sockets -> States]
      BY <1>2, <2>2 DEF Hub!AttachDesktop
    <3> QED BY <1>2, <3>1, <3>2, <3>3 DEF Hub!RoomIsTrue
  <2>3. CASE Hub!AttachBrowser(s)
    <3>1. /\ s \in Dashboards /\ desktop' = desktop /\ browsers' = browsers \cup {s}
          /\ sock[s] \in {"verifying", "vanished"}
          /\ sock' = [sock EXCEPT ![s] = IF sock[s] = "verifying" THEN "open" ELSE "closed"]
          /\ unheard' = IF sock[s] = "vanished" THEN unheard \cup {s} ELSE unheard
      BY <2>3 DEF Hub!AttachBrowser
    <3> QED BY <1>2, <3>1 DEF Hub!RoomIsTrue
  <2>4. CASE Hub!Closed(s)
    <3>1. /\ sock[s] = "closing" /\ sock' = [sock EXCEPT ![s] = "closed"]
          /\ desktop' = (IF desktop = s THEN None ELSE desktop) /\ browsers' = browsers \ {s}
          /\ unheard' = unheard
      BY <2>4 DEF Hub!Closed
    <3> QED BY <1>2, <3>1 DEF Hub!RoomIsTrue
  <2> QED BY <2>1, <2>2, <2>3, <2>4
<1>4. Hub!TypeOK'
  BY <1>1, <1>3 DEF Hub!TypeOK
<1>5. Hub!NothingIsAhead' /\ Hub!InOrder' /\ Hub!GoesForward
  <2>1. \A b \in Dashboards : v7[b] \in Nat
    BY PartsAssumption DEF PartsAssumption, Hub!TypeOK, Hub!Versions
  <2> QED BY <1>1, <2>1 DEF Hub!NothingIsAhead, Hub!InOrder, Hub!Busy, Hub!GoesForward
<1> QED BY <1>1, <1>3, <1>4, <1>5

\* The numbers that are compared.
LEMMA HubNumbers ==
  ASSUME PartsAssumption, Hub!IInv
  PROVE  /\ v4 \in Nat /\ v6 \in Nat /\ v9 \in Nat /\ Hub!Versions \subseteq Nat
         /\ v4 \in Hub!Versions /\ v6 \in Hub!Versions /\ v9 \in Hub!Versions
         /\ \A h \in Calls : v5[h].v \in Nat /\ v5[h].v \in Hub!Versions
         /\ \A b \in Dashboards : /\ v7[b] \in Nat /\ v7[b] \in Hub!Versions
                                  /\ v8[b].v \in Nat /\ v8[b].v \in Hub!Versions
<1>1. Hub!Versions \subseteq Nat
  BY DEF PartsAssumption, Hub!Versions
<1> QED BY <1>1 DEF Hub!IInv, Hub!TypeOK

\* The desktop changes: without another handler at work, its state is the newest.
LEMMA HubSyncs ==
  ASSUME PartsAssumption, Hub!IInv, NEW h \in Calls, NEW socket \in BOOLEAN, Hub!Sync(h, socket)
  PROVE  Hub!IInv' /\ Hub!GoesForward
<1> DEFINE version == v4  work == v5  stored == v6  shown == v7  asked == v8  acked == v9
           crossed == v11
           new == [pc |-> IF socket THEN "sync" ELSE "post", v |-> version']
<1> USE HubNumbers DEF Hub!IInv
<1>1. /\ work[h] = Hub!Free /\ version' \in Hub!Versions /\ version' >= version
      /\ work' = [work EXCEPT ![h] = new]
      /\ crossed' = (IF Hub!Busy = {} THEN crossed ELSE Dashboards)
      /\ UNCHANGED <<v1, v2, v3, v10, stored, shown, asked, acked>>
  BY DEF Hub!Sync, Hub!room
<1>2. new \in [pc : {"free", "sync", "post", "stored"}, v : Hub!Versions]
      /\ new.v = version' /\ new.pc \in {"sync", "post"}
  BY <1>1
<1> HIDE DEF new
<1>3. /\ \A i \in Calls : work'[i] = IF i = h THEN new ELSE work[i]
      /\ work' \in [Calls -> [pc : {"free", "sync", "post", "stored"}, v : Hub!Versions]]
  BY <1>1, <1>2 DEF Hub!TypeOK
<1>4. Hub!TypeOK' /\ Hub!RoomIsTrue'
  BY <1>1, <1>3 DEF Hub!TypeOK, Hub!RoomIsTrue
<1>5. version' \in Nat
  BY <1>1
<1>6. Hub!NothingIsAhead'
  BY <1>1, <1>2, <1>3, <1>5 DEF Hub!NothingIsAhead
<1>7. Hub!InOrder'
  <2>1. CASE Hub!Busy = {}
    <3>1. \A i \in Calls \ {h} : work'[i].pc = "free"
      BY <1>3, <2>1 DEF Hub!Busy
    <3> QED BY <1>1, <1>2, <1>3, <1>5, <2>1, <3>1 DEF Hub!InOrder, Hub!Busy
  <2>2. CASE Hub!Busy # {}
    BY <1>1, <2>2 DEF Hub!InOrder
  <2> QED BY <2>1, <2>2
<1>8. Hub!GoesForward
  BY <1>1 DEF Hub!GoesForward
<1> QED BY <1>1, <1>4, <1>6, <1>7, <1>8

\* What is told is shown by the dashboards that attend.
LEMMA ToldIsShown ==
  ASSUME Hub!TypeOK, NEW v \in Hub!Versions
  PROVE  /\ Hub!Told(v) \in [Dashboards -> Hub!Versions]
         /\ \A b \in Dashboards : Hub!Told(v)[b] = IF b \in Hub!Attended THEN v ELSE v7[b]
         /\ Hub!Passing \subseteq Dashboards
BY DEF Hub!TypeOK, Hub!Told, Hub!Passing, Hub!Attended

LEMMA HubAcknowledges ==
  ASSUME PartsAssumption, Hub!IInv, Hub!Acknowledge
  PROVE  Hub!IInv' /\ Hub!GoesForward
<1> DEFINE version == v4  work == v5  stored == v6  shown == v7  asked == v8  acked == v9
           crossed == v11
<1> USE HubNumbers DEF Hub!IInv
<1>1. /\ version < MaxStates /\ version' = version + 1 /\ acked' = version'
      /\ shown' = Hub!Told(version')
      /\ crossed' = (IF Hub!Busy = {} THEN crossed \cup Hub!Passing ELSE Dashboards)
      /\ UNCHANGED <<v1, v2, v3, v10, work, stored, asked>>
  BY DEF Hub!Acknowledge, Hub!room
<1>2. version' \in Hub!Versions /\ version' \in Nat
  BY <1>1, PartsAssumption DEF PartsAssumption, Hub!Versions
<1>3. /\ shown' \in [Dashboards -> Hub!Versions] /\ Hub!Passing \subseteq Dashboards
      /\ \A b \in Dashboards : shown'[b] = IF b \in Hub!Attended THEN version' ELSE shown[b]
  BY <1>1, <1>2, ToldIsShown
<1>4. Hub!TypeOK' /\ Hub!RoomIsTrue'
  BY <1>1, <1>2, <1>3 DEF Hub!TypeOK, Hub!RoomIsTrue
<1>5. Hub!NothingIsAhead'
  BY <1>1, <1>2, <1>3 DEF Hub!NothingIsAhead
<1>6. Hub!InOrder'
  <2>1. CASE Hub!Busy = {}
    <3>1. ASSUME NEW b \in Dashboards, b \notin crossed, b \notin Hub!Passing
          PROVE  /\ shown'[b] <= stored \/ shown'[b] <= acked'
                 /\ asked[b].pc = "read" => shown'[b] <= asked[b].v /\ asked[b].v <= stored
      BY <1>1, <1>2, <1>3, <3>1 DEF Hub!InOrder, Hub!NothingIsAhead, Hub!Passing
    <3>2. Hub!Busy' = {}
      BY <1>1, <2>1 DEF Hub!Busy
    <3> QED BY <1>1, <2>1, <3>1, <3>2 DEF Hub!InOrder
  <2>2. CASE Hub!Busy # {}
    BY <1>1, <2>2 DEF Hub!InOrder
  <2> QED BY <2>1, <2>2
<1>7. Hub!GoesForward
  BY <1>1, <1>2, <1>3 DEF Hub!GoesForward, Hub!NothingIsAhead
<1> QED BY <1>1, <1>2, <1>4, <1>5, <1>6, <1>7

\* An acknowledgement that comes late carries nothing newer than the desktop.
LEMMA HubIsLate ==
  ASSUME PartsAssumption, Hub!IInv, NEW v \in Hub!Versions, Hub!AcknowledgeLate(v)
  PROVE  Hub!IInv' /\ Hub!GoesForward
<1> USE HubNumbers DEF Hub!IInv
<1>1. /\ v <= v4 /\ v7' = Hub!Told(v) /\ v11' = Dashboards
      /\ UNCHANGED <<v1, v2, v3, v4, v5, v6, v8, v9, v10>>
  BY DEF Hub!AcknowledgeLate, Hub!room
<1>2. /\ v7' \in [Dashboards -> Hub!Versions]
      /\ \A b \in Dashboards : v7'[b] = IF b \in Hub!Attended THEN v ELSE v7[b]
  BY <1>1, ToldIsShown
<1>3. Hub!TypeOK' /\ Hub!RoomIsTrue'
  BY <1>1, <1>2 DEF Hub!TypeOK, Hub!RoomIsTrue
<1>4. Hub!NothingIsAhead'
  BY <1>1, <1>2 DEF Hub!NothingIsAhead
<1>5. Hub!InOrder' /\ Hub!GoesForward
  BY <1>1 DEF Hub!InOrder, Hub!GoesForward
<1> QED BY <1>1, <1>3, <1>4, <1>5

\* A snapshot is stored, or that fails.
LEMMA HubPersists ==
  ASSUME PartsAssumption, Hub!IInv, NEW h \in Calls, Hub!Persist(h) \/ Hub!PersistFails(h)
  PROVE  Hub!IInv' /\ Hub!GoesForward
<1> DEFINE version == v4  work == v5  stored == v6  shown == v7  asked == v8  acked == v9
           crossed == v11
           new == IF work[h].pc = "post" THEN Hub!Free ELSE [work[h] EXCEPT !.pc = "stored"]
<1> USE HubNumbers DEF Hub!IInv
<1>1. /\ work[h].pc \in {"sync", "post"} /\ work' = [work EXCEPT ![h] = new]
      /\ UNCHANGED <<v1, v2, v3, v10, version, shown, asked, acked>>
      /\ \/ stored' = work[h].v /\ crossed' = crossed
         \/ stored' = stored /\ crossed' = Dashboards
  BY DEF Hub!Persist, Hub!PersistFails, Hub!room
<1>2. /\ new \in [pc : {"free", "sync", "post", "stored"}, v : Hub!Versions]
      /\ new.pc \in {"free", "stored"} /\ (new.pc = "stored" => new.v = work[h].v)
      /\ new.v = 0 \/ new.v = work[h].v
  <2>1. 0 \in Hub!Versions /\ work[h] \in [pc : {"free", "sync", "post", "stored"}, v : Hub!Versions]
    BY PartsAssumption DEF PartsAssumption, Hub!TypeOK, Hub!Versions
  <2> QED BY <2>1 DEF Hub!Free
<1> HIDE DEF new
<1>3. /\ \A i \in Calls : work'[i] = IF i = h THEN new ELSE work[i]
      /\ work' \in [Calls -> [pc : {"free", "sync", "post", "stored"}, v : Hub!Versions]]
  BY <1>1, <1>2 DEF Hub!TypeOK
<1>4. stored' \in Hub!Versions
  BY <1>1
<1>5. Hub!TypeOK' /\ Hub!RoomIsTrue'
  BY <1>1, <1>3, <1>4 DEF Hub!TypeOK, Hub!RoomIsTrue
<1>6. Hub!NothingIsAhead'
  BY <1>1, <1>2, <1>3 DEF Hub!NothingIsAhead
<1>7. Hub!InOrder'
  <2>1. ASSUME NEW b \in Dashboards \ crossed, stored' = work[h].v
        PROVE  /\ \A i \in Calls : work'[i].pc # "free" => i = h
               /\ work[h].v = version /\ stored <= stored'
    BY <1>1, <1>2, <1>3, <2>1 DEF Hub!InOrder, Hub!Busy, Hub!NothingIsAhead
  <2>2. ASSUME NEW b \in Dashboards \ crossed, stored' = work[h].v
        PROVE  /\ shown[b] <= stored' \/ shown[b] <= acked
               /\ asked[b].pc = "read" => shown[b] <= asked[b].v /\ asked[b].v <= stored'
    <3>1. stored' \in Nat
      BY <1>4
    <3> QED BY <2>1, <2>2, <3>1 DEF Hub!InOrder
  <2> QED BY <1>1, <1>2, <1>3, <2>1, <2>2 DEF Hub!InOrder, Hub!Busy
<1>8. Hub!GoesForward
  BY <1>1 DEF Hub!GoesForward
<1> QED BY <1>1, <1>4, <1>5, <1>6, <1>7, <1>8

LEMMA HubBroadcasts ==
  ASSUME PartsAssumption, Hub!IInv, NEW h \in Calls, Hub!Broadcast(h)
  PROVE  Hub!IInv' /\ Hub!GoesForward
<1> DEFINE version == v4  work == v5  stored == v6  shown == v7  asked == v8  acked == v9
           crossed == v11
<1> USE HubNumbers DEF Hub!IInv
<1>1. /\ work[h].pc = "stored" /\ shown' = Hub!Told(work[h].v)
      /\ crossed' = crossed \cup Hub!Passing /\ work' = [work EXCEPT ![h] = Hub!Free]
      /\ UNCHANGED <<v1, v2, v3, v10, version, stored, asked, acked>>
  BY DEF Hub!Broadcast, Hub!room
<1>2. /\ shown' \in [Dashboards -> Hub!Versions] /\ Hub!Passing \subseteq Dashboards
      /\ \A b \in Dashboards : shown'[b] = IF b \in Hub!Attended THEN work[h].v ELSE shown[b]
  BY <1>1, ToldIsShown
<1>3. /\ \A i \in Calls : work'[i] = IF i = h THEN Hub!Free ELSE work[i]
      /\ work' \in [Calls -> [pc : {"free", "sync", "post", "stored"}, v : Hub!Versions]]
      /\ Hub!Free.pc = "free" /\ Hub!Free.v = 0
  <2>1. 0 \in Hub!Versions
    BY PartsAssumption DEF PartsAssumption, Hub!Versions
  <2> QED BY <1>1, <2>1 DEF Hub!TypeOK, Hub!Free
<1>4. Hub!TypeOK' /\ Hub!RoomIsTrue'
  BY <1>1, <1>2, <1>3 DEF Hub!TypeOK, Hub!RoomIsTrue
<1>5. Hub!NothingIsAhead'
  BY <1>1, <1>2, <1>3 DEF Hub!NothingIsAhead
<1>6. \A b \in Dashboards \ crossed : work[h].v = version /\ stored = version
  BY <1>1 DEF Hub!InOrder, Hub!Busy
<1>7. Hub!InOrder'
  <2>1. ASSUME NEW b \in Dashboards, b \notin crossed, b \notin Hub!Passing
        PROVE  /\ shown'[b] <= stored \/ shown'[b] <= acked
               /\ asked[b].pc = "read" => shown'[b] <= asked[b].v /\ asked[b].v <= stored
    BY <1>1, <1>2, <1>6, <2>1 DEF Hub!InOrder, Hub!Passing
  <2>2. ASSUME NEW b \in Dashboards, b \notin crossed
        PROVE  \A i \in Calls : work'[i].pc = "free"
    BY <1>1, <1>3, <2>2 DEF Hub!InOrder, Hub!Busy
  <2> QED BY <1>1, <2>1, <2>2 DEF Hub!InOrder, Hub!Busy
<1>8. Hub!GoesForward
  BY <1>1, <1>2, <1>6 DEF Hub!GoesForward, Hub!NothingIsAhead
<1> QED BY <1>1, <1>4, <1>5, <1>7, <1>8

\* A dashboard asks for the row, and is answered.
LEMMA HubIsAsked ==
  ASSUME PartsAssumption, Hub!IInv, NEW r \in Dashboards, Hub!Ask(r) \/ Hub!Answer(r)
  PROVE  Hub!IInv' /\ Hub!GoesForward
<1> DEFINE version == v4  work == v5  stored == v6  shown == v7  asked == v8  acked == v9
           crossed == v11
           AskedTypes == [pc : {"idle", "read"}, v : Hub!Versions]
<1> USE HubNumbers DEF Hub!IInv
<1>1. UNCHANGED <<v1, v2, v3, v10, version, work, stored, acked>>
  BY DEF Hub!Ask, Hub!Answer, Hub!room
<1>2. CASE Hub!Ask(r)
  <2> DEFINE new == [pc |-> "read", v |-> stored]
  <2>1. /\ asked' = [asked EXCEPT ![r] = new] /\ UNCHANGED shown
        /\ crossed' = IF stored < acked THEN crossed \cup {r} ELSE crossed
    BY <1>2 DEF Hub!Ask
  <2>2. new \in AskedTypes /\ new.v = stored /\ new.pc = "read"
    OBVIOUS
  <2> HIDE DEF new
  <2>3. /\ \A b \in Dashboards : asked'[b] = IF b = r THEN new ELSE asked[b]
        /\ asked' \in [Dashboards -> AskedTypes]
    BY <2>1, <2>2 DEF Hub!TypeOK
  <2>4. Hub!TypeOK' /\ Hub!RoomIsTrue' /\ Hub!NothingIsAhead' /\ Hub!GoesForward
    BY <1>1, <2>1, <2>2, <2>3
    DEF Hub!TypeOK, Hub!RoomIsTrue, Hub!NothingIsAhead, Hub!GoesForward
  <2>5. r \notin crossed' => shown[r] <= stored
    BY <2>1 DEF Hub!InOrder
  <2>6. Hub!InOrder'
    BY <1>1, <2>1, <2>2, <2>3, <2>5 DEF Hub!InOrder, Hub!Busy
  <2> QED BY <1>1, <2>4, <2>6
<1>3. CASE Hub!Answer(r)
  <2>1. /\ asked[r].pc = "read" /\ shown' = [shown EXCEPT ![r] = asked[r].v]
        /\ asked' = [asked EXCEPT ![r] = Hub!Nothing] /\ UNCHANGED crossed
    BY <1>3 DEF Hub!Answer
  <2>2. Hub!Nothing \in AskedTypes /\ Hub!Nothing.pc = "idle" /\ Hub!Nothing.v = 0
    <3>1. 0 \in Hub!Versions
      BY PartsAssumption DEF PartsAssumption, Hub!Versions
    <3> QED BY <3>1 DEF Hub!Nothing
  <2>3. /\ \A b \in Dashboards : /\ asked'[b] = IF b = r THEN Hub!Nothing ELSE asked[b]
                                 /\ shown'[b] = IF b = r THEN asked[r].v ELSE shown[b]
        /\ asked' \in [Dashboards -> AskedTypes] /\ shown' \in [Dashboards -> Hub!Versions]
    BY <2>1, <2>2 DEF Hub!TypeOK
  <2>4. Hub!TypeOK' /\ Hub!RoomIsTrue'
    BY <1>1, <2>1, <2>3 DEF Hub!TypeOK, Hub!RoomIsTrue
  <2>5. Hub!NothingIsAhead'
    BY <1>1, <2>2, <2>3 DEF Hub!NothingIsAhead
  <2>6. Hub!InOrder'
    BY <1>1, <2>1, <2>2, <2>3 DEF Hub!InOrder, Hub!Busy
  <2>7. Hub!GoesForward
    BY <2>1, <2>3 DEF Hub!GoesForward, Hub!InOrder
  <2> QED BY <1>1, <2>4, <2>5, <2>6, <2>7
<1> QED BY <1>2, <1>3

LEMMA HubInv ==
  ASSUME PartsAssumption, Hub!IInv, [Hub!Next]_(Hub!vars)
  PROVE  Hub!IInv' /\ Hub!GoesForward
<1>1. CASE UNCHANGED Hub!vars
  <2>1. UNCHANGED <<v1, v2, v3, v4, v5, v6, v7, v8, v9, v10, v11>>
    BY <1>1 DEF Hub!vars, Hub!room
  <2> QED BY <2>1, HubNumbers
          DEF Hub!IInv, Hub!TypeOK, Hub!RoomIsTrue, Hub!NothingIsAhead, Hub!InOrder, Hub!Busy,
              Hub!GoesForward
<1>2. CASE Hub!Next
  BY <1>2, RoomStaysTrue, HubSyncs, HubAcknowledges, HubIsLate, HubPersists,
      HubBroadcasts, HubIsAsked
  DEF Hub!Next, Hub!Handle
<1> QED BY <1>1, <1>2
-----------------------------------------------------------------------------
(* The settings of a user (Profile).                                       *)

\* What is in a row, a patch and a request.
LEMMA SettingsTypes ==
  ASSUME PartsAssumption, Settings!IInv
  PROVE  /\ v6 \in [Calls -> Settings!RequestTypes] /\ \A c \in Calls : Settings!Whole(v6[c])
         /\ v3 \in [Tabs -> Settings!Rows] /\ v1 \in Settings!Rows
         /\ v4 \in [Tabs -> [Settings!Texts -> Values]] /\ v5 \in [Tabs -> SUBSET Settings!Texts]
         /\ 0 \in Values /\ "avatar" \notin Settings!Texts /\ "password" \notin Settings!Texts
         /\ Settings!Fields = Settings!Texts \cup {"avatar", "password"}
         /\ \A form \in TextForms : form \subseteq Settings!Texts
BY DEF Settings!IInv, Settings!RequestsAreWhole, Settings!TypeOK, PartsAssumption,
       Settings!Texts, Settings!Fields

\* A patch of some fields.
LEMMA SettingsPatch ==
  ASSUME NEW S \in SUBSET Settings!Fields, NEW p \in [S -> Values \cup Files \cup {0, 1}]
  PROVE  p \in Settings!Patches
BY DEF Settings!Patches

\* A request that begins, or ends.
LEMMA SettingsRequest ==
  ASSUME NEW t \in Tabs
  PROVE  /\ Settings!Request(t) \in Settings!RequestTypes
         /\ Settings!Request(t).pc = "idle" /\ Settings!Request(t).tab = t
         /\ ~Settings!Request(t).stale
         /\ Settings!Over(t) \in Settings!RequestTypes /\ Settings!Over(t).pc = "over"
         /\ Settings!NoPatch \in Settings!Patches
<1>1. Settings!NoPatch \in [{} -> Values \cup Files \cup {0, 1}]
  BY DEF Settings!NoPatch
<1>2. Settings!NoPatch \in Settings!Patches
  BY <1>1, SettingsPatch
<1> QED BY <1>2 DEF Settings!Request, Settings!Over, Settings!RequestTypes

LEMMA SettingsBegins == ASSUME PartsAssumption, Settings!Init PROVE Settings!IInv
<1> USE DEF Settings!Init
<1>1. PICK t \in Tabs : v6 = [c \in Calls |-> Settings!Request(t)]
  OBVIOUS
<1>2. Settings!RequestsAreWhole
  BY <1>1, SettingsRequest DEF Settings!RequestsAreWhole, Settings!Whole
<1>3. /\ 0 \in Values /\ v1 = [f \in Settings!Fields |-> 0] /\ v1 \in Settings!Rows
      /\ Settings!Texts \subseteq Settings!Fields /\ "avatar" \in Settings!Fields
  BY PartsAssumption DEF PartsAssumption, Settings!Rows, Settings!Fields
<1>4. Settings!TypeOK
  BY <1>1, <1>3, SettingsRequest DEF Settings!TypeOK, Settings!RequestTypes
<1>5. /\ Settings!AvatarIsStored /\ Settings!EndedIsShown
      /\ Settings!DraftsAreTyped /\ Settings!TextsAreTyped
  BY <1>3 DEF Settings!AvatarIsStored, Settings!EndedIsShown, Settings!DraftsAreTyped,
              Settings!TextsAreTyped
<1> QED BY <1>2, <1>4, <1>5 DEF Settings!IInv

\* A field is typed in, or set back to what the store has.
LEMMA SettingsAreTyped ==
  ASSUME PartsAssumption, Settings!IInv, NEW t \in Tabs,
         \/ \E f \in Settings!Texts, v \in Values : Settings!Type(t, f, v)
         \/ \E form \in TextForms : Settings!Reset(t, form)
  PROVE  Settings!IInv' /\ Settings!ChangesWhatWasTyped
<1> DEFINE row == v1  stored == v2  user == v3  draft == v4  typed == v5  requests == v6
           behind == v7
<1> USE SettingsTypes
<1>1. UNCHANGED <<row, stored, user, requests, behind>>
  BY DEF Settings!Type, Settings!Reset
<1>2. /\ draft' \in [Tabs -> [Settings!Texts -> Values]]
      /\ typed' \in [Tabs -> SUBSET Settings!Texts] /\ Settings!DraftsAreTyped'
  <2>1. CASE \E f \in Settings!Texts, v \in Values : Settings!Type(t, f, v)
    <3>1. PICK f \in Settings!Texts, v \in Values : Settings!Type(t, f, v)
      BY <2>1
    <3>2. draft' = [draft EXCEPT ![t] = [draft[t] EXCEPT ![f] = v]]
          /\ typed' = [typed EXCEPT ![t] = typed[t] \cup {f}]
      BY <3>1 DEF Settings!Type
    <3> QED BY <1>1, <3>2 DEF Settings!IInv, Settings!DraftsAreTyped
  <2>2. CASE \E form \in TextForms : Settings!Reset(t, form)
    <3>1. PICK form \in TextForms : Settings!Reset(t, form)
      BY <2>2
    <3> DEFINE new == [f \in Settings!Texts |-> IF f \in form THEN user[t][f] ELSE draft[t][f]]
    <3>2. draft' = [draft EXCEPT ![t] = new] /\ typed' = [typed EXCEPT ![t] = typed[t] \ form]
      BY <3>1 DEF Settings!Reset
    <3>3. new \in [Settings!Texts -> Values]
          /\ \A f \in Settings!Texts : new[f] # user[t][f] => new[f] = draft[t][f] /\ f \notin form
      BY DEF Settings!IInv, Settings!TextsAreTyped
    <3> HIDE DEF new
    <3> QED BY <1>1, <3>2, <3>3 DEF Settings!IInv, Settings!DraftsAreTyped
  <2> QED BY <2>1, <2>2
<1>3. Settings!RequestsAreWhole'
  BY <1>1 DEF Settings!RequestsAreWhole, Settings!Whole
<1>4. Settings!TypeOK'
  BY <1>1, <1>2 DEF Settings!IInv, Settings!TypeOK
<1> QED BY <1>1, <1>2, <1>3, <1>4
        DEF Settings!IInv, Settings!AvatarIsStored, Settings!EndedIsShown, Settings!TextsAreTyped,
            Settings!ChangesWhatWasTyped

\* A request goes on, and the user and the page stay as they are.
LEMMA SettingsGoOn ==
  ASSUME PartsAssumption, Settings!IInv, NEW r \in Calls, NEW new \in Settings!RequestTypes,
         UNCHANGED <<v1, v2, v3, v4, v5, v7>>, v6' = [v6 EXCEPT ![r] = new], Settings!Whole(new)
  PROVE  Settings!IInv' /\ Settings!ChangesWhatWasTyped
<1> DEFINE requests == v6
<1>1. /\ requests' \in [Calls -> Settings!RequestTypes]
      /\ \A c \in Calls : requests'[c] = IF c = r THEN new ELSE requests[c]
  BY SettingsTypes
<1>2. \A c \in Calls : Settings!Whole(requests'[c])
  BY <1>1, SettingsTypes
<1>3. Settings!RequestsAreWhole'
  BY <1>1, <1>2 DEF Settings!RequestsAreWhole, Settings!Whole
<1>4. Settings!TypeOK'
  BY <1>1, <1>2 DEF Settings!IInv, Settings!TypeOK, Settings!RequestTypes, Settings!Whole
<1> QED BY <1>3, <1>4
        DEF Settings!IInv, Settings!AvatarIsStored, Settings!EndedIsShown, Settings!TextsAreTyped,
            Settings!DraftsAreTyped, Settings!ChangesWhatWasTyped

\* A button sends a request: a form, what was typed in it.
LEMMA SettingsAreSent ==
  ASSUME PartsAssumption, Settings!IInv, NEW r \in Calls, NEW t \in Tabs,
         \/ \E form \in TextForms : Settings!Save(r, t, form)
         \/ \E n \in Files : Settings!Upload(r, t, n)
         \/ Settings!Remove(r, t) \/ Settings!SetPassword(r, t) \/ Settings!RemovePassword(r, t)
  PROVE  Settings!IInv' /\ Settings!ChangesWhatWasTyped
<1> DEFINE user == v3  draft == v4  typed == v5
           Begun(pc, kind, patch) == [Settings!Request(t) EXCEPT !.pc = pc, !.kind = kind,
                                        !.patch = patch, !.meant = typed[t]]
           Codomain == Values \cup Files \cup {0, 1}
           Meant(pc, patch) ==
             /\ pc = "put" => DOMAIN patch = {"avatar"} /\ patch["avatar"] \in Files
             /\ pc = "sent" => \A f \in DOMAIN patch :
                                 /\ f \in Settings!Texts => f \in typed[t] /\ patch[f] \in Values
                                 /\ f = "avatar" => patch[f] \in v2
             /\ pc = "password" => DOMAIN patch = {"password"}
<1>1. ASSUME NEW pc \in {"put", "sent", "password"}, NEW patch \in Settings!Patches,
             NEW kind \in {"form", "upload", "remove", "password", "no password"},
             Meant(pc, patch)
      PROVE  /\ Begun(pc, kind, patch) \in Settings!RequestTypes
             /\ Settings!Whole(Begun(pc, kind, patch))
  <2>1. /\ Begun(pc, kind, patch) \in Settings!RequestTypes
        /\ Begun(pc, kind, patch).pc = pc /\ Begun(pc, kind, patch).patch = patch
        /\ Begun(pc, kind, patch).meant = typed[t]
    <3>1. Settings!Request(t) \in Settings!RequestTypes /\ typed[t] \subseteq Settings!Texts
      BY SettingsRequest, SettingsTypes
    <3> QED BY <3>1 DEF Settings!RequestTypes
  <2> HIDE DEF Begun
  <2> QED BY <1>1, <2>1 DEF Settings!Whole
<1> USE DEF Settings!Sends, Settings!page
<1>2. CASE \E form \in TextForms : Settings!Save(r, t, form)
  <2>1. PICK form \in TextForms : Settings!Save(r, t, form)
    BY <1>2
  <2> DEFINE dirty == {f \in form : draft[t][f] # user[t][f]}
             patch == [f \in dirty |-> draft[t][f]]
             new == Begun("sent", "form", patch)
  <2>2. UNCHANGED <<v1, v2, v3, v4, v5, v7>> /\ v6' = [v6 EXCEPT ![r] = new]
    BY <2>1 DEF Settings!Save
  <2>3. dirty \subseteq Settings!Texts /\ dirty \subseteq typed[t]
    BY SettingsTypes DEF Settings!IInv, Settings!DraftsAreTyped
  <2>4. DOMAIN patch = dirty /\ \A f \in dirty : patch[f] \in Values
    BY <2>3, SettingsTypes
  <2>5. patch \in [dirty -> Codomain] /\ dirty \in SUBSET Settings!Fields
    BY <2>3, <2>4, SettingsTypes
  <2>6. patch \in Settings!Patches
    <3> HIDE DEF patch, dirty
    <3> QED BY <2>5, SettingsPatch
  <2>7. Meant("sent", patch)
    BY <2>3, <2>4, SettingsTypes
  <2>8. new \in Settings!RequestTypes /\ Settings!Whole(new)
    <3> HIDE DEF patch, Begun, Meant
    <3> QED BY <1>1, <2>6, <2>7
  <2> HIDE DEF new
  <2> QED BY <2>2, <2>8, SettingsGoOn
<1>3. CASE \E n \in Files : Settings!Upload(r, t, n)
  <2>1. PICK n \in Files : Settings!Upload(r, t, n)
    BY <1>3
  <2> DEFINE patch == [f \in {"avatar"} |-> n]  new == Begun("put", "upload", patch)
  <2>2. UNCHANGED <<v1, v2, v3, v4, v5, v7>> /\ v6' = [v6 EXCEPT ![r] = new]
    BY <2>1 DEF Settings!Upload
  <2>3. /\ DOMAIN patch = {"avatar"} /\ patch["avatar"] \in Files
        /\ patch \in [{"avatar"} -> Codomain] /\ {"avatar"} \in SUBSET Settings!Fields
    BY SettingsTypes
  <2>4. new \in Settings!RequestTypes /\ Settings!Whole(new)
    <3>1. Meant("put", patch)
      BY <2>3
    <3> HIDE DEF patch, Begun, Meant
    <3>2. patch \in Settings!Patches
      BY <2>3, SettingsPatch
    <3> QED BY <1>1, <3>1, <3>2
  <2> HIDE DEF new
  <2> QED BY <2>2, <2>4, SettingsGoOn
<1>4. CASE Settings!Remove(r, t)
  <2> DEFINE patch == [f \in {"avatar"} |-> 0]  new == Begun("sent", "remove", patch)
  <2>1. UNCHANGED <<v1, v2, v3, v4, v5, v7>> /\ v6' = [v6 EXCEPT ![r] = new]
    BY <1>4 DEF Settings!Remove
  <2>2. /\ DOMAIN patch = {"avatar"} /\ patch["avatar"] \in v2
        /\ patch \in [{"avatar"} -> Codomain] /\ {"avatar"} \in SUBSET Settings!Fields
    BY SettingsTypes DEF Settings!IInv
  <2>3. new \in Settings!RequestTypes /\ Settings!Whole(new)
    <3>1. Meant("sent", patch)
      BY <2>2, SettingsTypes
    <3> HIDE DEF patch, Begun, Meant
    <3>2. patch \in Settings!Patches
      BY <2>2, SettingsPatch
    <3> QED BY <1>1, <3>1, <3>2
  <2> HIDE DEF new
  <2> QED BY <2>1, <2>3, SettingsGoOn
<1>5. CASE Settings!SetPassword(r, t) \/ Settings!RemovePassword(r, t)
  <2> DEFINE patch(n) == [f \in {"password"} |-> n]
             new(n, kind) == Begun("password", kind, patch(n))
  <2>1. PICK n \in {0, 1}, kind \in {"password", "no password"} :
          UNCHANGED <<v1, v2, v3, v4, v5, v7>> /\ v6' = [v6 EXCEPT ![r] = new(n, kind)]
    BY <1>5 DEF Settings!SetPassword, Settings!RemovePassword
  <2>2. /\ DOMAIN patch(n) = {"password"}
        /\ patch(n) \in [{"password"} -> Codomain] /\ {"password"} \in SUBSET Settings!Fields
    BY SettingsTypes
  <2>3. new(n, kind) \in Settings!RequestTypes /\ Settings!Whole(new(n, kind))
    <3>1. Meant("password", patch(n))
      BY <2>2
    <3> HIDE DEF patch, Begun, Meant
    <3>2. patch(n) \in Settings!Patches
      BY <2>2, SettingsPatch
    <3> QED BY <1>1, <3>1, <3>2
  <2> HIDE DEF new
  <2> QED BY <2>1, <2>3, SettingsGoOn
<1> QED BY <1>2, <1>3, <1>4, <1>5

\* The avatar is in the storage, and then in the request.
LEMMA SettingsArePut ==
  ASSUME PartsAssumption, Settings!IInv, NEW r \in Calls, Settings!Put(r)
  PROVE  Settings!IInv' /\ Settings!ChangesWhatWasTyped
<1> DEFINE stored == v2  requests == v6  new == [requests[r] EXCEPT !.pc = "sent"]
<1>1. /\ requests[r].pc = "put" /\ requests' = [requests EXCEPT ![r] = new]
      /\ stored' = stored \cup {requests[r].patch["avatar"]} /\ UNCHANGED <<v1, v3, v4, v5, v7>>
  BY DEF Settings!Put, Settings!page
<1>2. /\ requests[r] \in Settings!RequestTypes
      /\ DOMAIN requests[r].patch = {"avatar"} /\ requests[r].patch["avatar"] \in Files
  BY <1>1, SettingsTypes DEF Settings!Whole
<1>3. /\ new \in Settings!RequestTypes /\ new.pc = "sent" /\ new.patch = requests[r].patch
  BY <1>2 DEF Settings!RequestTypes
<1> HIDE DEF new
<1>4. /\ requests' \in [Calls -> Settings!RequestTypes]
      /\ \A c \in Calls : requests'[c] = IF c = r THEN new ELSE requests[c]
  BY <1>1, <1>3, SettingsTypes
<1>5. \A c \in Calls : Settings!Whole(requests[c])' 
  BY <1>1, <1>2, <1>3, <1>4, SettingsTypes DEF Settings!Whole
<1>6. Settings!RequestsAreWhole'
  BY <1>4, <1>5 DEF Settings!RequestsAreWhole
<1>7. Settings!TypeOK'
  <2>1. \A c \in Calls : requests'[c].tab \in Tabs /\ requests'[c].meant \subseteq Settings!Texts
    <3>1. \A q \in Settings!RequestTypes : q.tab \in Tabs /\ q.meant \subseteq Settings!Texts
      BY DEF Settings!RequestTypes
    <3> QED BY <1>4, <3>1
  <2>2. \A c \in Calls : requests'[c].pc = "read" => requests'[c].read \in Settings!Rows
    <3>1. \A c \in Calls : requests[c].pc = "read" => requests[c].read \in Settings!Rows
      BY DEF Settings!IInv, Settings!TypeOK
    <3> QED BY <1>3, <1>4, <3>1
  <2>3. stored' \subseteq Files \cup {0}
    <3>1. stored \subseteq Files \cup {0}
      BY DEF Settings!IInv, Settings!TypeOK
    <3> QED BY <1>1, <1>2, <3>1
  <2> HIDE DEF stored, requests
  <2>4. Settings!TypeOK
    BY DEF Settings!IInv
  <2> QED BY <1>1, <2>1, <2>2, <2>3, <2>4 DEF Settings!TypeOK, stored, requests
<1> QED BY <1>1, <1>6, <1>7
        DEF Settings!IInv, Settings!AvatarIsStored, Settings!EndedIsShown, Settings!TextsAreTyped,
            Settings!DraftsAreTyped, Settings!ChangesWhatWasTyped

\* A request fails, reads the user, or whether he has an API password.
LEMMA SettingsAreAsked ==
  ASSUME PartsAssumption, Settings!IInv, NEW r \in Calls,
         Settings!Me(r) \/ Settings!Count(r) \/ Settings!Fail(r)
  PROVE  Settings!IInv' /\ Settings!ChangesWhatWasTyped
<1> DEFINE row == v1  request == v6[r]
           asked == [request EXCEPT !.pc = "counting", !.read = row]
           both == [request.read EXCEPT !["password"] = row["password"]]
           counted == [request EXCEPT !.pc = "read", !.read = both]
<1>1. /\ request \in Settings!RequestTypes /\ Settings!Whole(request) /\ row \in Settings!Rows
      /\ \A f \in Settings!Texts : row[f] \in Values
  BY SettingsTypes DEF Settings!IInv, Settings!TextsAreTyped
<1>2. "password" \in Settings!Fields /\ "password" \notin Settings!Texts
  BY SettingsTypes
<1>3. \A read \in Settings!Rows : read \in Settings!Patches
  BY SettingsPatch DEF Settings!Rows
<1>4. UNCHANGED <<v1, v2, v3, v4, v5, v7>>
  BY DEF Settings!Me, Settings!Count, Settings!Fail, Settings!page
<1>5. CASE Settings!Me(r)
  <2>1. v6' = [v6 EXCEPT ![r] = asked]
    BY <1>5 DEF Settings!Me
  <2>2. asked \in Settings!RequestTypes /\ asked.pc = "counting" /\ asked.read = row
    <3>1. row \in Settings!Patches
      BY <1>1, <1>3
    <3> QED BY <1>1, <3>1 DEF Settings!RequestTypes
  <2> HIDE DEF asked
  <2>3. Settings!Whole(asked)
    BY <1>1, <2>2 DEF Settings!Whole
  <2> QED BY <1>4, <2>1, <2>2, <2>3, SettingsGoOn
<1>6. CASE Settings!Count(r)
  <2>1. request.pc = "counting" /\ v6' = [v6 EXCEPT ![r] = counted]
    BY <1>6 DEF Settings!Count
  <2>2. /\ request.read \in Settings!Rows /\ \A f \in Settings!Texts : request.read[f] \in Values
        /\ ~request.stale => request.read = row
    BY <1>1, <2>1 DEF Settings!Whole
  <2>3. /\ both \in Settings!Rows /\ \A f \in Settings!Texts : both[f] \in Values
        /\ ~request.stale => both = row
    BY <1>1, <1>2, <2>2 DEF Settings!Rows
  <2> HIDE DEF both
  <2>4. /\ counted \in Settings!RequestTypes /\ counted.pc = "read" /\ counted.read = both
        /\ counted.stale = request.stale
    <3>1. both \in Settings!Patches
      BY <1>3, <2>3
    <3> QED BY <1>1, <3>1 DEF Settings!RequestTypes
  <2> HIDE DEF counted
  <2>5. Settings!Whole(counted)
    BY <2>3, <2>4 DEF Settings!Whole
  <2> QED BY <1>4, <2>1, <2>4, <2>5, SettingsGoOn
<1>7. CASE Settings!Fail(r)
  <2>1. v6' = [v6 EXCEPT ![r] = Settings!Over(request.tab)]
    BY <1>7 DEF Settings!Fail
  <2>2. request.tab \in Tabs
    BY <1>1 DEF Settings!RequestTypes
  <2>3. Settings!Over(request.tab) \in Settings!RequestTypes
        /\ Settings!Over(request.tab).pc = "over"
    BY <2>2, SettingsRequest
  <2>4. Settings!Whole(Settings!Over(request.tab))
    BY <2>3 DEF Settings!Whole
  <2> QED BY <1>4, <2>1, <2>3, <2>4, SettingsGoOn
<1> QED BY <1>5, <1>6, <1>7

\* A request changes the user: every tab may be behind, and what was read is stale.
LEMMA SettingsAreChanged ==
  ASSUME PartsAssumption, Settings!IInv, NEW r \in Calls,
         Settings!Serve(r) \/ Settings!ServePassword(r)
  PROVE  Settings!IInv' /\ Settings!ChangesWhatWasTyped
<1> DEFINE row == v1  stored == v2  requests == v6  patch == v6[r].patch
           pc == IF requests[r].pc = "sent" THEN "counting" ELSE "me"
           read == IF requests[r].pc = "sent" THEN Settings!Patched(patch) ELSE Settings!NoPatch
           own == [requests[r] EXCEPT !.pc = pc, !.read = read]
           outrun(d) == [requests[d] EXCEPT !.stale = requests[d].stale \/
                                                        requests[d].pc \in {"counting", "read"}]
<1>1. /\ requests[r].pc \in {"sent", "password"} /\ row' = Settings!Patched(patch)
      /\ requests' = [d \in Calls |-> IF d = r THEN own ELSE outrun(d)]
      /\ v7' = Tabs /\ UNCHANGED <<stored, v3, v4, v5>>
  BY DEF Settings!Serve, Settings!ServePassword, Settings!Changes, Settings!page
<1>2. requests[r] \in Settings!RequestTypes /\ Settings!Whole(requests[r]) /\ row \in Settings!Rows
  BY SettingsTypes
<1>3. /\ row' \in Settings!Rows
      /\ \A f \in Settings!Fields : row'[f] = IF f \in DOMAIN patch THEN patch[f] ELSE row[f]
  <2>1. patch \in Settings!Patches
    BY <1>2 DEF Settings!RequestTypes
  <2>2. \A f \in DOMAIN patch : patch[f] \in Values \cup Files \cup {0, 1}
    BY <2>1 DEF Settings!Patches
  <2> QED BY <1>1, <1>2, <2>2 DEF Settings!Patched, Settings!Rows
<1>4. \A f \in Settings!Texts :
        /\ f \in DOMAIN patch => requests[r].pc = "sent" /\ f \in requests[r].meant /\ patch[f] \in Values
        /\ row'[f] \in Values
  BY <1>1, <1>2, <1>3, SettingsTypes DEF Settings!Whole, Settings!IInv, Settings!TextsAreTyped
<1>5. row'["avatar"] \in stored
  BY <1>1, <1>2, <1>3, SettingsTypes DEF Settings!Whole, Settings!IInv, Settings!AvatarIsStored
<1>6. /\ own \in Settings!RequestTypes /\ own.pc = pc /\ own.read = read
  <2>1. pc \in {"counting", "me"} /\ read \in Settings!Patches
    <3>1. Settings!Patched(patch) \in Settings!Patches
      BY <1>1, <1>3, SettingsPatch DEF Settings!Rows
    <3>2. \E t \in Tabs : TRUE
      BY <1>2 DEF Settings!RequestTypes
    <3> QED BY <3>1, <3>2, SettingsRequest
  <2> HIDE DEF pc, read
  <2> QED BY <1>2, <2>1 DEF Settings!RequestTypes
<1>7. ASSUME NEW d \in Calls
      PROVE  /\ outrun(d) \in Settings!RequestTypes /\ outrun(d).pc = requests[d].pc
             /\ outrun(d).patch = requests[d].patch /\ outrun(d).meant = requests[d].meant
             /\ outrun(d).read = requests[d].read
             /\ requests[d].pc \in {"counting", "read"} => outrun(d).stale
  <2>1. requests[d] \in Settings!RequestTypes
    BY SettingsTypes
  <2> QED BY <2>1 DEF Settings!RequestTypes
<1>8. \A d \in Calls : Settings!Whole(requests[d])
  BY SettingsTypes
<1>9. /\ pc = "counting" => read = row'
      /\ pc \in {"counting", "me"} /\ (requests[r].pc = "sent" => pc = "counting")
  BY <1>1
<1> HIDE DEF own, outrun, pc, read
<1>10. /\ requests' \in [Calls -> Settings!RequestTypes]
       /\ \A d \in Calls : requests'[d] = IF d = r THEN own ELSE outrun(d)
  BY <1>1, <1>6, <1>7
<1>11. \A d \in Calls : Settings!Whole(requests[d])'
  <2>1. Settings!Whole(requests[r])'
    BY <1>3, <1>4, <1>6, <1>9, <1>10 DEF Settings!Whole
  <2>2. ASSUME NEW d \in Calls, d # r PROVE Settings!Whole(requests[d])'
    <3>1. requests'[d] = outrun(d)
      BY <1>10, <2>2
    <3> QED BY <1>1, <1>7, <1>8, <3>1 DEF Settings!Whole
  <2> QED BY <2>1, <2>2
<1>12. Settings!RequestsAreWhole'
  BY <1>10, <1>11 DEF Settings!RequestsAreWhole
<1>13. Settings!TypeOK'
  BY <1>1, <1>3, <1>10, <1>11
  DEF Settings!IInv, Settings!TypeOK, Settings!RequestTypes, Settings!Whole
<1>14. Settings!ChangesWhatWasTyped
  BY <1>1, <1>3, <1>4, <1>6, <1>9, <1>10, SettingsTypes DEF Settings!ChangesWhatWasTyped
<1> QED BY <1>1, <1>4, <1>5, <1>12, <1>13, <1>14
        DEF Settings!IInv, Settings!AvatarIsStored, Settings!EndedIsShown, Settings!TextsAreTyped,
            Settings!DraftsAreTyped

\* The page has the user who was answered, and no change of his is thrown away.
LEMMA SettingsAreShown ==
  ASSUME PartsAssumption, Settings!IInv, NEW r \in Calls, Settings!Receive(r)
  PROVE  Settings!IInv' /\ Settings!ChangesWhatWasTyped
<1> DEFINE row == v1  user == v3  draft == v4  typed == v5  requests == v6  behind == v7
           t == requests[r].tab  read == requests[r].read
           set == {f \in Settings!Texts : read[f] # user[t][f]}
           new == [f \in Settings!Texts |-> IF f \in set THEN read[f] ELSE draft[t][f]]
<1>1. /\ requests[r].pc = "read" /\ UNCHANGED <<v1, v2>>
      /\ user' = [user EXCEPT ![t] = read] /\ draft' = [draft EXCEPT ![t] = new]
      /\ typed' = [typed EXCEPT ![t] = typed[t] \ set]
      /\ requests' = [requests EXCEPT ![r] = Settings!Over(t)]
      /\ behind' = IF requests[r].stale THEN behind \cup {t} ELSE behind \ {t}
  BY DEF Settings!Receive, Settings!End
<1>2. requests[r] \in Settings!RequestTypes /\ Settings!Whole(requests[r])
  BY SettingsTypes
<1>3. /\ read \in Settings!Rows /\ (\A f \in Settings!Texts : read[f] \in Values)
      /\ ~requests[r].stale => read = row
  BY <1>1, <1>2 DEF Settings!Whole
<1>4. t \in Tabs /\ Settings!Over(t) \in Settings!RequestTypes /\ Settings!Over(t).pc = "over"
  BY <1>2, SettingsRequest DEF Settings!RequestTypes
<1>5. /\ new \in [Settings!Texts -> Values]
      /\ \A f \in Settings!Texts : new[f] # read[f] => draft[t][f] # user[t][f] /\ f \notin set
  BY <1>3, <1>4, SettingsTypes
<1> HIDE DEF new
<1>6. /\ draft' \in [Tabs -> [Settings!Texts -> Values]]
      /\ typed' \in [Tabs -> SUBSET Settings!Texts] /\ user' \in [Tabs -> Settings!Rows]
  BY <1>1, <1>3, <1>4, <1>5, SettingsTypes
<1>7. Settings!DraftsAreTyped'
  BY <1>1, <1>4, <1>5, SettingsTypes DEF Settings!IInv, Settings!DraftsAreTyped
<1>8. Settings!TextsAreTyped'
  BY <1>1, <1>3, <1>4, SettingsTypes DEF Settings!IInv, Settings!TextsAreTyped
<1>9. /\ requests' \in [Calls -> Settings!RequestTypes]
      /\ \A c \in Calls : requests'[c] = IF c = r THEN Settings!Over(t) ELSE requests[c]
  BY <1>1, <1>4, SettingsTypes
<1>10. \A c \in Calls : Settings!Whole(requests[c])'
  BY <1>1, <1>4, <1>9, SettingsTypes DEF Settings!Whole
<1>11. Settings!RequestsAreWhole'
  BY <1>9, <1>10 DEF Settings!RequestsAreWhole
<1>12. Settings!TypeOK'
  <2>1. \A c \in Calls : /\ requests'[c].tab \in Tabs /\ requests'[c].meant \subseteq Settings!Texts
                         /\ requests'[c].pc = "read" => requests'[c].read \in Settings!Rows
    BY <1>9, <1>10 DEF Settings!RequestTypes, Settings!Whole
  <2>2. behind' \subseteq Tabs
    BY <1>1, <1>4 DEF Settings!IInv, Settings!TypeOK
  <2> QED BY <1>1, <1>6, <2>1, <2>2 DEF Settings!IInv, Settings!TypeOK
<1>13. Settings!EndedIsShown'
  BY <1>1, <1>3, <1>4, SettingsTypes DEF Settings!IInv, Settings!EndedIsShown
<1> QED BY <1>1, <1>7, <1>8, <1>11, <1>12, <1>13
        DEF Settings!IInv, Settings!AvatarIsStored, Settings!ChangesWhatWasTyped

LEMMA SettingsInv ==
  ASSUME PartsAssumption, Settings!IInv, [Settings!Next]_(Settings!vars)
  PROVE  Settings!IInv' /\ Settings!ChangesWhatWasTyped
<1>1. CASE UNCHANGED Settings!vars
  BY <1>1 DEF Settings!vars, Settings!IInv, Settings!TypeOK, Settings!AvatarIsStored,
      Settings!EndedIsShown, Settings!RequestsAreWhole, Settings!Whole, Settings!DraftsAreTyped,
      Settings!TextsAreTyped, Settings!ChangesWhatWasTyped
<1>2. CASE Settings!Next
  BY <1>2, SettingsAreTyped, SettingsAreSent, SettingsArePut, SettingsAreAsked,
     SettingsAreChanged, SettingsAreShown
  DEF Settings!Next
<1> QED BY <1>1, <1>2

-----------------------------------------------------------------------------
(* The reminders (Reminders): for any number of runs, users and            *)
(* tournaments, and whatever crosses, changes or fails, nobody is reminded *)
(* twice; and nobody who was linked and registered as the last two hours   *)
(* began is forgotten while nothing fails.  One run at a time finds        *)
(* tournaments, each once and for the two hours that begin; of each there  *)
(* is one notification, once it is marked, for users who have not had it.  *)

\* The bounds are numbers.
ReminderBounds == ReminderHorizon \in Nat /\ MaxFaults \in Nat /\ MaxChanges \in Nat

LEMMA RemindersAreBounded == ReminderBounds
BY PartsAssumption, RegistrationAssumption
DEF PartsAssumption, RegistrationAssumption, ReminderBounds

\* A run finds what is due.
LEMMA ReminderRunBegins ==
  ASSUME ReminderBounds, Reminder!IInv, NEW k \in Ticks, Reminder!Begin(k)
  PROVE  Reminder!IInv'
<1> DEFINE joined == v2  date == v3  marked == v4  running == v5  tick == v6  post == v7
           now == v8  ticked == v9  sent == v10  ready == v11  late == v12  failures == v13
<1> USE DEF Reminder!IInv, Reminder!world, Reminder!Moments, Reminder!Lead, ReminderBounds
<1>1. /\ tick[k].pc = "idle" /\ ~running /\ running' = TRUE
      /\ tick' = [tick EXCEPT ![k] = [pc |-> "loops", due |-> Reminder!Found]]
      /\ UNCHANGED <<Reminder!world, marked, post, ticked, sent, failures>>
  BY DEF Reminder!Begin
<1>2. Reminder!Found \subseteq Reminder!Finding /\ now \in Nat
  BY DEF Reminder!Found, Reminder!Finding, Reminder!TypeOK
<1>3. Reminder!TypeOK'
  <2>1. tick' \in [Ticks -> [pc : {"idle", "loops"}, due : SUBSET Reminder!Finding]]
    BY <1>1, <1>2 DEF Reminder!TypeOK
  <2> QED BY <1>1, <2>1 DEF Reminder!TypeOK
<1>4. \A j \in Ticks : tick[j].pc = "idle" /\ tick[j].due = {}
  BY <1>1 DEF Reminder!OneRuns
<1>5. tick'[k].pc = "loops" /\ tick'[k].due = Reminder!Found
      /\ \A j \in Ticks \ {k} : tick'[j] = tick[j]
  BY <1>1 DEF Reminder!TypeOK
<1>6. Reminder!OneRuns'
  BY <1>1 DEF Reminder!OneRuns
<1>7. Reminder!FindingsAreNew'
  <2>1. \A d \in Reminder!Found : /\ d.t \in Tournaments /\ ~marked[d.t]
                         /\ d.date = now + 1 /\ d.date = date[d.t]
                         /\ \A e \in Reminder!Found : e.t = d.t => e = d
    BY DEF Reminder!Found, Reminder!IsDue, Reminder!TypeOK
  <2> QED BY <1>1, <2>1 DEF Reminder!FindingsAreNew
<1>8. Reminder!OneIsPosted' /\ Reminder!MarkedIsNear' /\ Reminder!ReadyIsTrue'
      /\ Reminder!RemindedOnce'
  BY <1>1
  DEF Reminder!OneIsPosted, Reminder!MarkedIsNear, Reminder!ReadyIsTrue, Reminder!RemindedOnce
<1>9. Reminder!NobodyIsDropped'
  <2> SUFFICES ASSUME failures = 0, NEW t \in Tournaments \ late, NEW u \in ready[t]
               PROVE  IF marked[t] THEN Reminder!IsPosted(t, u) \/ sent[t][u] = <<date[t]>>
                      ELSE Reminder!IsFound(t, u)'
    BY <1>1 DEF Reminder!NobodyIsDropped, Reminder!IsPosted
  <2>1. CASE marked[t]
    BY <2>1 DEF Reminder!NobodyIsDropped
  <2>2. CASE ~marked[t]
    <3>1. date[t] = now + 1
      BY <1>4, <2>2 DEF Reminder!NobodyIsDropped, Reminder!IsFound, Reminder!Awaits
    <3>2. [t |-> t, users |-> joined[t], date |-> date[t]] \in Reminder!Found
      BY <1>2, <2>2, <3>1 DEF Reminder!Found, Reminder!IsDue
    <3>3. u \in joined[t]
      BY DEF Reminder!ReadyIsTrue
    <3>4. Reminder!IsFound(t, u)'
      BY <1>5, <3>2, <3>3 DEF Reminder!IsFound
    <3> QED BY <2>2, <3>4
  <2> QED BY <2>1, <2>2
<1> QED BY <1>3, <1>6, <1>7, <1>8, <1>9

\* A run marks a tournament, and posts its notification.
LEMMA ReminderIsMarked ==
  ASSUME ReminderBounds, Reminder!IInv, NEW k \in Ticks, Reminder!Mark(k)
  PROVE  Reminder!IInv'
<1> DEFINE date == v3  marked == v4  running == v5  tick == v6  post == v7  now == v8
           ticked == v9  sent == v10  ready == v11  late == v12  failures == v13
<1> USE DEF Reminder!IInv, Reminder!world, Reminder!Moments, Reminder!Lead, ReminderBounds
<1>1. PICK d \in tick[k].due :
        /\ marked' = [marked EXCEPT ![d.t] = TRUE]
        /\ tick' = [tick EXCEPT ![k].due = tick[k].due \ {d}]
        /\ post' = IF d.users = {} THEN post
                   ELSE [post EXCEPT ![<<k, d.t>>] =
                           [pc |-> "posted", to |-> d.users, date |-> d.date]]
        /\ UNCHANGED <<Reminder!world, running, ticked, sent, failures>>
  BY DEF Reminder!Mark
<1>2. /\ d \in Reminder!Finding /\ d.t \in Tournaments /\ d.users \subseteq Users
      /\ d.date \in Nat
      /\ now \in Nat /\ <<k, d.t>> \in Reminder!Posts
  BY DEF Reminder!TypeOK, Reminder!Finding, Reminder!Posts
<1>3. /\ ~marked[d.t] /\ d.date = now + 1
      /\ d.t \notin late => d.date = date[d.t]
      /\ \A e \in tick[k].due : e.t = d.t => e = d
  BY DEF Reminder!FindingsAreNew
<1>4. /\ \A j \in Ticks : tick'[j].pc = tick[j].pc
      /\ \A j \in Ticks : tick'[j].due = IF j = k THEN tick[k].due \ {d} ELSE tick[j].due
      /\ tick[k].pc # "idle" /\ \A j \in Ticks \ {k} : tick[j].due = {}
  <2>1. tick[k].pc # "idle" /\ \A j \in Ticks \ {k} : tick[j].due = {}
    BY DEF Reminder!OneRuns
  <2> QED BY <1>1, <2>1 DEF Reminder!TypeOK
<1>5. /\ marked'[d.t] /\ \A t \in Tournaments \ {d.t} : marked'[t] = marked[t]
      /\ \A t \in Tournaments : marked[t] => marked'[t]
  BY <1>1, <1>2 DEF Reminder!TypeOK
<1>6. /\ post' \in [Reminder!Posts -> [pc : {"none", "posted", "sends"}, to : SUBSET Users,
                                       date : Nat]]
      /\ \A p \in Reminder!Posts : p # <<k, d.t>> => post'[p] = post[p]
      /\ d.users # {} => post'[<<k, d.t>>] = [pc |-> "posted", to |-> d.users, date |-> d.date]
      /\ d.users = {} => post' = post
  BY <1>1, <1>2 DEF Reminder!TypeOK
<1>7. Reminder!TypeOK'
  <2>1. tick' \in [Ticks -> [pc : {"idle", "loops"}, due : SUBSET Reminder!Finding]]
    BY <1>1 DEF Reminder!TypeOK
  <2>2. marked' \in [Tournaments -> BOOLEAN]
    BY <1>1 DEF Reminder!TypeOK
  <2> QED BY <1>1, <1>6, <2>1, <2>2 DEF Reminder!TypeOK
<1>8. Reminder!OneRuns'
  BY <1>1 DEF Reminder!OneRuns
<1>9. Reminder!FindingsAreNew'
  BY <1>1, <1>4 DEF Reminder!FindingsAreNew
<1>10. \A p \in Reminder!Posts : p[2] = d.t => post[p].pc = "none"
  BY <1>3 DEF Reminder!OneIsPosted
<1>11. \A u \in Users : sent[d.t][u] = <<>>
  BY <1>2, <1>3 DEF Reminder!MarkedIsNear
<1>12. Reminder!OneIsPosted'
  <2>1. ASSUME NEW p \in Reminder!Posts, post'[p].pc = "none" PROVE post'[p].to = {}
    BY <1>6, <2>1 DEF Reminder!OneIsPosted
  <2>2. ASSUME NEW p \in Reminder!Posts, post'[p].pc # "none", p # <<k, d.t>> \/ d.users = {}
        PROVE  post'[p] = post[p] /\ p[2] # d.t
    BY <1>6, <1>10, <2>2
  <2>3. ASSUME NEW p \in Reminder!Posts, post'[p].pc # "none"
        PROVE  /\ marked'[p[2]] /\ post'[p].date = now' + 1
               /\ p[2] \notin late' => post'[p].date = date'[p[2]]
               /\ \A u \in post'[p].to : sent'[p[2]][u] = <<>>
    <3>1. CASE p = <<k, d.t>> /\ d.users # {}
      BY <1>1, <1>3, <1>5, <1>6, <1>11, <3>1
    <3>2. CASE p # <<k, d.t>> \/ d.users = {}
      BY <1>1, <2>3, <3>2 DEF Reminder!OneIsPosted
    <3> QED BY <3>1, <3>2
  <2>4. ASSUME NEW p \in Reminder!Posts, NEW q \in Reminder!Posts, post'[p].pc # "none",
               post'[q].pc # "none",
               p[2] = q[2]
        PROVE  p = q
    BY <2>2, <2>4 DEF Reminder!OneIsPosted
  <2> QED BY <2>1, <2>3, <2>4 DEF Reminder!OneIsPosted
<1>13. Reminder!MarkedIsNear'
  BY <1>1, <1>2, <1>3 DEF Reminder!MarkedIsNear
<1>14. Reminder!ReadyIsTrue' /\ Reminder!RemindedOnce'
  BY <1>1 DEF Reminder!ReadyIsTrue, Reminder!RemindedOnce
<1>15. Reminder!NobodyIsDropped'
  <2> SUFFICES ASSUME failures = 0, NEW t \in Tournaments \ late, NEW u \in ready[t]
               PROVE  IF marked'[t] THEN Reminder!IsPosted(t, u)' \/ sent[t][u] = <<date[t]>>
                      ELSE Reminder!IsFound(t, u)' \/ Reminder!Awaits(t)
    BY <1>1 DEF Reminder!NobodyIsDropped, Reminder!Awaits
  <2>1. IF marked[t] THEN Reminder!IsPosted(t, u) \/ sent[t][u] = <<date[t]>>
        ELSE Reminder!IsFound(t, u) \/ Reminder!Awaits(t)
    BY DEF Reminder!NobodyIsDropped
  <2>2. CASE t = d.t
    <3>1. ~Reminder!Awaits(t)
      BY DEF Reminder!Awaits, Reminder!OneRuns
    <3>2. u \in d.users
      <4>1. PICK j \in Ticks : \E e \in tick[j].due : e.t = t /\ u \in e.users
        BY <1>3, <2>1, <2>2, <3>1 DEF Reminder!IsFound
      <4> QED BY <1>3, <1>4, <2>2, <4>1
    <3>3. Reminder!IsPosted(t, u)'
      BY <1>2, <1>6, <2>2, <3>2 DEF Reminder!IsPosted
    <3> QED BY <1>5, <2>2, <3>3
  <2>3. CASE t # d.t
    <3>1. Reminder!IsPosted(t, u) => Reminder!IsPosted(t, u)'
      BY <1>6, <2>3 DEF Reminder!IsPosted
    <3>2. Reminder!IsFound(t, u) => Reminder!IsFound(t, u)'
      BY <1>4, <2>3 DEF Reminder!IsFound
    <3> QED BY <1>5, <2>1, <2>3, <3>1, <3>2
  <2> QED BY <2>2, <2>3
<1> QED BY <1>7, <1>8, <1>9, <1>12, <1>13, <1>14, <1>15

\* A run ends; the others had ended before.
LEMMA ReminderRunEnds ==
  ASSUME ReminderBounds, Reminder!IInv, NEW k \in Ticks, Reminder!Finish(k)
  PROVE  Reminder!IInv'
<1> DEFINE marked == v4  running == v5  tick == v6  post == v7  ticked == v9  sent == v10
           failures == v13
<1> USE DEF Reminder!IInv, Reminder!world, Reminder!Moments, Reminder!Lead, ReminderBounds
<1>1. /\ tick[k].pc # "idle" /\ tick[k].due = {} /\ tick' = [tick EXCEPT ![k] = Reminder!Idle]
      /\ running' = FALSE /\ ticked' = TRUE
      /\ UNCHANGED <<Reminder!world, marked, post, sent, failures>>
  BY DEF Reminder!Finish
<1>2. running /\ \A j \in Ticks : tick[j].due = {}
  BY <1>1 DEF Reminder!OneRuns
<1>3. \A j \in Ticks : tick'[j].pc = "idle" /\ tick'[j].due = {}
  BY <1>1 DEF Reminder!OneRuns, Reminder!TypeOK, Reminder!Idle
<1>4. Reminder!TypeOK'
  <2>1. tick' \in [Ticks -> [pc : {"idle", "loops"}, due : SUBSET Reminder!Finding]]
    BY <1>1 DEF Reminder!TypeOK, Reminder!Idle
  <2> QED BY <1>1, <2>1 DEF Reminder!TypeOK
<1>5. Reminder!OneRuns' /\ Reminder!FindingsAreNew'
  BY <1>3 DEF Reminder!OneRuns, Reminder!FindingsAreNew
<1>6. Reminder!OneIsPosted' /\ Reminder!MarkedIsNear' /\ Reminder!ReadyIsTrue'
      /\ Reminder!RemindedOnce'
  BY <1>1
  DEF Reminder!OneIsPosted, Reminder!MarkedIsNear, Reminder!ReadyIsTrue, Reminder!RemindedOnce
<1>7. Reminder!NobodyIsDropped'
  BY <1>1, <1>2
  DEF Reminder!NobodyIsDropped, Reminder!IsPosted, Reminder!IsFound, Reminder!Awaits
<1> QED BY <1>4, <1>5, <1>6, <1>7

\* A statement fails, or the process dies: what was found waits.
LEMMA ReminderRunFails ==
  ASSUME ReminderBounds, Reminder!IInv, Reminder!Crash \/ \E k \in Ticks : Reminder!Fail(k)
  PROVE  Reminder!IInv'
<1> DEFINE marked == v4  running == v5  tick == v6  post == v7  ticked == v9  sent == v10
           failures == v13
<1> USE DEF Reminder!IInv, Reminder!world, Reminder!Moments, Reminder!Lead, ReminderBounds
<1>1. /\ failures < MaxFaults /\ failures' = failures + 1
      /\ UNCHANGED <<Reminder!world, marked, post, ticked, sent>>
  BY DEF Reminder!Fail, Reminder!Crash
<1>2. /\ tick' \in [Ticks -> [pc : {"idle", "loops"}, due : SUBSET Reminder!Finding]]
      /\ running' \in BOOLEAN
      /\ Reminder!OneRuns'
      /\ \A j \in Ticks : tick'[j].due \in {{}, tick[j].due}
  <2>1. CASE Reminder!Crash
    BY <2>1 DEF Reminder!Crash, Reminder!TypeOK, Reminder!OneRuns, Reminder!Idle
  <2>2. CASE \E k \in Ticks : Reminder!Fail(k)
    <3>1. PICK k \in Ticks : tick' = [tick EXCEPT ![k].due = {}] /\ running' = running
      BY <2>2 DEF Reminder!Fail
    <3> QED BY <3>1 DEF Reminder!TypeOK, Reminder!OneRuns
  <2> QED BY <2>1, <2>2
<1>3. failures \in 0..MaxFaults
  BY Zenon DEF Reminder!TypeOK
<1>4. failures' \in 0..MaxFaults /\ failures' # 0
  BY <1>1, <1>3
<1>5. Reminder!TypeOK'
  BY <1>1, <1>2 DEF Reminder!TypeOK
<1>6. Reminder!FindingsAreNew'
  BY <1>1, <1>2 DEF Reminder!FindingsAreNew
<1>7. Reminder!OneIsPosted' /\ Reminder!MarkedIsNear' /\ Reminder!ReadyIsTrue'
      /\ Reminder!RemindedOnce'
  BY <1>1
  DEF Reminder!OneIsPosted, Reminder!MarkedIsNear, Reminder!ReadyIsTrue, Reminder!RemindedOnce
<1> QED BY <1>2, <1>4, <1>5, <1>6, <1>7 DEF Reminder!NobodyIsDropped

-----------------------------------------------------------------------------
(* The notifications.                                                      *)

\* A notification loses some of its users, or all that is left of it: what is
\* said of the others holds on.
LEMMA ReminderShrinks ==
  ASSUME ReminderBounds, Reminder!IInv, NEW p \in Reminder!Posts, v7[p].pc # "none",
         v7' \in [Reminder!Posts -> [pc : {"none", "posted", "sends"}, to : SUBSET Users,
                                     date : Nat]],
         \A q \in Reminder!Posts : q # p => v7'[q] = v7[q],
         v7'[p].to \subseteq v7[p].to,
         v7'[p].pc = "none" => v7'[p].to = {},
         v7'[p].pc # "none" => v7'[p].date = v7[p].date,
         UNCHANGED <<Reminder!world, v4, v5, v6, v9, v10>>,
         v13' \in 0..MaxFaults,
         v13' # 0 \/ /\ v13' = v13
                        /\ \A u \in v7[p].to \ v7'[p].to : ~v1[u]
  PROVE  Reminder!IInv'
<1> DEFINE linked == v1  marked == v4  post == v7  ready == v11  late == v12  failures == v13
<1> USE DEF Reminder!IInv, Reminder!world, Reminder!Moments, Reminder!Lead, ReminderBounds
<1>1. Reminder!TypeOK'
  BY DEF Reminder!TypeOK
<1>2. Reminder!OneRuns' /\ Reminder!FindingsAreNew' /\ Reminder!MarkedIsNear'
      /\ Reminder!ReadyIsTrue' /\ Reminder!RemindedOnce'
  BY DEF Reminder!OneRuns, Reminder!FindingsAreNew, Reminder!MarkedIsNear,
         Reminder!ReadyIsTrue, Reminder!RemindedOnce
<1>3. Reminder!OneIsPosted'
  <2>1. ASSUME NEW q \in Reminder!Posts
        PROVE  /\ post'[q].pc # "none" => post[q].pc # "none" /\ post'[q].date = post[q].date
               /\ post'[q].to \subseteq post[q].to
               /\ post'[q].pc = "none" => post'[q].to = {}
    BY DEF Reminder!OneIsPosted
  <2> QED BY <2>1 DEF Reminder!OneIsPosted
<1>4. Reminder!NobodyIsDropped'
  <2> SUFFICES ASSUME failures' = 0, NEW t \in Tournaments \ late, NEW u \in ready[t],
                      marked[t], Reminder!IsPosted(t, u)
               PROVE  Reminder!IsPosted(t, u)'
    BY DEF Reminder!NobodyIsDropped, Reminder!IsFound, Reminder!Awaits
  <2>1. PICK q \in Reminder!Posts : q[2] = t /\ u \in post[q].to
    BY DEF Reminder!IsPosted
  <2>2. linked[u]
    BY DEF Reminder!ReadyIsTrue
  <2>3. u \in post'[q].to
    BY <2>1, <2>2
  <2> QED BY <2>1, <2>3 DEF Reminder!IsPosted
<1> QED BY <1>1, <1>2, <1>3, <1>4

\* The bot asks for chats, skips a user, answers, or is lost with what it had.
LEMMA ReminderIsPosted ==
  ASSUME ReminderBounds, Reminder!IInv, NEW p \in Reminder!Posts,
         Reminder!Resolve(p) \/ Reminder!Answered(p) \/ Reminder!Lose(p)
         \/ \E u \in Users : Reminder!Skip(p, u)
  PROVE  Reminder!IInv'
<1> DEFINE post == v7  failures == v13
<1> USE DEF ReminderBounds
<1>1. /\ post \in [Reminder!Posts -> [pc : {"none", "posted", "sends"}, to : SUBSET Users,
                                      date : Nat]]
      /\ failures \in 0..MaxFaults
  BY Zenon DEF Reminder!IInv, Reminder!TypeOK
<1>2. CASE Reminder!Resolve(p)
  BY <1>1, <1>2, ReminderShrinks DEF Reminder!Resolve
<1>3. CASE Reminder!Answered(p)
  BY <1>1, <1>3, ReminderShrinks DEF Reminder!Answered, Reminder!NoPost
<1>4. CASE Reminder!Lose(p)
  BY <1>1, <1>4, ReminderShrinks DEF Reminder!Lose, Reminder!NoPost
<1>5. ASSUME NEW u \in Users, Reminder!Skip(p, u)
      PROVE  Reminder!IInv'
  BY <1>1, <1>5, ReminderShrinks DEF Reminder!Skip
<1> QED BY <1>2, <1>3, <1>4, <1>5

\* The bot reminds a user, who had had nothing.
LEMMA ReminderIsSent ==
  ASSUME ReminderBounds, Reminder!IInv, NEW p \in Reminder!Posts, NEW u \in Users,
         Reminder!Send(p, u)
  PROVE  Reminder!IInv'
<1> DEFINE date == v3  marked == v4  running == v5  tick == v6  post == v7  now == v8
           ticked == v9  sent == v10  ready == v11  late == v12  failures == v13
<1> USE DEF Reminder!IInv, Reminder!world, Reminder!Moments, Reminder!Lead, ReminderBounds
<1> DEFINE t == p[2]
<1>1. /\ post[p].pc = "sends" /\ u \in post[p].to
      /\ sent' = [sent EXCEPT ![t][u] = Append(@, post[p].date)]
      /\ post' = [post EXCEPT ![p].to = @ \ {u}]
      /\ UNCHANGED <<Reminder!world, marked, running, tick, ticked, failures>>
  BY DEF Reminder!Send
<1>2. t \in Tournaments /\ post[p].date \in Nat
  BY DEF Reminder!Posts, Reminder!TypeOK
<1>3. /\ marked[t] /\ sent[t][u] = <<>>
      /\ t \notin late => post[p].date = date[t]
  BY <1>1 DEF Reminder!OneIsPosted
<1>4. /\ post' \in [Reminder!Posts -> [pc : {"none", "posted", "sends"}, to : SUBSET Users,
                                       date : Nat]]
      /\ post'[p].to = post[p].to \ {u}
      /\ \A q \in Reminder!Posts : /\ q # p => post'[q] = post[q]
                          /\ post'[q].pc = post[q].pc /\ post'[q].date = post[q].date
  BY <1>1 DEF Reminder!TypeOK
<1>5. /\ sent' \in [Tournaments -> [Users -> Seq(Nat)]]
      /\ sent'[t][u] = <<post[p].date>>
      /\ \A s \in Tournaments, x \in Users : s # t \/ x # u => sent'[s][x] = sent[s][x]
  BY <1>1, <1>2, <1>3 DEF Reminder!TypeOK
<1>6. Reminder!TypeOK'
  <2>1. UNCHANGED <<v1, v2, v3, v4, v5, v6, v8, v9, v11, v12, v13, v14>> BY <1>1
  <2> QED BY <1>4, <1>5, <2>1 DEF Reminder!TypeOK
<1>7. Reminder!OneRuns' /\ Reminder!FindingsAreNew' /\ Reminder!ReadyIsTrue'
  BY <1>1 DEF Reminder!OneRuns, Reminder!FindingsAreNew, Reminder!ReadyIsTrue
<1>8. Reminder!RemindedOnce'
  <2>1. Len(sent'[t][u]) = 1
    BY <1>5
  <2>2. ASSUME NEW s \in Tournaments, NEW x \in Users, s # t \/ x # u
        PROVE  Len(sent'[s][x]) <= 1
    BY <1>5, <2>2 DEF Reminder!RemindedOnce
  <2>3. ASSUME NEW s \in Tournaments, NEW x \in Users PROVE Len(sent'[s][x]) <= 1
    <3>1. CASE s = t /\ x = u
      <4>1. sent'[s][x] = <<post[p].date>> BY <1>5, <3>1
      <4> QED BY <4>1
    <3>2. CASE s # t \/ x # u BY <2>2, <3>2
    <3> QED BY <3>1, <3>2
  <2> QED BY <2>3 DEF Reminder!RemindedOnce
<1>9. Reminder!MarkedIsNear'
  BY <1>1, <1>3 DEF Reminder!MarkedIsNear
<1>10. \A q \in Reminder!Posts : q[2] = t /\ q # p => post[q].pc = "none" /\ post[q].to = {}
  BY <1>1 DEF Reminder!OneIsPosted
<1>11. Reminder!OneIsPosted'
  <2>1. ASSUME NEW q \in Reminder!Posts, post'[q].pc = "none" PROVE post'[q].to = {}
    BY <1>4, <2>1 DEF Reminder!OneIsPosted
  <2>2. ASSUME NEW q \in Reminder!Posts, post'[q].pc # "none"
        PROVE  /\ marked'[q[2]] /\ post'[q].date = now' + 1
               /\ q[2] \notin late' => post'[q].date = date'[q[2]]
    BY <1>1, <2>2 DEF Reminder!OneIsPosted
  <2>3. ASSUME NEW q \in Reminder!Posts, post'[q].pc # "none", NEW x \in post'[q].to
        PROVE  sent'[q[2]][x] = <<>>
    <3>1. x \in Users /\ x \in post[q].to /\ (q = p => x # u) /\ q[2] \in Tournaments
      BY <1>4 DEF Reminder!Posts
    <3>2. sent[q[2]][x] = <<>>
      BY <3>1 DEF Reminder!OneIsPosted
    <3> QED BY <1>5, <1>10, <3>1, <3>2
  <2>4. ASSUME NEW q \in Reminder!Posts, NEW r \in Reminder!Posts, post'[q].pc # "none",
               post'[r].pc # "none",
               q[2] = r[2]
        PROVE  q = r
    BY <1>4, <2>4 DEF Reminder!OneIsPosted
  <2> QED BY <2>1, <2>2, <2>3, <2>4 DEF Reminder!OneIsPosted
<1>12. Reminder!NobodyIsDropped'
  <2> SUFFICES ASSUME failures = 0, NEW s \in Tournaments \ late, NEW x \in ready[s],
                      x \in Users, marked[s], Reminder!IsPosted(s, x)
                      \/ sent[s][x] = <<date[s]>>
               PROVE  Reminder!IsPosted(s, x)' \/ sent'[s][x] = <<date[s]>>
    BY <1>1 DEF Reminder!NobodyIsDropped, Reminder!IsFound, Reminder!Awaits, Reminder!TypeOK
  <2>1. CASE s = t /\ x = u
    BY <1>3, <1>5, <2>1
  <2>2. CASE s # t \/ x # u
    <3>1. Reminder!IsPosted(s, x) => Reminder!IsPosted(s, x)'
      BY <1>4, <2>2 DEF Reminder!IsPosted
    <3> QED BY <1>5, <2>2, <3>1
  <2> QED BY <2>1, <2>2
<1> QED BY <1>6, <1>7, <1>8, <1>9, <1>11, <1>12

-----------------------------------------------------------------------------
(* The clock, and what changes under the scheduler.                        *)

\* The clock goes on: whose tournament begins its lead is ready, and waits for a
\* run; who was ready has had what he was to have.
LEMMA ReminderPasses ==
  ASSUME ReminderBounds, Reminder!IInv, Reminder!Pass
  PROVE  Reminder!IInv'
<1> DEFINE linked == v1  joined == v2  date == v3  marked == v4  running == v5  tick == v6
           post == v7  now == v8  ticked == v9  sent == v10  ready == v11  late == v12
           failures == v13  changes == v14
<1> USE DEF Reminder!IInv, Reminder!world, Reminder!services, Reminder!Moments, Reminder!Lead,
    ReminderBounds
<1> DEFINE starting(t) == {u \in joined[t] : linked[u]}
<1>1. /\ now < ReminderHorizon /\ ticked /\ ~running
      /\ \A p \in Reminder!Posts : post[p] = Reminder!NoPost
      /\ now' = now + 1 /\ ticked' = FALSE
      /\ ready' = [t \in Tournaments |-> IF date[t] # now' + 1 THEN ready[t] ELSE starting(t)]
      /\ UNCHANGED <<Reminder!services, linked, joined, date, late, changes>>
  BY DEF Reminder!Pass
<1>2. now \in Nat /\ now' \in Reminder!Moments
  BY <1>1 DEF Reminder!TypeOK
<1>3. \A k \in Ticks : tick[k].pc = "idle" /\ tick[k].due = {}
  BY <1>1 DEF Reminder!OneRuns
<1>4. \A p \in Reminder!Posts : post[p].pc = "none" /\ post[p].to = {}
  BY <1>1 DEF Reminder!NoPost
<1>5. Reminder!TypeOK'
  <2>1. ready' \in [Tournaments -> SUBSET Users]
    BY <1>1 DEF Reminder!TypeOK
  <2> QED BY <1>1, <1>2, <2>1 DEF Reminder!TypeOK
<1>6. Reminder!OneRuns' /\ Reminder!FindingsAreNew' /\ Reminder!OneIsPosted'
      /\ Reminder!RemindedOnce'
  BY <1>1, <1>4
  DEF Reminder!OneRuns, Reminder!FindingsAreNew, Reminder!OneIsPosted, Reminder!RemindedOnce
<1>7. Reminder!MarkedIsNear'
  <2>1. \A t \in Tournaments : date[t] \in Nat
    BY DEF Reminder!TypeOK
  <2> QED BY <1>1, <1>2, <2>1 DEF Reminder!MarkedIsNear
<1>8. Reminder!ReadyIsTrue'
  BY <1>1 DEF Reminder!ReadyIsTrue
<1>9. Reminder!NobodyIsDropped'
  <2> SUFFICES ASSUME failures = 0, NEW t \in Tournaments \ late, NEW u \in ready'[t]
               PROVE  IF marked[t] THEN sent[t][u] = <<date[t]>> ELSE date[t] = now' + 1
    BY <1>1 DEF Reminder!NobodyIsDropped, Reminder!Awaits
  <2>1. CASE date[t] = now' + 1
    BY <1>1, <1>2, <2>1 DEF Reminder!MarkedIsNear
  <2>2. CASE date[t] # now' + 1
    BY <1>1, <1>3, <1>4, <2>2
    DEF Reminder!NobodyIsDropped, Reminder!IsPosted, Reminder!IsFound, Reminder!Awaits
  <2> QED BY <2>1, <2>2
<1> QED BY <1>5, <1>6, <1>7, <1>8, <1>9

\* A chat is linked or unlinked, or a user leaves or comes back: he is not counted
\* as ready, and the rest stays.
LEMMA ReminderChanges ==
  ASSUME ReminderBounds, Reminder!IInv, UNCHANGED <<Reminder!services, v3, v8, v9, v12>>,
         v14' \in 0..MaxChanges,
         v1' \in [Users -> BOOLEAN], v2' \in [Tournaments -> SUBSET Users],
         v11' \in [Tournaments -> SUBSET Users],
         \A t \in Tournaments : \A u \in v11'[t] :
           u \in v11[t] /\ u \in v2'[t] /\ v1'[u]
  PROVE  Reminder!IInv'
<1> USE DEF Reminder!IInv, Reminder!services, Reminder!Lead
<1>1. Reminder!TypeOK'
  BY DEF Reminder!TypeOK
<1>2. Reminder!OneRuns' /\ Reminder!FindingsAreNew' /\ Reminder!OneIsPosted'
      /\ Reminder!MarkedIsNear' /\ Reminder!RemindedOnce'
  BY DEF Reminder!OneRuns, Reminder!FindingsAreNew, Reminder!OneIsPosted,
         Reminder!MarkedIsNear, Reminder!RemindedOnce
<1>3. Reminder!ReadyIsTrue'
  BY DEF Reminder!ReadyIsTrue
<1>4. Reminder!NobodyIsDropped'
  BY DEF Reminder!NobodyIsDropped, Reminder!IsPosted, Reminder!IsFound, Reminder!Awaits
<1> QED BY <1>1, <1>2, <1>3, <1>4

LEMMA ReminderLinks ==
  ASSUME ReminderBounds, Reminder!IInv, NEW u \in Users, Reminder!Link(u)
  PROVE  Reminder!IInv'
<1> DEFINE linked == v1  joined == v2  ready == v11  changes == v14
<1>1. changes \in 0..MaxChanges
  BY Zenon DEF Reminder!IInv, Reminder!TypeOK
<1>2. changes' \in 0..MaxChanges
  BY <1>1 DEF Reminder!Link, Reminder!Change, ReminderBounds
<1>3. /\ linked' \in [Users -> BOOLEAN] /\ ready' \in [Tournaments -> SUBSET Users]
      /\ joined' = joined /\ joined \in [Tournaments -> SUBSET Users]
      /\ \A x \in Users : x # u => linked'[x] = linked[x]
      /\ \A t \in Tournaments : ready'[t] = ready[t] \ {u}
  BY DEF Reminder!Link, Reminder!IInv, Reminder!TypeOK
<1>4. \A t \in Tournaments : \A x \in ready[t] : x \in Users /\ x \in joined[t] /\ linked[x]
  BY DEF Reminder!IInv, Reminder!TypeOK, Reminder!ReadyIsTrue
<1> QED BY <1>2, <1>3, <1>4, ReminderChanges DEF Reminder!Link

LEMMA ReminderJoins ==
  ASSUME ReminderBounds, Reminder!IInv, NEW t \in Tournaments, NEW u \in Users,
         Reminder!Join(t, u)
  PROVE  Reminder!IInv'
<1> DEFINE linked == v1  joined == v2  ready == v11  changes == v14
<1>1. changes \in 0..MaxChanges
  BY Zenon DEF Reminder!IInv, Reminder!TypeOK
<1>2. changes' \in 0..MaxChanges
  BY <1>1 DEF Reminder!Join, Reminder!Change, ReminderBounds
<1>3. /\ joined' \in [Tournaments -> SUBSET Users] /\ ready' \in [Tournaments -> SUBSET Users]
      /\ linked' = linked /\ linked \in [Users -> BOOLEAN]
      /\ \A s \in Tournaments, x \in Users :
           s # t \/ x # u => (x \in joined'[s] <=> x \in joined[s])
      /\ \A s \in Tournaments : ready'[s] = IF s = t THEN ready[t] \ {u} ELSE ready[s]
  BY DEF Reminder!Join, Reminder!IInv, Reminder!TypeOK
<1>4. \A s \in Tournaments : \A x \in ready[s] : x \in Users /\ x \in joined[s] /\ linked[x]
  BY DEF Reminder!IInv, Reminder!TypeOK, Reminder!ReadyIsTrue
<1> QED BY <1>2, <1>3, <1>4, ReminderChanges DEF Reminder!Join

\* Another date is set: nobody is counted on who was ready for the date before,
\* and a reminder that was begun is late.
LEMMA ReminderPostpones ==
  ASSUME ReminderBounds, Reminder!IInv, NEW t \in Tournaments, NEW m \in Reminder!Moments,
         Reminder!Postpone(t, m)
  PROVE  Reminder!IInv'
<1> DEFINE linked == v1  joined == v2  date == v3  marked == v4  running == v5  tick == v6
           now == v8  ticked == v9  sent == v10  ready == v11  late == v12  failures == v13
           changes == v14
<1> USE DEF Reminder!IInv, Reminder!services, Reminder!Lead
<1>1. changes \in 0..MaxChanges
  BY Zenon DEF Reminder!TypeOK
<1>2. changes' \in 0..MaxChanges
  BY <1>1 DEF Reminder!Postpone, Reminder!Change, ReminderBounds
<1>3. /\ UNCHANGED <<Reminder!services, linked, joined, now, ticked>>
      /\ date' \in [Tournaments -> Nat] /\ ready' \in [Tournaments -> SUBSET Users]
      /\ late' \subseteq Tournaments /\ late \subseteq late'
      /\ Reminder!Begun(t) => t \in late'
      /\ ready'[t] = {}
      /\ \A s \in Tournaments \ {t} : date'[s] = date[s] /\ ready'[s] = ready[s]
                                      /\ (s \in late' <=> s \in late)
  BY DEF Reminder!Postpone, Reminder!TypeOK, Reminder!Moments
<1>4. Reminder!TypeOK'
  BY <1>2, <1>3 DEF Reminder!TypeOK
<1>5. Reminder!OneRuns' /\ Reminder!RemindedOnce' /\ Reminder!ReadyIsTrue'
  BY <1>3 DEF Reminder!OneRuns, Reminder!RemindedOnce, Reminder!ReadyIsTrue
<1>6. Reminder!FindingsAreNew'
  <2>1. \A k \in Ticks : \A d \in tick[k].due : d.t \in Tournaments
        /\ (d.t = t => Reminder!Begun(t))
    BY DEF Reminder!Begun, Reminder!TypeOK, Reminder!Finding
  <2> QED BY <1>3, <2>1 DEF Reminder!FindingsAreNew
<1>7. marked[t] => t \in late'
  BY <1>3 DEF Reminder!Begun
<1>8. Reminder!OneIsPosted' /\ Reminder!MarkedIsNear'
  BY <1>3, <1>7 DEF Reminder!OneIsPosted, Reminder!MarkedIsNear, Reminder!Posts
<1>9. Reminder!NobodyIsDropped'
  <2> SUFFICES ASSUME failures = 0, NEW s \in Tournaments \ late', NEW u \in ready'[s]
               PROVE  IF marked[s] THEN Reminder!IsPosted(s, u) \/ sent[s][u] = <<date'[s]>>
                      ELSE Reminder!IsFound(s, u) \/ (date'[s] = now + 1 /\ ~running /\ ~ticked)
    BY <1>3 DEF Reminder!NobodyIsDropped, Reminder!IsPosted, Reminder!IsFound, Reminder!Awaits
  <2>1. s # t
    BY <1>3
  <2> QED BY <1>3, <2>1 DEF Reminder!NobodyIsDropped, Reminder!Awaits
<1> QED BY <1>4, <1>5, <1>6, <1>8, <1>9

-----------------------------------------------------------------------------
(* The invariant of every behaviour, and what it says of reminders.        *)

LEMMA RemindersBegin == ASSUME ReminderBounds, Reminder!Init PROVE Reminder!IInv
<1> DEFINE linked == v1  joined == v2  date == v3  marked == v4  running == v5  tick == v6
           post == v7  now == v8  ticked == v9  sent == v10  ready == v11  late == v12
           failures == v13  changes == v14
<1>1. Reminder!TypeOK
  <2>1. /\ linked \in [Users -> BOOLEAN] /\ joined \in [Tournaments -> SUBSET Users]
        /\ marked \in [Tournaments -> BOOLEAN] /\ running \in BOOLEAN /\ ticked \in BOOLEAN
        /\ ready \in [Tournaments -> SUBSET Users] /\ late \subseteq Tournaments
    BY DEF Reminder!Init
  <2>2. date \in [Tournaments -> Nat] /\ now \in Reminder!Moments /\ failures \in 0..MaxFaults
        /\ changes \in 0..MaxChanges
    BY DEF Reminder!Init, ReminderBounds, Reminder!Moments
  <2>3. tick \in [Ticks -> [pc : {"idle", "loops"}, due : SUBSET Reminder!Finding]]
    BY DEF Reminder!Init, Reminder!Idle
  <2>4. post \in [Reminder!Posts -> [pc : {"none", "posted", "sends"}, to : SUBSET Users,
                                     date : Nat]]
    BY DEF Reminder!Init, Reminder!NoPost
  <2>5. sent \in [Tournaments -> [Users -> Seq(Nat)]]
    BY DEF Reminder!Init
  <2> QED BY <2>1, <2>2, <2>3, <2>4, <2>5 DEF Reminder!TypeOK
<1>2. Reminder!OneRuns /\ Reminder!FindingsAreNew /\ Reminder!OneIsPosted
      /\ Reminder!MarkedIsNear /\ Reminder!ReadyIsTrue
      /\ Reminder!NobodyIsDropped /\ Reminder!RemindedOnce
  BY DEF Reminder!Init, Reminder!OneRuns, Reminder!FindingsAreNew, Reminder!OneIsPosted,
         Reminder!MarkedIsNear, Reminder!ReadyIsTrue, Reminder!NobodyIsDropped,
         Reminder!RemindedOnce, Reminder!Idle, Reminder!NoPost
<1> QED BY <1>1, <1>2 DEF Reminder!IInv

LEMMA RemindersInv ==
  ASSUME ReminderBounds, Reminder!IInv, [Reminder!Next]_(Reminder!vars)
  PROVE  Reminder!IInv'
<1>1. CASE UNCHANGED Reminder!vars
  BY <1>1
  DEF Reminder!vars, Reminder!world, Reminder!IInv, Reminder!TypeOK, Reminder!RemindedOnce,
      Reminder!OneRuns, Reminder!FindingsAreNew, Reminder!OneIsPosted, Reminder!MarkedIsNear,
      Reminder!ReadyIsTrue, Reminder!NobodyIsDropped, Reminder!IsFound, Reminder!IsPosted,
      Reminder!Awaits
<1>2. CASE Reminder!Next
  BY <1>2, ReminderRunBegins, ReminderIsMarked, ReminderRunEnds, ReminderRunFails,
     ReminderIsPosted, ReminderIsSent, ReminderPasses, ReminderLinks, ReminderJoins,
     ReminderPostpones
  DEF Reminder!Next
<1> QED BY <1>1, <1>2

\* When a tournament has started, no notification of it is left and no run finds
\* it: what was to be sent was.
LEMMA RemindersRemind ==
  ASSUME Reminder!IInv
  PROVE  Reminder!RemindedOnce /\ Reminder!NobodyIsForgotten
<1> DEFINE date == v3  now == v8  sent == v10  ready == v11  late == v12  failures == v13
<1>1. ASSUME NEW t \in Tournaments, NEW u \in Users, date[t] <= now, u \in ready[t],
             failures = 0, t \notin late
      PROVE  sent[t][u] = <<date[t]>>
  <2>1. date[t] \in Nat /\ now \in Nat
    BY DEF Reminder!IInv, Reminder!TypeOK, Reminder!Moments
  <2>2. ~Reminder!IsPosted(t, u)
    BY <1>1, <2>1 DEF Reminder!IInv, Reminder!OneIsPosted, Reminder!IsPosted, Reminder!Lead
  <2>3. ~Reminder!IsFound(t, u) /\ ~Reminder!Awaits(t)
    BY <1>1, <2>1
    DEF Reminder!IInv, Reminder!FindingsAreNew, Reminder!IsFound, Reminder!Awaits,
        Reminder!Lead
  <2> QED BY <1>1, <2>2, <2>3 DEF Reminder!IInv, Reminder!NobodyIsDropped
<1> QED BY <1>1 DEF Reminder!IInv, Reminder!NobodyIsForgotten
=============================================================================
