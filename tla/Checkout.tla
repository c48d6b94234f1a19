------------------------------ MODULE Checkout ------------------------------
(***************************************************************************)
(* A buyer's pages: the plan's button (apps/web/src/pages/Pricing.tsx      *)
(* 68-86), the checkout that shows the QR and polls every three seconds    *)
(* (PaymentCheckout.tsx), and the return page that polls every second and  *)
(* a half (PaymentReturn.tsx).  A poll may be answered after a later one;  *)
(* leaving a page makes it deaf to its answers.                            *)
(***************************************************************************)
EXTENDS Naturals

CONSTANTS Polls     \* requests under way at once

VARIABLES
  status,    \* the payment's status on the server, "none" before it is created
  page,      \* the page shown
  shown,     \* the status it has of the payment
  error,     \* PaymentCheckout: no answer, "Платёж не найден"
  timer,     \* its interval is running
  poll,      \* requests: the page that asked, and the status that was read
  failed,    \* history: a request of the checkout failed
  crossed    \* history: at the checkout, "PENDING" came after a final status

vars == <<status, page, shown, error, timer, poll, failed, crossed>>

Finals == {"COMPLETED", "FAILED", "EXPIRED", "REFUNDED"}
Free == [by |-> "none", read |-> "none"]

Init ==
  /\ status = "none" /\ page = "pricing" /\ shown = "none"
  /\ error = FALSE /\ timer = FALSE
  /\ poll = [q \in Polls |-> Free]
  /\ failed = FALSE /\ crossed = FALSE

\* What a page begins with: nothing known, a first request, an interval; the
\* requests of a page that has gone are not listened to.
Deaf == [q \in Polls |-> IF poll[q] = Free THEN Free ELSE [poll[q] EXCEPT !.by = "gone"]]

Enters(p, q) ==
  /\ poll[q] = Free
  /\ poll' = [Deaf EXCEPT ![q].by = p]
  /\ page' = p /\ shown' = "none" /\ error' = FALSE /\ timer' = TRUE

\* handleSubscribe has made the payment, or the buyer comes back to it.
Subscribe(q) ==
  /\ page = "pricing" /\ status = "none"
  /\ status' = "PENDING"
  /\ Enters("checkout", q)
  /\ UNCHANGED <<failed, crossed>>

ComeBack(p, q) ==
  /\ page = "left" /\ Enters(p, q)
  /\ failed' = FALSE /\ crossed' = FALSE
  /\ UNCHANGED status

\* The cleanup of the effect: no interval, and answers are not listened to.
Leave ==
  /\ page \in {"checkout", "return"}
  /\ page' = "left" /\ timer' = FALSE /\ poll' = Deaf
  /\ UNCHANGED <<status, shown, error, failed, crossed>>

\* The interval.
Tick(q) ==
  /\ timer /\ poll[q] = Free
  /\ poll' = [poll EXCEPT ![q].by = page]
  /\ UNCHANGED <<status, page, shown, error, timer, failed, crossed>>

\* GET /payments/:id on the server.
Read(q) ==
  /\ poll[q].by # "none" /\ poll[q].read = "none"
  /\ poll' = [poll EXCEPT ![q].read = status]
  /\ UNCHANGED <<status, page, shown, error, timer, failed, crossed>>

\* At the checkout a poll read earlier is answered after one that was final.
GoesBack(v) == page = "checkout" /\ v = "PENDING" /\ shown \in Finals

Done(q) == poll' = [poll EXCEPT ![q] = Free]

\* Mutant: the checkout polls once.
Answer_Once(q) ==
  LET v == poll[q].read IN
  /\ v # "none" /\ Done(q)
  /\ IF poll[q].by # page THEN UNCHANGED <<shown, timer, crossed>>
     ELSE /\ shown' = v
          /\ timer' = (page = "return")
          /\ crossed' = (crossed \/ GoesBack(v))
  /\ UNCHANGED <<status, page, error, failed>>

\* The answer.  The checkout stops polling when it is final; the return page
\* goes on for as long as it is shown.
Answer(q) ==
  LET v == poll[q].read IN
  /\ v # "none" /\ Done(q)
  /\ IF poll[q].by # page THEN UNCHANGED <<shown, timer, crossed>>
     ELSE /\ shown' = v
          /\ timer' = (timer /\ (page = "return" \/ v = "PENDING"))
          /\ crossed' = (crossed \/ GoesBack(v))
  /\ UNCHANGED <<status, page, error, failed>>

\* Mutant: polling stops, and the buyer is not told.
Fail_Silent(q) ==
  /\ poll[q].by # "none" /\ Done(q)
  /\ timer' = (timer /\ poll[q].by # "checkout")
  /\ UNCHANGED <<status, page, shown, error, failed, crossed>>

\* No answer, or an error: the checkout gives up for good and says that there is
\* no such payment; the return page counts it and goes on.
Fail(q) ==
  /\ poll[q].by # "none" /\ Done(q)
  /\ IF poll[q].by = page /\ page = "checkout"
     THEN error' = TRUE /\ timer' = FALSE /\ failed' = TRUE
     ELSE UNCHANGED <<error, timer, failed>>
  /\ UNCHANGED <<status, page, shown, crossed>>

\* The effect of a completed payment: the checkout is replaced.
Navigate(q) ==
  /\ page = "checkout" /\ shown = "COMPLETED"
  /\ Enters("return", q)
  /\ crossed' = FALSE
  /\ UNCHANGED <<status, failed>>

\* What the server makes of the payment.
Settle(s) ==
  /\ \/ status = "PENDING" /\ s \in Finals \ {"REFUNDED"}
     \/ status = "COMPLETED" /\ s = "REFUNDED"
  /\ status' = s
  /\ UNCHANGED <<page, shown, error, timer, poll, failed, crossed>>

Next ==
  \/ \E q \in Polls : \/ Subscribe(q) \/ Tick(q) \/ Read(q) \/ Answer(q) \/ Fail(q)
                      \/ Navigate(q)
  \/ \E p \in {"checkout", "return"}, q \in Polls : ComeBack(p, q)
  \/ \E s \in Finals : Settle(s)
  \/ Leave

Spec == Init /\ [][Next]_vars

\* Intervals fire, effects run, a request ends, and not every one fails.
Fairness ==
  /\ WF_vars(\E q \in Polls : Tick(q)) /\ WF_vars(\E q \in Polls : Navigate(q))
  /\ \A q \in Polls : /\ WF_vars(Answer(q) \/ Fail(q))
                      /\ SF_vars(Read(q)) /\ SF_vars(Answer(q))

FairSpec == Spec /\ Fairness

-----------------------------------------------------------------------------
\* Every variable keeps its type.
TypeOK ==
  /\ status \in Finals \cup {"none", "PENDING"}
  /\ shown \in Finals \cup {"none", "PENDING"}
  /\ error \in BOOLEAN /\ timer \in BOOLEAN
  /\ failed \in BOOLEAN /\ crossed \in BOOLEAN
  /\ DOMAIN poll = Polls

\* A checkout that shows the payment as waiting is watching it, unless two polls
\* have crossed: a late "PENDING" leaves the buyer waiting before a page that
\* asks no more (PaymentCheckout.tsx 60-75).
WaitingIsWatched ==
  page = "checkout" /\ shown \in {"none", "PENDING"} /\ ~error /\ ~crossed => timer

\* Whoever has paid and stays on the page comes to see it, unless a request of
\* the checkout failed (PaymentCheckout.tsx 69-73 gives up on the first), or two
\* of its polls crossed (PaymentCheckout.tsx 87-91, PaymentReturn.tsx 33-50).
HasPaid == status = "COMPLETED" /\ page \in {"checkout", "return"}
SeesSuccess == page = "return" /\ shown = "COMPLETED"
LosesTrack == status = "REFUNDED" \/ page = "left" \/ failed \/ crossed

SuccessIsShown == HasPaid ~> SeesSuccess \/ LosesTrack
=============================================================================
