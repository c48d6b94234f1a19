------------------------------ MODULE Payments ------------------------------
(***************************************************************************)
(* The payment service in live mode (services/payment/src/routes.ts): the  *)
(* rows of Payment and Subscription, the orders at Kaspi, and the requests *)
(* in flight.  A request is cut at every await that leaves the process: a  *)
(* database statement, a transaction, a call to Kaspi.  Between two such   *)
(* steps any other request may run.                                        *)
(*                                                                         *)
(* Postgres runs the transactions at READ COMMITTED: an UPDATE holds the   *)
(* row until the transaction ends, nothing uncommitted is visible, and a   *)
(* unique key is enforced.  A transaction is therefore two steps, the one  *)
(* that takes its rows and the one that commits, and its writes appear     *)
(* with the second.                                                        *)
(***************************************************************************)
EXTENDS Naturals

CONSTANTS
  Payments,          \* ids the service may give to Payment rows
  Users, Plans,      \* buyers, and the paid plans of plans.ts
  Calls,             \* slots for requests in flight at the same time
  None,              \* no payment, user or plan
  Month,             \* length of a paid month, in ticks of the clock
  Forever,           \* the end date of a LIFETIME subscription (9999-12-31)
  AmountsNamed,      \* do Kaspi's status answers always name the amount?
  ByHand,            \* payments the merchant may return in Kaspi's own app
  MaxNow, MaxFaults  \* bounds: clock, failed or killed requests

SubscriptionPlans == {"ENTERPRISE", "LIFETIME"}
TournamentPlans == {"STANDARD", "PRO", "BUSINESS"}

ASSUME PlansAssumption == Plans \subseteq SubscriptionPlans \cup TournamentPlans
ASSUME NoneAssumption == None \notin Payments
ASSUME ClockAssumption == /\ Month \in Nat \ {0}
                          /\ Forever \in Nat
                          /\ MaxNow \in Nat
                          /\ MaxFaults \in Nat
ASSUME KaspiAssumption == AmountsNamed \in BOOLEAN /\ ByHand \subseteq Payments

\* Payments whose money goes back through the refund handler only.
Purchases == Payments \ ByHand

VARIABLES
  pay,     \* pay[p]: the Payment row
  sub,     \* sub[p]: the Subscription row whose unique paymentId is p
  order,   \* order[p]: the order at Kaspi, and when it was paid
  call,    \* call[c]: a request in flight and its local variables
  now,     \* the clock
  faults   \* requests that failed or were killed so far

vars == <<pay, sub, order, call, now, faults>>

PaymentStatus == {"none", "PENDING", "COMPLETED", "FAILED", "EXPIRED", "REFUNDED"}
OrderState == {"Absent", "Wait", "Processed", "Mispaid", "Error", "Expired", "Returned"}
Results == {"none", "COMPLETED", "MISMATCH", "FAILED", "EXPIRED", "REFUNDED"}
CallPc == {"idle", "order", "save", "fail", "ask", "read", "close", "credit",
           "crediting", "return", "revoke", "revoking"}

PaymentRow == [status : PaymentStatus, user : Users \cup {None},
               plan : Plans \cup {None}, ext : BOOLEAN]
SubscriptionRow == [status : {"none", "ACTIVE", "CANCELLED"}, from : Nat, to : Nat]
Order == [state : OrderState, at : Nat]
Request == [pc : CallPc, p : Payments \cup {None}, result : Results,
            at : Nat, prev : Nat]

NoRow == [status |-> "none", user |-> None, plan |-> None, ext |-> FALSE]
NoSub == [status |-> "none", from |-> 0, to |-> 0]
Idle == [pc |-> "idle", p |-> None, result |-> "none", at |-> 0, prev |-> 0]

IsSubscription(p) == pay[p].plan \in SubscriptionPlans
Paid(p) == order[p].state \in {"Processed", "Returned"}

Init == /\ pay = [p \in Payments |-> NoRow]
        /\ sub = [p \in Payments |-> NoSub]
        /\ order = [p \in Payments |-> [state |-> "Absent", at |-> 0]]
        /\ call = [c \in Calls |-> Idle]
        /\ now = 0
        /\ faults = 0

-----------------------------------------------------------------------------
(* Steps of a request.                                                     *)

Start(c, pc, p) == /\ call[c].pc = "idle"
                   /\ call' = [call EXCEPT ![c] = [Idle EXCEPT !.pc = pc, !.p = p]]

Goto(c, from, to) == /\ call[c].pc = from
                     /\ call' = [call EXCEPT ![c].pc = to]

End(c, from) == /\ call[c].pc = from
                /\ call' = [call EXCEPT ![c] = Idle]

SetOrder(p, state) == order' = [order EXCEPT ![p].state = state]
SetStatus(p, status) == pay' = [pay EXCEPT ![p].status = status]

\* A row updated by an open transaction of another request.
PaymentLocked(p) == \E d \in Calls : call[d].pc = "crediting" /\ call[d].p = p
SubLocked(p) == /\ sub[p].status = "ACTIVE"
                /\ \E d \in Calls : call[d].pc = "revoking" /\ call[d].p = p

Fault == faults < MaxFaults /\ faults' = faults + 1

-----------------------------------------------------------------------------
(* POST /payments: the row first, then the order, then the row again.      *)

CreateRow(c, p, u, plan) ==
  /\ pay[p] = NoRow
  /\ pay' = [pay EXCEPT ![p] =
       [status |-> "PENDING", user |-> u, plan |-> plan, ext |-> FALSE]]
  /\ Start(c, "order", p)
  /\ UNCHANGED <<sub, order, now, faults>>

OrderCreated(c) ==
  /\ Goto(c, "order", "save")
  /\ SetOrder(call[c].p, "Wait")
  /\ UNCHANGED <<pay, sub, now, faults>>

OrderFails(c) == /\ Goto(c, "order", "fail")
                 /\ Fault
                 /\ UNCHANGED <<pay, sub, order, now>>

SaveOrder(c) ==
  /\ End(c, "save")
  /\ pay' = [pay EXCEPT ![call[c].p].ext = TRUE]
  /\ UNCHANGED <<sub, order, now, faults>>

SaveFails(c) == /\ Goto(c, "save", "fail")
                /\ Fault
                /\ UNCHANGED <<pay, sub, order, now>>

\* The catch block writes FAILED whatever the row says by now.
MarkFailed(c) ==
  /\ End(c, "fail")
  /\ ~PaymentLocked(call[c].p)
  /\ SetStatus(call[c].p, "FAILED")
  /\ UNCHANGED <<sub, order, now, faults>>

-----------------------------------------------------------------------------
(* Results reach the service by a poll of GET /payments/:id or by a        *)
(* webhook, which Kaspi may send late and more than once.                  *)

PollStart(c, p) ==
  /\ pay[p].status = "PENDING"
  /\ pay[p].ext
  /\ Start(c, "ask", p)
  /\ UNCHANGED <<pay, sub, order, now, faults>>

\* Mutant: a paid order is taken for one still in progress.
ResultOf_PaidIsWait(state) == CASE state = "Mispaid"  -> "MISMATCH"
                                [] state = "Error"    -> "FAILED"
                                [] state = "Returned" -> "REFUNDED"
                                [] OTHER              -> "none"

\* mapKaspiStatus, and the comparison with the amount that comes with it.
ResultOf(state) == CASE state = "Processed" -> "COMPLETED"
                     [] state = "Mispaid"   -> "MISMATCH"
                     [] state = "Error"     -> "FAILED"
                     [] state = "Returned"  -> "REFUNDED"
                     [] OTHER               -> "none"

\* A status answer may leave the amount out: any sum is then taken for the right one.
Answers(state) ==
  {ResultOf(state)} \cup {r \in {"COMPLETED"} : state = "Mispaid" /\ ~AmountsNamed}

AskProvider(c) ==
  /\ call[c].pc = "ask"
  /\ \E result \in Answers(order[call[c].p].state) :
       call' = [call EXCEPT ![c] =
         IF result = "none" THEN Idle
         ELSE [@ EXCEPT !.pc = "read", !.result = result, !.at = now]]
  /\ UNCHANGED <<pay, sub, order, now, faults>>

\* What Kaspi has had reason to report of an order so far.
Reported(p) ==
  LET state == order[p].state
  IN CASE state = "Returned" -> {"COMPLETED", "REFUNDED"}
       [] state = "Expired"  -> {"EXPIRED"}
       [] OTHER              -> {ResultOf(state)} \ {"none"}

Webhook(c, p) ==
  /\ call[c].pc = "idle"
  /\ \E result \in Reported(p) : call' = [call EXCEPT ![c] =
       [pc |-> "read", p |-> p, result |-> result, at |-> order[p].at, prev |-> 0]]
  /\ UNCHANGED <<pay, sub, order, now, faults>>

-----------------------------------------------------------------------------
(* applyPaymentResult: the status is read before, and outside, the write.  *)

\* Mutant: no comparison of the amounts.
ApplyRead_AnyAmount(c) ==
  /\ call[c].pc = "read"
  /\ \/ /\ pay[call[c].p].status # "PENDING"
        /\ End(c, "read")
     \/ /\ pay[call[c].p].status = "PENDING"
        /\ Goto(c, "read", IF call[c].result \in {"COMPLETED", "MISMATCH"}
                           THEN "credit" ELSE "close")
  /\ UNCHANGED <<pay, sub, order, now, faults>>

ApplyRead(c) ==
  /\ call[c].pc = "read"
  /\ \/ /\ pay[call[c].p].status # "PENDING"
        /\ End(c, "read")
     \/ /\ pay[call[c].p].status = "PENDING"
        /\ Goto(c, "read", IF call[c].result = "COMPLETED" THEN "credit" ELSE "close")
  /\ UNCHANGED <<pay, sub, order, now, faults>>

CloseStatus(result) == IF result = "MISMATCH" THEN "FAILED" ELSE result

ApplyClose(c) ==
  /\ End(c, "close")
  /\ ~PaymentLocked(call[c].p)
  /\ SetStatus(call[c].p, CloseStatus(call[c].result))
  /\ UNCHANGED <<sub, order, now, faults>>

\* The ends of the periods that the subscription of p would extend.
ActiveEnds(p) == {sub[q].to : q \in {r \in Payments : /\ sub[r].status = "ACTIVE"
                                                     /\ pay[r].user = pay[p].user
                                                     /\ pay[r].plan = pay[p].plan}}

\* The transaction takes the payment's row and looks for the subscription to
\* extend: the committed one that ends last.
CreditOpen(c) ==
  /\ call[c].pc = "credit"
  /\ LET p == call[c].p
     IN /\ ~PaymentLocked(p)
        /\ \E prev \in ActiveEnds(p) \cup {0} :
             /\ \A e \in ActiveEnds(p) : e <= prev
             /\ call' = [call EXCEPT ![c] =
                  [@ EXCEPT !.pc = "crediting", !.prev = prev]]
  /\ UNCHANGED <<pay, sub, order, now, faults>>

Period(c) ==
  LET from == IF call[c].prev > call[c].at THEN call[c].prev ELSE call[c].at
  IN [status |-> "ACTIVE", from |-> from,
      to |-> IF pay[call[c].p].plan = "LIFETIME" THEN Forever ELSE from + Month]

\* The commit, of a tournament's payment and of a subscription's.
CreditTournament(c) ==
  /\ End(c, "crediting")
  /\ ~IsSubscription(call[c].p)
  /\ SetStatus(call[c].p, "COMPLETED")
  /\ UNCHANGED <<sub, order, now, faults>>

\* Mutant: upsert by paymentId instead of insert.
CreditSubscription_Upsert(c) ==
  /\ End(c, "crediting")
  /\ IsSubscription(call[c].p)
  /\ SetStatus(call[c].p, "COMPLETED")
  /\ sub' = [sub EXCEPT ![call[c].p] = Period(c)]
  /\ UNCHANGED <<order, now, faults>>

CreditSubscription(c) ==
  /\ End(c, "crediting")
  /\ IsSubscription(call[c].p)
  /\ sub[call[c].p] = NoSub
  /\ SetStatus(call[c].p, "COMPLETED")
  /\ sub' = [sub EXCEPT ![call[c].p] = Period(c)]
  /\ UNCHANGED <<order, now, faults>>

\* Mutant: two statements without a transaction, the first one stays.
CreditRejected_NoRollback(c) ==
  /\ End(c, "crediting")
  /\ IsSubscription(call[c].p)
  /\ sub[call[c].p] # NoSub
  /\ ~SubLocked(call[c].p)
  /\ SetStatus(call[c].p, "COMPLETED")
  /\ UNCHANGED <<sub, order, now, faults>>

\* paymentId is unique: a second INSERT for the payment rolls back, once it is
\* known that no open refund still holds the first row.
CreditRejected(c) ==
  /\ End(c, "crediting")
  /\ IsSubscription(call[c].p)
  /\ sub[call[c].p] # NoSub
  /\ ~SubLocked(call[c].p)
  /\ UNCHANGED <<pay, sub, order, now, faults>>

-----------------------------------------------------------------------------
(* POST /payments/:id/refund: the check, Kaspi's payment/return, and then  *)
(* a transaction that cancels the subscription and marks the payment.      *)

\* Mutant: the transaction before Kaspi's return.
RefundStart_RevokeFirst(c, p) ==
  /\ pay[p].status = "COMPLETED"
  /\ pay[p].ext
  /\ Start(c, "revoke", p)
  /\ UNCHANGED <<pay, sub, order, now, faults>>

RefundStart(c, p) ==
  /\ pay[p].status = "COMPLETED"
  /\ pay[p].ext
  /\ Start(c, "return", p)
  /\ UNCHANGED <<pay, sub, order, now, faults>>

\* Kaspi returns a purchase once (StatusCode -99000011 afterwards), and no other sum
\* than was paid.
ReturnMoney(c) ==
  /\ Goto(c, "return", "revoke")
  /\ order[call[c].p].state = "Processed"
  /\ SetOrder(call[c].p, "Returned")
  /\ UNCHANGED <<pay, sub, now, faults>>

ReturnRejected(c) ==
  /\ End(c, "return")
  /\ order[call[c].p].state # "Processed"
  /\ UNCHANGED <<pay, sub, order, now, faults>>

\* Kaspi returned the money and the answer got lost: 502, nothing written.
ReturnAnswerLost(c) ==
  /\ End(c, "return")
  /\ order[call[c].p].state = "Processed"
  /\ SetOrder(call[c].p, "Returned")
  /\ Fault
  /\ UNCHANGED <<pay, sub, now>>

RevokeOpen(c) ==
  /\ Goto(c, "revoke", "revoking")
  /\ ~SubLocked(call[c].p)
  /\ UNCHANGED <<pay, sub, order, now, faults>>

\* The subscription is there since before the refund began (CompletedHasAccess),
\* so what updateMany matched is what the commit finds.
RevokeCommit(c) ==
  LET p == call[c].p
  IN /\ End(c, "revoking")
     /\ ~PaymentLocked(p)
     /\ SetStatus(p, "REFUNDED")
     /\ sub' = IF sub[p].status = "ACTIVE"
               THEN [sub EXCEPT ![p].status = "CANCELLED"] ELSE sub
     /\ UNCHANGED <<order, now, faults>>

\* A refund holds the subscription and waits for the payment, a late credit
\* holds the payment and waits for the subscription: Postgres aborts one.
Deadlocked(p) == PaymentLocked(p) /\ SubLocked(p)

DeadlockAbort(c) ==
  /\ call[c].pc \in {"crediting", "revoking"}
  /\ Deadlocked(call[c].p)
  /\ End(c, call[c].pc)
  /\ UNCHANGED <<pay, sub, order, now, faults>>

\* The process dies or a statement throws: what was not committed is gone.
Abandon(c) ==
  /\ call[c].pc # "idle"
  /\ End(c, call[c].pc)
  /\ Fault
  /\ UNCHANGED <<pay, sub, order, now>>

-----------------------------------------------------------------------------
(* Kaspi and the buyer.  The QR code reaches the buyer with the saved row. *)

BuyerPays(p) ==
  /\ order[p].state = "Wait"
  /\ pay[p].ext
  /\ \E state \in {"Processed", "Mispaid"} :
       order' = [order EXCEPT ![p] = [state |-> state, at |-> now]]
  /\ UNCHANGED <<pay, sub, call, now, faults>>

OrderDies(p) ==
  /\ order[p].state = "Wait"
  /\ \E state \in {"Error", "Expired"} : SetOrder(p, state)
  /\ UNCHANGED <<pay, sub, call, now, faults>>

ManualReturn(p) ==
  /\ p \in ByHand
  /\ order[p].state = "Processed"
  /\ SetOrder(p, "Returned")
  /\ UNCHANGED <<pay, sub, call, now, faults>>

Tick == /\ now < MaxNow
        /\ now' = now + 1
        /\ UNCHANGED <<pay, sub, order, call, faults>>

-----------------------------------------------------------------------------
Advance(c) ==
  \/ OrderCreated(c) \/ SaveOrder(c) \/ MarkFailed(c)
  \/ AskProvider(c) \/ ApplyRead(c) \/ ApplyClose(c)
  \/ CreditOpen(c) \/ CreditTournament(c) \/ CreditSubscription(c) \/ CreditRejected(c)
  \/ ReturnMoney(c) \/ ReturnRejected(c) \/ RevokeOpen(c) \/ RevokeCommit(c)
  \/ DeadlockAbort(c)

Break(c) == OrderFails(c) \/ SaveFails(c) \/ ReturnAnswerLost(c) \/ Abandon(c)

Arrive(c, p) ==
  \/ \E u \in Users, plan \in Plans : CreateRow(c, p, u, plan)
  \/ PollStart(c, p) \/ Webhook(c, p) \/ RefundStart(c, p)

Outside(p) == BuyerPays(p) \/ OrderDies(p) \/ ManualReturn(p)

Next == \/ \E c \in Calls : Advance(c) \/ Break(c)
        \/ \E c \in Calls, p \in Payments : Arrive(c, p)
        \/ \E p \in Payments : Outside(p)
        \/ Tick

Spec == Init /\ [][Next]_vars

\* Handlers run on; an open payment page asks again and again (PaymentReturn.tsx
\* and PaymentCheckout.tsx poll on an interval).  Nobody else is bound to act.
Fairness == /\ \A c \in Calls : WF_vars(Advance(c))
            /\ \A p \in Payments : SF_vars(\E c \in Calls : PollStart(c, p))

FairSpec == Spec /\ Fairness

-----------------------------------------------------------------------------
\* Every variable keeps its type, and a request in flight is about a payment.
TypeOK ==
  /\ pay \in [Payments -> PaymentRow]
  /\ sub \in [Payments -> SubscriptionRow]
  /\ order \in [Payments -> Order]
  /\ call \in [Calls -> Request]
  /\ \A c \in Calls : call[c].pc # "idle" => call[c].p \in Payments
  /\ now \in 0..MaxNow
  /\ faults \in 0..MaxFaults

\* Kaspi took the exact sum, or a sum that it may not have named.
Taken(p) == Paid(p) \/ (order[p].state = "Mispaid" /\ ~AmountsNamed)

\* A final status tells the truth about the money, whatever requests crossed:
\* COMPLETED only if Kaspi took the sum, the exact one where it names one, FAILED or
\* EXPIRED only if it did not (the catch of POST /payments and late results overwrite blindly),
\* REFUNDED and a cancelled subscription only if the money went back.
StatusTellsMoney ==
  \A p \in Payments :
    /\ pay[p].status = "COMPLETED" \/ sub[p] # NoSub => Taken(p)
    /\ pay[p].status \in {"FAILED", "EXPIRED"} => ~Paid(p)
    /\ pay[p].status = "REFUNDED" \/ sub[p].status = "CANCELLED"
         => order[p].state = "Returned"

\* A completed subscription payment carries an active subscription: a late
\* confirmation can neither complete it without one nor revive a cancelled one.
CompletedHasAccess ==
  \A p \in Payments : IsSubscription(p) /\ pay[p].status = "COMPLETED"
                        => sub[p].status = "ACTIVE"

\* An active subscription belongs to a completed payment, so that a refund can
\* still find it; said of payments whose money goes back only through the refund
\* handler, and needs that every answer judges an inexact sum the same way.
AccessIsCompleted ==
  \A p \in Purchases : sub[p].status = "ACTIVE" => pay[p].status = "COMPLETED"

\* The months a buyer paid for do not overlap: a renewal starts where the last
\* active period ends.
MonthsDoNotOverlap ==
  \A p, q \in Payments :
    /\ p # q
    /\ sub[p].status = "ACTIVE" /\ sub[q].status = "ACTIVE"
    /\ pay[p].user = pay[q].user /\ pay[p].plan = pay[q].plan
    /\ pay[p].plan # "LIFETIME"
    => sub[p].to <= sub[q].from \/ sub[q].to <= sub[p].from

\* A subscription cancelled by a refund is never revived, moved or completed
\* again by a confirmation that was under way.
CancelledForGood ==
  [][\A p \in Payments : sub[p].status = "CANCELLED"
       => sub'[p] = sub[p] /\ pay'[p].status # "COMPLETED"]_vars

\* Money that Kaspi took does not stay on a pending payment while its page is
\* open; and what comes of it is true, whatever the merchant returns by hand.
Settled(p) == pay[p].status # "PENDING"

PaidIsSettled ==
  /\ [](StatusTellsMoney /\ CompletedHasAccess)
  /\ \A p \in Payments : Paid(p) ~> Settled(p)

-----------------------------------------------------------------------------
(* The inductive invariant behind the properties above.                    *)

Creating == {"order", "save", "fail"}
Applying == {"read", "close", "credit", "crediting"}
Dead(p) == order[p].state \in {"Mispaid", "Error", "Expired"}

\* A request is about a row that exists; the row is there before the order.
RowsInv ==
  /\ \A c \in Calls : call[c].pc # "idle" => pay[call[c].p].status # "none"
  /\ \A p \in Payments : pay[p].status = "none"
       => order[p].state = "Absent" /\ ~pay[p].ext

\* One request creates a payment, and nobody can pay before it saved the order.
CreatorInv ==
  /\ \A c, d \in Calls : call[c].pc \in Creating /\ call[d].pc \in Creating
       /\ call[c].p = call[d].p => c = d
  /\ \A c \in Calls : call[c].pc \in Creating
       => /\ ~pay[call[c].p].ext
          /\ call[c].pc = "order" => order[call[c].p].state = "Absent"
  /\ \A p \in Payments : ~pay[p].ext
       => order[p].state \in {"Absent", "Wait", "Error", "Expired"}
  /\ \A p \in Payments : pay[p].status \in {"FAILED", "EXPIRED"} /\ ~Dead(p)
       => /\ order[p].state \in {"Absent", "Wait"}
          /\ ~pay[p].ext
          /\ \A c \in Calls : call[c].pc \in Creating => call[c].p # p

\* A result on its way through applyPaymentResult is true of the order.
ResultInv ==
  \A c \in Calls : call[c].pc \in Applying =>
    LET state == order[call[c].p].state
    IN /\ call[c].result = "COMPLETED" => Taken(call[c].p)
       /\ call[c].result = "MISMATCH" => state = "Mispaid"
       /\ call[c].result = "FAILED" => state = "Error"
       /\ call[c].result = "EXPIRED" => state = "Expired"
       /\ call[c].result = "REFUNDED" => state = "Returned"
       /\ call[c].result # "none"
       /\ call[c].pc \in {"credit", "crediting"} <=>
            call[c].pc # "read" /\ call[c].result = "COMPLETED"

\* What a row says of the money, and a refund under way.
MoneyInv ==
  /\ \A p \in Payments :
       /\ pay[p].status = "COMPLETED" \/ sub[p] # NoSub => Taken(p)
       /\ pay[p].status = "REFUNDED" \/ sub[p].status = "CANCELLED"
            => order[p].state = "Returned"
  /\ \A c \in Calls : call[c].pc \in {"revoke", "revoking"}
       => order[call[c].p].state = "Returned"

SubInv == \A p \in Payments :
            /\ sub[p].status = "none" => sub[p] = NoSub
            /\ sub[p] # NoSub => IsSubscription(p)

\* Money that goes back through the refund handler only goes back for a payment
\* that was completed, so no result can find that payment pending.
Credited(p) == /\ pay[p].status \in {"COMPLETED", "REFUNDED"}
               /\ IsSubscription(p) => sub[p] # NoSub

ReturnInv ==
  AmountsNamed =>
    /\ AccessIsCompleted
    /\ \A p \in Purchases : order[p].state = "Returned" => Credited(p)
    /\ \A c \in Calls : call[c].p \in Purchases =>
         /\ call[c].pc = "return" => Credited(call[c].p)
         /\ call[c].pc = "close" => call[c].result # "REFUNDED"

IInv == /\ TypeOK
        /\ RowsInv
        /\ CreatorInv
        /\ ResultInv
        /\ MoneyInv
        /\ SubInv
        /\ CompletedHasAccess
        /\ ReturnInv

-----------------------------------------------------------------------------
\* Seen from outside, a subscription purchase behaves as AccessPromise says.
Money == [p \in Purchases |->
  IF ~IsSubscription(p) \/ ~Paid(p) THEN "none"
  ELSE IF order[p].state = "Processed" THEN "paid" ELSE "returned"]
Access == [p \in Purchases |->
  CASE sub[p].status = "ACTIVE" -> "active"
    [] sub[p].status = "CANCELLED" -> "revoked"
    [] OTHER -> "none"]

Promise == INSTANCE AccessPromise WITH Purchases <- Purchases,
                                       money <- Money, access <- Access
KeepsPromise == Promise!Spec
=============================================================================
