--------------------------- MODULE Payments_proofs ---------------------------
(***************************************************************************)
(* Proofs about Payments, for every set of payments, users, plans and      *)
(* concurrent requests.  IInv (in Payments) is inductive: each action is   *)
(* taken in turn.                                                          *)
(***************************************************************************)
EXTENDS Payments, TLAPS

-----------------------------------------------------------------------------
(* Types.                                                                  *)

RequestsOK == /\ call \in [Calls -> Request]
              /\ \A c \in Calls : call[c].pc # "idle" => call[c].p \in Payments

LEMMA StartType ==
  ASSUME TypeOK, NEW c \in Calls, NEW p \in Payments, NEW pc \in CallPc, Start(c, pc, p)
  PROVE  RequestsOK'
BY DEF TypeOK, RequestsOK, Start, Idle, Request, CallPc, Results

LEMMA GotoType ==
  ASSUME TypeOK, NEW c \in Calls, NEW to \in CallPc, NEW from \in CallPc \ {"idle"},
         Goto(c, from, to)
  PROVE  RequestsOK' /\ call[c].p \in Payments
BY DEF TypeOK, RequestsOK, Goto, Request

LEMMA EndType ==
  ASSUME TypeOK, NEW c \in Calls, NEW from \in CallPc \ {"idle"}, End(c, from)
  PROVE  RequestsOK' /\ call[c].p \in Payments
BY DEF TypeOK, RequestsOK, End, Idle, Request, CallPc, Results

LEMMA SetOrderType ==
  ASSUME TypeOK, NEW p \in Payments, NEW state \in OrderState, SetOrder(p, state)
  PROVE  order' \in [Payments -> Order]
BY DEF TypeOK, SetOrder, Order

LEMMA SetStatusType ==
  ASSUME TypeOK, NEW p \in Payments, NEW s \in PaymentStatus, SetStatus(p, s)
  PROVE  pay' \in [Payments -> PaymentRow]
BY DEF TypeOK, SetStatus, PaymentRow

\* Every action keeps the types.
LEMMA TypeStep == ASSUME TypeOK, [Next]_vars PROVE TypeOK'
<1> USE DEF RequestsOK, PaymentStatus, OrderState, Results, CallPc
<1>1. ASSUME NEW c \in Calls, Advance(c) PROVE TypeOK'
  <2>1. CASE OrderCreated(c)
    BY <2>1, GotoType, SetOrderType DEF OrderCreated, TypeOK
  <2>2. CASE SaveOrder(c) BY <2>2, EndType DEF SaveOrder, TypeOK, PaymentRow
  <2>3. CASE MarkFailed(c) BY <2>3, EndType, SetStatusType DEF MarkFailed, TypeOK
  <2>4. CASE AskProvider(c)
    <3>1. call[c] \in Request /\ now \in Nat BY ClockAssumption DEF TypeOK
    <3>2. \A result \in Answers(order[call[c].p].state) :
          [call[c] EXCEPT !.pc = "read", !.result = result,
                          !.at = now] \in Request
      BY <3>1 DEF Request, Answers, ResultOf
    <3>3. PICK result \in Answers(order[call[c].p].state) :
            call' = [call EXCEPT ![c] =
              IF result = "none" THEN Idle
              ELSE [@ EXCEPT !.pc = "read", !.result = result, !.at = now]]
      BY <2>4 DEF AskProvider
    <3>4. Idle \in Request BY <2>4 DEF AskProvider, TypeOK, Request, Idle
    <3> DEFINE next == IF result = "none" THEN Idle
                       ELSE [call[c] EXCEPT !.pc = "read", !.result = result, !.at = now]
    <3>5. next \in Request BY <3>2, <3>3, <3>4
    <3>6. call' = [call EXCEPT ![c] = next] BY <3>3
    <3>7. UNCHANGED <<pay, sub, order, now, faults>> BY <2>4 DEF AskProvider
    <3>8. \A d \in Calls : call'[d].p = call[d].p \/ call'[d].pc = "idle"
      BY <3>6, <3>3 DEF TypeOK, Request, Idle
    <3>9. call[c].p \in Payments BY <2>4 DEF AskProvider, TypeOK
    <3> HIDE DEF next
    <3> QED BY <3>5, <3>6, <3>7, <3>8, <3>9 DEF TypeOK
  <2>5. CASE ApplyRead(c) BY <2>5, EndType, GotoType DEF ApplyRead, TypeOK
  <2>6. CASE ApplyClose(c)
    BY <2>6, EndType, SetStatusType DEF ApplyClose, CloseStatus, TypeOK, Request
  <2>7. CASE CreditOpen(c)
    <3>1. ActiveEnds(call[c].p) \subseteq Nat BY DEF ActiveEnds, TypeOK, SubscriptionRow
    <3>2. PICK prev \in Nat : call' = [call EXCEPT ![c] =
                                [@ EXCEPT !.pc = "crediting", !.prev = prev]]
      BY <2>7, <3>1 DEF CreditOpen
    <3>3. call[c] \in Request /\ call[c].p \in Payments BY <2>7 DEF CreditOpen, TypeOK
    <3>4. [call[c] EXCEPT !.pc = "crediting", !.prev = prev] \in Request
      BY <3>3 DEF Request
    <3> QED BY <2>7, <3>2, <3>3, <3>4 DEF CreditOpen, TypeOK, Request
  <2>8. CASE CreditTournament(c) \/ CreditRejected(c)
    BY <2>8, EndType, SetStatusType DEF CreditTournament, CreditRejected, TypeOK
  <2>14. CASE CreditSubscription(c)
    <3>1. Period(c) \in SubscriptionRow
      BY ClockAssumption DEF Period, SubscriptionRow, TypeOK, Request
    <3> QED BY <2>14, <3>1, EndType, SetStatusType DEF CreditSubscription, TypeOK
  <2>9. CASE ReturnMoney(c) BY <2>9, GotoType, SetOrderType DEF ReturnMoney, TypeOK
  <2>10. CASE ReturnRejected(c) BY <2>10, EndType DEF ReturnRejected, TypeOK
  <2>11. CASE RevokeOpen(c) BY <2>11, GotoType DEF RevokeOpen, TypeOK
  <2>12. CASE RevokeCommit(c)
    BY <2>12, EndType, SetStatusType DEF RevokeCommit, TypeOK, SubscriptionRow
  <2>13. CASE DeadlockAbort(c) BY <2>13, EndType DEF DeadlockAbort, TypeOK
  <2> QED BY <1>1, <2>1, <2>2, <2>3, <2>4, <2>5, <2>6, <2>7, <2>8, <2>9, <2>10,
             <2>11, <2>12, <2>13, <2>14 DEF Advance
<1>2. ASSUME NEW c \in Calls, Break(c) PROVE TypeOK'
  <2>0. faults' \in 0..MaxFaults /\ now' \in 0..MaxNow
    BY <1>2, ClockAssumption
    DEF Break, OrderFails, SaveFails, ReturnAnswerLost, Abandon, Fault, TypeOK
  <2>1. CASE OrderFails(c) BY <2>0, <2>1, GotoType DEF OrderFails, TypeOK
  <2>2. CASE SaveFails(c) BY <2>0, <2>2, GotoType DEF SaveFails, TypeOK
  <2>3. CASE ReturnAnswerLost(c)
    BY <2>0, <2>3, EndType, SetOrderType DEF ReturnAnswerLost, TypeOK
  <2>4. CASE Abandon(c) BY <2>0, <2>4, EndType DEF Abandon, TypeOK, Request
  <2> QED BY <1>2, <2>1, <2>2, <2>3, <2>4 DEF Break
<1>3. ASSUME NEW c \in Calls, NEW p \in Payments, Arrive(c, p) PROVE TypeOK'
  <2>1. ASSUME NEW u \in Users, NEW plan \in Plans, CreateRow(c, p, u, plan)
        PROVE  TypeOK'
    BY <2>1, StartType DEF CreateRow, TypeOK, PaymentRow
  <2>2. CASE PollStart(c, p) BY <2>2, StartType DEF PollStart, TypeOK
  <2>3. CASE Webhook(c, p) BY <2>3 DEF Webhook, Reported, ResultOf, TypeOK, Request, Order
  <2>4. CASE RefundStart(c, p) BY <2>4, StartType DEF RefundStart, TypeOK
  <2> QED BY <1>3, <2>1, <2>2, <2>3, <2>4 DEF Arrive
<1>4. ASSUME NEW p \in Payments, Outside(p) PROVE TypeOK'
  <2>1. CASE BuyerPays(p)
    BY <2>1, ClockAssumption DEF BuyerPays, TypeOK, Order
  <2>2. CASE OrderDies(p) BY <2>2, SetOrderType DEF OrderDies, TypeOK
  <2>3. CASE ManualReturn(p) BY <2>3, SetOrderType DEF ManualReturn, TypeOK
  <2> QED BY <1>4, <2>1, <2>2, <2>3 DEF Outside
<1>5. CASE Tick BY <1>5, ClockAssumption DEF Tick, TypeOK
<1>6. CASE UNCHANGED vars BY <1>6 DEF vars, TypeOK
<1> QED BY <1>1, <1>2, <1>3, <1>4, <1>5, <1>6 DEF Next

LEMMA TypeInit == Init => TypeOK
BY ClockAssumption DEF Init, TypeOK, PaymentStatus, OrderState, Results, CallPc,
     PaymentRow, SubscriptionRow, Order, Request, NoRow, NoSub, Idle

\* The types hold in every reachable state.
THEOREM TypeCorrect == Spec => []TypeOK
<1>1. TypeOK /\ [Next]_vars => TypeOK' BY TypeStep
<1> QED BY TypeInit, <1>1, PTL DEF Spec

-----------------------------------------------------------------------------
(* The inductive invariant: one step for each action.                      *)

LEMMA InvInit == Init => IInv
<1> SUFFICES ASSUME Init PROVE IInv OBVIOUS
<1> USE DEF Init, NoRow, NoSub, Idle
<1>1. TypeOK BY TypeInit
<1>2. RowsInv /\ CreatorInv /\ ResultInv
  BY DEF RowsInv, CreatorInv, ResultInv, Creating, Applying
<1>3. MoneyInv /\ SubInv /\ CompletedHasAccess /\ ReturnInv
  BY DEF MoneyInv, SubInv, CompletedHasAccess, ReturnInv, AccessIsCompleted, Purchases
<1> QED BY <1>1, <1>2, <1>3 DEF IInv

LEMMA CreateInv ==
  ASSUME IInv, TypeOK', NEW c \in Calls, NEW p \in Payments,
         \/ \E u \in Users, plan \in Plans : CreateRow(c, p, u, plan)
         \/ OrderCreated(c) \/ OrderFails(c) \/ SaveOrder(c) \/ SaveFails(c)
         \/ MarkFailed(c)
  PROVE  IInv'
<1> USE DEF IInv, TypeOK, RowsInv, CreatorInv, ResultInv, MoneyInv, SubInv,
            CompletedHasAccess, ReturnInv, Credited, AccessIsCompleted, Purchases,
            IsSubscription, Creating, Applying, Dead, Paid, Taken, NoRow, NoSub, Idle
<1>1. ASSUME NEW u \in Users, NEW plan \in Plans, CreateRow(c, p, u, plan)
      PROVE  IInv'
  BY <1>1 DEF CreateRow, Start
<1>2. CASE OrderCreated(c) BY <1>2 DEF OrderCreated, Goto, SetOrder
<1>3. CASE OrderFails(c) BY <1>3 DEF OrderFails, Goto
<1>4. CASE SaveOrder(c) BY <1>4 DEF SaveOrder, End
<1>5. CASE SaveFails(c) BY <1>5 DEF SaveFails, Goto
<1>6. CASE MarkFailed(c) BY <1>6 DEF MarkFailed, End, SetStatus
<1> QED BY <1>1, <1>2, <1>3, <1>4, <1>5, <1>6

LEMMA ResultsInv ==
  ASSUME IInv, TypeOK', NEW c \in Calls, NEW p \in Payments,
         \/ PollStart(c, p) \/ AskProvider(c) \/ Webhook(c, p)
         \/ ApplyRead(c) \/ ApplyClose(c)
  PROVE  IInv'
<1> USE DEF IInv, TypeOK, RowsInv, CreatorInv, ResultInv, MoneyInv, SubInv,
            CompletedHasAccess, ReturnInv, Credited, AccessIsCompleted, Purchases,
            IsSubscription, Creating, Applying, Dead, Paid, Taken, NoRow, NoSub, Idle
<1>1. CASE PollStart(c, p) BY <1>1 DEF PollStart, Start
<1>2. CASE AskProvider(c)
  <2> DEFINE state == order[call[c].p].state
  <2>1. PICK result \in Answers(state) :
          call' = [call EXCEPT ![c] =
            IF result = "none" THEN Idle
            ELSE [@ EXCEPT !.pc = "read", !.result = result, !.at = now]]
    BY <1>2 DEF AskProvider
  <2>2. UNCHANGED <<pay, sub, order>> /\ call[c].pc = "ask" BY <1>2 DEF AskProvider
  <2>3. CASE result = "none"
    <3>1. call' = [call EXCEPT ![c] = Idle] BY <2>1, <2>3
    <3> QED BY <2>2, <3>1
  <2>4. CASE result # "none"
    <3>1. call' = [call EXCEPT ![c].pc = "read", ![c].result = result, ![c].at = now]
      BY <2>1, <2>4
    <3>2. \/ state = "Processed" /\ result = "COMPLETED"
          \/ state = "Mispaid" /\ result = "COMPLETED" /\ ~AmountsNamed
          \/ state = "Mispaid" /\ result = "MISMATCH"
          \/ state = "Error" /\ result = "FAILED"
          \/ state = "Returned" /\ result = "REFUNDED"
      BY <2>1, <2>4 DEF Answers, ResultOf
    <3>3. RowsInv' /\ CreatorInv' BY <2>2, <3>1
    <3>4. ResultInv' BY <2>2, <3>1, <3>2
    <3>5. MoneyInv' /\ SubInv' /\ CompletedHasAccess' BY <2>2, <3>1
    <3>6. ReturnInv' BY <2>2, <3>1
    <3> QED BY <3>3, <3>4, <3>5, <3>6
  <2> QED BY <2>3, <2>4
<1>3. CASE Webhook(c, p)
  <2>1. PICK result \in Reported(p) : call' = [call EXCEPT ![c] =
          [pc |-> "read", p |-> p, result |-> result, at |-> order[p].at, prev |-> 0]]
    BY <1>3 DEF Webhook
  <2>2. UNCHANGED <<pay, sub, order>> BY <1>3 DEF Webhook
  <2>3. \/ order[p].state \in {"Processed", "Returned"} /\ result = "COMPLETED"
        \/ order[p].state = "Mispaid" /\ result = "MISMATCH"
        \/ order[p].state = "Error" /\ result = "FAILED"
        \/ order[p].state = "Expired" /\ result = "EXPIRED"
        \/ order[p].state = "Returned" /\ result = "REFUNDED"
    BY <2>1 DEF Reported, ResultOf
  <2>4. RowsInv' BY <2>1, <2>2, <2>3
  <2>5. CreatorInv' BY <2>1, <2>2
  <2>6. ResultInv' BY <2>1, <2>2, <2>3
  <2>7. MoneyInv' /\ SubInv' /\ CompletedHasAccess' BY <2>1, <2>2
  <2>8. ReturnInv' BY <2>1, <2>2
  <2> QED BY <2>4, <2>5, <2>6, <2>7, <2>8
<1>4. CASE ApplyRead(c)
  <2>1. CASE pay[call[c].p].status # "PENDING"
    <3>1. call' = [call EXCEPT ![c] = Idle] /\ UNCHANGED <<pay, sub, order>>
      BY <1>4, <2>1 DEF ApplyRead, End
    <3>2. RowsInv' /\ CreatorInv' BY <3>1
    <3>3. ResultInv' BY <3>1
    <3>4. MoneyInv' /\ SubInv' /\ CompletedHasAccess' BY <3>1
    <3>5. ReturnInv' BY <3>1
    <3> QED BY <3>2, <3>3, <3>4, <3>5
  <2>2. CASE pay[call[c].p].status = "PENDING"
    <3>1. PICK to \in {"credit", "close"} :
            /\ Goto(c, "read", to)
            /\ to = "credit" <=> call[c].result = "COMPLETED"
      BY <1>4, <2>2 DEF ApplyRead
    <3> USE <3>1 DEF Goto
    <3>2. UNCHANGED <<pay, sub, order>> BY <1>4 DEF ApplyRead
    <3>3. RowsInv' /\ CreatorInv' BY <3>2
    <3>4. ResultInv' BY <3>2
    <3>5. MoneyInv' /\ SubInv' /\ CompletedHasAccess' BY <3>2
    <3>6. ReturnInv' BY <2>2, <3>2
    <3> QED BY <1>4, <3>3, <3>4, <3>5, <3>6 DEF ApplyRead
  <2> QED BY <2>1, <2>2
<1>5. CASE ApplyClose(c)
  <2> DEFINE q == call[c].p
  <2>1. /\ q \in Payments
        /\ pay' = [pay EXCEPT ![q].status = CloseStatus(call[c].result)]
        /\ call' = [call EXCEPT ![c] = Idle]
        /\ UNCHANGED <<sub, order>>
    BY <1>5 DEF ApplyClose, End, SetStatus
  <2>2. \/ Dead(q) /\ CloseStatus(call[c].result) \in {"FAILED", "EXPIRED"}
        \/ /\ order[q].state = "Returned" /\ ~(AmountsNamed /\ q \in Purchases)
           /\ CloseStatus(call[c].result) = "REFUNDED"
    BY <1>5, KaspiAssumption DEF ApplyClose, End, CloseStatus, Results, Request
  <2> HIDE DEF q
  <2>3. RowsInv' BY <2>1, <2>2
  <2>4. CreatorInv' BY <2>1, <2>2
  <2>5. ResultInv' BY <2>1
  <2>6. MoneyInv' BY <2>1, <2>2
  <2>7. SubInv' BY <2>1
  <2>8. CompletedHasAccess' BY <2>1, <2>2
  <2>9. ReturnInv' BY <2>1, <2>2
  <2> QED BY <2>3, <2>4, <2>5, <2>6, <2>7, <2>8, <2>9
<1> QED BY <1>1, <1>2, <1>3, <1>4, <1>5

LEMMA CreditInv ==
  ASSUME IInv, TypeOK', NEW c \in Calls,
         \/ CreditOpen(c) \/ CreditTournament(c) \/ CreditSubscription(c)
         \/ CreditRejected(c)
  PROVE  IInv'
<1> USE DEF IInv, TypeOK, RowsInv, CreatorInv, ResultInv, MoneyInv, SubInv,
            CompletedHasAccess, ReturnInv, Credited, AccessIsCompleted, Purchases,
            IsSubscription, Creating, Applying, Dead, Paid, Taken, NoRow, NoSub, Idle
<1>1. CASE CreditOpen(c)
  <2>1. /\ call[c].pc = "credit"
        /\ call'[c].pc = "crediting"
        /\ call'[c].p = call[c].p /\ call'[c].result = call[c].result
        /\ \A d \in Calls \ {c} : call'[d] = call[d]
    <3>1. PICK prev : call' = [call EXCEPT ![c] =
                                [@ EXCEPT !.pc = "crediting", !.prev = prev]]
      BY <1>1 DEF CreditOpen
    <3>2. call[c] \in Request /\ call[c].pc = "credit" BY <1>1 DEF CreditOpen
    <3> HIDE DEF IInv, TypeOK
    <3>3. call \in [Calls -> Request] BY DEF IInv, TypeOK
    <3>4. /\ call'[c] = [call[c] EXCEPT !.pc = "crediting", !.prev = prev]
          /\ \A d \in Calls \ {c} : call'[d] = call[d]
      BY <3>1, <3>3
    <3> QED BY <3>2, <3>4 DEF Request
  <2>2. UNCHANGED <<pay, sub, order>> BY <1>1 DEF CreditOpen
  <2>3. RowsInv' /\ CreatorInv' BY <2>1, <2>2
  <2>4. ResultInv' BY <2>1, <2>2
  <2>5. MoneyInv' /\ SubInv' /\ CompletedHasAccess' BY <2>1, <2>2
  <2>6. ReturnInv' BY <2>1, <2>2
  <2> QED BY <2>3, <2>4, <2>5, <2>6
<1>2. CASE CreditTournament(c) BY <1>2 DEF CreditTournament, End, SetStatus
<1>3. CASE CreditSubscription(c)
  <2> USE <1>3 DEF CreditSubscription, End, SetStatus
  <2>1. sub'[call[c].p].status = "ACTIVE" BY DEF Period
  <2>2. RowsInv' /\ CreatorInv' OBVIOUS
  <2>3. ResultInv' OBVIOUS
  <2>4. MoneyInv' BY <2>1
  <2>5. SubInv' /\ CompletedHasAccess' BY <2>1
  <2>6. ReturnInv' BY <2>1
  <2> QED BY <2>2, <2>3, <2>4, <2>5, <2>6
<1>4. CASE CreditRejected(c) BY <1>4 DEF CreditRejected, End
<1> QED BY <1>1, <1>2, <1>3, <1>4

LEMMA RefundInv ==
  ASSUME IInv, TypeOK', NEW c \in Calls, NEW p \in Payments,
         \/ RefundStart(c, p) \/ ReturnMoney(c) \/ ReturnRejected(c)
         \/ ReturnAnswerLost(c) \/ RevokeOpen(c) \/ RevokeCommit(c)
         \/ DeadlockAbort(c) \/ Abandon(c)
  PROVE  IInv'
<1> USE DEF IInv, TypeOK, RowsInv, CreatorInv, ResultInv, MoneyInv, SubInv,
            CompletedHasAccess, ReturnInv, Credited, AccessIsCompleted, Purchases,
            IsSubscription, Creating, Applying, Dead, Paid, Taken, NoRow, NoSub, Idle
<1>1. CASE RefundStart(c, p) BY <1>1 DEF RefundStart, Start
<1>2. CASE ReturnMoney(c) BY <1>2 DEF ReturnMoney, Goto, SetOrder
<1>3. CASE ReturnRejected(c) BY <1>3 DEF ReturnRejected, End
<1>4. CASE ReturnAnswerLost(c) BY <1>4 DEF ReturnAnswerLost, End, SetOrder
<1>5. CASE RevokeOpen(c) BY <1>5 DEF RevokeOpen, Goto
<1>6. CASE RevokeCommit(c) BY <1>6 DEF RevokeCommit, End, SetStatus
<1>7. CASE DeadlockAbort(c) BY <1>7 DEF DeadlockAbort, End
<1>8. CASE Abandon(c) BY <1>8 DEF Abandon, End
<1> QED BY <1>1, <1>2, <1>3, <1>4, <1>5, <1>6, <1>7, <1>8

LEMMA OutsideInv ==
  ASSUME IInv, TypeOK', NEW p \in Payments, Outside(p) PROVE IInv'
<1> USE DEF IInv, TypeOK, RowsInv, CreatorInv, ResultInv, MoneyInv, SubInv,
            CompletedHasAccess, ReturnInv, Credited, AccessIsCompleted, Purchases,
            IsSubscription, Creating, Applying, Dead, Paid, Taken, NoRow, NoSub, Idle
<1>1. CASE BuyerPays(p) BY <1>1 DEF BuyerPays
<1>2. CASE OrderDies(p) BY <1>2 DEF OrderDies, SetOrder
<1>3. CASE ManualReturn(p) BY <1>3 DEF ManualReturn, SetOrder
<1> QED BY <1>1, <1>2, <1>3 DEF Outside

LEMMA InvStep == ASSUME IInv, [Next]_vars PROVE IInv'
<1>1. TypeOK' BY TypeStep DEF IInv
<1>2. CASE \E c \in Calls : Advance(c) \/ Break(c)
  <2> PICK c \in Calls : Advance(c) \/ Break(c) BY <1>2
  <2>1. call[c].p \in Payments
    BY DEF IInv, TypeOK, Advance, Break, OrderCreated, SaveOrder, MarkFailed, AskProvider,
           ApplyRead, ApplyClose, CreditOpen, CreditTournament, CreditSubscription,
           CreditRejected, ReturnMoney, ReturnRejected, RevokeOpen, RevokeCommit,
           DeadlockAbort, OrderFails, SaveFails, ReturnAnswerLost, Abandon, Goto, End
  <2> QED BY <1>1, <2>1, CreateInv, ResultsInv, CreditInv, RefundInv DEF Advance, Break
<1>3. CASE \E c \in Calls, p \in Payments : Arrive(c, p)
  BY <1>1, <1>3, CreateInv, ResultsInv, RefundInv DEF Arrive
<1>4. CASE \E p \in Payments : Outside(p) BY <1>1, <1>4, OutsideInv
<1>5. CASE UNCHANGED <<pay, sub, order, call>>
  BY <1>1, <1>5 DEF IInv, RowsInv, CreatorInv, ResultInv, MoneyInv, SubInv,
     CompletedHasAccess, ReturnInv, Credited, AccessIsCompleted, IsSubscription, Dead, Paid, Taken
<1> QED BY <1>2, <1>3, <1>4, <1>5 DEF Next, Tick, vars

\* IInv, the conjunction that explains every other property of the service, holds
\* in every reachable state.
THEOREM Invariance == Spec => []IInv
<1>1. IInv /\ [Next]_vars => IInv' BY InvStep
<1> QED BY InvInit, <1>1, PTL DEF Spec

-----------------------------------------------------------------------------
(* What follows from it.                                                   *)

\* A final status tells the truth about the money, with any number of
\* requests crossing and manual returns allowed.
THEOREM StatusSafe == Spec => []StatusTellsMoney
<1>1. IInv => StatusTellsMoney
  BY DEF IInv, CreatorInv, MoneyInv, StatusTellsMoney, Dead, Paid, Taken
<1> QED BY <1>1, Invariance, PTL

\* A completed subscription payment carries an active subscription.
THEOREM AccessSafe == Spec => []CompletedHasAccess
<1>1. IInv => CompletedHasAccess BY DEF IInv
<1> QED BY <1>1, Invariance, PTL

\* Where every answer names its amount, an active subscription's payment is
\* completed, unless the merchant may return its money by hand.
THEOREM ActiveSafe == AmountsNamed => (Spec => []AccessIsCompleted)
<1> SUFFICES ASSUME AmountsNamed PROVE Spec => []AccessIsCompleted OBVIOUS
<1>1. IInv => AccessIsCompleted BY DEF IInv, ReturnInv
<1> QED BY <1>1, Invariance, PTL

\* Only a commit writes a subscription: the first one of its payment, or a
\* refund's.
LEMMA SubStep ==
  ASSUME TypeOK, [Next]_vars
  PROVE  \/ UNCHANGED sub
         \/ \E c \in Calls : CreditSubscription(c) \/ RevokeCommit(c)
BY DEF Next, vars, Advance, Break, Arrive, Outside, OrderCreated, SaveOrder, MarkFailed,
       AskProvider, ApplyRead, ApplyClose, CreditOpen, CreditTournament, CreditRejected,
       ReturnMoney, ReturnRejected, RevokeOpen, DeadlockAbort, OrderFails, SaveFails,
       ReturnAnswerLost, Abandon, CreateRow, PollStart, Webhook, RefundStart, BuyerPays,
       OrderDies, ManualReturn, Tick

\* A subscription cancelled by a refund is never revived, whatever confirmation
\* was under way.
THEOREM CancelledSafe == Spec => CancelledForGood
<1>1. ASSUME IInv, IInv', [Next]_vars, NEW p \in Payments, sub[p].status = "CANCELLED"
      PROVE  sub'[p] = sub[p] /\ pay'[p].status # "COMPLETED"
  <2>1. sub'[p] = sub[p]
    <3>1. CASE UNCHANGED sub BY <3>1
    <3>2. ASSUME NEW c \in Calls, CreditSubscription(c) PROVE sub'[p] = sub[p]
      BY <1>1, <3>2 DEF CreditSubscription, End, NoSub, IInv, TypeOK
    <3>3. ASSUME NEW c \in Calls, RevokeCommit(c) PROVE sub'[p] = sub[p]
      BY <1>1, <3>3 DEF RevokeCommit, End, IInv, TypeOK
    <3> QED BY <1>1, <3>1, <3>2, <3>3, SubStep DEF IInv
  <2>2. sub'[p].status = "CANCELLED" BY <1>1, <2>1
  <2> QED BY <1>1, <2>1, <2>2 DEF IInv, SubInv, CompletedHasAccess, NoSub, IsSubscription
<1>2. IInv /\ IInv' /\ [Next]_vars
        => [\A p \in Payments : sub[p].status = "CANCELLED"
              => sub'[p] = sub[p] /\ pay'[p].status # "COMPLETED"]_vars
  BY <1>1
<1> QED BY <1>2, Invariance, PTL DEF Spec, CancelledForGood

-----------------------------------------------------------------------------
(* Refinement of AccessPromise.                                            *)

\* What an outside observer sees of p changes only with the row's plan, the
\* order or the subscription.
LEMMA Frame ==
  ASSUME NEW p \in Purchases, pay'[p].plan = pay[p].plan,
         order'[p].state = order[p].state, sub'[p].status = sub[p].status
  PROVE  Money'[p] = Money[p] /\ Access'[p] = Access[p]
BY DEF Money, Access, Paid, IsSubscription

LEMMA SameView ==
  ASSUME \A p \in Purchases : Money'[p] = Money[p] /\ Access'[p] = Access[p]
  PROVE  UNCHANGED Promise!promise
BY DEF Promise!promise, Money, Access

\* Creating, closing and confirming a payment are invisible but for the grant.
LEMMA RowsView ==
  ASSUME IInv, NEW c \in Calls, NEW p \in Payments,
         \/ \E u \in Users, plan \in Plans : CreateRow(c, p, u, plan)
         \/ SaveOrder(c) \/ MarkFailed(c) \/ ApplyClose(c) \/ CreditTournament(c)
  PROVE  UNCHANGED Promise!promise
<1> USE DEF IInv, TypeOK
<1>1. ASSUME NEW u \in Users, NEW plan \in Plans, CreateRow(c, p, u, plan)
      PROVE  UNCHANGED Promise!promise
  <2>1. order[p].state = "Absent" /\ UNCHANGED <<sub, order>>
    BY <1>1 DEF CreateRow, RowsInv, NoRow
  <2>2. p \in Purchases => Money'[p] = Money[p] /\ Access'[p] = Access[p]
    BY <2>1 DEF Money, Access, Paid
  <2>3. ASSUME NEW q \in Payments \ {p} PROVE pay'[q] = pay[q]
    BY <1>1 DEF CreateRow
  <2> QED BY <2>1, <2>2, <2>3, Frame, SameView DEF Purchases
<1>2. CASE SaveOrder(c) \/ MarkFailed(c) \/ ApplyClose(c) \/ CreditTournament(c)
  <2>1. UNCHANGED <<sub, order>> /\ \A q \in Payments : pay'[q].plan = pay[q].plan
    BY <1>2 DEF SaveOrder, MarkFailed, ApplyClose, CreditTournament, SetStatus, PaymentRow
  <2> QED BY <2>1, Frame, SameView DEF Purchases
<1> QED BY <1>1, <1>2

LEMMA OrderView ==
  ASSUME IInv, AmountsNamed, NEW p \in Payments, NEW c,
         \/ c \in Calls /\ (OrderCreated(c) \/ ReturnMoney(c) \/ ReturnAnswerLost(c))
         \/ Outside(p)
  PROVE  [Promise!Next]_Promise!promise
<1> USE DEF IInv, TypeOK, Order
<1> USE DEF Promise!Next, Promise!Pay, Promise!Return, Promise!Move
<1>1. CASE c \in Calls /\ OrderCreated(c)
  <2>1. /\ call[c].p \in Payments /\ order[call[c].p].state = "Absent"
        /\ order' = [order EXCEPT ![call[c].p].state = "Wait"]
        /\ UNCHANGED <<pay, sub>>
    BY <1>1 DEF OrderCreated, Goto, SetOrder, CreatorInv, Creating
  <2>2. \A q \in Purchases : Money'[q] = Money[q] /\ Access'[q] = Access[q]
    BY <2>1 DEF Money, Access, Paid, IsSubscription, Purchases
  <2> QED BY <2>2, SameView
<1>2. ASSUME NEW q \in Payments, order[q].state = "Wait", UNCHANGED <<pay, sub>>,
             NEW state \in OrderState \ {"Returned"}, NEW at,
             order' = [order EXCEPT ![q] = [state |-> state, at |-> at]]
      PROVE  [Promise!Next]_Promise!promise
  <2>1. Access' = Access BY <1>2 DEF Access
  <2>2. \A r \in Purchases \ {q} : Money'[r] = Money[r]
    BY <1>2 DEF Money, Paid, IsSubscription, Purchases
  <2>3. CASE q \in Purchases /\ IsSubscription(q) /\ state = "Processed"
    <3>1. Money[q] = "none" /\ Money'[q] = "paid"
      BY <1>2, <2>3 DEF Money, Paid, IsSubscription
    <3>2. Money' = [Money EXCEPT ![q] = "paid"] BY <2>2, <3>1 DEF Money
    <3> QED BY <2>1, <2>3, <3>1, <3>2
  <2>4. CASE ~(q \in Purchases /\ IsSubscription(q) /\ state = "Processed")
    <3>1. q \in Purchases => Money'[q] = Money[q]
      BY <1>2, <2>4 DEF Money, Paid, IsSubscription
    <3> QED BY <2>1, <2>2, <3>1, SameView
  <2> QED BY <2>3, <2>4
<1>3. CASE BuyerPays(p) BY <1>2, <1>3 DEF BuyerPays, OrderState
<1>4. CASE OrderDies(p)
  <2>1. PICK state \in {"Error", "Expired"} : order' = [order EXCEPT ![p].state = state]
    BY <1>4 DEF OrderDies, SetOrder
  <2>2. order' = [order EXCEPT ![p] = [state |-> state, at |-> order[p].at]]
    <3>1. order[p] \in [state : OrderState, at : Nat] OBVIOUS
    <3>2. [order[p] EXCEPT !.state = state] = [state |-> state, at |-> order[p].at]
      BY <3>1
    <3> QED BY <2>1, <3>2
  <2> QED BY <1>2, <1>4, <2>2 DEF OrderDies, OrderState
<1>5. CASE c \in Calls /\ (ReturnMoney(c) \/ ReturnAnswerLost(c))
  <2> DEFINE q == call[c].p
  <2>1. /\ q \in Payments /\ call[c].pc = "return" /\ order[q].state = "Processed"
        /\ order' = [order EXCEPT ![q].state = "Returned"]
        /\ UNCHANGED <<pay, sub>>
    BY <1>5 DEF ReturnMoney, ReturnAnswerLost, Goto, End, SetOrder
  <2> HIDE DEF q
  <2>2. Access' = Access BY <2>1 DEF Access
  <2>3. \A r \in Purchases \ {q} : Money'[r] = Money[r]
    BY <2>1 DEF Money, Paid, IsSubscription, Purchases
  <2>4. CASE q \in Purchases /\ IsSubscription(q)
    <3>1. Credited(q) BY <1>5, <2>1, <2>4 DEF ReturnInv, q
    <3>2. Access[q] = "active"
      BY <2>1, <2>4, <3>1 DEF Credited, SubInv, MoneyInv, SubscriptionRow, Access
    <3>3. Money[q] = "paid" /\ Money'[q] = "returned"
      BY <2>1, <2>4 DEF Money, Paid, IsSubscription
    <3>4. Money' = [Money EXCEPT ![q] = "returned"] BY <2>3, <3>3 DEF Money
    <3> QED BY <2>1, <2>2, <2>4, <3>2, <3>3, <3>4
  <2>5. CASE ~(q \in Purchases /\ IsSubscription(q))
    <3>1. q \in Purchases => Money'[q] = Money[q]
      BY <2>1, <2>5 DEF Money, Paid, IsSubscription
    <3> QED BY <2>2, <2>3, <3>1, SameView
  <2> QED BY <2>4, <2>5
<1>6. CASE ManualReturn(p)
  <2>1. order' = [order EXCEPT ![p].state = "Returned"] /\ UNCHANGED <<pay, sub>>
    BY <1>6 DEF ManualReturn, SetOrder
  <2>2. p \notin Purchases BY <1>6 DEF ManualReturn, Purchases
  <2>3. \A q \in Purchases : Money'[q] = Money[q] /\ Access'[q] = Access[q]
    BY <2>1, <2>2 DEF Money, Access, Paid, IsSubscription, Purchases
  <2> QED BY <2>3, SameView
<1> QED BY <1>1, <1>3, <1>4, <1>5, <1>6 DEF Outside

\* The two commits that write a subscription.
LEMMA AccessView ==
  ASSUME IInv, AmountsNamed, NEW c \in Calls,
         CreditSubscription(c) \/ RevokeCommit(c)
  PROVE  [Promise!Next]_Promise!promise
<1> DEFINE q == call[c].p
<1> USE DEF IInv, TypeOK
<1> USE DEF Promise!Next, Promise!Grant, Promise!Revoke, Promise!Move
<1>1. CASE CreditSubscription(c)
  <2>1. /\ q \in Payments /\ call[c].pc = "crediting" /\ call[c].result = "COMPLETED"
        /\ sub[q] = NoSub /\ IsSubscription(q)
        /\ sub' = [sub EXCEPT ![q] = Period(c)] /\ Period(c).status = "ACTIVE"
        /\ order' = order /\ pay' = [pay EXCEPT ![q].status = "COMPLETED"]
    BY <1>1 DEF CreditSubscription, End, SetStatus, ResultInv, Applying, Period
  <2>2. q \in Purchases => order[q].state = "Processed"
    BY <2>1 DEF ReturnInv, Credited, ResultInv, Applying, Taken, Paid
  <2> HIDE DEF q
  <2>3. \A r \in Purchases : Money'[r] = Money[r]
    BY <2>1 DEF Money, Paid, IsSubscription, PaymentRow, Purchases
  <2>4. \A r \in Purchases \ {q} : Access'[r] = Access[r] BY <2>1 DEF Access
  <2>5. CASE q \notin Purchases BY <2>3, <2>4, <2>5, SameView
  <2>6. CASE q \in Purchases
    <3>1. Money[q] = "paid" /\ Access[q] = "none" /\ Access'[q] = "active"
      BY <2>1, <2>2, <2>6 DEF Money, Access, Paid, NoSub, Purchases
    <3>2. Money' = Money /\ Access' = [Access EXCEPT ![q] = "active"]
      BY <2>3, <2>4, <3>1 DEF Money, Access
    <3> QED BY <2>6, <3>1, <3>2
  <2> QED BY <2>5, <2>6
<1>2. CASE RevokeCommit(c)
  <2>1. /\ q \in Payments /\ order[q].state = "Returned" /\ order' = order
        /\ pay' = [pay EXCEPT ![q].status = "REFUNDED"]
        /\ sub' = IF sub[q].status = "ACTIVE"
                  THEN [sub EXCEPT ![q].status = "CANCELLED"] ELSE sub
    BY <1>2 DEF RevokeCommit, End, SetStatus, MoneyInv
  <2> HIDE DEF q
  <2>2. \A r \in Purchases : Money'[r] = Money[r]
    BY <2>1 DEF Money, Paid, IsSubscription, PaymentRow, Purchases
  <2>3. CASE q \in Purchases /\ sub[q].status = "ACTIVE"
    <3>1. \A r \in Purchases \ {q} : Access'[r] = Access[r] BY <2>1, <2>3 DEF Access
    <3>2. Access[q] = "active" /\ Access'[q] = "revoked" /\ Money[q] = "returned"
      BY <2>1, <2>3 DEF Access, Money, Paid, SubInv, NoSub, SubscriptionRow
    <3>3. Money' = Money /\ Access' = [Access EXCEPT ![q] = "revoked"]
      BY <2>2, <3>1, <3>2 DEF Money, Access
    <3> QED BY <2>1, <2>3, <3>2, <3>3
  <2>4. CASE ~(q \in Purchases /\ sub[q].status = "ACTIVE")
    <3>1. \A r \in Purchases : Access'[r] = Access[r] BY <2>1, <2>4 DEF Access
    <3> QED BY <2>2, <3>1, SameView
  <2> QED BY <2>3, <2>4
<1> QED BY <1>1, <1>2

LEMMA QuietView ==
  ASSUME NEW c \in Calls, NEW p \in Payments,
         \/ OrderFails(c) \/ SaveFails(c) \/ AskProvider(c) \/ ApplyRead(c)
         \/ CreditOpen(c) \/ CreditRejected(c) \/ ReturnRejected(c) \/ RevokeOpen(c)
         \/ DeadlockAbort(c) \/ Abandon(c) \/ PollStart(c, p) \/ Webhook(c, p)
         \/ RefundStart(c, p)
  PROVE  UNCHANGED <<pay, sub, order>>
BY DEF OrderFails, SaveFails, AskProvider, ApplyRead, CreditOpen, CreditRejected,
       ReturnRejected, RevokeOpen, DeadlockAbort, Abandon, PollStart, Webhook, RefundStart

LEMMA PromiseStep ==
  ASSUME IInv, AmountsNamed, [Next]_vars PROVE [Promise!Next]_Promise!promise
<1>0. CASE UNCHANGED <<pay, sub, order>>
  BY <1>0, SameView DEF Money, Access, Paid, IsSubscription
<1>1. ASSUME NEW c \in Calls, NEW p \in Payments, Advance(c) \/ Break(c) \/ Arrive(c, p)
      PROVE  [Promise!Next]_Promise!promise
  BY <1>0, <1>1, QuietView, RowsView, OrderView, AccessView DEF Advance, Break, Arrive
<1>2. ASSUME NEW c \in Calls, Advance(c) \/ Break(c)
      PROVE  [Promise!Next]_Promise!promise
  <2>1. call[c].p \in Payments
    BY <1>2 DEF IInv, TypeOK, Advance, Break, OrderCreated, SaveOrder, MarkFailed,
           AskProvider, ApplyRead, ApplyClose, CreditOpen, CreditTournament,
           CreditSubscription, CreditRejected, ReturnMoney, ReturnRejected, RevokeOpen,
           RevokeCommit, DeadlockAbort, OrderFails, SaveFails, ReturnAnswerLost, Abandon,
           Goto, End
  <2> QED BY <1>1, <1>2, <2>1
<1>3. ASSUME NEW p \in Payments, Outside(p) PROVE [Promise!Next]_Promise!promise
  BY <1>3, OrderView
<1> QED BY <1>0, <1>1, <1>2, <1>3 DEF Next, Tick, vars

LEMMA PromiseInit == Init => Promise!Init
BY DEF Init, Promise!Init, Money, Access, Paid, NoSub, Purchases

\* Where Kaspi names every amount, the service keeps its promise about every
\* subscription purchase whose money goes back through the refund handler only:
\* handlers, polls, webhooks and transactions implement AccessPromise.
THEOREM Implements == AmountsNamed => (Spec => KeepsPromise)
<1> SUFFICES ASSUME AmountsNamed PROVE Spec => KeepsPromise OBVIOUS
<1>1. IInv /\ [Next]_vars => [Promise!Next]_Promise!promise BY PromiseStep
<1> QED BY PromiseInit, <1>1, Invariance, PTL DEF Spec, KeepsPromise, Promise!Spec
=============================================================================
