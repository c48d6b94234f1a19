----------------------- MODULE BridgePayments_proofs -----------------------
(***************************************************************************)
(* Proofs about BridgePayments, for every set of payments, buyers and      *)
(* requests, every spread, expiry and memory, and any number of faults.    *)
(* IInv (in BridgePayments) is inductive; the two properties of the money  *)
(* follow from its parts.                                                  *)
(***************************************************************************)
EXTENDS BridgePayments, TLAPS

-----------------------------------------------------------------------------
(* The invariant holds at first, and every action keeps it.                *)

\* The offset found is one that no payment counted for it has.
LEMMA AllocateInv ==
  ASSUME BridgeAssumption, IInv, NEW c \in Calls, NEW p \in Payments, NEW u \in Buyers,
         Allocate(c, p, u)
  PROVE  IInv'
<1> USE DEF IInv, BridgeAssumption, TypeOK
<1>1. PICK off \in Offsets \ Taken :
        call' = [call EXCEPT ![c] = [pc |-> "create", p |-> p, buyer |-> u,
                                     amount |-> off, transfer |-> None]]
  BY DEF Allocate
<1>2. /\ call[c].pc = "idle" /\ pay[p] = NoRow
      /\ alone' \in BOOLEAN /\ pay' = pay /\ sent' = sent
      /\ alone' => alone /\ \A d \in Calls \ {c} : call[d].pc = "idle"
  BY DEF Allocate, Begin, Fresh
<1>3. TypeOK'
  BY DEF Allocate, Begin, Request
<1>4. RowsAreWhole' /\ NoneIsEarly'
  BY DEF Allocate, NoneIsEarly, RowsAreWhole
<1>5. RequestsAreWhole'
  <2>1. RequestIsWhole(c)'
    BY <1>1, <1>2 DEF RequestIsWhole, Crediting, Offsets
  <2>2. ASSUME NEW d \in Calls \ {c} PROVE RequestIsWhole(d)'
    BY <1>1, <1>2 DEF RequestsAreWhole, RequestIsWhole
  <2> QED BY <2>1, <2>2 DEF RequestsAreWhole
<1>6. MakersDiffer'
  BY DEF Allocate, Fresh, MakersDiffer
<1>7. TakenInOnce'
  BY DEF Allocate, TakenInOnce, Remembered, Crediting, Text
<1>8. TransferCountsOnce'
  BY DEF Allocate, TransferCountsOnce
<1>9. OneAtATime'
  BY <1>1, <1>2 DEF OneAtATime
<1>10. NothingFailed'
  BY DEF Allocate, Begin, NothingFailed
<1>11. NothingIsLate'
  BY DEF Allocate, NothingIsLate
<1>12. CountedDiffer'
  BY DEF Allocate, Taken, Begin, CountedDiffer, Counts
<1>13. OwnIsCredited'
  BY DEF Allocate, Begin, OwnIsCredited, Calm, MoneyFindsItsPayment
<1> QED BY <1>3, <1>4, <1>5, <1>6, <1>7, <1>8, <1>9, <1>10, <1>11, <1>12, <1>13

LEMMA CreateRowInv ==
  ASSUME BridgeAssumption, IInv, NEW c \in Calls, CreateRow(c) PROVE IInv'
<1> USE DEF IInv, BridgeAssumption, TypeOK
<1>1. /\ call[c].pc = "create" /\ call[c].p \in Payments /\ pay[call[c].p] = NoRow
      /\ \A q \in Payments \ {call[c].p} : pay'[q] = pay[q]
      /\ call'[c].pc = "save" /\ call'[c].p = call[c].p
      /\ \A d \in Calls \ {c} : call'[d] = call[d]
      /\ pay'[call[c].p].status = "PENDING" /\ pay'[call[c].p].expires = None
  BY DEF CreateRow, Goto, RequestsAreWhole, RequestIsWhole, Request
<1>2. TypeOK'
  BY DEF CreateRow, Goto, PaymentRow, Request, Offsets, RequestsAreWhole,
       RequestIsWhole
<1>3. RowsAreWhole' /\ NoneIsEarly'
  BY DEF CreateRow, Goto, NoneIsEarly, NoRow, RowsAreWhole, RequestsAreWhole,
       RequestIsWhole, Request
<1>4. RequestsAreWhole'
  <2>1. RequestIsWhole(c)'
    BY <1>1 DEF RequestIsWhole, Crediting
  <2>2. ASSUME NEW d \in Calls \ {c} PROVE RequestIsWhole(d)'
    <3>1. call'[d] = call[d] /\ RequestIsWhole(d) /\ sent' = sent
      BY DEF CreateRow, Goto, RequestsAreWhole
    <3>2. call[d].pc = "create" => call[d].p # call[c].p
      BY <1>1 DEF MakersDiffer, Making
    <3>3. ASSUME NEW q \in Payments, pay[q].status # "none" PROVE pay'[q] = pay[q]
      BY <1>1, <3>3 DEF NoRow
    <3>4. ASSUME NEW q \in Payments, sent[q] # None PROVE pay'[q] = pay[q]
      BY <3>3, <3>4 DEF RowsAreWhole
    <3> QED BY <1>1, <3>1, <3>2, <3>4 DEF RequestIsWhole, Request
  <2> QED BY <2>1, <2>2 DEF RequestsAreWhole
<1>5. MakersDiffer'
  BY DEF CreateRow, Goto, MakersDiffer, Making
<1>6. TakenInOnce'
  <2> SUFFICES ASSUME faults = 0 PROVE TakenInOnce' BY DEF TakenInOnce, CreateRow
  <2>1. ASSUME NEW q \in Payments, pay[q].status # "none" PROVE pay'[q] = pay[q]
    BY <1>1, <2>1 DEF NoRow
  <2>2. ASSUME NEW q \in Payments, sent[q] # None, Remembered(q) PROVE Remembered(q)'
    BY <2>1, <2>2 DEF RowsAreWhole, CreateRow, Remembered, Text
  <2>3. \A q \in Payments : pay'[q].status = "COMPLETED" => pay'[q] = pay[q]
    BY <1>1
  <2>4. \A d \in Calls : call'[d].pc \in Crediting =>
          call[d].pc \in Crediting /\ call'[d].transfer = call[d].transfer
    BY <1>1 DEF Crediting
  <2> QED BY <2>2, <2>3, <2>4 DEF TakenInOnce, RowsAreWhole, RequestsAreWhole,
            RequestIsWhole, PaymentRow, Request
<1>7. TransferCountsOnce'
  BY DEF CreateRow, TransferCountsOnce
<1>8. OneAtATime'
  BY DEF CreateRow, Goto, OneAtATime
<1>9. NothingFailed'
  BY DEF CreateRow, Goto, NothingFailed
<1>10. NothingIsLate'
  BY DEF CreateRow, Goto, NothingIsLate, NoRow, RowsAreWhole, RequestsAreWhole,
       RequestIsWhole, Request
<1>11. CountedDiffer'
  BY DEF CreateRow, Goto, CountedDiffer, Counts, OneAtATime
<1>12. OwnIsCredited'
  BY DEF CreateRow, Goto, OwnIsCredited, Calm, MoneyFindsItsPayment
<1> QED BY <1>2, <1>3, <1>4, <1>5, <1>6, <1>7, <1>8, <1>9, <1>10, <1>11, <1>12

LEMMA SaveInv ==
  ASSUME BridgeAssumption, IInv, NEW c \in Calls, Save(c) PROVE IInv'
<1> USE DEF IInv, BridgeAssumption, TypeOK
<1>1. /\ call[c].pc = "save" /\ call[c].p \in Payments
      /\ \A d \in Calls \ {c} : call'[d] = call[d]
      /\ call'[c].pc = "idle"
  BY DEF Save, End, Idle, RequestsAreWhole, RequestIsWhole, Request
<1>2. TypeOK'
  BY DEF Save, End, Idle, PaymentRow, Request, Texts, RequestsAreWhole,
       RequestIsWhole, Crediting
<1>3. RowsAreWhole' /\ NoneIsEarly'
  BY DEF Save, End, NoneIsEarly, RowsAreWhole, RequestsAreWhole, RequestIsWhole
<1>4. RequestsAreWhole'
  <2>1. RequestIsWhole(c)'
    BY <1>1 DEF RequestIsWhole, Crediting
  <2>2. ASSUME NEW d \in Calls \ {c} PROVE RequestIsWhole(d)'
    <3>1. /\ call'[d] = call[d] /\ RequestIsWhole(d) /\ sent' = sent
          /\ pay' = [pay EXCEPT ![call[c].p].expires = now + Expiry]
      BY <1>1 DEF Save, RequestsAreWhole
    <3>2. call[d].pc \in {"create", "save", "fail"} => call[d].p # call[c].p
      BY <1>1 DEF MakersDiffer, Making
    <3> QED BY <3>1, <3>2 DEF RequestIsWhole
  <2> QED BY <2>1, <2>2 DEF RequestsAreWhole
<1>5. MakersDiffer'
  BY DEF Save, End, Idle, MakersDiffer, Making
<1>6. TakenInOnce'
  BY DEF Save, End, Idle, TakenInOnce, Remembered, Crediting, Text, Texts,
       RowsAreWhole, RequestsAreWhole, RequestIsWhole, PaymentRow, Request
<1>7. TransferCountsOnce'
  BY DEF Save, TransferCountsOnce
<1>8. OneAtATime'
  BY DEF Save, End, OneAtATime
<1>9. NothingFailed'
  BY DEF Save, End, Idle, NothingFailed
<1>10. NothingIsLate'
  BY DEF Save, End, Idle, NothingIsLate
<1>11. CountedDiffer'
  BY DEF Save, End, Idle, CountedDiffer, Counts
<1>12. OwnIsCredited'
  BY DEF Save, End, Idle, OwnIsCredited, Calm, MoneyFindsItsPayment
<1> QED BY <1>2, <1>3, <1>4, <1>5, <1>6, <1>7, <1>8, <1>9, <1>10, <1>11, <1>12

LEMMA SaveFailsInv ==
  ASSUME BridgeAssumption, IInv, NEW c \in Calls, SaveFails(c) PROVE IInv'
<1> USE DEF IInv, BridgeAssumption, TypeOK
<1>1. TypeOK'
  BY DEF SaveFails, Goto, Fault, Request
<1>2. RowsAreWhole' /\ NoneIsEarly'
  BY DEF SaveFails, NoneIsEarly, RowsAreWhole
<1>3. RequestsAreWhole'
  BY DEF SaveFails, Goto, Crediting, RequestsAreWhole, RequestIsWhole
<1>4. MakersDiffer'
  BY DEF SaveFails, Goto, MakersDiffer, Making
<1>5. TakenInOnce'
  BY DEF SaveFails, Fault, TakenInOnce
<1>6. TransferCountsOnce'
  BY DEF SaveFails, Fault, TransferCountsOnce
<1>7. OneAtATime'
  BY DEF SaveFails, Goto, OneAtATime
<1>8. NothingFailed'
  BY DEF SaveFails, Fault, NothingFailed
<1>9. NothingIsLate'
  BY DEF SaveFails, Goto, NothingIsLate
<1>10. CountedDiffer'
  BY DEF SaveFails, Goto, CountedDiffer, Counts
<1>11. OwnIsCredited'
  BY DEF SaveFails, Fault, OwnIsCredited, Calm
<1> QED BY <1>1, <1>2, <1>3, <1>4, <1>5, <1>6, <1>7, <1>8, <1>9, <1>10, <1>11

LEMMA MarkFailedInv ==
  ASSUME BridgeAssumption, IInv, NEW c \in Calls, MarkFailed(c) PROVE IInv'
<1> USE DEF IInv, BridgeAssumption, TypeOK
<1>1. TypeOK'
  BY DEF MarkFailed, End, Idle, PaymentRow, Request, RequestsAreWhole, RequestIsWhole
<1>2. RowsAreWhole' /\ NoneIsEarly'
  BY DEF MarkFailed, End, NoneIsEarly, RowsAreWhole, RequestsAreWhole, RequestIsWhole
<1>3. RequestsAreWhole'
  BY DEF MarkFailed, End, Idle, Crediting, NoRow, RequestsAreWhole, RequestIsWhole
<1>4. MakersDiffer'
  BY DEF MarkFailed, End, Idle, MakersDiffer, Making
<1>5. TakenInOnce'
  BY DEF MarkFailed, End, Idle, TakenInOnce, Remembered, Crediting, Text, Texts,
       RowsAreWhole, RequestsAreWhole, RequestIsWhole, PaymentRow, Request
<1>6. TransferCountsOnce'
  BY DEF MarkFailed, TransferCountsOnce
<1>7. OneAtATime'
  BY DEF MarkFailed, End, OneAtATime
<1>8. NothingFailed'
  BY DEF MarkFailed, End, NothingFailed
<1>9. NothingIsLate'
  BY DEF MarkFailed, End, Idle, NothingIsLate
<1>10. CountedDiffer'
  BY DEF MarkFailed, End, Idle, CountedDiffer, Counts
<1>11. OwnIsCredited'
  BY DEF MarkFailed, End, OwnIsCredited, Calm, NothingFailed
<1> QED BY <1>1, <1>2, <1>3, <1>4, <1>5, <1>6, <1>7, <1>8, <1>9, <1>10, <1>11

\* The forwarder stops before the memory does: what is not a duplicate is of a
\* transfer that no request and no payment works for.
LEMMA NotifyInv ==
  ASSUME BridgeAssumption, IInv, NEW c \in Calls, NEW t \in Payments, Notify(c, t)
  PROVE  IInv'
<1> USE DEF IInv, BridgeAssumption, TypeOK
<1>1. /\ call[c].pc = "idle" /\ alone' \in BOOLEAN
      /\ UNCHANGED <<pay, sent, now, faults>>
      /\ call'[c] = [pc |-> "match", p |-> None, buyer |-> None,
                     amount |-> pay[t].amount, transfer |-> t]
      /\ \A d \in Calls \ {c} : call'[d] = call[d]
      /\ alone' => alone /\ \A d \in Calls \ {c} : call[d].pc = "idle"
  BY DEF Notify, Begin
<1>2. /\ sent[t] # None /\ pay[t].status # "none"
      /\ pay[t].buyer \in Buyers /\ pay[t].amount \in Offsets
  BY DEF Notify, RowsAreWhole
<1>3. ~Remembered(t)
  <2>1. Text(t) \in Texts
    BY <1>2 DEF Text, Texts
  <2>2. sent[t] \in Nat /\ now < sent[t] + Repeats /\ seen[Text(t)] \in Nat \cup {None}
        /\ ~(seen[Text(t)] # None /\ now - seen[Text(t)] < DedupeTtl)
    BY <2>1 DEF Notify, Duplicate
  <2> QED BY <2>2 DEF Remembered
<1>4. Remembered(t)' /\ \A q \in Payments : sent[q] # None /\ Remembered(q) => Remembered(q)'
  <2>1. ASSUME NEW q \in Payments, sent[q] # None
        PROVE  Text(q) \in Texts /\ Text(q)' = Text(q) /\ sent[q] <= now
    BY <1>1, <2>1 DEF Text, Texts, RowsAreWhole, NoneIsEarly
  <2>2. now # None /\ seen' = [seen EXCEPT ![Text(t)] = now]
    BY DEF Notify
  <2> QED BY <1>1, <1>2, <2>1, <2>2 DEF Remembered
<1>5. TypeOK'
  <2>1. now \in Nat /\ seen' = [seen EXCEPT ![Text(t)] = now]
    BY DEF Notify
  <2>3. seen' \in [Texts -> Nat \cup {None}]
    BY <2>1
  <2>2. call' \in [Calls -> Request]
    BY <1>2 DEF Notify, Request
  <2> QED BY <1>1, <2>2, <2>3
<1>6. RowsAreWhole' /\ NoneIsEarly'
  BY DEF Notify, NoneIsEarly, RowsAreWhole
<1>7. RequestsAreWhole'
  BY DEF Notify, RequestsAreWhole, RequestIsWhole
<1>8. MakersDiffer'
  BY DEF Notify, MakersDiffer, Making
<1>9. TakenInOnce'
  <2> SUFFICES ASSUME faults = 0 PROVE TakenInOnce' BY <1>1 DEF TakenInOnce
  <2>1. \A d \in Calls \ {c} : call[d].pc \in Crediting =>
          call[d].transfer # t /\ sent[call[d].transfer] # None
          /\ call[d].transfer \in Payments
    BY <1>3 DEF TakenInOnce, RequestsAreWhole, RequestIsWhole, Request
  <2>2. \A q \in Payments : pay[q].status = "COMPLETED" =>
          pay[q].paidBy # t /\ sent[pay[q].paidBy] # None /\ pay[q].paidBy \in Payments
    BY <1>3 DEF TakenInOnce, RowsAreWhole, PaymentRow
  <2> QED BY <1>1, <1>4, <2>1, <2>2 DEF TakenInOnce
<1>10. TransferCountsOnce'
  BY DEF Notify, TransferCountsOnce
<1>11. OneAtATime'
  BY DEF Notify, Begin, OneAtATime, Request
<1>12. NothingFailed'
  BY DEF Notify, Begin, NothingFailed
<1>13. NothingIsLate'
  BY DEF Notify, NothingIsLate
<1>14. CountedDiffer'
  BY DEF Notify, Begin, CountedDiffer, Counts
<1>15. OwnIsCredited'
  <2> SUFFICES ASSUME Calm' PROVE OwnIsCredited' BY DEF OwnIsCredited
  <2>1. Calm
    BY <1>1 DEF Calm
  <2>2. pay[t].status # "COMPLETED"
    BY <1>3, <2>1 DEF OwnIsCredited, MoneyFindsItsPayment, TakenInOnce, Calm
  <2>3. pay[t].status = "PENDING"
    BY <1>2, <2>1, <2>2 DEF Calm, NothingFailed, PaymentRow
  <2> QED BY <1>1, <2>1, <2>3 DEF OwnIsCredited, MoneyFindsItsPayment
<1> QED BY <1>5, <1>6, <1>7, <1>8, <1>9, <1>10, <1>11, <1>12, <1>13, <1>14, <1>15

\* In turn, the payment found and the one the transfer was made for are both
\* counted, so they are the same.
LEMMA MatchInv ==
  ASSUME BridgeAssumption, IInv, NEW c \in Calls, Match(c) PROVE IInv'
<1> USE DEF IInv, BridgeAssumption, TypeOK
<1>1. /\ UNCHANGED <<pay, sent, seen, now, faults, alone>> /\ call[c].pc = "match"
      /\ \/ call' = [call EXCEPT ![c] = Idle]
         \/ \E p \in Payments :
              /\ Open(p) /\ pay[p].amount = call[c].amount
              /\ call' = [call EXCEPT ![c].pc = "read", ![c].p = p]
  BY DEF Match, End, Candidates
<1>2. /\ call' \in [Calls -> Request]
      /\ \A d \in Calls \ {c} : call'[d] = call[d]
      /\ \/ call'[c].pc = "idle"
         \/ \E p \in Payments :
              /\ Open(p) /\ pay[p].amount = call[c].amount
              /\ call'[c].pc = "read" /\ call'[c].p = p
              /\ call'[c].transfer = call[c].transfer /\ call'[c].amount = call[c].amount
  <2>1. CASE call' = [call EXCEPT ![c] = Idle]
    BY <2>1 DEF Idle, Request
  <2>2. ASSUME NEW p \in Payments, call' = [call EXCEPT ![c].pc = "read", ![c].p = p]
        PROVE  /\ call' \in [Calls -> Request]
               /\ \A d \in Calls \ {c} : call'[d] = call[d]
               /\ call'[c].pc = "read" /\ call'[c].p = p
               /\ call'[c].transfer = call[c].transfer /\ call'[c].amount = call[c].amount
    BY <2>2 DEF Request
  <2> QED BY <1>1, <2>1, <2>2
<1>3. TypeOK'
  BY <1>1, <1>2
<1>4. RowsAreWhole' /\ NoneIsEarly'
  BY <1>1 DEF RowsAreWhole, NoneIsEarly
<1>5. RequestsAreWhole'
  BY DEF Match, End, Candidates, Open, Idle, Crediting, RequestsAreWhole,
       RequestIsWhole, Request
<1>6. MakersDiffer'
  BY <1>2 DEF MakersDiffer, Making
<1>7. TakenInOnce'
  <2>1. call'[c].pc \in Crediting => call'[c].transfer = call[c].transfer
    BY <1>2 DEF Crediting
  <2>2. \A q : Remembered(q)' = Remembered(q)
    BY <1>1 DEF Remembered, Text
  <2> QED BY <1>1, <2>1, <2>2 DEF TakenInOnce, Crediting
<1>8. TransferCountsOnce'
  BY <1>1 DEF TransferCountsOnce
<1>9. OneAtATime'
  BY <1>1 DEF OneAtATime
<1>10. NothingFailed'
  BY <1>1, <1>2 DEF NothingFailed
<1>11. NothingIsLate'
  BY <1>1, <1>2 DEF NothingIsLate
<1>12. CountedDiffer'
  BY <1>1, <1>2 DEF CountedDiffer, Counts
<1>13. OwnIsCredited'
  <2> SUFFICES ASSUME Calm, NEW p \in Payments, Open(p), pay[p].amount = call[c].amount,
                      call'[c].pc = "read", call'[c].p = p
               PROVE  p = call[c].transfer
    BY <1>1, <1>2 DEF OwnIsCredited, Calm, MoneyFindsItsPayment
  <2> DEFINE t == call[c].transfer
  <2>1. t \in Payments /\ sent[t] # None /\ pay[t].amount = call[c].amount
        /\ pay[t].status = "PENDING" /\ pay[t].expires \in Nat
    BY <1>1 DEF RequestsAreWhole, RequestIsWhole, RowsAreWhole, Crediting,
         OwnIsCredited, Request, PaymentRow
  <2>2. Counts(t)
    BY <2>1 DEF Counts, NothingIsLate, Calm
  <2>3. pay[p].expires # None
    BY <1>1 DEF Open, OneAtATime, NothingFailed, Calm
  <2>4. Counts(p)
    BY <2>3 DEF Counts, Open, NothingIsLate, Calm, PaymentRow
  <2> QED BY <2>1, <2>2, <2>4 DEF CountedDiffer, Calm
<1> QED BY <1>3, <1>4, <1>5, <1>6, <1>7, <1>8, <1>9, <1>10, <1>11, <1>12, <1>13

LEMMA ApplyReadInv ==
  ASSUME BridgeAssumption, IInv, NEW c \in Calls, ApplyRead(c) PROVE IInv'
<1> USE DEF IInv, BridgeAssumption, TypeOK
<1>1. /\ UNCHANGED <<pay, sent, seen, now, faults, alone>> /\ call[c].pc = "read"
      /\ \A d \in Calls \ {c} : call'[d] = call[d]
      /\ \/ call'[c].pc = "idle"
         \/ /\ call'[c].pc = "credit" /\ call'[c].p = call[c].p
            /\ call'[c].transfer = call[c].transfer /\ call'[c].amount = call[c].amount
  BY DEF ApplyRead, Goto, End, Idle, Request
<1>2. TypeOK'
  BY DEF ApplyRead, Goto, End, Idle, PaymentRow, Request, Texts
<1>3. RowsAreWhole' /\ NoneIsEarly'
  BY <1>1 DEF RowsAreWhole, NoneIsEarly
<1>4. RequestsAreWhole'
  <2>1. RequestIsWhole(c)'
    BY <1>1 DEF RequestsAreWhole, RequestIsWhole, Crediting
  <2>2. ASSUME NEW d \in Calls \ {c} PROVE RequestIsWhole(d)'
    BY <1>1 DEF RequestsAreWhole, RequestIsWhole
  <2> QED BY <2>1, <2>2 DEF RequestsAreWhole
<1>5. MakersDiffer'
  BY <1>1 DEF MakersDiffer, Making
<1>6. TakenInOnce'
  <2>1. \A q : Remembered(q)' = Remembered(q)
    BY <1>1 DEF Remembered, Text
  <2> QED BY <1>1, <2>1 DEF TakenInOnce, Crediting
<1>7. TransferCountsOnce'
  BY <1>1 DEF TransferCountsOnce
<1>8. OneAtATime'
  BY <1>1 DEF OneAtATime
<1>9. NothingFailed'
  BY <1>1 DEF NothingFailed
<1>10. NothingIsLate'
  BY <1>1 DEF NothingIsLate
<1>11. CountedDiffer'
  BY <1>1 DEF CountedDiffer, Counts
<1>12. OwnIsCredited'
  BY <1>1 DEF OwnIsCredited, Calm, MoneyFindsItsPayment
<1> QED BY <1>2, <1>3, <1>4, <1>5, <1>6, <1>7, <1>8, <1>9, <1>10, <1>11, <1>12

\* The transfer of the request works for this payment from now on.
LEMMA CreditInv ==
  ASSUME BridgeAssumption, IInv, NEW c \in Calls, Credit(c) PROVE IInv'
<1> USE DEF IInv, BridgeAssumption, TypeOK
<1>1. /\ UNCHANGED <<sent, seen, now, faults, alone>>
      /\ call[c].pc = "credit" /\ call'[c].pc = "idle" /\ call' \in [Calls -> Request]
      /\ \A d \in Calls \ {c} : call'[d] = call[d]
  BY DEF Credit, End, Idle, Request
<1>2. /\ call[c].p \in Payments /\ pay[call[c].p].status # "none"
      /\ call[c].transfer \in Payments /\ sent[call[c].transfer] # None
  BY <1>1 DEF RequestsAreWhole, RequestIsWhole, Request, Crediting
<1>3. /\ pay' \in [Payments -> PaymentRow]
      /\ \A q \in Payments :
           /\ pay'[q].buyer = pay[q].buyer /\ pay'[q].amount = pay[q].amount
           /\ pay'[q].created = pay[q].created /\ pay'[q].expires = pay[q].expires
      /\ \A q \in Payments :
           \/ pay'[q] = pay[q]
           \/ q = call[c].p /\ pay'[q].status = "COMPLETED" /\ pay'[q].paidBy = call[c].transfer
  <2>1. CASE pay' = [pay EXCEPT ![call[c].p].status = "COMPLETED",
                               ![call[c].p].paidBy = call[c].transfer]
    BY <1>2, <2>1 DEF PaymentRow
  <2> QED BY <2>1 DEF Credit
<1>4. TypeOK'
  BY <1>1, <1>3
<1>5. RowsAreWhole' /\ NoneIsEarly'
  <2>1. RowsAreWhole'
    BY <1>1, <1>2, <1>3 DEF RowsAreWhole
  <2>2. NoneIsEarly'
    BY <1>1, <1>3 DEF NoneIsEarly
  <2> QED BY <2>1, <2>2
<1>6. RequestsAreWhole'
  <2>1. RequestIsWhole(c)'
    BY <1>1 DEF RequestIsWhole, Crediting
  <2>2. ASSUME NEW d \in Calls \ {c} PROVE RequestIsWhole(d)'
    <3>1. RequestIsWhole(d) /\ call'[d] = call[d]
      BY <1>1 DEF RequestsAreWhole
    <3>2. \A q \in Payments : pay[q] = NoRow => pay'[q] = pay[q]
      BY <1>2, <1>3 DEF NoRow
    <3> QED BY <1>1, <1>3, <3>1, <3>2 DEF RequestIsWhole, Request
  <2> QED BY <2>1, <2>2 DEF RequestsAreWhole
<1>7. MakersDiffer'
  BY <1>1 DEF MakersDiffer, Making
<1>8. TakenInOnce'
  <2> SUFFICES ASSUME faults = 0 PROVE TakenInOnce' BY <1>1 DEF TakenInOnce
  <2>1. ASSUME NEW q \in Payments, Remembered(q) PROVE Remembered(q)'
    BY <1>1, <1>3, <2>1 DEF Remembered, Text
  <2>2. \A d \in Calls : call'[d].pc \in Crediting =>
          d # c /\ call'[d] = call[d] /\ call[d].transfer \in Payments
          /\ call[d].transfer # call[c].transfer /\ Remembered(call[d].transfer)
    BY <1>1 DEF TakenInOnce, Crediting, RequestsAreWhole, RequestIsWhole, Request
  <2>3. Remembered(call[c].transfer)
    BY <1>1 DEF TakenInOnce, Crediting
  <2>4. \A q \in Payments : pay'[q].status = "COMPLETED" =>
          \/ pay'[q].paidBy = call[c].transfer
          \/ /\ pay'[q] = pay[q] /\ pay[q].paidBy \in Payments /\ Remembered(pay[q].paidBy)
             /\ \A d \in Calls : call[d].pc \in Crediting => call[d].transfer # pay[q].paidBy
    BY <1>3 DEF TakenInOnce, RowsAreWhole, PaymentRow
  <2>5. \A q \in Payments : pay'[q].status = "COMPLETED" => Remembered(pay[q].paidBy)'
    BY <1>2, <2>1, <2>3, <2>4 DEF Remembered, Text
  <2>6. \A d \in Calls : call'[d].pc \in Crediting => Remembered(call[d].transfer)'
    BY <2>1, <2>2 DEF Remembered, Text
  <2>7. \A d \in Calls, q \in Payments :
          call'[d].pc \in Crediting /\ pay'[q].status = "COMPLETED" =>
            call'[d].transfer # pay'[q].paidBy
    BY <2>2, <2>4
  <2>8. \A d, e \in Calls :
          call'[d].pc \in Crediting /\ call'[e].pc \in Crediting
          /\ call'[d].transfer = call'[e].transfer => d = e
    BY <2>2 DEF TakenInOnce
  <2> QED BY <2>5, <2>6, <2>7, <2>8 DEF TakenInOnce
<1>9. TransferCountsOnce'
  BY <1>1, <1>3 DEF TransferCountsOnce, TakenInOnce, Crediting
<1>10. OneAtATime'
  BY <1>1 DEF OneAtATime
<1>11. NothingFailed'
  <2> SUFFICES ASSUME faults = 0 PROVE NothingFailed' BY <1>1 DEF NothingFailed
  <2>1. \A d \in Calls : call'[d].pc # "fail"
    BY <1>1 DEF NothingFailed
  <2>2. ASSUME NEW q \in Payments
        PROVE  /\ pay'[q].status # "FAILED"
               /\ pay'[q].status # "none" => pay[q].status # "none"
    BY <1>2, <1>3 DEF NothingFailed
  <2>3. ASSUME NEW q \in Payments, pay'[q].status # "none", pay'[q].expires = None
        PROVE  \E d \in Calls : call'[d].pc = "save" /\ call'[d].p = q
    <3>1. PICK d \in Calls : call[d].pc = "save" /\ call[d].p = q
      BY <1>3, <2>2, <2>3 DEF NothingFailed
    <3> QED BY <1>1, <3>1
  <2> QED BY <2>1, <2>2, <2>3 DEF NothingFailed
<1>12. NothingIsLate'
  BY <1>1, <1>2, <1>3 DEF NothingIsLate, RequestsAreWhole, RequestIsWhole,
       PaymentRow, Request
<1>13. CountedDiffer'
  BY <1>1, <1>3 DEF CountedDiffer, Counts
<1>14. OwnIsCredited'
  <2> SUFFICES ASSUME Calm PROVE OwnIsCredited' BY <1>1 DEF OwnIsCredited, Calm
  <2>1. \A d \in Calls : call'[d].pc = "idle"
    BY <1>1 DEF OneAtATime, Calm
  <2> QED BY <1>1, <1>3, <2>1 DEF OwnIsCredited, MoneyFindsItsPayment
<1> QED BY <1>4, <1>5, <1>6, <1>7, <1>8, <1>9, <1>10, <1>11, <1>12, <1>13, <1>14

LEMMA AbandonInv ==
  ASSUME BridgeAssumption, IInv, NEW c \in Calls, Abandon(c) PROVE IInv'
<1> USE DEF IInv, BridgeAssumption, TypeOK
<1>1. TypeOK'
  BY DEF Abandon, End, Fault, Idle, Request
<1>2. RowsAreWhole' /\ NoneIsEarly'
  BY DEF Abandon, NoneIsEarly, RowsAreWhole
<1>3. RequestsAreWhole'
  BY DEF Abandon, End, Idle, Crediting, RequestsAreWhole, RequestIsWhole
<1>4. MakersDiffer'
  BY DEF Abandon, End, Idle, MakersDiffer, Making
<1>5. TakenInOnce'
  BY DEF Abandon, Fault, TakenInOnce
<1>6. TransferCountsOnce'
  BY DEF Abandon, Fault, TransferCountsOnce
<1>7. OneAtATime'
  BY DEF Abandon, End, OneAtATime
<1>8. NothingFailed'
  BY DEF Abandon, Fault, NothingFailed
<1>9. NothingIsLate'
  BY DEF Abandon, End, Idle, NothingIsLate
<1>10. CountedDiffer'
  BY DEF Abandon, End, Idle, CountedDiffer, Counts
<1>11. OwnIsCredited'
  BY DEF Abandon, Fault, OwnIsCredited, Calm
<1> QED BY <1>1, <1>2, <1>3, <1>4, <1>5, <1>6, <1>7, <1>8, <1>9, <1>10, <1>11

LEMMA RestartInv ==
  ASSUME BridgeAssumption, IInv, Restart PROVE IInv'
<1> USE DEF IInv, BridgeAssumption, TypeOK
<1>1. TypeOK'
  BY DEF Restart, Fault, Idle, Request
<1>2. RowsAreWhole' /\ NoneIsEarly'
  BY DEF Restart, NoneIsEarly, RowsAreWhole
<1>3. RequestsAreWhole'
  BY DEF Restart, Idle, Crediting, RequestsAreWhole, RequestIsWhole
<1>4. MakersDiffer'
  BY DEF Restart, Idle, MakersDiffer, Making
<1>5. TakenInOnce'
  BY DEF Restart, Fault, TakenInOnce
<1>6. TransferCountsOnce'
  BY DEF Restart, Fault, TransferCountsOnce
<1>7. OneAtATime'
  BY DEF Restart, Idle, OneAtATime
<1>8. NothingFailed'
  BY DEF Restart, Fault, NothingFailed
<1>9. NothingIsLate'
  BY DEF Restart, Idle, NothingIsLate
<1>10. CountedDiffer'
  BY DEF Restart, Idle, CountedDiffer, Counts
<1>11. OwnIsCredited'
  BY DEF Restart, Fault, OwnIsCredited, Calm
<1> QED BY <1>1, <1>2, <1>3, <1>4, <1>5, <1>6, <1>7, <1>8, <1>9, <1>10, <1>11

LEMMA BuyerPaysInv ==
  ASSUME BridgeAssumption, IInv, NEW p \in Payments, BuyerPays(p) PROVE IInv'
<1> USE DEF IInv, BridgeAssumption, TypeOK
<1>1. TypeOK'
  BY DEF BuyerPays
<1>2. RowsAreWhole' /\ NoneIsEarly'
  BY DEF BuyerPays, NoneIsEarly, RowsAreWhole
<1>3. RequestsAreWhole'
  BY DEF BuyerPays, RequestsAreWhole, RequestIsWhole
<1>4. MakersDiffer'
  BY DEF BuyerPays, MakersDiffer
<1>5. TakenInOnce'
  BY DEF BuyerPays, TakenInOnce, Remembered, Text, RowsAreWhole, RequestsAreWhole,
       RequestIsWhole
<1>6. TransferCountsOnce'
  BY DEF BuyerPays, TransferCountsOnce
<1>7. OneAtATime'
  BY DEF BuyerPays, OneAtATime
<1>8. NothingFailed'
  BY DEF BuyerPays, NothingFailed
<1>9. NothingIsLate'
  BY DEF BuyerPays, NothingIsLate
<1>10. CountedDiffer'
  BY DEF BuyerPays, CountedDiffer, Counts
<1>11. OwnIsCredited'
  BY DEF BuyerPays, OwnIsCredited, Calm, MoneyFindsItsPayment
<1> QED BY <1>1, <1>2, <1>3, <1>4, <1>5, <1>6, <1>7, <1>8, <1>9, <1>10, <1>11

LEMMA TickInv ==
  ASSUME BridgeAssumption, IInv, Tick PROVE IInv'
<1> USE DEF IInv, BridgeAssumption, TypeOK
<1>1. TypeOK'
  BY DEF Tick
<1>2. RowsAreWhole' /\ NoneIsEarly'
  BY DEF Tick, NoneIsEarly, RowsAreWhole, PaymentRow
<1>3. RequestsAreWhole'
  BY DEF Tick, RequestsAreWhole, RequestIsWhole
<1>4. MakersDiffer'
  BY DEF Tick, MakersDiffer
<1>5. TakenInOnce'
  BY DEF Tick, TakenInOnce, Remembered, Text
<1>6. TransferCountsOnce'
  BY DEF Tick, TransferCountsOnce
<1>7. OneAtATime'
  BY DEF Tick, OneAtATime
<1>8. NothingFailed'
  BY DEF Tick, NothingFailed
<1>9. NothingIsLate'
  BY DEF Tick, Open, NothingIsLate
<1>10. CountedDiffer'
  BY DEF Tick, CountedDiffer, Counts, PaymentRow
<1>11. OwnIsCredited'
  BY DEF Tick, OwnIsCredited, Calm, MoneyFindsItsPayment
<1> QED BY <1>1, <1>2, <1>3, <1>4, <1>5, <1>6, <1>7, <1>8, <1>9, <1>10, <1>11

LEMMA InitInv == ASSUME BridgeAssumption, Init PROVE IInv
<1> USE DEF Init, NoRow, Idle, BridgeAssumption
<1>1. TypeOK
  BY DEF TypeOK, PaymentRow, Request
<1>2. RowsAreWhole /\ NoneIsEarly
  BY DEF RowsAreWhole, NoneIsEarly
<1>3. RequestsAreWhole /\ MakersDiffer
  BY DEF RequestsAreWhole, RequestIsWhole, MakersDiffer, Making, Crediting
<1>4. TakenInOnce /\ TransferCountsOnce /\ OneAtATime /\ NothingFailed /\ NothingIsLate
  BY DEF TakenInOnce, TransferCountsOnce, OneAtATime, NothingFailed, NothingIsLate,
       Crediting
<1>5. CountedDiffer /\ OwnIsCredited
  BY DEF CountedDiffer, Counts, OwnIsCredited, MoneyFindsItsPayment
<1> QED BY <1>1, <1>2, <1>3, <1>4, <1>5 DEF IInv

LEMMA StutterInv == ASSUME IInv, UNCHANGED vars PROVE IInv'
<1> USE DEF IInv, vars
<1>1. TypeOK'
  BY DEF TypeOK
<1>2. (RowsAreWhole /\ NoneIsEarly)'
  BY DEF RowsAreWhole, NoneIsEarly
<1>3. (RequestsAreWhole /\ MakersDiffer)'
  BY DEF RequestsAreWhole, RequestIsWhole, MakersDiffer
<1>4. (TakenInOnce /\ TransferCountsOnce /\ OneAtATime /\ NothingFailed /\ NothingIsLate)'
  BY DEF TakenInOnce, TransferCountsOnce, OneAtATime, NothingFailed, NothingIsLate,
       Remembered, Text
<1>5. (CountedDiffer /\ OwnIsCredited)'
  BY DEF CountedDiffer, Counts, OwnIsCredited, MoneyFindsItsPayment, Calm
<1> QED BY <1>1, <1>2, <1>3, <1>4, <1>5

LEMMA NextInv == ASSUME BridgeAssumption, IInv, [Next]_vars PROVE IInv'
<1>1. ASSUME NEW c \in Calls, Advance(c) PROVE IInv'
  BY <1>1, CreateRowInv, SaveInv, MarkFailedInv, MatchInv, ApplyReadInv, CreditInv
       DEF Advance
<1>2. ASSUME NEW c \in Calls, SaveFails(c) \/ Abandon(c) PROVE IInv'
  BY <1>2, SaveFailsInv, AbandonInv
<1>3. ASSUME NEW c \in Calls, NEW p \in Payments, Notify(c, p) PROVE IInv'
  BY <1>3, NotifyInv
<1>4. ASSUME NEW c \in Calls, NEW p \in Payments, NEW u \in Buyers, Allocate(c, p, u)
      PROVE  IInv'
  BY <1>4, AllocateInv
<1>5. ASSUME NEW p \in Payments, BuyerPays(p) PROVE IInv'
  BY <1>5, BuyerPaysInv
<1>6. CASE Restart
  BY <1>6, RestartInv
<1>7. CASE Tick
  BY <1>7, TickInv
<1>8. CASE UNCHANGED vars
  BY <1>8, StutterInv
<1> QED BY <1>1, <1>2, <1>3, <1>4, <1>5, <1>6, <1>7, <1>8 DEF Next

\* The invariant, of every behaviour.
THEOREM Invariance == Spec => []IInv
<1>1. Init => IInv
  BY BridgeAssumption, InitInv
<1>2. IInv /\ [Next]_vars => IInv'
  BY BridgeAssumption, NextInv
<1> QED BY <1>1, <1>2, PTL DEF Spec

-----------------------------------------------------------------------------
(* What buyers rely on.                                                    *)

\* Rows that can be matched count for allocateBridgeAmount, if they were saved,
\* or if their request is the only one and did not fail.
LEMMA OpenCounts ==
    ASSUME BridgeAssumption, IInv, Prompt, NEW p \in Payments, Open(p), pay[p].expires
      # None
  PROVE  Counts(p)
BY DEF IInv, TypeOK, Open, Counts, NothingIsLate, PaymentRow

LEMMA SumsTell == ASSUME BridgeAssumption, IInv PROVE SumsTellApart
<1> USE DEF IInv
<1>1. SavedAmountsAreUnique
  BY OpenCounts DEF SavedAmountsAreUnique, CountedDiffer
<1>2. ASSUME Calm, NEW p \in Payments, Open(p) PROVE Counts(p)
  <2>1. CASE pay[p].expires # None
    BY <1>2, <2>1, OpenCounts DEF Calm
  <2>2. CASE pay[p].expires = None
    <3>1. PICK c \in Calls : call[c].pc = "save" /\ call[c].p = p
      BY <1>2, <2>2 DEF NothingFailed, Calm, Open
    <3>2. pay[p].created = now
      BY <1>2, <3>1 DEF NothingIsLate, Calm
    <3> QED BY <1>2, <3>2 DEF Counts, Open, TypeOK
  <2> QED BY <2>1, <2>2
<1>3. AmountsAreUniqueInTurn
  BY <1>2 DEF AmountsAreUniqueInTurn, AmountsAreUnique, CountedDiffer, Calm
<1> QED BY <1>1, <1>3 DEF SumsTellApart

\* No two open payments whose buyers know the amount ask for the same sum, however
\* many faults there were; with none, no two open payments at all.
THEOREM SumsSafe == Spec => []SumsTellApart
<1>1. IInv => SumsTellApart
  BY BridgeAssumption, SumsTell
<1> QED BY <1>1, Invariance, PTL

LEMMA Credited == ASSUME IInv PROVE TransfersAreCredited
BY DEF IInv, OwnIsCredited, MoneyFindsItsPayment, TransfersAreCredited

\* A transfer completes at most one payment while the process lives, whatever
\* requests cross; taken in turn, it completes the payment it was made for.
THEOREM TransfersSafe == Spec => []TransfersAreCredited
<1>1. IInv => TransfersAreCredited
  BY Credited
<1> QED BY <1>1, Invariance, PTL

=============================================================================
