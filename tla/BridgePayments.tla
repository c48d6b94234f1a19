--------------------------- MODULE BridgePayments ---------------------------
(***************************************************************************)
(* The payment service in bridge mode (services/payment/src/routes.ts and  *)
(* kaspi-bridge.ts).  Buyers pay by a plain transfer to the owner's card,  *)
(* the owner's phone forwards the bank's notification, and the service     *)
(* looks for the pending payment of exactly that amount.  All a            *)
(* notification says is who sent how much, so the service adds an offset   *)
(* to the price that no other open payment has.                            *)
(*                                                                         *)
(* Amounts are offsets from the price.  Buyers, the phone and its forwarder *)
(* are outside: a notification may be delayed, and sent again.             *)
(***************************************************************************)
EXTENDS Naturals

CONSTANTS
  Payments,          \* ids the service may give to Payment rows
  Buyers,
  Calls,             \* slots for requests in flight at the same time
  None,              \* no payment, buyer, date or offset
  Spread,            \* KASPI_BRIDGE_AMOUNT_SPREAD
  Expiry,            \* PAYMENT_EXPIRY_MINUTES, in ticks
  DedupeTtl,         \* DEDUPE_TTL_MS, in ticks
  Repeats,           \* how long the phone may send a notification, in ticks
  Prompt,            \* requests, transfers and notifications beat the expiry
  MaxNow, MaxFaults  \* bounds: clock, failed requests and restarts

ASSUME BridgeAssumption == /\ Spread \in Nat \ {0}
                           /\ Expiry \in Nat \ {0} /\ DedupeTtl \in Nat
                           /\ Repeats \in 0..DedupeTtl
                           /\ MaxNow \in Nat /\ MaxFaults \in Nat
                           /\ Prompt \in BOOLEAN
                           /\ None \notin Payments \cup Buyers \cup Nat

VARIABLES
  pay,     \* pay[p]: the Payment row; paidBy is the transfer that completed it
  sent,    \* when the buyer of each payment made the transfer
  seen,    \* when a notification's text was last taken in (in memory)
  call,    \* call[c]: a request in flight and its local variables
  now, faults,
  alone    \* no two requests have been in flight together so far

vars == <<pay, sent, seen, call, now, faults, alone>>

Offsets == 0..(Spread - 1)
Texts == Buyers \X Offsets

PaymentRow == [status : {"none", "PENDING", "COMPLETED", "FAILED"},
               buyer : Buyers \cup {None}, amount : Offsets \cup {None},
               created : Nat, expires : Nat \cup {None}, paidBy : Payments \cup {None}]
Request == [pc : {"idle", "create", "save", "fail", "match", "read", "credit"},
            p : Payments \cup {None}, buyer : Buyers \cup {None},
            amount : Offsets \cup {None}, transfer : Payments \cup {None}]

NoRow == [status |-> "none", buyer |-> None, amount |-> None, created |-> 0,
          expires |-> None, paidBy |-> None]
Idle == [pc |-> "idle", p |-> None, buyer |-> None, amount |-> None, transfer |-> None]

Init == /\ pay = [p \in Payments |-> NoRow]
        /\ sent = [p \in Payments |-> None]
        /\ seen = [x \in Texts |-> None]
        /\ call = [c \in Calls |-> Idle]
        /\ now = 0
        /\ faults = 0
        /\ alone = TRUE

\* What the bank's notification of a transfer says.
Text(p) == <<pay[p].buyer, pay[p].amount>>

Begin(c) == /\ call[c].pc = "idle"
            /\ alone' = (alone /\ \A d \in Calls \ {c} : call[d].pc = "idle")

End(c, from) == /\ call[c].pc = from
                /\ call' = [call EXCEPT ![c] = Idle]

Goto(c, from, to) == /\ call[c].pc = from
                     /\ call' = [call EXCEPT ![c].pc = to]

Fault == faults < MaxFaults /\ faults' = faults + 1

-----------------------------------------------------------------------------
(* POST /payments: an offset that is free now, the row, the row's expiry.  *)

\* Mutant: the window of taken offsets is shorter than a payment's life.
Taken_ShortWindow == {pay[p].amount : p \in {q \in Payments :
                        pay[q].status = "PENDING" /\ pay[q].created + 1 > now}}

Taken == {pay[p].amount : p \in {q \in Payments :
            pay[q].status = "PENDING" /\ pay[q].created + Expiry >= now}}

\* The id that the row will get.
Fresh(p) == pay[p] = NoRow /\ \A c \in Calls : call[c].p # p

\* Without a free offset the answer is 503 and nothing changes.
Allocate(c, p, u) ==
  /\ Begin(c)
  /\ Fresh(p)
  /\ \E off \in Offsets \ Taken :
       /\ \A o \in Offsets \ Taken : off <= o
       /\ call' = [call EXCEPT ![c] =
            [pc |-> "create", p |-> p, buyer |-> u, amount |-> off, transfer |-> None]]
  /\ UNCHANGED <<pay, sent, seen, now, faults>>

CreateRow(c) ==
  /\ Goto(c, "create", "save")
  /\ pay' = [pay EXCEPT ![call[c].p] =
       [status |-> "PENDING", buyer |-> call[c].buyer, amount |-> call[c].amount,
        created |-> now, expires |-> None, paidBy |-> None]]
  /\ UNCHANGED <<sent, seen, now, faults, alone>>

Save(c) ==
  /\ End(c, "save")
  /\ pay' = [pay EXCEPT ![call[c].p].expires = now + Expiry]
  /\ UNCHANGED <<sent, seen, now, faults, alone>>

SaveFails(c) == /\ Goto(c, "save", "fail")
                /\ Fault
                /\ UNCHANGED <<pay, sent, seen, now, alone>>

MarkFailed(c) ==
  /\ End(c, "fail")
  /\ pay' = [pay EXCEPT ![call[c].p].status = "FAILED"]
  /\ UNCHANGED <<sent, seen, now, faults, alone>>

-----------------------------------------------------------------------------
(* POST /payments/provider/kaspi-notify.                                   *)

\* Mutant: no memory of notifications.
Duplicate_Never(text) == FALSE

Duplicate(text) == seen[text] # None /\ now - seen[text] < DedupeTtl

\* The text is remembered before it is processed.
Notify(c, t) ==
  /\ sent[t] # None /\ now < sent[t] + Repeats
  /\ Begin(c)
  /\ ~Duplicate(Text(t))
  /\ seen' = [seen EXCEPT ![Text(t)] = now]
  /\ call' = [call EXCEPT ![c] = [pc |-> "match", p |-> None,
                buyer |-> None, amount |-> pay[t].amount, transfer |-> t]]
  /\ UNCHANGED <<pay, sent, now, faults>>

\* Mutants: the expiry is ignored, or compared the wrong way round.
Open_AnyAge(p) == pay[p].status = "PENDING"
Open_Expired(p) == pay[p].status = "PENDING" /\ pay[p].expires # None
                   /\ pay[p].expires < now

Open(p) == /\ pay[p].status = "PENDING"
           /\ pay[p].expires = None \/ pay[p].expires > now

Candidates(amount) == {p \in Payments : Open(p) /\ pay[p].amount = amount}

Match(c) ==
  /\ call[c].pc = "match"
  /\ LET found == Candidates(call[c].amount)
     IN \/ found = {} /\ End(c, "match")
        \/ \E p \in found :
             /\ \A q \in found : pay[p].created <= pay[q].created
             /\ call' = [call EXCEPT ![c].pc = "read", ![c].p = p]
  /\ UNCHANGED <<pay, sent, seen, now, faults, alone>>

\* applyPaymentResult: the amount matches, the status is read before the write.
ApplyRead(c) ==
  /\ \/ Goto(c, "read", "credit") /\ pay[call[c].p].status = "PENDING"
     \/ End(c, "read") /\ pay[call[c].p].status # "PENDING"
  /\ UNCHANGED <<pay, sent, seen, now, faults, alone>>

\* A second credit of a subscription's payment is rolled back, a tournament's
\* is written again.
Credit(c) ==
  /\ End(c, "credit")
  /\ \/ pay' = [pay EXCEPT ![call[c].p].status = "COMPLETED",
                          ![call[c].p].paidBy = call[c].transfer]
     \/ pay[call[c].p].paidBy # None /\ UNCHANGED pay
  /\ UNCHANGED <<sent, seen, now, faults, alone>>

-----------------------------------------------------------------------------
\* A statement fails and the request ends with 500.
Abandon(c) == /\ call[c].pc # "idle"
              /\ End(c, call[c].pc)
              /\ Fault
              /\ UNCHANGED <<pay, sent, seen, now, alone>>

\* The process restarts: requests and the memory of notifications are gone.
Restart == /\ Fault
           /\ seen' = [x \in Texts |-> None]
           /\ call' = [c \in Calls |-> Idle]
           /\ UNCHANGED <<pay, sent, now, alone>>

\* The buyer sees the amount once the row is saved.
BuyerPays(p) == /\ pay[p].status = "PENDING" /\ pay[p].expires # None
                /\ Prompt => pay[p].expires > now
                /\ sent[p] = None
                /\ sent' = [sent EXCEPT ![p] = now]
                /\ UNCHANGED <<pay, seen, call, now, faults, alone>>

\* Prompt: no request and no unanswered transfer lives across an expiry.
Tick == /\ now < MaxNow
        /\ Prompt => /\ \A c \in Calls : call[c].pc = "idle"
                     /\ \A p \in Payments :
                          sent[p] # None /\ Open(p) => pay[p].expires > now + 1
        /\ now' = now + 1
        /\ UNCHANGED <<pay, sent, seen, call, faults, alone>>

Advance(c) == \/ CreateRow(c) \/ Save(c) \/ MarkFailed(c)
              \/ Match(c) \/ ApplyRead(c) \/ Credit(c)

Next == \/ \E c \in Calls : Advance(c) \/ SaveFails(c) \/ Abandon(c)
        \/ \E c \in Calls, p \in Payments :
              Notify(c, p) \/ \E u \in Buyers : Allocate(c, p, u)
        \/ \E p \in Payments : BuyerPays(p)
        \/ Restart \/ Tick

Spec == Init /\ [][Next]_vars

\* Handlers run on, and the forwarder delivers a new text.
Fairness == /\ \A c \in Calls : WF_vars(Advance(c))
            /\ \A p \in Payments : SF_vars(\E c \in Calls : Notify(c, p))

FairSpec == Spec /\ Fairness

-----------------------------------------------------------------------------
\* Every variable keeps its type.
TypeOK == /\ pay \in [Payments -> PaymentRow]
          /\ sent \in [Payments -> Nat \cup {None}]
          /\ seen \in [Texts -> Nat \cup {None}]
          /\ call \in [Calls -> Request]
          /\ now \in 0..MaxNow
          /\ faults \in 0..MaxFaults
          /\ alone \in BOOLEAN

\* Requests came one after another, in time, and none of them failed.
Calm == Prompt /\ alone /\ faults = 0

\* The amount of a notification points to one open payment: no two payments that
\* can be matched ask for the same sum (allocateBridgeAmount).
AmountsAreUnique ==
  \A p, q \in Payments : Open(p) /\ Open(q) /\ pay[p].amount = pay[q].amount => p = q

\* So it is for payments created one after another, without a fault.
AmountsAreUniqueInTurn == Calm => AmountsAreUnique

\* A fault between the two writes of POST /payments, or a restart, leaves no two
\* payments alike whose buyers have seen the amount.
SavedAmountsAreUnique ==
  Prompt /\ alone => \A p, q \in Payments :
    /\ Open(p) /\ Open(q) /\ pay[p].expires # None /\ pay[q].expires # None
    /\ pay[p].amount = pay[q].amount
    => p = q

\* Sums tell payments apart: those of requests that take turns, and those that
\* buyers were shown, whatever fails (routes.ts 117-162, 363-379).
SumsTellApart == AmountsAreUniqueInTurn /\ SavedAmountsAreUnique

\* Money completes the payment it was sent for, and no other buyer's.
MoneyFindsItsPayment ==
  Calm => \A p \in Payments : pay[p].status = "COMPLETED" => pay[p].paidBy = p

\* A transfer completes one payment, however often its notification comes and
\* whatever requests cross, as long as the process lives.
TransferCountsOnce ==
  faults = 0 => \A p, q \in Payments :
    pay[p].status = "COMPLETED" /\ pay[q].status = "COMPLETED"
    /\ pay[p].paidBy = pay[q].paidBy => p = q

\* A transfer is credited once, and to whoever made it (routes.ts 279-332).
TransfersAreCredited == MoneyFindsItsPayment /\ TransferCountsOnce

\* Whoever made the transfer is credited in the end, but for a buyer with a second
\* payment, whose transfers may look the same.
NewBuyerIsCredited ==
  \A p \in Payments : sent[p] # None ~>
    \/ pay[p].status = "COMPLETED"
    \/ \E q \in Payments \ {p} : pay[q].buyer = pay[p].buyer
    \/ ~Calm

-----------------------------------------------------------------------------
(* The inductive invariant, in parts.                                      *)

Making == {"create", "save", "fail"}       \* POST /payments
Crediting == {"match", "read", "credit"}   \* POST .../kaspi-notify

\* What a row and a request hold, by how far they are.
RowsAreWhole ==
  \A p \in Payments :
    /\ pay[p].status = "none" => pay[p] = NoRow
    /\ pay[p].status # "none" => pay[p].buyer \in Buyers /\ pay[p].amount \in Offsets
    /\ pay[p].status = "COMPLETED" => pay[p].paidBy # None /\ sent[pay[p].paidBy] # None
    /\ sent[p] # None => pay[p].status # "none" /\ pay[p].expires # None

NoneIsEarly ==
  /\ \A p \in Payments : /\ pay[p].created <= now
                         /\ sent[p] # None => sent[p] <= now
  /\ \A x \in Texts : seen[x] # None => seen[x] <= now

RequestIsWhole(c) ==
  /\ call[c].pc = "create" => /\ call[c].p # None /\ pay[call[c].p] = NoRow
                              /\ call[c].buyer # None /\ call[c].amount # None
  /\ call[c].pc \in {"save", "fail"} =>
       /\ call[c].p # None /\ pay[call[c].p].status # "none"
       /\ pay[call[c].p].expires = None
  /\ call[c].pc \in Crediting => /\ call[c].transfer # None /\ sent[call[c].transfer] # None
                                 /\ call[c].amount = pay[call[c].transfer].amount
  /\ call[c].pc \in {"read", "credit"} => call[c].p # None /\ pay[call[c].p].status # "none"

RequestsAreWhole == \A c \in Calls : RequestIsWhole(c)

MakersDiffer ==
  \A c, d \in Calls :
    call[c].pc \in Making /\ call[d].pc \in Making /\ call[c].p = call[d].p => c = d

\* As long as the process lives, a transfer whose notification was taken in is
\* remembered since it was made, and works for one request or one payment.
Remembered(t) == seen[Text(t)] # None /\ seen[Text(t)] >= sent[t]

TakenInOnce ==
  faults = 0 =>
    /\ \A c \in Calls : call[c].pc \in Crediting => Remembered(call[c].transfer)
    /\ \A p \in Payments : pay[p].status = "COMPLETED" => Remembered(pay[p].paidBy)
    /\ \A c, d \in Calls :
         call[c].pc \in Crediting /\ call[d].pc \in Crediting
         /\ call[c].transfer = call[d].transfer => c = d
    /\ \A c \in Calls, p \in Payments :
         call[c].pc \in Crediting /\ pay[p].status = "COMPLETED" =>
           call[c].transfer # pay[p].paidBy

OneAtATime ==
  alone => \A c, d \in Calls : call[c].pc # "idle" /\ call[d].pc # "idle" => c = d

\* Without a fault nothing failed, and rows that were not saved are being saved.
NothingFailed ==
  faults = 0 =>
    /\ \A c \in Calls : call[c].pc # "fail"
    /\ \A p \in Payments :
         /\ pay[p].status # "FAILED"
         /\ pay[p].status # "none" /\ pay[p].expires = None =>
              \E c \in Calls : call[c].pc = "save" /\ call[c].p = p

\* Requests are over before the clock moves on, and transfers are answered.
NothingIsLate ==
  Prompt =>
    /\ \A c \in Calls : call[c].pc \in {"save", "fail"} => pay[call[c].p].created = now
    /\ \A p \in Payments :
         /\ pay[p].expires # None => pay[p].expires = pay[p].created + Expiry
         /\ sent[p] # None /\ pay[p].status = "PENDING" => pay[p].expires > now

\* Amounts that allocateBridgeAmount takes into account, and the one it found.
Counts(p) == pay[p].status = "PENDING" /\ pay[p].created + Expiry >= now

CountedDiffer ==
  Prompt /\ alone =>
    /\ \A p, q \in Payments :
         Counts(p) /\ Counts(q) /\ pay[p].amount = pay[q].amount => p = q
    /\ \A c \in Calls, p \in Payments :
         call[c].pc = "create" /\ Counts(p) => pay[p].amount # call[c].amount

\* In turn, a request credits the payment its transfer was made for.
OwnIsCredited ==
  Calm =>
    /\ MoneyFindsItsPayment
    /\ \A c \in Calls :
         /\ call[c].pc = "match" => pay[call[c].transfer].status = "PENDING"
         /\ call[c].pc \in {"read", "credit"} => call[c].p = call[c].transfer

IInv ==
  /\ TypeOK /\ RowsAreWhole /\ NoneIsEarly /\ RequestsAreWhole /\ MakersDiffer
  /\ TakenInOnce /\ TransferCountsOnce /\ OneAtATime /\ NothingFailed /\ NothingIsLate
  /\ CountedDiffer /\ OwnIsCredited
=============================================================================
