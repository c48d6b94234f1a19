--------------------------- MODULE AccessPromise ---------------------------
(***************************************************************************)
(* What the payment service promises about one subscription purchase,     *)
(* without handlers, polls or transactions: access is granted once, only  *)
(* for money that has been taken; money goes back only for access that was *)
(* granted; access is taken away only after the money went back, and then  *)
(* for good.                                                               *)
(***************************************************************************)
CONSTANT Purchases

VARIABLES money,    \* money[p]: "none", "paid" or "returned"
          access    \* access[p]: "none", "active" or "revoked"

promise == <<money, access>>

Init == /\ money = [p \in Purchases |-> "none"]
        /\ access = [p \in Purchases |-> "none"]

Move(f, p, from, to) == f[p] = from /\ f' = [f EXCEPT ![p] = to]

Pay(p) == Move(money, p, "none", "paid") /\ UNCHANGED access

Grant(p) == /\ money[p] = "paid"
            /\ Move(access, p, "none", "active")
            /\ UNCHANGED money

Return(p) == /\ access[p] = "active"
             /\ Move(money, p, "paid", "returned")
             /\ UNCHANGED access

Revoke(p) == /\ money[p] = "returned"
             /\ Move(access, p, "active", "revoked")
             /\ UNCHANGED money

Next == \E p \in Purchases : Pay(p) \/ Grant(p) \/ Return(p) \/ Revoke(p)

Spec == Init /\ [][Next]_promise
=============================================================================
