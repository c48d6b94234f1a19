----------------------------- MODULE MCPayments -----------------------------
(* Constants for model checking Payments; the spec's bounds are in the cfgs. *)
EXTENDS Payments

CONSTANTS p1, p2, c1, c2, c3, u1, none

OnePayment == {p1}
TwoPayments == {p1, p2}
Second == {p2}
OneUser == {u1}
TwoCalls == {c1, c2}
ThreeCalls == {c1, c2, c3}

Club == {"ENTERPRISE"}
Mixed == {"STANDARD", "ENTERPRISE"}
=============================================================================
