-------------------------- MODULE MCBridgePayments --------------------------
(* Constants for model checking BridgePayments; the bounds are in the cfgs. *)
EXTENDS BridgePayments

CONSTANTS p1, p2, c1, c2, u1, u2, none

TwoPayments == {p1, p2}
TwoBuyers == {u1, u2}
TwoCalls == {c1, c2}
=============================================================================
