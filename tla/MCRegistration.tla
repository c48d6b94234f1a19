--------------------------- MODULE MCRegistration ---------------------------
(* Constants for model checking Registration; the bounds are in the cfg. *)
EXTENDS Registration

CONSTANTS e1, e2, e3, u1, u2, guest, none, left, c1, c2

ThreeEntries == {e1, e2, e3}
TwoUsers == {u1, u2}
TwoOrThree == {2, 3}
TwoCalls == {c1, c2}
=============================================================================
