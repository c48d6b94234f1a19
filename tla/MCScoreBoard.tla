---------------------------- MODULE MCScoreBoard ----------------------------
(* Constants for model checking ScoreBoard; the bounds are in the cfgs. *)
EXTENDS ScoreBoard

CONSTANTS c1, c2

TwoCalls == {c1, c2}
=============================================================================
