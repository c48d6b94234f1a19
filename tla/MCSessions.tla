----------------------------- MODULE MCSessions -----------------------------
(***************************************************************************)
(* One tab of one browser.  Five token values are enough for the cookie,   *)
(* the calls of the tab and a spare one at any time.                       *)
(***************************************************************************)
EXTENDS Sessions, TLC

CONSTANTS t1, b1, n1, n2, n3, n4, n5, r1, r2, none

OneTab == {t1}
Alone == t1 :> b1
FiveTokens == {n1, n2, n3, n4, n5}
=============================================================================
