--------------------------- MODULE MCSelSchedule ---------------------------
(***************************************************************************)
(* SelSchedule over three symbols with up to six bars among them, at two  *)
(* closes: a lookback of one and a cache of two bars, so that it           *)
(* overflows.  Up to three events fire, of polls at times on and off the   *)
(* grid of an interval of three.                                           *)
(***************************************************************************)
EXTENDS SelSchedule

CONSTANTS aaa, bbb, ccc

MCSymbols == <<aaa, bbb, ccc>>

MCCloses == {Dec(1), Dec(2)}
MCNotional == Dec(6)
MCTimes == {2, 5, 12}
=============================================================================
