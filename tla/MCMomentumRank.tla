--------------------------- MODULE MCMomentumRank ---------------------------
(***************************************************************************)
(* MomentumRank with the four symbols and the three legs on each side of   *)
(* the live configuration, and schedule events at any time.                *)
(***************************************************************************)
EXTENDS MomentumRank

CONSTANTS aaa, bbb, ccc, ddd

MCSymbols == <<aaa, bbb, ccc, ddd>>

MCCloses == {Dec(1), Dec(2)}
MCNotional == Dec(6)
=============================================================================
