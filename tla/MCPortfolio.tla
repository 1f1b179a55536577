---------------------------- MODULE MCPortfolio ----------------------------
(***************************************************************************)
(* Portfolio with two symbols.  Prices 10 and 20 with a slippage of a      *)
(* tenth fill at 9, 11, 18 and 22; the quantities make additions, partial  *)
(* closes, closes and flips.                                               *)
(***************************************************************************)
EXTENDS Portfolio

MCBalance == Dec(100)
MCFeeRate == Fraction(1, 100)
MCSlippage == Fraction(1, 10)
MCPrices == {Dec(10), Dec(20)}
MCQtys == {-1, 0, 1, 2}
=============================================================================
