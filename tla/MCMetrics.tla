----------------------------- MODULE MCMetrics -----------------------------
(***************************************************************************)
(* Portfolio and Metrics with one symbol and an account of 21/5 with a fee *)
(* of a tenth: two bought at 11 and marked at 10 leave exactly nothing,    *)
(* other trades a profit or a debt, so that curves through zero and below  *)
(* it are among those checked.  The quantities -2 .. 2 make additions,     *)
(* partial closes, closes and flips on both sides.                         *)
(***************************************************************************)
EXTENDS Metrics

MCBalance == Fraction(21, 5)
MCFeeRate == Fraction(1, 10)
MCSlippage == Fraction(1, 10)
MCPrices == {Dec(10), Dec(20)}
MCQtys == -2..2
=============================================================================
