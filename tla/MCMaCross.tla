----------------------------- MODULE MCMaCross -----------------------------
(***************************************************************************)
(* MaCross with windows of two and three bars, as in its tests, over bars  *)
(* of which one is updated before it closes, as the live stream delivers   *)
(* them.                                                                   *)
(***************************************************************************)
EXTENDS MaCross

CONSTANTS btc, eth, m15

Bar(symbol, time, price, final) ==
  [type |-> IF final THEN "bar_closed" ELSE "kline",
   kline |-> [symbol |-> symbol, interval |-> m15, open_time |-> 10 * time,
              close_time |-> 10 * time + 9, close |-> Dec(price), is_final |-> final]]

\* The fourth event is an update of the bar the fifth one closes.
MCInputs ==
  LET time(n)  == IF n <= 4 THEN n ELSE n - 1
      final(n) == n # 4
  IN  { [n \in 1..6 |-> Bar(btc, time(n), prices[n], final(n))] : prices \in [1..6 -> {1, 2}] }

MCBalance == Dec(100)
MCFeeRate == Fraction(1, 100)
MCSlippage == Fraction(1, 10)
=============================================================================
