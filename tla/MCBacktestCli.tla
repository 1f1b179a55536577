--------------------------- MODULE MCBacktestCli ---------------------------
(***************************************************************************)
(* BacktestCli with windows of two and three bars, as in its tests: files  *)
(* of every six bars at three closes, the first or the last of them        *)
(* outside the window of some runs, with one bar of another series, sorted *)
(* or not, the last bar stored before it closed or after.  A second path   *)
(* holds a file of rising closes.  Other invocations miss a part of what   *)
(* the command needs.                                                      *)
(***************************************************************************)
EXTENDS BacktestCli

CONSTANTS btc, eth, m15

Bar(symbol, time, price, final) ==
  [symbol |-> symbol, interval |-> m15, open_time |-> 10 * time,
   close_time |-> 10 * time + 9, close |-> Dec(price), is_final |-> final]

File(prices, lastIsFinal) ==
  InsertAt([n \in 1..6 |-> Bar(btc, n, prices[n], n < 6 \/ lastIsFinal)],
           4, Bar(eth, 3, 8, TRUE))

Rising == File([n \in 1..6 |-> n], TRUE)

Call(strategy, input, config, file) ==
  [args |-> [strategy |-> strategy, input |-> input], config |-> config,
   files |-> [path \in {"raw", "other"} |-> IF path = "raw" THEN file ELSE Rising]]

Config(start, end) ==
  [mode |-> "backtest", cta |-> TRUE, sel |-> FALSE, backtest |-> TRUE,
   input_path |-> Some("raw"), start_ts |-> start, end_ts |-> end, rates |-> TRUE]

Unbounded == Config(None, None)

Broken ==
  { Call(None, None, [Unbounded EXCEPT !.mode = "live"], Rising),
    Call(None, None, [Unbounded EXCEPT !.cta = FALSE, !.sel = TRUE], Rising),
    Call(Some("cta-ma-cross"), None, [Unbounded EXCEPT !.cta = FALSE], Rising),
    Call(None, None, [Unbounded EXCEPT !.backtest = FALSE], Rising),
    Call(None, None, [Unbounded EXCEPT !.input_path = None], Rising),
    Call(None, None, [Unbounded EXCEPT !.rates = FALSE], Rising),
    Call(None, Some("missing"), Unbounded, Rising),
    Call(None, None, Config(Some(70), None), Rising) }

MCInvocations ==
  LET files == {File(prices, TRUE) : prices \in [1..6 -> {1, 2, 4}]}
      open  == {File(prices, FALSE) : prices \in [1..6 -> {1, 4}]}
  IN  { Call(None, None, Unbounded, file) : file \in files \cup open }
      \cup { Call(None, None, Config(Some(20), None), file) : file \in files }
      \cup { Call(None, None, Config(None, Some(60)), Reverse(file)) : file \in files }
      \cup { Call(None, Some("other"), Unbounded, file) : file \in open }
      \cup Broken

MCInputs == {<<>>}
MCBalance == Dec(100)
MCFeeRate == Fraction(1, 100)
MCSlippage == Zero
=============================================================================
