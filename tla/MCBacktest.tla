----------------------------- MODULE MCBacktest -----------------------------
(***************************************************************************)
(* Backtest over every sequence of at most three of six events, in every   *)
(* order, by a strategy whose callbacks do any of five things.  The symbol *)
(* eth has no bars, so its price is unknown until a book ticker shows one. *)
(***************************************************************************)
EXTENDS Backtest

CONSTANTS btc, eth, m1

Bar(time, price) ==
  [type |-> "bar_closed",
   kline |-> [symbol |-> btc, interval |-> m1, open_time |-> time - 1,
              close_time |-> time, close |-> Dec(price), is_final |-> TRUE]]

MCEvents ==
  { Bar(1, 10), Bar(2, 20),
    [type |-> "tick", tick |-> [symbol |-> btc, ts_event |-> 2, price |-> Dec(30)]],
    [type |-> "book_ticker",
     book_ticker |-> [symbol |-> eth, ts_event |-> 1, bid_price |-> Dec(10), ask_price |-> Dec(20)]],
    [type |-> "schedule", event |-> [ts |-> 2]],
    [type |-> "session", event |-> [ts |-> 3]] }

MCInputs == UNION {[1..n -> MCEvents] : n \in 0..3}

Target(symbol, qty, price) ==
  [symbol |-> symbol, target_qty |-> qty, signal_price |-> price]

Reaction(ok, requests) ==
  [ok |-> ok, ticks |-> {btc}, bars |-> {<<btc, m1>>}, targets |-> requests]

MCReactions ==
  { Reaction(TRUE, <<>>),
    Reaction(TRUE, << Target(btc, 1, None) >>),
    Reaction(TRUE, << Target(btc, -1, Some(Dec(10))), Target(eth, 1, None) >>),
    Reaction(TRUE, << Target(eth, 2, Some(Dec(40))), Target(eth, 0, None) >>),
    Reaction(FALSE, << Target(btc, 0, None) >>) }

MCBalance == Dec(100)
MCFeeRate == Fraction(1, 100)
MCSlippage == Fraction(1, 10)
=============================================================================
