---------------------------- MODULE MCCtaEngine ----------------------------
(***************************************************************************)
(* CtaEngineHistory with two series, a cache of two bars, and up to four   *)
(* bars, so that each series can overflow the cache.  A repeated kline is  *)
(* the update of a bar that has not closed.                                *)
(***************************************************************************)
EXTENDS CtaEngineHistory

CONSTANTS btc, eth, m1

Bar(symbol, time, final) ==
  [symbol |-> symbol, interval |-> m1, open_time |-> time, close_time |-> time + 1,
   close |-> time, is_final |-> final]

MCEvents ==
  { [type |-> "kline", kline |-> Bar(btc, 1, FALSE)],
    [type |-> "bar_closed", kline |-> Bar(btc, 1, TRUE)],
    [type |-> "bar_closed", kline |-> Bar(eth, 2, TRUE)],
    [type |-> "tick", tick |-> [symbol |-> btc, ts_event |-> 1, price |-> 1]],
    [type |-> "schedule", event |-> [ts |-> 2]],
    [type |-> "session", event |-> [ts |-> 0]] }

Silent(ticks, keys) == [ok |-> TRUE, ticks |-> ticks, bars |-> keys, targets |-> <<>>]

MCReactions ==
  { Silent({}, {}),
    Silent({btc}, {<<btc, m1>>}),
    [ok |-> TRUE, ticks |-> {}, bars |-> {},
     targets |-> << [symbol |-> btc, target_qty |-> 1, signal_price |-> None],
                    [symbol |-> eth, target_qty |-> -1, signal_price |-> None] >>],
    [ok |-> FALSE, ticks |-> {}, bars |-> {},
     targets |-> << [symbol |-> btc, target_qty |-> 0, signal_price |-> None] >>] }
=============================================================================
