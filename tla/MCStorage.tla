----------------------------- MODULE MCStorage -----------------------------
(***************************************************************************)
(* Storage with two partitions that differ in the interval alone, batches  *)
(* of up to three bars that replace each other, and windows that meet at a *)
(* bar's open time.  Closes have two digits where f64 keeps one.           *)
(***************************************************************************)
EXTENDS Storage

CONSTANTS btc, eth, m1, m15

Partition(interval) ==
  [data_kind |-> "klines", interval |-> Some(interval), date |-> 1, symbol |-> btc, part |-> 0]

MCPartitions == {Partition(m1), Partition(m15)}

Bar(symbol, interval, time, close) ==
  [symbol |-> symbol, interval |-> interval, open_time |-> time, close |-> close]

MCBatches ==
  { <<>>,
    << Bar(btc, m1, 1, 7), Bar(btc, m1, 2, 96), Bar(btc, m1, 3, 44) >>,
    << Bar(btc, m1, 2, 15), Bar(eth, m15, 1, 9) >> }

Filter(symbols, interval, start, end) ==
  [symbols |-> symbols, interval |-> interval, start |-> start, end |-> end]

MCFilters ==
  { Filter({}, None, None, None),
    Filter({btc}, Some(m1), Some(1), Some(2)),
    Filter({btc}, Some(m1), Some(2), Some(4)),
    Filter({eth}, None, Some(1), None) }
=============================================================================
