------------------------------ MODULE BarCache ------------------------------
(***************************************************************************)
(* The rolling bar cache of wt-engine, which CtaEngine and SelEngine keep  *)
(* alike: a map from <<symbol, interval>> to the most recent bars of that  *)
(* series, oldest first.                                                   *)
(***************************************************************************)
EXTENDS Option, SequencesExt

CONSTANTS
  Symbols, Intervals,
  MaxBars    \* max_bars_per_series

ASSUME MaxBarsAssumption == MaxBars \in Nat

BarKeys == Symbols \X Intervals
BarKey(kline) == <<kline.symbol, kline.interval>>

LastN(seq, n) == SubSeq(seq, IF Len(seq) > n THEN Len(seq) - n + 1 ELSE 1, Len(seq))

Cached(cache, key) == IF key \in DOMAIN cache THEN cache[key] ELSE <<>>

\* Mutants: one bar too many is kept; a full series takes no more bars.
PushBarLate(cache, kline) ==
  Insert(cache, BarKey(kline),
         LastN(Append(Cached(cache, BarKey(kline)), kline), MaxBars + 1))
PushBarUnlessFull(cache, kline) ==
  IF Len(Cached(cache, BarKey(kline))) = MaxBars THEN cache
  ELSE Insert(cache, BarKey(kline), Append(Cached(cache, BarKey(kline)), kline))

\* The cache after the oldest bars beyond the limit are popped.
PushBar(cache, kline) ==
  Insert(cache, BarKey(kline),
         LastN(Append(Cached(cache, BarKey(kline)), kline), MaxBars))

\* Mutant: the oldest bars of the series instead.
OldestBars(cache, key, count) ==
  SubSeq(Cached(cache, key), 1, IF Len(Cached(cache, key)) > count THEN count
                                                                   ELSE Len(Cached(cache, key)))

\* The last count bars of a series, or all of them if there are fewer.
RecentBars(cache, key, count) == LastN(Cached(cache, key), count)
=============================================================================
