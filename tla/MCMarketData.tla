---------------------------- MODULE MCMarketData ----------------------------
(***************************************************************************)
(* Two connections to the klines of one symbol, with its trades and its    *)
(* quotes and the quotes of another symbol, which have no times; the       *)
(* answers of klines are shorter than the history.  A trade or a quote is  *)
(* of the bar before the open one or, early, of the bar after it.          *)
(***************************************************************************)
EXTENDS MarketData

MCStreams ==
  {[e |-> e, s |-> "btc"] : e \in {"kline", "aggTrade", "bookTicker"}}
    \cup {[e |-> "bookTicker", s |-> "eth"]}

MCQuoteTimes == [symbol \in {"btc", "eth"} |-> IF symbol = "btc" THEN {"E", "T"} ELSE {}]

MCLags == {-1, 3}
=============================================================================
