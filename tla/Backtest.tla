------------------------------ MODULE Backtest ------------------------------
(***************************************************************************)
(* run_cta_backtest of wt-backtest: the loop that replays market events to *)
(* a CtaEngine, fills the targets its strategy sets in a BacktestPortfolio *)
(* and reports the positions back to the engine.  Everything runs in one   *)
(* thread; the steps below are the loop's statements, and an error returns *)
(* from the middle of them.                                                *)
(*                                                                         *)
(* CtaEngine and Portfolio are instantiated over the variables declared    *)
(* here.  The strategy is any strategy: what each callback does is chosen  *)
(* from Reactions.                                                         *)
(***************************************************************************)
EXTENDS Decimal, EventTime, FiniteSetsExt

CONSTANTS
  Symbols, Intervals,
  MaxBars,        \* CtaEngineConfig::max_bars_per_series, of CtaEngine::new
  Reactions,      \* what the strategy's callbacks may do
  Inputs,         \* the event sequences a caller may pass, finite and unsorted
  InitTime,       \* the wall clock read by CtaEngine::initialize
  InitialBalance, FeeRate, Slippage

ASSUME ReactionsAssumption ==
  \A r \in Reactions :
    /\ r.ok \in BOOLEAN
    /\ r.ticks \subseteq Symbols
    /\ r.bars \subseteq Symbols \X Intervals
    /\ r.targets \in Seq([symbol : Symbols, target_qty : Int, signal_price : Option(Pairs)])
    /\ \A n \in 1..Len(r.targets) :
         IsSome(r.targets[n].signal_price) => IsDecimal(r.targets[n].signal_price[1])

ASSUME InputsAssumption ==
  \A input \in Inputs : input \in Seq({e \in Range(input) : EventTs(e) \in Int})

ASSUME LimitsAssumption == MaxBars \in Nat /\ InitTime \in Int

ASSUME MoneyAssumption == IsDecimal(InitialBalance) /\ IsDecimal(FeeRate) /\ IsDecimal(Slippage)

VARIABLES
  engine_positions, bars, tick_symbols, bar_keys, targets,       \* CtaEngine
  positions, balance, realized_pnl, fee_total, trades, equity,
  order_seq,                                                     \* Portfolio
  pc,           \* the statement the loop is at
  events,       \* the events, sorted once the engine is initialized
  i,            \* the index of the event being replayed
  pending,      \* drained targets not filled yet
  last_prices,  \* map from symbol to the last price seen
  error         \* the Err returned, if any

engine == <<engine_positions, bars, tick_symbols, bar_keys, targets>>
portfolio == <<positions, balance, realized_pnl, fee_total, trades, equity, order_seq>>
control == <<pc, events, i, pending, last_prices, error>>
vars == <<engine, portfolio, control>>

Eng == INSTANCE CtaEngine WITH
         positions <- engine_positions, Events <- UNION {Range(input) : input \in Inputs},
         Fills <- {}
Pf  == INSTANCE Portfolio WITH
         Qtys <- {}, Prices <- {}, MaxTrades <- 0, MaxMarks <- 0

\* A market event, whose prices are Decimals.
IsPriced(event) ==
  /\ Eng!IsEvent(event)
  /\ event.type = "tick" => IsDecimal(event.tick.price)
  /\ Eng!IsBar(event) => IsDecimal(event.kline.close)
  /\ event.type = "book_ticker" => /\ IsDecimal(event.book_ticker.bid_price)
                                   /\ IsDecimal(event.book_ticker.ask_price)

ASSUME EventsAssumption == \A input \in Inputs : \A n \in 1..Len(input) : IsPriced(input[n])

Init ==
  /\ Eng!Init
  /\ Pf!Init
  /\ pc = "initialize"
  /\ events \in Inputs
  /\ i = 1
  /\ pending = <<>>
  /\ last_prices = EmptyMap
  /\ error = None
-----------------------------------------------------------------------------
UpdateLastPrice(event, prices) ==
  CASE event.type = "tick" -> Insert(prices, event.tick.symbol, event.tick.price)
    [] event.type \in {"kline", "bar_closed"} ->
         Insert(prices, event.kline.symbol, event.kline.close)
    [] event.type = "book_ticker" ->
         Insert(prices, event.book_ticker.symbol,
                (event.book_ticker.bid_price ++ event.book_ticker.ask_price) // Dec(2))
    [] event.type \in {"schedule", "session"} -> prices

StrategyError == [cause |-> "strategy"]
MissingPrice(symbol) == [cause |-> "missing fill price", symbol |-> symbol]

Start(reaction) ==
  /\ pc = "initialize"
  /\ Eng!Initialize(reaction)
  /\ IF reaction.ok
     THEN /\ pc' = "replay"
          /\ events' = StableSort(events)
          /\ UNCHANGED error
     ELSE /\ pc' = "failed"
          /\ error' = Some(StrategyError)
          /\ UNCHANGED events
  /\ UNCHANGED <<portfolio, i, pending, last_prices>>

\* Mutant: prices are seen one event early.
SeeNextPrice ==
  last_prices' = UpdateLastPrice(events[IF i < Len(events) THEN i + 1 ELSE i], last_prices)

SeePrice == last_prices' = UpdateLastPrice(events[i], last_prices)

Dispatch(reaction) ==
  /\ pc = "replay"
  /\ i <= Len(events)
  /\ SeePrice
  /\ Eng!OnEvent(events[i], reaction)
  /\ IF Eng!Dispatched(events[i]) => reaction.ok
     THEN pc' = "drain" /\ UNCHANGED error
     ELSE pc' = "failed" /\ error' = Some(StrategyError)
  /\ UNCHANGED <<portfolio, events, i, pending>>

\* Mutant: the last target is filled first.
DrainReversed ==
  /\ pc = "drain"
  /\ pending' = Reverse(targets)
  /\ Eng!DrainTargets
  /\ pc' = "fill"
  /\ UNCHANGED <<portfolio, events, i, last_prices, error>>

Drain ==
  /\ pc = "drain"
  /\ pending' = targets
  /\ Eng!DrainTargets
  /\ pc' = "fill"
  /\ UNCHANGED <<portfolio, events, i, last_prices, error>>

\* Mutant: the strategy's own price is not used.
FillPriceOfMarket(target) == Get(last_prices, target.symbol)

\* The strategy's own price, or the last one the market has shown.
FillPrice(target) ==
  IF IsSome(target.signal_price) THEN target.signal_price
                                 ELSE Get(last_prices, target.symbol)

FillTarget ==
  /\ pc = "fill"
  /\ pending # <<>>
  /\ LET target == Head(pending)
     IN  /\ IsSome(FillPrice(target))
         /\ Pf!ExecuteTarget(target, FillPrice(target)[1])
         /\ Eng!SetPosition(target.symbol, target.target_qty)
  /\ pending' = Tail(pending)
  /\ UNCHANGED <<pc, events, i, last_prices, error>>

\* Mutant: the loop waits for a price.
WaitForFillPrice ==
  /\ pc = "fill"
  /\ pending # <<>>
  /\ ~IsSome(FillPrice(Head(pending)))
  /\ UNCHANGED vars

MissFillPrice ==
  /\ pc = "fill"
  /\ pending # <<>>
  /\ ~IsSome(FillPrice(Head(pending)))
  /\ pc' = "failed"
  /\ error' = Some(MissingPrice(Head(pending).symbol))
  /\ UNCHANGED <<engine, portfolio, events, i, pending, last_prices>>

\* Mutant: the account is marked before every target is filled.
MarkEarly ==
  /\ pc = "fill"
  /\ Pf!MarkToMarket(EventTs(events[i]), last_prices)
  /\ i' = i + 1
  /\ pc' = "replay"
  /\ UNCHANGED <<engine, events, pending, last_prices, error>>

Mark ==
  /\ pc = "fill"
  /\ pending = <<>>
  /\ Pf!MarkToMarket(EventTs(events[i]), last_prices)
  /\ i' = i + 1
  /\ pc' = "replay"
  /\ UNCHANGED <<engine, events, pending, last_prices, error>>

Finish ==
  /\ pc = "replay"
  /\ i > Len(events)
  /\ pc' = "done"
  /\ UNCHANGED <<engine, portfolio, events, i, pending, last_prices, error>>

\* The statements that call no strategy.
Settle ==
  \/ Drain
  \/ FillTarget
  \/ MissFillPrice
  \/ Mark
  \/ Finish

Next ==
  \/ \E r \in Reactions : Start(r) \/ Dispatch(r)
  \/ Settle

Spec == Init /\ [][Next]_vars

\* The loop is straight-line code: it keeps taking steps until it returns.
FairSpec == Spec /\ WF_vars(Next)
-----------------------------------------------------------------------------
\* Every variable holds its type, and the loop's variables fit the statement
\* it is at: targets wait in the engine only before they are drained, those
\* of on_init for the first event, and drained ones only while they are filled.
TypeOK ==
  /\ Eng!TypeOK
  /\ Pf!TypeOK
  /\ pc \in {"initialize", "replay", "drain", "fill", "done", "failed"}
  /\ i \in 1..(Len(events) + 1)
  /\ DOMAIN last_prices \subseteq Symbols
  /\ targets # <<>> => pc # "fill" /\ (pc \in {"replay", "done"} => i = 1)
  /\ pending # <<>> => pc \in {"fill", "failed"}
  /\ pc \in {"drain", "fill"} => i <= Len(events)
  /\ pc = "failed" <=> IsSome(error)

\* The positions the strategy reads from the engine are those the portfolio
\* holds, at every statement of the loop: the engine's copy is a second
\* account of the same fills, set from the target and not from the trade.
PositionsAgree ==
  \A s \in Symbols : Eng!Position(s) = Pf!PositionOf(s).qty

\* One equity point for every event replayed, stamped with its time.
EquityMatchesEvents ==
  /\ Len(equity) = i - 1
  /\ \A n \in 1..Len(equity) : equity[n].ts = EventTs(events[n])

\* The equity curve has one point for every event replayed, stamped with the
\* time of that event, in time order whatever the order of the input.
EquityFollowsEvents ==
  /\ EquityMatchesEvents
  /\ \A m, n \in 1..Len(equity) : m <= n => equity[m].ts <= equity[n].ts

\* The price the last of the first n events showed for a symbol.
LatestPrice(symbol, n) ==
  LET shows(m)  == symbol \in DOMAIN UpdateLastPrice(events[m], EmptyMap)
      shown     == {m \in 1..n : shows(m)}
  IN  IF shown = {} THEN None
      ELSE Get(UpdateLastPrice(events[Max(shown)], EmptyMap), symbol)

\* The prices the events replayed so far have shown last.
LatestPrices ==
  [s \in {t \in Symbols : IsSome(LatestPrice(t, i))} |-> LatestPrice(s, i)[1]]

\* The trade just made is of the target at the head of the queue, at that
\* target's own price or, without one, at the latest price of its symbol.
FilledAtLatest ==
  LET target == Head(pending)
      price  == IF IsSome(target.signal_price) THEN target.signal_price
                                               ELSE LatestPrice(target.symbol, i)
      trade  == trades'[Len(trades')]
  IN  /\ IsSome(price)
      /\ trade.symbol = target.symbol
      /\ trade.price = Pf!ApplySlippage(price[1], trade.side)

\* A fill takes the price its strategy gave or, where it gave none, the
\* latest one shown by the events replayed so far, moved by the slippage; an
\* equity point values the account at the latest prices.  No price that the
\* loop itself chooses is of a later event, nor an old one when a replayed
\* event has shown a newer one.
NoLookAhead ==
  [][/\ trades' # trades => FilledAtLatest
     /\ equity' # equity =>
          equity'[Len(equity')].equity = balance ++ Pf!Unrealized(LatestPrices)]_vars

\* A run is lost for want of a price only when the strategy gave none and no
\* event so far has shown one for the symbol.
AbortsOnlyWithoutPrice ==
  \A s \in Symbols :
    error = Some(MissingPrice(s)) =>
      /\ LatestPrice(s, i) = None
      /\ Head(pending).symbol = s /\ Head(pending).signal_price = None

\* Trades follow the events: after those of the targets set in on_init, each
\* carries the time of a replayed event, and no trade precedes an earlier one.
TradesInReplayOrder ==
  \E k \in 0..Len(trades) :
    /\ \A n \in 1..k : trades[n].ts_trade = InitTime
    /\ \A n \in (k + 1)..Len(trades) :
         \E m \in 1..Len(events) : m <= i /\ trades[n].ts_trade = EventTs(events[m])
    /\ \A m, n \in (k + 1)..Len(trades) :
         m <= n => trades[m].ts_trade <= trades[n].ts_trade

\* BACKTEST_CLOCK names "event_time" as the clock of a backtest: every trade
\* carries the time of an event.
TradesInEventTime ==
  \A n \in 1..Len(trades) :
    \E m \in 1..Len(events) : trades[n].ts_trade = EventTs(events[m])

\* A backtest of a finite input returns, with a result or an error.
Terminates == <>(pc \in {"done", "failed"})

\* What the account will hold once the targets on their way are filled.
Wanted ==
  [s \in Symbols |->
     LET queue == pending \o targets
         asked == {n \in 1..Len(queue) : queue[n].symbol = s}
     IN  IF asked = {} THEN Pf!PositionOf(s).qty ELSE queue[Max(asked)].target_qty]

N == INSTANCE Intent WITH
       wanted <- Wanted,
       snapshots <- [n \in 1..Len(equity) |-> equity[n].held],
       over <- pc \in {"done", "failed"}

\* The loop's queues, fills and position reports implement the promise that
\* the account holds what the strategy last asked for at every equity point.
ImplementsIntent == N!Spec
=============================================================================
