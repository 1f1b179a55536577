# A TLA+ verification of wondertrader_rs

wondertrader_rs is a trading framework: strategies react to market events and
set *target positions*, a driver fills the targets, and an executor turns
targets into orders. This directory holds TLA+ modules translated from its
source, TLC configurations that check them on small instances, and proofs that
TLAPS checks for every value of the constants. `PROJECT.json` maps every
definition to the lines it models and lists runs, hazards and theorems.

## The system

| Component | State | Operations | Module |
|---|---|---|---|
| CTA engine (`wt-engine`, `CtaEngine`, `CtaContext`) | rolling bars per (symbol, interval), subscriptions, targets queued, positions | `initialize`, `on_event`, `drain_targets`, `set_position`; inside a callback `subscribe_*`, `recent_bars`, `position`, `set_target_position` | `BarCache`, `CtaEngine`, `CtaEngineHistory` |
| MA-cross strategy | its parameters | `on_init`, `on_bar` | `MaCross`, run by `BacktestCli` |
| SEL engine (`SelEngine`, `SelContext`) | as the CTA engine's; no tick subscriptions | `initialize`, `on_event`, `drain_targets`, `set_position` | `SelEngine` |
| Momentum-rank strategy | its parameters | `on_init`, `on_schedule` | `MomentumRank`, run by `SelSchedule` |
| Interval scheduler (`EveryIntervalScheduler`) | `next_fire` | `next_due` | `Scheduler`, `SelSchedule` |
| Backtest portfolio (`wt-backtest`, `BacktestPortfolio`) | positions with average entry, balance, profit, fees, trades, equity, `order_seq` | `execute_target`, `mark_to_market`, `into_result` | `Portfolio`, `Ledger` |
| Backtest loop (`run_cta_backtest`) | sorted events, last prices, the engine, the portfolio | the loop | `Backtest`, `Intent` |
| Target position executor (`wt-execution`) | rules per symbol, `order_seq`; the adapter's orders | `execute_target`, `set_symbol_rules`, `submit_order` | `Executor` |
| Report metrics (`wt-report`) | none | `compute_metrics` | `Metrics` |
| Market data (`wt-market`) | a connection with messages under way | `connect_combined_stream`, `next_event`, REST `klines` | `MarketData`, `Feed` |
| Storage (`wt-storage`) | partition files | `write_feather`, `scan_klines`, `read_klines_ipc` | `Storage`, `KlineScan` |
| Backtest CLI (`wt-backtest-cli`) | `metrics.json` | one run of the command | `BacktestCli` |
| Core types, configuration, logging | none | parsing of names | records of the modules above |
| Live runner, recorder | none | two placeholders | not modelled |

### How the parts interact

The engines, the backtest and the executor run in one thread, through calls:

- `run_cta_backtest` sorts the events by time, calls the engine's `initialize`,
  and for every event updates the last prices, calls `on_event`, drains the
  targets, fills each in the portfolio and reports the new position back to the
  engine with `set_position`, and marks the account.
- The engine calls the strategy's callback with a context that borrows the
  engine's queues: whatever the callback did stays, also when it returns an
  error.
- `wt-backtest-cli` reads the klines of a window from a file of `wt-storage`,
  makes a `BarClosed` event of each, calls `run_cta_backtest` with the MA-cross
  strategy and writes what `compute_metrics` says of the result.
- The executor calls its adapter; its caller tells it the quantity held.
- `wt-market` reads a socket: `next_event` is asynchronous, its caller may drop
  the call while it waits, and the exchange sends, pings, closes and fails
  meanwhile. `klines` asks the same exchange over another connection.
- Nothing in the repository connects market data to an engine, or drives the
  SEL engine, the scheduler and the executor, outside their tests.
  `wt-live-runner` prints that it is a placeholder.

### What is hard about it

The engines have no threads, locks or messages to interleave. What goes wrong in
them is sequential and long: two accounts of the same fills that must agree, an
average-cost book through additions, closes and flips, a bounded cache that
stands for an unbounded history, queues filled by callbacks that then fail,
unsorted input with equal times, rounding, a clock that goes back, callers with
stale knowledge, an error returned from the middle of a loop.

Two parts do meet other actors. Connections of `wt-market` break with messages
under way, are pinged and closed, and their reader's calls are dropped; a
history asked for over REST overlaps what a stream delivers. The files of
`wt-storage` are shared by the processes that write and read them, and a
process may die in a write. `hazards` in `PROJECT.json` lists them all at their
lines.

For each component, what makes it correct:

- **CTA engine.** A callback sees the window of bars that an unlimited history
  would show. Every target a callback asks for is delivered once, in order and
  with the callback's time, failed callbacks included.
- **Strategies.** Signals are those of the whole history of closed bars. The
  account holds the legs of the latest ranking, in the configured number and
  size, and what was not ranked as it was, whatever bars and polls come.
- **Scheduler.** No due time fires twice, none drifts off the grid, and only
  past ones are skipped.
- **Portfolio.** It is a cash ledger: no sequence of trades creates or loses
  money. A position is flat exactly when it has no entry price.
- **Backtest loop.** The engine and the portfolio agree on every position;
  where a strategy gives no price a fill takes the latest one shown, and the
  account is valued at the latest ones; the loop returns; the account holds what
  the strategy last asked for at every equity point.
- **Executor.** Orders approach the target and never pass it; ids are unique;
  a repeated request makes no second order unless its caller is out of date, and
  what is left over is too little to trade.
- **Metrics.** They are what their definitions over all points and trades say,
  and agree with the account and with each other.
- **Storage.** A read that no write overlaps returns the last batch of its
  partition whole or fails. A read that a write does overlap has no promise.
- **Market data.** What is published is learned in order, once and for what it
  is, and missed only between two connections. A closed bar is final; the rows
  of a REST answer and the bars of a stream make one history. Sorted by time for
  a replay, every stream keeps its order and a bar closes between the trades of
  before and after its end.
- **Backtest CLI.** A run that succeeds leaves the metrics of the window asked
  for. One that fails before the write leaves an earlier report as it was, one
  that fails in it a cut file, one that fails after it the whole metrics of its
  window.

## The modules

`Decimal` models `rust_decimal` as exact reduced fractions `<<n, d>>`, and
`Option` models `Option` as a sequence of length at most one and `HashMap` as a
function whose domain is its keys. Both are external: what they say is taken
from their use in the code. Quantities of targets in the backtest and of orders
are integers, in a unit of the reader's choice; prices and money are fractions.

- **`BarCache`** holds `BarKey`, `push_bar` and `recent_bars`, which the two
  engines share word for word.
- **`CtaEngine`** has one action per public operation. A callback is a record
  `[ok, ticks, bars, targets]`, chosen from the constant `Reactions`: the
  strategy is any strategy. `OnEvent` is a disjunction of `OnTick`, `OnKline`,
  `OnSchedule` and `Ignore`. The caller may drain and report positions at any
  time; `Backtest` fixes when.
- **`CtaEngineHistory`** adds history variables: `seen` (all bars of each
  series), `emitted` (what callbacks asked for, taken from the callback and not
  from the queue) and `delivered` (all targets drained).
  It changes no behaviour of `CtaEngine`.
- **`Portfolio`** translates the fill arithmetic of `execute_target` and
  `update_position_state`; **`Ledger`** is what it promises, in cash only.
- **`Backtest`** instantiates `CtaEngine` and `Portfolio` over one set of
  variables. `pc` is the statement the loop is at: `initialize`, `replay`,
  `drain`, `fill`, and `done` or `failed`. `Start` includes the sort,
  `Dispatch` the price update before the callback. **`Intent`** is the promise
  to a strategy.
- **`EventTime`** has the time of an event and the stable sort of a replay.
- **`MaCross`** is `Backtest` with the callback computed by the strategy in
  place of an arbitrary one.
- **`BacktestCli`** runs `MaCross` over what `KlineScan` selects from a file and
  hands its result to `Metrics`. `stage` is where `main` is: `launch` (arguments
  and configuration are checked), `load`, `run`, `report`, `write`, `print`,
  `exited`. `Fail` is an error of the file system, a line that cannot be printed
  or a kill, at any stage. Opening `metrics.json` and writing it are two steps,
  since `fs::write` truncates, and `Announce` prints and exits after them.
- **`SelEngine`**, **`MomentumRank`**: the engine's operations and the ranking
  strategy in it. The repository has no driver for the SEL engine; `Settle`
  takes the one of the CTA backtest (drain, then `set_position` of every
  target) and is the module's one assumption about a caller.
- **`SelSchedule`** runs the two by a `Scheduler`: an event that `next_due`
  returns is the engine's next schedule event. Bars and polls come in any order.
  `ranked` is a history variable: the bars there were, and what was held, when
  an event fired. The bars are closed ones. A `SelEngine` caches updates of open
  bars as well (wt-engine 573), as the CTA engine does; `ma_cross_live` shows what
  comes of that.
- **`Executor`** has the executor and the dry-run adapter. `MayRefuse` stands
  for an adapter that returns errors, which the trait allows and the dry run
  does for quantities that are not positive. `holdings` is a history variable:
  the true position after every order. A caller believes one of the last
  `MaxStale + 1` of them.
- **`Scheduler`**: `next_due`. `CatchUp` is the loop's result in closed form: the
  first time on the grid after the poll.
- **`Metrics`** is `compute_metrics` over the trades and equity points of
  `Portfolio`, whose steps it shares. The annualized return and the Calmar ratio
  are modelled by whether they have a value; volatility and the Sharpe ratio are
  not modelled.
- **`Storage`** has a writer that may fail between any two steps of `write_ipc`
  and a reader in another process. Its scan, the opening of the file and the end
  of the collection are three steps, and a write between the last two tears the
  read: `CollectTorn` fails or returns rows of one batch with some of another's
  in their places. A close is an integer with at most one digit more than `f64`
  keeps. `saved` is a
  history variable: the last write that truncated each partition's file.
  **`KlineScan`** is its filter, which `BacktestCli` shares.
- **`MarketData`** has the reader and the exchange it reads. `NextEvent` is the
  call and `Read` one round of its loop; `DropCall` is the caller dropping the
  future. `Connect` is `connect_combined_stream`; `Klines` is `klines`, answered
  at one moment. The exchange (`Publish`, `Ping`, `Close`, `Break`) is external:
  it numbers the bars of a symbol, closes each once, and sends on a connection
  in order; a break loses any of the latest messages. It dates trades and quotes
  itself, by `Lags` before or after the end of the open bar, each stream in its
  own order; `QuoteTimes` says which of `E` and `T` the quotes of a symbol carry,
  if any. `received` is a history
  variable. **`Feed`** is what a subscriber may rely on, whatever the
  connections do.
- `MC*` modules give the constants their values. `*Proofs` modules hold the
  theorems. Operators marked `Mutant:` are faulty variants of the definition
  below them, used to see that a property notices the fault; no specification
  uses them.

## The runs

| Run | What it shows | Bounds |
|---|---|---|
| `account` | The trade list explains balance, profit and fees; the book implements `Ledger` | two symbols, three trades and a mark anywhere: open positions in both, marks that are missing |
| `cta_engine` | Caches are recent windows, `recent_bars` is exact for every count, targets are delivered once | cache of two and four bars: overflows twice; three targets pending, failing callbacks |
| `backtest` | The two accounts agree; equity follows events in time order; fills are at the strategy's price or the latest one, marks at the latest ones; runs abort only for want of a price; trades keep replay order; `Intent` is implemented; the loop returns | all sequences of up to three of six events (equal times, every kind, unsorted), five reactions |
| `backtest_clock` | Finding: targets of `on_init` are traded at the wall clock | the same, smaller question |
| `backtest_cli` | Signals are the crosses of averages over the whole history; the account never stands against the averages; a successful run leaves the trade count and the fees of exactly the window it was asked for, as does one that fails after the write; an earlier report is touched only after the backtest ended well | windows 2 and 3, cache 4, files of six bars at three closes, sorted or reversed, with a foreign bar and a last bar that may be open: the cache overflows, averages tie; three filters, a second file for `--input`, eight invocations that miss something, a failure at every stage |
| `ma_cross_live` | Finding: updates of unfinished bars distort the averages | one update before its closing bar |
| `executor` | Ids grow; orders approach targets; callers who know what is held repeat none and leave nothing that could be traded | two rules, one with a step that divides no target, one with minima; two symbols, three orders; refusals; callers up to one order behind |
| `sel_schedule` | Each due time fires once, on the grid, and only past ones are skipped; between two events the account holds the full legs of the ranking at the first, worth the configured notional, and what was not ranked is as it was | three symbols, up to six bars among them at two closes, cache of two and lookback of one; polls at 2, 5 and 12 in any order, interval 3, three events: intervals missed, polls repeated, clocks that go back |
| `momentum_rank_live` | Finding: the live configuration's three longs and three shorts of four symbols cannot both be had | four symbols as configured, two bars |
| `metrics` | A position is flat exactly when it has no entry price, and the entry lies within the fills it averages; drawdown, returns and trade statistics agree with their definitions over all pairs of points and with the account | any five of up to four trades and three marks; quantities -2..2 at two prices make every open, add, reduce, close and flip; some trades use the balance up exactly, others overdraw it |
| `market_data` | Feed is implemented; closed bars are final, also across connections; REST rows and closed bars join to the exact history; replaying by time keeps the order of every stream and closed bars between their trades; what has arrived is read | three payloads: klines, trades and quotes of one symbol, quotes without times of another, or unreadable ones; trades and quotes dated in the bar before the open one or in the bar after it, with `E` and `T` apart; two messages under way, two connections, answers of two rows: a bar closes and another opens, breaks lose any number of messages, calls are dropped at every point |
| `storage` | Reads that no write overlaps return the last batch whole or fail; partitions keep apart; adjacent windows meet | two partitions that differ in the interval, three batches, windows that meet at a bar, failures at every step, writes that begin and end anywhere within a read |

The bounds that cut behaviours off are the guards on `MaxTrades`, `MaxMarks`,
`MaxSteps`, `MaxSeen`, `MaxBarsSeen`, `MaxEmitted`, `MaxPending`, `MaxOrders`,
`MaxFires`, `MaxItems`, `MaxWire` and `MaxConnects`, each named in its module and
given in its `.cfg`. `MarketData` also keeps one ping at a time under way and one
REST answer for each connection, while it is live: `MergeIsExact` is about a
caller that connects first and then asks, since the other order leaves a gap. `CHECK_DEADLOCK FALSE` is set where the
program returns (`Backtest`, `BacktestCli`) or a bound ends the run.

**Fairness.** `Backtest!FairSpec` is `Spec /\ WF_vars(Next)`: the loop is
straight-line code in one thread and keeps taking steps. That presumes that the
strategy's callbacks return. `Terminates` follows for every finite input, which
the code requires by collecting the events into a vector first.

`MarketData!FairSpec` is `Spec /\ WF_vars(NextEvent) /\ SF_vars(Read)`: the caller
keeps asking, and a call that waits is polled. Fairness of `Read` is strong
because a caller that drops its calls disables it again and again: the runtime
polls a call at least once when it is made, and a message that is there is taken
by that poll. Nothing is assumed of the exchange nor of reconnecting. No other
module assumes fairness.

### Findings

- `ma_cross_live` (code bug): `on_event` pushes every kline into the cache, and
  the strategy ignores bars that are not final; the averages count a bar once
  for each update of it. Bars of the live stream are of this kind, those of the
  REST interface and of the stored files are not.
- `backtest_clock` (divergence): the backtest declares `event_time` as its
  clock, and targets set in `on_init` are traded at the wall clock.
- `momentum_rank_live` (divergence): with fewer ranked symbols than
  `long_count + short_count`, short legs replace long ones, as they do with the
  four symbols of `configs/live.dryrun.toml`.

## The proofs

TLAPS checks every proof to the last leaf. The theorems hold for all symbols,
strategies, event streams and quantities, under the modules' named assumptions.
These say that constants have their types (`ReactionsAssumption`,
`EventsAssumption`, `InputsAssumption`, `RulesAssumption`, `BatchesAssumption`,
`FiltersAssumption`, `StreamsAssumption`, ...), that cache sizes and bounds are
naturals (`LimitsAssumption`), that prices, rates and balances are decimals
(`IsPriced`, `MoneyAssumption`), that
there are finitely many symbols (`SymbolsAssumption`), that the scheduler's
interval is positive (with zero its loop does not end), and that the cache holds
the bars the slow average needs (`WindowsAssumption`: with fewer the strategy
never acts). `PricesAssumption`: closes are not negative, though they may be
zero, and a leg's notional is positive, as it is configured; nothing in the code
rejects another, with which longs would be sold.

- **`DataProofs`**: what the models' data is built from. Induction over naturals
  and finite sets is stated for a set of those that have the property, where the
  library's theorems take an operator, and rests on well-foundedness. With it:
  a greatest common divisor exists, is unique and satisfies Euclid's equation, so
  reduced fractions are equal exactly when their cross products are, and add,
  multiply and compare like the quotients they stand for; sums over finite sets
  split, add up and change by the change of one summand; choosing places of a
  sequence (`Chosen`) gives them all in order; a stable sort is a permutation,
  ordered by time, that keeps the order of any class of events whose times
  already rise; in a finite order every rank is taken once (`PlacesByRank`); a
  fold goes through the numbers one by one (`LoopSteps`).
- **`CtaEngineProofs`**: `TypeCorrectness`, `CacheCorrectness`,
  `RecentBarsCorrectness`, `DeliveryCorrectness` (of what callbacks ask for,
  whether or not they then fail). The inductive invariant `HInv`
  adds to the properties that histories and queues are sequences (`SeriesOK`,
  `QueuesOK`), without which append and concatenation say nothing. That the
  cache is the window of a history is inductive, by two lemmas on the last n
  elements of an appended sequence; that `recent_bars` is exact follows from it,
  but is not inductive alone.
- **`PortfolioProofs`**: all properties of the account and of its metrics. `AccountInv` is the
  types, with an entry price exactly where a position is open (`IsPosition`).
  The lemma everything rests on, `UpdateIs`, says of every case of
  `update_position_state` (open, add, reduce, close, flip) that the cost of the
  position changes by the money of the trade plus the profit it realizes.
  `BookCorrectness` sums that over the trades. `LedgerCorrectness` refines
  `Ledger`: its cash is the balance less the cost of all positions, a fill moves
  it once, and an equity point is cash and the worth of the holdings.
  `EntryBoundsCorrectness` needs that an average of two prices lies between
  them, and `BookCorrectness` to know which trades built the position.
  The theorems on `Metrics` need no assumption more. `DrawdownCorrectness`: what
  the loop of `max_drawdown` has found after each point is the worst fall among
  the points so far (`Worst`), proved by induction over them; that it is below
  -1 exactly when the account came to owe money needs quotients of either sign
  compared. `ReturnsCorrectness`: after each period the product is the value
  over the first one, as long as no value before the last is zero, where
  `period_returns` leaves a period out. `StatisticsCorrectness` needs an invariant of its own
  (`FirstOpens`: the first trade realizes nothing), `ReturnCorrectness` another
  (`PointsInv`: which points were taken before every trade and after all) besides
  `TradesExplainBook`.
- **`BacktestProofs`**: `AccountsCorrectness` (`PositionsAgree`) by `AccountsInv`:
  the two accounts agree and everything on its way to a fill is a target with a
  known symbol and an integer quantity. The delicate step is `AlreadyThere`,
  where the portfolio does nothing and the engine is still told.
  `BacktestTypeCorrectness` (`TypeOK`) by `TypedInv`: a fill divides only by a
  quantity that is not zero, so that money stays a decimal for every event whose
  prices are; a push never leaves a series longer than the limit; and each
  statement of the loop finds targets only in the queue it takes them from.
  `PriceCorrectness`, an action property, by `PricesInv`: the price map is what
  the events replayed so far have shown last, so a fill is at the price its
  strategy gave or at one of that map, and equity is valued by it.
  `AbortCorrectness` by `AbortInv`; `CurveCorrectness` and
  `TradeOrderCorrectness` by `OrderInv` and `StampsInv`: the events are the input
  sorted, and a target still queued carries the time of the current event, or of
  `on_init`. `IntentCorrectness` refines `Intent`: of several targets for one
  symbol the last one stands, so what is held and what is pending make up what
  was asked for.
  `SignalCorrectness` and `FollowCorrectness` are about `MaCross`. They have a
  hypothesis on every input, `OpenBarsAreLast`: a bar of the series that is not
  closed comes later than all its other bars. The finding `ma_cross_live` shows
  that it is needed; the events of the command line, the bars of a file, have it
  unless the file holds unfinished bars among closed ones. `CrossInv` says that
  the cache holds the last closes of the history (`IsWindow`, as long as no bar
  was open) and that what is held, or on its way, was on the side of the fast
  average since it was asked for (`Follows`). A signal is the sign of two
  quotients against each other; `AveragesCompare` turns it into that of one
  difference of sums over the history, by a shift of the place a sum runs over.
- **`ExecutorProofs`**: `TypeCorrectness`, `ClientIdCorrectness`,
  `ApproachCorrectness` by `EInv`, from lemmas on rounding to a step;
  `RestCorrectness`, an action property, from the same invariant: what a caller
  who knows leaves is too little to trade. `RepeatCorrectness` needs `LastFill` besides:
  what the latest order brought about is what rounding its request gives, so
  asking again leaves less than a step, which rounds to nothing.
- **`MarketDataProofs`**: `FeedCorrectness`, the refinement of `Feed`, for any
  streams and any bounds. The inductive invariant `FeedInv` says that the
  messages under way are contiguous (each tells of one payload more than the one
  before it, a close or an error comes last) and that they join what is known,
  but for the first message of a connection; on a live connection they reach up
  to the latest payload. One lemma per step shows that it is kept and which step
  of `Feed` is taken; `ParsesMeaning` that no payload is taken for another.
  `IInv` adds what was published (bars of a symbol follow one another, and the
  times of each stream do not fall, whatever those of others do: `KlinesInOrder`,
  `TimesInOrder`), that what was read is in the order it
  was published (`ReadInOrder`), and that of a REST answer on a live connection
  every later bar is under way or read (`AnswerInv`). From it follow
  `BarsCorrectness`, `MergeCorrectness` and `ReplayCorrectness`: a stable sort
  keeps the order of any class of events whose times do not fall, which each
  stream is, with its choice of `E` or `T` or neither; and a closed bar carries
  its end, so the trades of before it sort before it and those after it behind.
- **`SchedulerProofs`**: `FiringCorrectness`, `GridCorrectness`,
  `SkippingCorrectness` by `SInv`, which adds `NextIsNear`: the next due time
  lies within one interval of the latest poll that fired. `RunCorrectness` carries
  them over to `SelSchedule`: each of its steps is one of `Scheduler` or leaves
  it alone. `RankingCorrectness` (`HoldsLatestRanking`) by `RankInv`, which looks
  ahead of the fills: once the queued targets are filled (`Settled`) the account
  follows the ranking of the latest event, which bars leave alone, an event
  establishes and the fills bring about. It also says that the cache holds the
  last closes of every symbol. The sort is modelled by how many places come
  `Ahead` of a place; because the scores order them totally (`ScoresOrder`) every
  rank is taken once (`PlacesByRank`), so the symbols ranked are those of the
  history (`RanksAreSymbols`) and their sides fall as ranks do.
- **`StorageProofs`**: `ApartCorrectness` (`OthersUntouched`), because paths
  differ where partitions do (`PathsDiffer`: with an interval they have one part
  more). `StoreInv` says further that every file is what its last write has made
  of it so far (`FilesAreSaved`), failures included, and that a file a
  read has found stays there, which gives `ReadCorrectness` for the reads that no
  write overlaps: a torn one ends in `CollectTorn`, of which nothing is claimed; `WindowsCorrectness` because the places two windows that
  meet select are disjoint and make up those of the whole.

Only model-checked: liveness (`Terminates`, `ArrivedIsRead`), which is out of the
prover's reach, and `ReportIsOfWindow` of `BacktestCli`: it would need that the
trades of a whole backtest correspond one to one to the turns of the averages,
prices and fees included, besides what `SignalCorrectness` says of the targets.

## What is not modelled

- Overflow of `Decimal`, and its rounding: it keeps 28 digits, so a quotient is
  rounded there, as in the average entry (wt-backtest 232), the moving averages
  (wt-engine 413), scores and leg quantities (wt-engine 745, 753, 756). The
  modules divide exactly; a cross or a rank that hangs on the last digit is
  beyond them.
- Volatility and the Sharpe ratio: whether `stddev` of equal returns is zero is
  decided by the rounding of `f64`. The values of what `powf` makes.
- What a read returns that a write overlaps: the code promises nothing of it.
- Unreadable columns and `NaN`s in stored files: no operation here writes them.
- Text of reasons, ids and errors: an id is its number, an error its cause.
- `HashMap` iteration order, which the code depends on only where it sums.
- Direct order interfaces: traits with no implementation outside a test.
- `agg_trades` and `exchange_info`: requests without state, and nothing joins
  their answers to a stream. The making of stream names and URLs.
- What an exchange may do beyond its protocol: bars that close twice, payloads
  out of order on one connection.
- Configuration that nothing reads: `max_notional` and
  `allowed_symbols`, `flush_rows`, `schedule`.
- The live runner and the recorder, placeholders; logging, wording of errors.

## Plan

Built, in the order of what rests on what: the engines, the strategies, the
scheduler, the portfolio, the backtest loop and the executor; metrics and
storage; market data, the command-line backtest and the scheduled ranking. Next:

1. **Live driver**: when `wt-live-runner` is more than a placeholder, compose
   `MarketData`, `CtaEngine` and `Executor`; until then a caller would be
   invented.
2. **Recorder**: when `wt-md-recorder` writes, `MarketData` before `Storage`, with
   flushes and restarts.
3. **Proofs**: the two theorems on `MaCross` for the command line, whose events
   are a part of a file; the typing of `Backtest` from those of its two parts.
