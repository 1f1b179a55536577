----------------------------- MODULE CtaEngine -----------------------------
(***************************************************************************)
(* CtaEngine of wt-engine: it dispatches market events to one strategy,    *)
(* keeps the rolling cache of bars and the positions the strategy reads,   *)
(* and collects the target positions the strategy asks for until its       *)
(* driver drains them.                                                     *)
(*                                                                         *)
(* A strategy is code outside this module.  What one callback does through *)
(* its CtaContext is a reaction: the subscriptions it makes, the targets   *)
(* it sets, and whether it returns Ok.  The context is dropped when the    *)
(* callback returns, so nothing else of the engine can change meanwhile.   *)
(*                                                                         *)
(*   event   [type |-> "tick", tick |-> [symbol, ts_event, price]]         *)
(*           [type |-> "kline" or "bar_closed", kline |-> [symbol,         *)
(*              interval, open_time, close_time, close, is_final]]         *)
(*           [type |-> "book_ticker", book_ticker |-> [symbol, ts_event,   *)
(*              bid_price, ask_price]]                                     *)
(*           [type |-> "schedule" or "session", event |-> [ts]]            *)
(*   target  [ts, symbol, target_qty, current_qty, signal_price]           *)
(***************************************************************************)
EXTENDS Decimal, BarCache

CONSTANTS
  Events,     \* the market events that may arrive
  Reactions,  \* what the strategy's callbacks may do
  InitTime,   \* the wall clock read by initialize
  Fills       \* the quantities a driver may report with set_position

Requests == [symbol : Symbols, target_qty : Int, signal_price : Option(Pairs)]

IsReaction(r) ==
  /\ r.ok \in BOOLEAN
  /\ r.ticks \subseteq Symbols
  /\ r.bars \subseteq Symbols \X Intervals
  /\ r.targets \in Seq(Requests)

IsBar(event) == event.type \in {"kline", "bar_closed"}

IsEvent(e) ==
  CASE e.type = "tick" -> e.tick.symbol \in Symbols /\ e.tick.ts_event \in Int
    [] IsBar(e) -> /\ e.kline.symbol \in Symbols
                   /\ e.kline.interval \in Intervals
                   /\ e.kline.close_time \in Int
    [] e.type = "book_ticker" -> e.book_ticker.symbol \in Symbols
    [] e.type \in {"schedule", "session"} -> e.event.ts \in Int

ASSUME ReactionsAssumption == \A r \in Reactions : IsReaction(r)
ASSUME EventsAssumption == \A e \in Events : IsEvent(e)
ASSUME TimeAssumption == InitTime \in Int /\ Fills \subseteq Int

VARIABLES
  positions,     \* map from symbol to quantity
  bars,          \* map from <<symbol, interval>> to a sequence of klines
  tick_symbols,  \* SubscriptionRegistry
  bar_keys,      \* SubscriptionRegistry
  targets        \* set by callbacks and not yet drained

subscriptions == <<tick_symbols, bar_keys>>
vars == <<positions, bars, subscriptions, targets>>

Init ==
  /\ positions = EmptyMap
  /\ bars = EmptyMap
  /\ tick_symbols = {}
  /\ bar_keys = {}
  /\ targets = <<>>
-----------------------------------------------------------------------------
\* CtaContext::position
Position(symbol) == UnwrapOr(Get(positions, symbol), 0)

\* CtaContext::set_target_position
Stamp(now, request) ==
  [ts |-> now, symbol |-> request.symbol, target_qty |-> request.target_qty,
   current_qty |-> Some(Position(request.symbol)),
   signal_price |-> request.signal_price]

\* Mutant: a callback that fails loses the targets it set.
CallbackDropsOnError(now, reaction) ==
  /\ tick_symbols' = tick_symbols \cup reaction.ticks
  /\ bar_keys' = bar_keys \cup reaction.bars
  /\ targets' = IF reaction.ok
                THEN targets \o [i \in 1..Len(reaction.targets) |-> Stamp(now, reaction.targets[i])]
                ELSE targets

Callback(now, reaction) ==
  /\ tick_symbols' = tick_symbols \cup reaction.ticks
  /\ bar_keys' = bar_keys \cup reaction.bars
  /\ targets' = targets \o [i \in 1..Len(reaction.targets) |-> Stamp(now, reaction.targets[i])]

\* An error of the strategy leaves what its callback did before returning.
Initialize(reaction) ==
  /\ Callback(InitTime, reaction)
  /\ UNCHANGED <<positions, bars>>

OnTick(event, reaction) ==
  /\ event.type = "tick"
  /\ IF event.tick.symbol \in tick_symbols
     THEN Callback(event.tick.ts_event, reaction)
     ELSE UNCHANGED <<subscriptions, targets>>
  /\ UNCHANGED <<positions, bars>>

\* Every bar enters the cache, subscribed to or not, final or not.
OnKline(event, reaction) ==
  /\ IsBar(event)
  /\ bars' = PushBar(bars, event.kline)
  /\ IF BarKey(event.kline) \in bar_keys
     THEN Callback(event.kline.close_time, reaction)
     ELSE UNCHANGED <<subscriptions, targets>>
  /\ UNCHANGED positions

OnSchedule(event, reaction) ==
  /\ event.type = "schedule"
  /\ Callback(event.event.ts, reaction)
  /\ UNCHANGED <<positions, bars>>

Ignore(event) ==
  /\ event.type \in {"book_ticker", "session"}
  /\ UNCHANGED vars

OnEvent(event, reaction) ==
  \/ OnTick(event, reaction)
  \/ OnKline(event, reaction)
  \/ OnSchedule(event, reaction)
  \/ Ignore(event)

\* Whether on_event runs a callback, whose result is then its own.
Dispatched(event) ==
  \/ event.type = "tick" /\ event.tick.symbol \in tick_symbols
  \/ IsBar(event) /\ BarKey(event.kline) \in bar_keys
  \/ event.type = "schedule"

\* drain_targets returns targets and leaves none.
DrainTargets ==
  /\ targets' = <<>>
  /\ UNCHANGED <<positions, bars, subscriptions>>

\* Mutant: only the first report for a symbol counts.
SetPositionOnce(symbol, qty) ==
  /\ positions' = IF symbol \in DOMAIN positions THEN positions
                                                 ELSE Insert(positions, symbol, qty)
  /\ UNCHANGED <<bars, subscriptions, targets>>

SetPosition(symbol, qty) ==
  /\ positions' = Insert(positions, symbol, qty)
  /\ UNCHANGED <<bars, subscriptions, targets>>
-----------------------------------------------------------------------------
Next ==
  \/ \E r \in Reactions : Initialize(r)
  \/ \E e \in Events, r \in Reactions : OnEvent(e, r)
  \/ DrainTargets
  \/ \E s \in Symbols, q \in Fills : SetPosition(s, q)

Spec == Init /\ [][Next]_vars
-----------------------------------------------------------------------------
TargetPositions ==
  [ts : Int, symbol : Symbols, target_qty : Int,
   current_qty : Option(Int), signal_price : Option(Pairs)]

\* Every variable holds the type the struct's field declares, and no series
\* of the cache outgrows max_bars_per_series.
TypeOK ==
  /\ DOMAIN positions \subseteq Symbols
  /\ \A s \in DOMAIN positions : positions[s] \in Int
  /\ DOMAIN bars \subseteq BarKeys
  /\ \A key \in DOMAIN bars :
       /\ Len(bars[key]) <= MaxBars
       /\ \A i \in 1..Len(bars[key]) : BarKey(bars[key][i]) = key
  /\ tick_symbols \subseteq Symbols
  /\ bar_keys \subseteq BarKeys
  /\ targets \in Seq(TargetPositions)
=============================================================================
