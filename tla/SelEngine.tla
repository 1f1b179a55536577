----------------------------- MODULE SelEngine -----------------------------
(***************************************************************************)
(* SelEngine of wt-engine: the engine of strategies that select among many *)
(* symbols.  It is CtaEngine without ticks, which it ignores like book     *)
(* tickers and sessions; quantities are Decimals here.  As there, what one *)
(* callback does through its SelContext is a reaction [ok, bars, targets]. *)
(***************************************************************************)
EXTENDS Decimal, BarCache

VARIABLES
  positions,  \* map from symbol to quantity, a Decimal
  bars,       \* map from <<symbol, interval>> to a sequence of klines
  bar_keys,   \* SubscriptionRegistry
  targets     \* set by callbacks and not yet drained

engineVars == <<positions, bars, bar_keys, targets>>

EngineInit ==
  /\ positions = EmptyMap
  /\ bars = EmptyMap
  /\ bar_keys = {}
  /\ targets = <<>>

\* SelContext::position
Position(symbol) == UnwrapOr(Get(positions, symbol), Zero)

\* SelContext::set_target_position
Stamp(now, request) ==
  [ts |-> now, symbol |-> request.symbol, target_qty |-> request.target_qty,
   current_qty |-> Some(Position(request.symbol)),
   signal_price |-> request.signal_price]

Callback(now, reaction) ==
  /\ bar_keys' = bar_keys \cup reaction.bars
  /\ targets' = targets \o [n \in 1..Len(reaction.targets) |-> Stamp(now, reaction.targets[n])]

Initialize(now, reaction) ==
  /\ Callback(now, reaction)
  /\ UNCHANGED <<positions, bars>>

OnKline(kline, reaction) ==
  /\ bars' = PushBar(bars, kline)
  /\ IF BarKey(kline) \in bar_keys
     THEN Callback(kline.close_time, reaction)
     ELSE UNCHANGED <<bar_keys, targets>>
  /\ UNCHANGED positions

OnSchedule(event, reaction) ==
  /\ Callback(event.ts, reaction)
  /\ UNCHANGED <<positions, bars>>

\* drain_targets, and the positions its caller reports once they are filled.
DrainTargets == targets' = <<>> /\ UNCHANGED <<bars, bar_keys>>

SetPosition(map, target) == Insert(map, target.symbol, target.target_qty)
=============================================================================
