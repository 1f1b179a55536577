-------------------------- MODULE CtaEngineHistory --------------------------
(***************************************************************************)
(* CtaEngine with a history: every bar that arrived and every target a     *)
(* callback asked for, whatever the engine did with it, beside the targets *)
(* the driver has drained.  The history is read by the properties only; it *)
(* bounds the length of a run.                                             *)
(***************************************************************************)
EXTENDS CtaEngine

CONSTANTS
  MaxSeen,     \* bound on the number of bars that arrive
  MaxEmitted,  \* bound on the number of targets asked for
  MaxPending   \* bound on the number of targets not drained

VARIABLES
  seen,      \* map from bar key to every kline that arrived, in order
  emitted,   \* every target asked for, in order, with the time of its callback
  delivered  \* every target drained, in order

history == <<seen, emitted, delivered>>
hvars == <<vars, history>>

HInit ==
  /\ Init
  /\ seen = EmptyMap
  /\ emitted = <<>>
  /\ delivered = <<>>

Emission == [ts : Int, symbol : Symbols, target_qty : Int, signal_price : Option(Pairs)]

\* What a callback that runs at a time asks for: all of it before it returns,
\* be that with Ok or with an error.
Emitted(now, reaction) ==
  [i \in 1..Len(reaction.targets) |->
     [ts |-> now, symbol |-> reaction.targets[i].symbol,
      target_qty |-> reaction.targets[i].target_qty,
      signal_price |-> reaction.targets[i].signal_price]]

\* The time an event gives the callback it is dispatched to.
CallbackTime(event) ==
  CASE event.type = "tick" -> event.tick.ts_event
    [] IsBar(event) -> event.kline.close_time
    [] event.type = "schedule" -> event.event.ts

RoomFor(reaction) ==
  /\ Len(emitted) + Len(reaction.targets) <= MaxEmitted
  /\ Len(targets) + Len(reaction.targets) <= MaxPending

HInitialize(r) ==
  /\ RoomFor(r)
  /\ Initialize(r)
  /\ emitted' = emitted \o Emitted(InitTime, r)
  /\ UNCHANGED <<seen, delivered>>

SeenSize == FoldSet(LAMBDA key, sum : sum + Len(seen[key]), 0, DOMAIN seen)

HOnEvent(e, r) ==
  /\ RoomFor(r)
  /\ IsBar(e) => SeenSize < MaxSeen
  /\ OnEvent(e, r)
  /\ emitted' = emitted \o (IF Dispatched(e) THEN Emitted(CallbackTime(e), r) ELSE <<>>)
  /\ seen' = IF IsBar(e)
             THEN Insert(seen, BarKey(e.kline), Append(Cached(seen, BarKey(e.kline)), e.kline))
             ELSE seen
  /\ UNCHANGED delivered

HDrainTargets ==
  /\ DrainTargets
  /\ delivered' = delivered \o targets
  /\ UNCHANGED <<seen, emitted>>

HSetPosition(s, q) ==
  /\ SetPosition(s, q)
  /\ UNCHANGED history

HNext ==
  \/ \E r \in Reactions : HInitialize(r)
  \/ \E e \in Events, r \in Reactions : HOnEvent(e, r)
  \/ HDrainTargets
  \/ \E s \in Symbols, q \in Fills : HSetPosition(s, q)

HSpec == HInit /\ [][HNext]_hvars
-----------------------------------------------------------------------------
\* The cache of a series is the window of the most recent bars that arrived
\* for it, in order of arrival: push_bar drops only the oldest and mixes no
\* two series.
CacheIsRecentWindow ==
  \A key \in BarKeys : Cached(bars, key) = LastN(Cached(seen, key), MaxBars)

\* A strategy that asks recent_bars for no more bars than the cache may hold
\* gets what it would get from an unlimited history.
RecentBarsAreExact ==
  \A key \in BarKeys, n \in 0..MaxBars :
    RecentBars(bars, key, n) = LastN(Cached(seen, key), n)

\* Of a queue of targets, what a callback asked for.
Requested(queue) ==
  [i \in 1..Len(queue) |->
     [ts |-> queue[i].ts, symbol |-> queue[i].symbol, target_qty |-> queue[i].target_qty,
      signal_price |-> queue[i].signal_price]]

\* Every target a callback asks for with set_target_position is drained
\* exactly once, in order and with the time of its callback, also when the
\* callback failed afterwards or ran before earlier targets were drained;
\* and nothing is drained that no callback asked for.
TargetsDeliveredOnce == emitted = Requested(delivered \o targets)
=============================================================================
