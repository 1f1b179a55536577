--------------------------- MODULE BacktestProofs ---------------------------
(***************************************************************************)
(* For every strategy, every input and every cache limit: the loop is      *)
(* well-typed, the engine and the portfolio account for the same positions *)
(* at every statement of the backtest loop, equity and trades follow the   *)
(* events in the order of time, no price comes from a later event, and     *)
(* what is held is what the strategy asked for.  With MaCrossCtaStrategy   *)
(* for a strategy: what it asks for is what the history of closed bars     *)
(* asks for.                                                               *)
(***************************************************************************)
EXTENDS MaCross, DataProofs

\* What the fills need to know of the targets in a queue.
IsQueue(q) ==
  /\ q \in Seq(Elements(q))
  /\ \A n \in 1..Len(q) : q[n].symbol \in Symbols /\ q[n].target_qty \in Int

\* The inductive invariant: the accounts agree, and every target on its way
\* to them asks for an integer quantity of a known symbol.
AccountsInv ==
  /\ \A s \in Symbols : Pf!PositionOf(s).qty \in Int
  /\ PositionsAgree
  /\ IsQueue(targets)
  /\ IsQueue(pending)

LEMMA EmptyIsQueue == IsQueue(<<>>)
BY DEF IsQueue

LEMMA SeqIsQueue ==
  ASSUME NEW S, NEW q \in Seq(S),
         \A t \in S : t.symbol \in Symbols /\ t.target_qty \in Int
  PROVE  IsQueue(q)
<1>1. Len(q) \in Nat /\ q = [n \in 1..Len(q) |-> q[n]]
  BY LenProperties
<1>2. q \in Seq(Elements(q))
  BY <1>1, IsASeq DEF Elements
<1>3. \A n \in 1..Len(q) : q[n] \in S
  BY ElementOfSeq
<1>. QED BY <1>2, <1>3 DEF IsQueue

LEMMA QueuesJoin ==
  ASSUME NEW p, NEW q, IsQueue(p), IsQueue(q)
  PROVE  IsQueue(p \o q)
<1> DEFINE S == Elements(p) \cup Elements(q)
<1>1. p \in Seq(S) /\ q \in Seq(S)
  BY SeqMonotonic DEF IsQueue
<1>2. \A t \in S : t.symbol \in Symbols /\ t.target_qty \in Int
  BY DEF IsQueue, Elements
<1>3. p \o q \in Seq(S)
  BY <1>1, ConcatProperties
<1> HIDE DEF S
<1>. QED BY <1>2, <1>3, SeqIsQueue

LEMMA QueueTail ==
  ASSUME NEW q, IsQueue(q), q # <<>>
  PROVE  /\ Head(q).symbol \in Symbols /\ Head(q).target_qty \in Int
         /\ IsQueue(Tail(q))
<1> DEFINE S == Elements(q)
<1>1. q \in Seq(S) /\ \A t \in S : t.symbol \in Symbols /\ t.target_qty \in Int
  BY DEF IsQueue, Elements
<1> HIDE DEF S
<1>2. Head(q) \in S /\ Tail(q) \in Seq(S)
  BY <1>1, HeadTailProperties
<1>. QED BY <1>1, <1>2, SeqIsQueue

\* The targets a callback adds.
LEMMA CallbackQueues ==
  ASSUME NEW r \in Reactions, NEW now, IsQueue(targets), Eng!Callback(now, r)
  PROVE  IsQueue(targets')
<1> DEFINE new == [n \in 1..Len(r.targets) |-> Eng!Stamp(now, r.targets[n])]
           S == Elements(new)
<1>1. r.targets \in Seq([symbol : Symbols, target_qty : Int, signal_price : Option(Pairs)])
  BY ReactionsAssumption
<1>2. Len(r.targets) \in Nat /\ new \in Seq(S) /\ Len(new) = Len(r.targets)
  <2> DEFINE len == Len(r.targets)
  <2>1. len \in Nat
    BY <1>1
  <2> HIDE DEF len
  <2>2. [n \in 1..len |-> Eng!Stamp(now, r.targets[n])]
          \in Seq({Eng!Stamp(now, r.targets[n]) : n \in 1..len})
    BY <2>1, IsASeq
  <2>3. Len(new) = len /\ \A n \in 1..len : new[n] = Eng!Stamp(now, r.targets[n])
    BY <2>1 DEF len
  <2>4. S = {Eng!Stamp(now, r.targets[n]) : n \in 1..len}
    BY <2>3 DEF Elements
  <2>. QED BY <2>1, <2>2, <2>3, <2>4 DEF len
<1>3. ASSUME NEW n \in 1..Len(new)
      PROVE  new[n].symbol \in Symbols /\ new[n].target_qty \in Int
  <2>1. r.targets[n] \in [symbol : Symbols, target_qty : Int, signal_price : Option(Pairs)]
    BY <1>1, <1>2, <1>3, ElementOfSeq
  <2>. QED BY <1>2, <1>3, <2>1 DEF Eng!Stamp
<1>4. IsQueue(new)
  BY <1>2, <1>3 DEF IsQueue
<1>5. targets' = targets \o new
  BY DEF Eng!Callback
<1> HIDE DEF new
<1>. QED BY <1>4, <1>5, QueuesJoin

\* An event changes neither account.
LEMMA EventQueues ==
  ASSUME NEW r \in Reactions, NEW e, IsQueue(targets), Eng!OnEvent(e, r)
  PROVE  IsQueue(targets') /\ engine_positions' = engine_positions
<1>1. CASE Eng!OnTick(e, r)
  BY <1>1, CallbackQueues DEF Eng!OnTick
<1>2. CASE Eng!OnKline(e, r)
  BY <1>2, CallbackQueues DEF Eng!OnKline
<1>3. CASE Eng!OnSchedule(e, r)
  BY <1>3, CallbackQueues DEF Eng!OnSchedule
<1>4. CASE Eng!Ignore(e)
  BY <1>4 DEF Eng!Ignore, Eng!vars
<1>. QED BY <1>1, <1>2, <1>3, <1>4 DEF Eng!OnEvent

\* Neither account changes unless its map does.
LEMMA AccountsKeep ==
  ASSUME AccountsInv, UNCHANGED <<engine_positions, positions>>,
         IsQueue(targets'), IsQueue(pending')
  PROVE  AccountsInv'
BY DEF AccountsInv, PositionsAgree, Eng!Position, Pf!PositionOf, Pf!NoPosition

LEMMA PortfolioReaches ==
  ASSUME NEW t, NEW price, t.symbol \in Symbols, t.target_qty \in Int,
         \A s \in Symbols : Pf!PositionOf(s).qty \in Int,
         Pf!ExecuteTarget(t, price)
  PROVE  \A s \in Symbols :
           Pf!PositionOf(s)'.qty = IF s = t.symbol THEN t.target_qty ELSE Pf!PositionOf(s).qty
<1>1. CASE Pf!Fill(t, price)
  <2> DEFINE state == Pf!PositionOf(t.symbol)
             diff == t.target_qty - state.qty
             fill == Pf!ApplySlippage(price, IF diff > 0 THEN "Buy" ELSE "Sell")
             new == Pf!UpdatePositionState(state, diff, fill)
  <2>1. positions' = Pf!Insert(positions, t.symbol, new)
    BY <1>1 DEF Pf!Fill
  <2>2. new.qty = t.target_qty
    <3>1. new.qty = state.qty + diff
      BY DEF Pf!UpdatePositionState
    <3>2. state.qty \in Int
      OBVIOUS
    <3>. QED BY <3>1, <3>2
  <2> HIDE DEF new
  <2>. QED BY <2>1, <2>2 DEF Pf!Insert, Pf!PositionOf
<1>2. CASE Pf!AlreadyThere(t)
  BY <1>2 DEF Pf!AlreadyThere, Pf!vars, Pf!PositionOf
<1>. QED BY <1>1, <1>2 DEF Pf!ExecuteTarget

\* The fill, and the report of it to the engine, move both accounts to the
\* target.
LEMMA FillReaches ==
  ASSUME AccountsInv, FillTarget
  PROVE  AccountsInv'
<1> DEFINE t == Head(pending)
<1>1. t.symbol \in Symbols /\ t.target_qty \in Int /\ IsQueue(pending')
  BY QueueTail DEF AccountsInv, FillTarget
<1>2. PICK price : Pf!ExecuteTarget(t, price)
  BY DEF FillTarget
<1> HIDE DEF t
<1>3. \A s \in Symbols :
        Pf!PositionOf(s)'.qty = IF s = t.symbol THEN t.target_qty ELSE Pf!PositionOf(s).qty
  BY <1>1, <1>2, PortfolioReaches DEF AccountsInv
<1>4. Eng!SetPosition(t.symbol, t.target_qty)
  BY DEF FillTarget, t
<1>5. \A s \in Symbols :
        Eng!Position(s)' = IF s = t.symbol THEN t.target_qty ELSE Eng!Position(s)
  BY <1>4 DEF Eng!SetPosition, Eng!Position, Eng!Get, Eng!Insert, Eng!UnwrapOr,
              Eng!IsSome, Eng!Some, Eng!None
<1>6. IsQueue(targets')
  BY <1>4 DEF AccountsInv, Eng!SetPosition
<1>. QED BY <1>1, <1>3, <1>5, <1>6 DEF AccountsInv, PositionsAgree

LEMMA AccountsInit == Init => AccountsInv
BY EmptyIsQueue DEF Init, Eng!Init, Pf!Init, AccountsInv, PositionsAgree, Eng!Position,
     Eng!Get, Eng!UnwrapOr, Eng!IsSome, Eng!None, Eng!EmptyMap, Pf!PositionOf,
     Pf!NoPosition, Pf!EmptyMap

LEMMA AccountsStep ==
  ASSUME AccountsInv, [Next]_vars
  PROVE  AccountsInv'
<1> USE DEF portfolio
<1>0. IsQueue(targets) /\ IsQueue(pending)
  BY DEF AccountsInv
<1>1. ASSUME NEW r \in Reactions, Start(r)
      PROVE  AccountsInv'
  <2>1. IsQueue(targets') /\ engine_positions' = engine_positions
    BY <1>0, <1>1, CallbackQueues DEF Start, Eng!Initialize
  <2>. QED BY <1>0, <1>1, <2>1, AccountsKeep DEF Start
<1>2. ASSUME NEW r \in Reactions, Dispatch(r)
      PROVE  AccountsInv'
  <2>1. IsQueue(targets') /\ engine_positions' = engine_positions
    BY <1>0, <1>2, EventQueues DEF Dispatch
  <2>. QED BY <1>0, <1>2, <2>1, AccountsKeep DEF Dispatch
<1>3. CASE Drain
  BY <1>0, <1>3, EmptyIsQueue, AccountsKeep DEF Drain, Eng!DrainTargets
<1>4. CASE FillTarget
  BY <1>4, FillReaches
<1>5. CASE MissFillPrice
  BY <1>0, <1>5, AccountsKeep DEF MissFillPrice, engine
<1>6. CASE Mark
  BY <1>0, <1>6, AccountsKeep DEF Mark, Pf!MarkToMarket, engine
<1>7. CASE Finish
  BY <1>0, <1>7, AccountsKeep DEF Finish, engine
<1>8. CASE UNCHANGED vars
  BY <1>0, <1>8, AccountsKeep DEF vars, engine, control
<1>. QED BY <1>1, <1>2, <1>3, <1>4, <1>5, <1>6, <1>7, <1>8 DEF Next, Settle

\* The strategy reads the positions the portfolio holds.
THEOREM AccountsCorrectness == Spec => []PositionsAgree
<1>1. AccountsInv => PositionsAgree
  BY DEF AccountsInv
<1>. QED BY <1>1, AccountsInit, AccountsStep, PTL DEF Spec
-----------------------------------------------------------------------------
\* An equity point is added only when the loop moves to the next event, and
\* the events stay as they are once the first is replayed.
EquityInv ==
  /\ equity \in Seq(Elements(equity))
  /\ i \in Nat
  /\ pc = "initialize" => i = 1
  /\ EquityMatchesEvents

LEMMA EquityInit == Init => EquityInv
BY DEF Init, Pf!Init, EquityInv, EquityMatchesEvents

LEMMA EquityStep ==
  ASSUME EquityInv, [Next]_vars
  PROVE  EquityInv'
<1>1. ASSUME NEW r \in Reactions, Start(r)
      PROVE  EquityInv'
  <2>1. Len(equity) = 0 /\ UNCHANGED <<equity, i>> /\ pc' # "initialize"
    BY <1>1 DEF Start, EquityInv, EquityMatchesEvents, portfolio
  <2>. QED BY <2>1 DEF EquityInv, EquityMatchesEvents, Elements
<1>2. ASSUME UNCHANGED <<equity, events, i>>, pc' = "initialize" => pc = "initialize"
      PROVE  EquityInv'
  BY <1>2 DEF EquityInv, EquityMatchesEvents, Elements, EventTs
<1>3. CASE Mark
  <2> DEFINE n == Len(equity)
  <2>1. PICK point : equity' = Append(equity, point) /\ point.ts = EventTs(events[i])
    BY <1>3 DEF Mark, Pf!MarkToMarket
  <2>2. n \in Nat /\ n = i - 1 /\ i' = i + 1 /\ events' = events /\ pc' = "replay" /\ i \in Nat
    BY <1>3 DEF Mark, EquityInv, EquityMatchesEvents
  <2> DEFINE S == Elements(equity) \cup {point}
  <2>3. /\ equity' \in Seq(S)
        /\ Len(equity') = n + 1
        /\ \A m \in 1..n : equity'[m] = equity[m]
        /\ equity'[n + 1] = point
    <3>1. equity \in Seq(S)
      BY SeqMonotonic DEF EquityInv
    <3> HIDE DEF S
    <3>. QED BY <2>1, <3>1, AppendProperties DEF S
  <2> HIDE DEF S, n
  <2>4. equity' \in Seq(Elements(equity'))
    BY <2>3, LenProperties, IsASeq DEF Elements
  <2>5. ASSUME NEW m \in 1..n + 1
        PROVE  equity'[m].ts = EventTs(events[m])
    <3>1. CASE m = n + 1
      BY <2>1, <2>2, <2>3, <3>1
    <3>2. CASE m \in 1..n
      BY <2>3, <3>2 DEF EquityInv, EquityMatchesEvents, n
    <3>. QED BY <2>2, <3>1, <3>2
  <2>6. n + 1 = i' - 1 /\ i' \in Nat
    BY <2>2
  <2>. QED BY <2>2, <2>3, <2>4, <2>5, <2>6 DEF EquityInv, EquityMatchesEvents, EventTs
<1>4. CASE FillTarget
  <2>1. equity' = equity
    BY <1>4 DEF FillTarget, Pf!ExecuteTarget, Pf!Fill, Pf!AlreadyThere, Pf!vars
  <2>. QED BY <1>2, <1>4, <2>1 DEF FillTarget
<1>5. ASSUME NEW r \in Reactions, Dispatch(r)
      PROVE  EquityInv'
  BY <1>2, <1>5 DEF Dispatch, portfolio
<1>6. CASE Drain \/ MissFillPrice \/ Finish \/ UNCHANGED vars
  BY <1>2, <1>6 DEF Drain, MissFillPrice, Finish, vars, portfolio, control
<1>. QED BY <1>1, <1>3, <1>4, <1>5, <1>6 DEF Next, Settle

\* One equity point for every event replayed, with the time of that event.
LEMMA EquityCorrectness == Spec => []EquityMatchesEvents
<1>1. EquityInv => EquityMatchesEvents
  BY DEF EquityInv
<1>. QED BY <1>1, EquityInit, EquityStep, PTL DEF Spec
-----------------------------------------------------------------------------
\* The prices an event shows.
Shown(n) == UpdateLastPrice(events[n], EmptyMap)

EventTypes == {"tick", "kline", "bar_closed", "book_ticker", "schedule", "session"}

\* An event replaces the prices it shows and keeps the others.
LEMMA PricesUpdate ==
  ASSUME NEW event, event.type \in EventTypes, NEW prices, NEW s
  PROVE  Get(UpdateLastPrice(event, prices), s) =
           IF s \in DOMAIN UpdateLastPrice(event, EmptyMap)
           THEN Get(UpdateLastPrice(event, EmptyMap), s)
           ELSE Get(prices, s)
<1>1. ASSUME NEW symbol, NEW price,
             UpdateLastPrice(event, prices) = Insert(prices, symbol, price),
             UpdateLastPrice(event, EmptyMap) = Insert(EmptyMap, symbol, price)
      PROVE  Get(UpdateLastPrice(event, prices), s) =
               IF s \in DOMAIN UpdateLastPrice(event, EmptyMap)
               THEN Get(UpdateLastPrice(event, EmptyMap), s)
               ELSE Get(prices, s)
  BY <1>1 DEF Get, Insert, EmptyMap
<1>2. CASE event.type = "tick"
  BY <1>1, <1>2 DEF UpdateLastPrice
<1>3. CASE event.type \in {"kline", "bar_closed"}
  BY <1>1, <1>3 DEF UpdateLastPrice
<1>4. CASE event.type = "book_ticker"
  BY <1>1, <1>4 DEF UpdateLastPrice
<1>5. CASE event.type \in {"schedule", "session"}
  BY <1>5 DEF UpdateLastPrice, EmptyMap, Get
<1>. QED BY <1>2, <1>3, <1>4, <1>5 DEF EventTypes

\* The latest price after one more event.
LEMMA LatestPriceStep ==
  ASSUME NEW s, NEW n \in Nat
  PROVE  LatestPrice(s, n + 1) = IF s \in DOMAIN Shown(n + 1) THEN Get(Shown(n + 1), s)
                                                           ELSE LatestPrice(s, n)
<1> DEFINE shown(k) == {m \in 1..k : s \in DOMAIN Shown(m)}
<1>1. \A k : LatestPrice(s, k) = IF shown(k) = {} THEN None ELSE Get(Shown(Max(shown(k))), s)
  BY DEF LatestPrice, Shown
<1>2. CASE s \in DOMAIN Shown(n + 1)
  <2>1. n + 1 \in shown(n + 1) /\ shown(n + 1) \subseteq Int
        /\ \A m \in shown(n + 1) : m <= n + 1
    BY <1>2
  <2>2. Max(shown(n + 1)) = n + 1
    <3> HIDE DEF shown
    <3>. QED BY <2>1, MaxIs
  <2>. QED BY <1>1, <1>2, <2>1, <2>2
<1>3. CASE s \notin DOMAIN Shown(n + 1)
  <2>1. shown(n + 1) = shown(n)
    BY <1>3
  <2> HIDE DEF shown
  <2>. QED BY <1>1, <1>3, <2>1
<1>. QED BY <1>2, <1>3

LEMMA LatestPriceBefore ==
  ASSUME NEW s
  PROVE  LatestPrice(s, 0) = None
BY DEF LatestPrice

LEMMA LatestPriceKeeps ==
  ASSUME UNCHANGED events, NEW s, NEW n
  PROVE  LatestPrice(s, n)' = LatestPrice(s, n)
BY DEF LatestPrice, UpdateLastPrice

\* The map of last prices holds what the events replayed so far showed last.
PricesAreLatest ==
  /\ pc \in {"drain", "fill"} =>
       \A s \in Symbols : Get(last_prices, s) = LatestPrice(s, i)
  /\ pc \in {"replay", "done"} =>
       \A s \in Symbols : Get(last_prices, s) = LatestPrice(s, i - 1)

\* The inductive invariant: the map is right, and empty before the loop starts.
PricesInv ==
  /\ i \in Nat \ {0}
  /\ pc = "initialize" => i = 1 /\ last_prices = EmptyMap
  /\ PricesAreLatest

LEMMA PricesInit == Init => PricesInv
BY DEF Init, PricesInv, PricesAreLatest

\* A statement that neither shows a price nor moves on.
LEMMA PricesKeep ==
  ASSUME PricesInv, UNCHANGED <<events, i, last_prices>>,
         pc' = "initialize" => pc = "initialize",
         \/ pc \in {"drain", "fill"} /\ pc' \in {"drain", "fill"}
         \/ pc \in {"replay", "done"} /\ pc' \in {"replay", "done"}
         \/ pc' = "failed"
         \/ pc' = pc
  PROVE  PricesInv'
<1>1. \A s \in Symbols :
        /\ LatestPrice(s, i)' = LatestPrice(s, i)
        /\ LatestPrice(s, i - 1)' = LatestPrice(s, i - 1)
  BY DEF LatestPrice, UpdateLastPrice
<1>. QED BY <1>1 DEF PricesInv, PricesAreLatest, Get

LEMMA PricesStart ==
  ASSUME PricesInv, NEW r \in Reactions, Start(r)
  PROVE  PricesInv'
<1>1. i' = 1 /\ last_prices' = EmptyMap /\ pc' \in {"replay", "failed"}
  BY DEF Start, PricesInv
<1>2. \A s \in Symbols : LatestPrice(s, i - 1)' = None
  BY <1>1 DEF LatestPrice
<1>3. \A s \in Symbols : Get(last_prices, s)' = None
  BY <1>1 DEF Get, EmptyMap
<1>. QED BY <1>1, <1>2, <1>3 DEF PricesInv, PricesAreLatest

LEMMA PricesDispatch ==
  ASSUME PricesInv, NEW r \in Reactions, Dispatch(r)
  PROVE  PricesInv'
<1>1. /\ last_prices' = UpdateLastPrice(events[i], last_prices)
      /\ UNCHANGED <<events, i>>
      /\ pc = "replay" /\ pc' \in {"drain", "failed"}
      /\ i - 1 \in Nat /\ (i - 1) + 1 = i
  BY DEF Dispatch, SeePrice, PricesInv
<1>2. events[i].type \in EventTypes
  BY DEF Dispatch, Eng!OnEvent, Eng!OnTick, Eng!OnKline, Eng!OnSchedule, Eng!Ignore, Eng!IsBar,
         EventTypes
<1>3. ASSUME NEW s \in Symbols
      PROVE  Get(last_prices', s) = LatestPrice(s, i)
  <2>1. Get(last_prices, s) = LatestPrice(s, i - 1)
    BY <1>1 DEF PricesInv, PricesAreLatest
  <2>2. LatestPrice(s, i) = IF s \in DOMAIN Shown(i) THEN Get(Shown(i), s)
                                                     ELSE LatestPrice(s, i - 1)
    BY <1>1, LatestPriceStep
  <2>. QED BY <1>1, <1>2, <2>1, <2>2, PricesUpdate DEF Shown
<1>4. \A s \in Symbols : LatestPrice(s, i)' = LatestPrice(s, i)
  BY <1>1 DEF LatestPrice, UpdateLastPrice
<1>5. \A s \in Symbols : Get(last_prices, s)' = Get(last_prices', s)
  BY DEF Get
<1>. QED BY <1>1, <1>3, <1>4, <1>5 DEF PricesInv, PricesAreLatest

LEMMA PricesMark ==
  ASSUME PricesInv, Mark
  PROVE  PricesInv'
<1>1. /\ UNCHANGED <<events, last_prices>>
      /\ pc = "fill" /\ pc' = "replay" /\ i' = i + 1 /\ i' - 1 = i /\ i' \in Nat \ {0}
  BY DEF Mark, PricesInv
<1>2. ASSUME NEW s \in Symbols
      PROVE  LatestPrice(s, i - 1)' = LatestPrice(s, i)
  <2>1. PICK n : n = i /\ n = i' - 1
    BY <1>1
  <2>2. LatestPrice(s, n)' = LatestPrice(s, n)
    BY <1>1 DEF LatestPrice, UpdateLastPrice
  <2>. QED BY <2>1, <2>2
<1>3. \A s \in Symbols : Get(last_prices, s)' = Get(last_prices, s)
  BY <1>1 DEF Get
<1>. QED BY <1>1, <1>2, <1>3 DEF PricesInv, PricesAreLatest

LEMMA PricesStep ==
  ASSUME PricesInv, [Next]_vars
  PROVE  PricesInv'
<1>1. CASE Drain \/ FillTarget \/ MissFillPrice \/ Finish
  BY <1>1, PricesKeep DEF Drain, FillTarget, MissFillPrice, Finish
<1>2. CASE UNCHANGED vars
  BY <1>2, PricesKeep DEF vars, control, PricesInv, PricesAreLatest
<1>. QED BY <1>1, <1>2, PricesStart, PricesDispatch, PricesMark DEF Next, Settle

-----------------------------------------------------------------------------
\* The inductive invariant: there is an error only at the end, and the one of
\* a missing price is told when the market had none.
AbortInv ==
  /\ pc # "failed" => error = None
  /\ AbortsOnlyWithoutPrice

LEMMA AbortInit == Init => AbortInv
BY DEF Init, AbortInv, AbortsOnlyWithoutPrice, None, Some

LEMMA AbortMiss ==
  ASSUME PricesInv, MissFillPrice
  PROVE  AbortInv'
<1>1. /\ pc = "fill" /\ pc' = "failed" /\ UNCHANGED <<events, i, pending>>
      /\ error' = Some(MissingPrice(Head(pending).symbol))
      /\ ~IsSome(FillPrice(Head(pending)))
  BY DEF MissFillPrice
<1>2. ASSUME NEW s \in Symbols, error' = Some(MissingPrice(s))
      PROVE  /\ LatestPrice(s, i) = None
             /\ Head(pending).symbol = s /\ Head(pending).signal_price = None
  <2>1. MissingPrice(s) = MissingPrice(Head(pending).symbol)
    BY <1>1, <1>2 DEF Some
  <2>2. Head(pending).symbol = s
    <3>1. MissingPrice(s).symbol = s
          /\ MissingPrice(Head(pending).symbol).symbol = Head(pending).symbol
      BY DEF MissingPrice
    <3>. QED BY <2>1, <3>1
  <2>3. Head(pending).signal_price = None /\ Get(last_prices, s) = None
    BY <1>1, <2>2 DEF FillPrice, IsSome
  <2>. QED BY <1>1, <2>2, <2>3 DEF PricesInv, PricesAreLatest
<1>3. \A s \in Symbols : LatestPrice(s, i)' = LatestPrice(s, i)
  BY <1>1 DEF LatestPrice, UpdateLastPrice
<1>. QED BY <1>1, <1>2, <1>3 DEF AbortInv, AbortsOnlyWithoutPrice, MissingPrice

LEMMA AbortStep ==
  ASSUME PricesInv, AbortInv, [Next]_vars
  PROVE  AbortInv'
<1>1. ASSUME error' \in {None, Some(StrategyError)}, pc' # "failed" => error' = None
      PROVE  AbortInv'
  <2>1. ASSUME NEW s \in Symbols
        PROVE  error' # Some(MissingPrice(s))
    <3>1. StrategyError.cause # MissingPrice(s).cause
      BY DEF StrategyError, MissingPrice
    <3> HIDE DEF StrategyError, MissingPrice
    <3>2. Some(StrategyError) # Some(MissingPrice(s)) /\ None # Some(MissingPrice(s))
      BY <3>1 DEF None, Some
    <3>. QED BY <1>1, <3>2
  <2>. QED BY <1>1, <2>1 DEF AbortInv, AbortsOnlyWithoutPrice
<1>2. ASSUME NEW r \in Reactions, Start(r) \/ Dispatch(r)
      PROVE  AbortInv'
  BY <1>1, <1>2 DEF Start, Dispatch, AbortInv
<1>3. CASE Drain \/ FillTarget \/ Mark \/ Finish
  BY <1>1, <1>3 DEF Drain, FillTarget, Mark, Finish, AbortInv
<1>4. CASE UNCHANGED vars
  <2>1. UNCHANGED <<pc, error, events, i, pending>>
    BY <1>4 DEF vars, control
  <2>2. \A s \in Symbols : LatestPrice(s, i)' = LatestPrice(s, i)
    BY <2>1 DEF LatestPrice, UpdateLastPrice
  <2>. QED BY <2>1, <2>2 DEF AbortInv, AbortsOnlyWithoutPrice, MissingPrice
<1>. QED BY <1>2, <1>3, <1>4, AbortMiss DEF Next, Settle

\* A run lost for want of a price had none to use.
THEOREM AbortCorrectness == Spec => []AbortsOnlyWithoutPrice
<1>1. PricesInv /\ AbortInv /\ [Next]_vars => (PricesInv /\ AbortInv)'
  BY PricesStep, AbortStep
<1>2. AbortInv => AbortsOnlyWithoutPrice
  BY DEF AbortInv
<1>. QED BY <1>1, <1>2, PricesInit, AbortInit, PTL DEF Spec
-----------------------------------------------------------------------------
\* The inductive invariant: from the first step on the events are in time
\* order, unless the strategy failed before there was a point or a trade.
TimesRise ==
  /\ \A n \in 1..Len(events) : EventTs(events[n]) \in Int
  /\ \A m, n \in 1..Len(events) : m <= n => EventTs(events[m]) <= EventTs(events[n])

OrderInv ==
  /\ Len(events) \in Nat
  /\ i \in 1..Len(events) + 1
  /\ pc \in {"drain", "fill"} => i <= Len(events)
  /\ pc = "initialize" => events \in Inputs /\ i = 1
  /\ TimesRise \/ (i = 1 /\ trades = <<>> /\ pc \in {"initialize", "failed"})

\* Whether only targets of on_init have been filled.
Opening == i = 1 /\ \A n \in 1..Len(trades) : trades[n].ts_trade = InitTime

\* Targets wait in the order they were set: those of on_init, then those of
\* the event being replayed.
Stamped(q) ==
  \A n \in 1..Len(q) :
    \/ q[n].ts = EventTs(events[i])
    \/ Opening /\ \A m \in 1..n : q[m].ts = InitTime

StampsInv ==
  /\ trades \in Seq(Elements(trades))
  /\ pc = "initialize" => targets = <<>> /\ pending = <<>> /\ trades = <<>>
  /\ pc = "replay" => /\ pending = <<>>
                      /\ targets # <<>> => Opening
                      /\ \A n \in 1..Len(targets) : targets[n].ts = InitTime
  /\ pc = "drain" => pending = <<>> /\ Stamped(targets)
  /\ pc = "fill" => targets = <<>> /\ Stamped(pending)
  /\ TradesInReplayOrder

LEMMA OrderInit == Init => OrderInv
<1> SUFFICES ASSUME Init PROVE OrderInv
  OBVIOUS
<1>1. events \in Seq({e \in Range(events) : EventTs(e) \in Int})
  BY InputsAssumption DEF Init
<1>2. Len(events) \in Nat
  BY <1>1, LenProperties
<1>. QED BY <1>2 DEF Init, Pf!Init, OrderInv

LEMMA OrderStart ==
  ASSUME OrderInv, StampsInv, NEW r \in Reactions, Start(r)
  PROVE  OrderInv'
<1>1. pc = "initialize" /\ i = 1 /\ events \in Inputs /\ trades = <<>>
      /\ UNCHANGED <<i, trades>> /\ pc' \in {"replay", "failed"}
  BY DEF Start, OrderInv, StampsInv, portfolio
<1> DEFINE S == {e \in Range(events) : EventTs(e) \in Int}
<1>2. events \in Seq(S)
  BY <1>1, InputsAssumption
<1>3. Len(events) \in Nat /\ \A n \in 1..Len(events) : EventTs(events[n]) \in Int
  BY <1>2, LenProperties, ElementOfSeq
<1>4. CASE pc' = "replay"
  <2>1. events' = StableSort(events)
    BY <1>4 DEF Start
  <2> HIDE DEF S
  <2>2. Len(events') = Len(events)
    BY <1>2, <1>3, <2>1, StableSortProperties
  <2>3. TimesRise'
    BY <1>2, <1>3, <2>1, <2>2, StableSortOrders DEF TimesRise, EventTs
  <2>. QED BY <1>1, <1>3, <1>4, <2>2, <2>3 DEF OrderInv
<1>5. CASE pc' = "failed"
  <2>1. events' = events
    BY <1>5 DEF Start
  <2>. QED BY <1>1, <1>3, <1>5, <2>1 DEF OrderInv
<1>. QED BY <1>1, <1>4, <1>5

\* A step of the loop proper.
LEMMA OrderKeep ==
  ASSUME OrderInv, pc # "initialize", pc' # "initialize", UNCHANGED events,
         TimesRise \/ UNCHANGED <<i, trades, pc>>,
         i' \in 1..Len(events) + 1,
         pc' \in {"drain", "fill"} => i' <= Len(events)
  PROVE  OrderInv'
<1>1. TimesRise => TimesRise'
  BY DEF TimesRise, EventTs
<1>. QED BY <1>1, SMTT(20) DEF OrderInv

LEMMA OrderStep ==
  ASSUME OrderInv, StampsInv, [Next]_vars
  PROVE  OrderInv'
<1>1. pc \in {"replay", "drain", "fill"} => TimesRise
  BY DEF OrderInv
<1>2. ASSUME NEW r \in Reactions, Dispatch(r)
      PROVE  OrderInv'
  <2>1. pc = "replay" /\ i <= Len(events) /\ UNCHANGED <<events, i, trades>>
        /\ pc' \in {"drain", "failed"}
    BY <1>2 DEF Dispatch, portfolio
  <2>. QED BY <1>1, <2>1, OrderKeep DEF OrderInv
<1>3. CASE Drain \/ FillTarget \/ MissFillPrice
  <2>1. /\ pc \in {"drain", "fill"} /\ pc' \in {"fill", "failed"}
        /\ UNCHANGED <<events, i>>
    BY <1>3 DEF Drain, FillTarget, MissFillPrice
  <2>. QED BY <1>1, <2>1, OrderKeep DEF OrderInv
<1>4. CASE Mark
  <2>1. pc = "fill" /\ pc' = "replay" /\ UNCHANGED events /\ i' = i + 1
    BY <1>4 DEF Mark
  <2>. QED BY <1>1, <2>1, OrderKeep DEF OrderInv
<1>5. CASE Finish
  <2>1. pc = "replay" /\ pc' = "done" /\ UNCHANGED <<events, i>>
    BY <1>5 DEF Finish
  <2>. QED BY <1>1, <2>1, OrderKeep DEF OrderInv
<1>6. CASE UNCHANGED vars
  <2>1. UNCHANGED <<events, i, trades, pc>>
    BY <1>6 DEF vars, portfolio, control
  <2>2. TimesRise => TimesRise'
    BY <2>1 DEF TimesRise, EventTs
  <2>. QED BY <2>1, <2>2 DEF OrderInv
<1>. QED BY <1>2, <1>3, <1>4, <1>5, <1>6, OrderStart DEF Next, Settle

\* The curve is in time order, one point for every event replayed.
LEMMA CurveRises == OrderInv /\ EquityInv => EquityFollowsEvents
<1> SUFFICES ASSUME OrderInv, EquityInv PROVE EquityFollowsEvents
  OBVIOUS
<1>1. Len(equity) = i - 1 /\ i \in 1..Len(events) + 1 /\ Len(events) \in Nat
  BY DEF OrderInv, EquityInv, EquityMatchesEvents
<1>2. ASSUME NEW m \in 1..Len(equity), NEW n \in 1..Len(equity), m <= n
      PROVE  equity[m].ts <= equity[n].ts
  <2>1. TimesRise /\ m \in 1..Len(events) /\ n \in 1..Len(events)
    BY <1>1, <1>2 DEF OrderInv
  <2>2. equity[m].ts = EventTs(events[m]) /\ equity[n].ts = EventTs(events[n])
    BY DEF EquityInv, EquityMatchesEvents
  <2>. QED BY <1>2, <2>1, <2>2 DEF TimesRise
<1>. QED BY <1>2 DEF EquityFollowsEvents, EquityInv

LEMMA StampsInit == Init => StampsInv
<1> SUFFICES ASSUME Init PROVE StampsInv
  OBVIOUS
<1>1. pc = "initialize" /\ trades = <<>> /\ targets = <<>> /\ pending = <<>>
  BY DEF Init, Eng!Init, Pf!Init
<1>2. TradesInReplayOrder
  BY <1>1 DEF TradesInReplayOrder
<1>. QED BY <1>1, <1>2 DEF StampsInv

\* The targets a callback adds come after those there are.
LEMMA CallbackAdds ==
  ASSUME NEW r \in Reactions, NEW now, IsQueue(targets), Eng!Callback(now, r)
  PROVE  /\ Len(targets) \in Nat /\ Len(r.targets) \in Nat
         /\ Len(targets') = Len(targets) + Len(r.targets)
         /\ \A n \in 1..Len(targets) : targets'[n] = targets[n]
         /\ \A n \in 1..Len(r.targets) :
              targets'[Len(targets) + n] = Eng!Stamp(now, r.targets[n])
<1> DEFINE len == Len(r.targets)
           new == [n \in 1..len |-> Eng!Stamp(now, r.targets[n])]
           S == {new[n] : n \in 1..len}
           T == Elements(targets) \cup S
<1>1. r.targets \in Seq([symbol : Symbols, target_qty : Int, signal_price : Option(Pairs)])
  BY ReactionsAssumption
<1>2. len \in Nat
  BY <1>1
<1>3. Len(targets) \in Nat /\ targets \in Seq(Elements(targets))
  BY LenProperties DEF IsQueue
<1>4. targets' = targets \o new
  BY DEF Eng!Callback
<1> HIDE DEF len
<1>5. new \in Seq(S) /\ Len(new) = len
  BY <1>2, IsASeq
<1>6. targets \in Seq(T) /\ new \in Seq(T)
  <2> HIDE DEF new, S
  <2>. QED BY <1>3, <1>5, SeqMonotonic
<1>7. ASSUME NEW n \in 1..len
      PROVE  new[n] = Eng!Stamp(now, r.targets[n])
  OBVIOUS
<1> HIDE DEF new, S, T
<1>8. /\ Len(targets \o new) = Len(targets) + len
      /\ \A n \in 1..Len(targets) + len :
           (targets \o new)[n] = IF n <= Len(targets) THEN targets[n] ELSE new[n - Len(targets)]
  BY <1>5, <1>6, ConcatProperties
<1>9. ASSUME NEW n \in 1..Len(targets)
      PROVE  targets'[n] = targets[n]
  <2>1. n \in 1..Len(targets) + len /\ n <= Len(targets)
    BY <1>2, <1>3
  <2>. QED BY <1>4, <1>8, <2>1
<1>10. ASSUME NEW n \in 1..len
       PROVE  targets'[Len(targets) + n] = Eng!Stamp(now, r.targets[n])
  <2> DEFINE k == Len(targets) + n
  <2>1. k \in 1..Len(targets) + len /\ ~(k <= Len(targets)) /\ k - Len(targets) = n
    BY <1>2, <1>3
  <2> HIDE DEF k
  <2>2. targets'[k] = new[n]
    BY <1>4, <1>8, <2>1
  <2>. QED BY <1>7, <2>2 DEF k
<1>. QED BY <1>2, <1>3, <1>4, <1>8, <1>9, <1>10 DEF len

\* An event runs at most one callback, at the time of the event.
LEMMA EventCallback ==
  ASSUME NEW r \in Reactions, NEW e, Eng!OnEvent(e, r)
  PROVE  IF Eng!Dispatched(e) THEN Eng!Callback(EventTs(e), r)
                              ELSE UNCHANGED targets
<1>1. CASE Eng!OnTick(e, r)
  BY <1>1 DEF Eng!OnTick, Eng!Dispatched, Eng!IsBar, EventTs
<1>2. CASE Eng!OnKline(e, r)
  BY <1>2 DEF Eng!OnKline, Eng!Dispatched, Eng!IsBar, EventTs
<1>3. CASE Eng!OnSchedule(e, r)
  BY <1>3 DEF Eng!OnSchedule, Eng!Dispatched, Eng!IsBar, EventTs
<1>4. CASE Eng!Ignore(e)
  BY <1>4 DEF Eng!Ignore, Eng!vars, Eng!Dispatched, Eng!IsBar
<1>. QED BY <1>1, <1>2, <1>3, <1>4 DEF Eng!OnEvent

\* No trade, no event and no target more.
LEMMA ReplayOrderKeeps ==
  ASSUME TradesInReplayOrder, UNCHANGED <<trades, events>>, i \in Nat, i' \in {i, i + 1}
  PROVE  TradesInReplayOrder'
<1>1. PICK k \in 0..Len(trades) :
        /\ \A n \in 1..k : trades[n].ts_trade = InitTime
        /\ \A n \in (k + 1)..Len(trades) :
             \E m \in 1..Len(events) : m <= i /\ trades[n].ts_trade = EventTs(events[m])
        /\ \A m, n \in (k + 1)..Len(trades) :
             m <= n => trades[m].ts_trade <= trades[n].ts_trade
  BY DEF TradesInReplayOrder
<1>2. ASSUME NEW n \in (k + 1)..Len(trades)
      PROVE  \E m \in 1..Len(events) : m <= i' /\ trades[n].ts_trade = EventTs(events[m])
  <2>1. PICK m \in 1..Len(events) : m <= i /\ trades[n].ts_trade = EventTs(events[m])
    BY <1>1
  <2>2. m <= i'
    BY <2>1
  <2>. QED BY <2>1, <2>2
<1>3. /\ \A n \in 1..k : trades'[n].ts_trade = InitTime
      /\ \A n \in (k + 1)..Len(trades') :
           \E m \in 1..Len(events') : m <= i' /\ trades'[n].ts_trade = EventTs(events'[m])
      /\ \A m, n \in (k + 1)..Len(trades') :
           m <= n => trades'[m].ts_trade <= trades'[n].ts_trade
      /\ k \in 0..Len(trades')
  BY <1>1, <1>2
<1>. QED BY <1>3 DEF TradesInReplayOrder, EventTs

LEMMA StampsStart ==
  ASSUME StampsInv, AccountsInv, OrderInv, NEW r \in Reactions, Start(r)
  PROVE  StampsInv'
<1>1. /\ pc = "initialize" /\ targets = <<>> /\ pending = <<>> /\ trades = <<>> /\ i = 1
      /\ UNCHANGED <<i, trades, pending>> /\ pc' \in {"replay", "failed"}
      /\ Eng!Callback(InitTime, r)
  BY DEF Start, StampsInv, OrderInv, portfolio, Eng!Initialize
<1>2. \A n \in 1..Len(targets') : targets'[n].ts = InitTime
  <2>1. /\ Len(r.targets) \in Nat /\ Len(targets') = Len(r.targets)
        /\ \A n \in 1..Len(r.targets) : targets'[n] = Eng!Stamp(InitTime, r.targets[n])
    BY <1>1, CallbackAdds DEF AccountsInv
  <2> SUFFICES ASSUME NEW n \in 1..Len(targets') PROVE targets'[n].ts = InitTime
    OBVIOUS
  <2>2. targets'[n] = Eng!Stamp(InitTime, r.targets[n])
    BY <2>1
  <2>. QED BY <2>2 DEF Eng!Stamp
<1>3. Opening'
  BY <1>1 DEF Opening
<1>4. TradesInReplayOrder'
  BY <1>1 DEF TradesInReplayOrder
<1>. QED BY <1>1, <1>2, <1>3, <1>4 DEF StampsInv, Elements

LEMMA StampsDispatch ==
  ASSUME StampsInv, AccountsInv, OrderInv, NEW r \in Reactions, Dispatch(r)
  PROVE  StampsInv'
<1>1. /\ pc = "replay" /\ pending = <<>> /\ pc' \in {"drain", "failed"}
      /\ UNCHANGED <<i, events, trades, pending>>
      /\ Eng!OnEvent(events[i], r) /\ i \in Nat
      /\ targets # <<>> => Opening
      /\ \A n \in 1..Len(targets) : targets[n].ts = InitTime
  BY DEF Dispatch, StampsInv, OrderInv, portfolio
<1> DEFINE ts == EventTs(events[i])
<1>2. Opening' = Opening /\ ts' = ts
  BY <1>1 DEF Opening, EventTs
<1>3. Len(targets) \in Nat /\ (Len(targets) > 0 => Opening)
  BY <1>1, LenProperties DEF AccountsInv, IsQueue
<1>4. ASSUME NEW n \in 1..Len(targets')
      PROVE  \/ targets'[n].ts = ts
             \/ Opening /\ \A m \in 1..n : targets'[m].ts = InitTime
  <2>1. CASE UNCHANGED targets
    BY <1>1, <1>3, <1>4, <2>1
  <2>2. CASE Eng!Callback(ts, r)
    <3>1. /\ Len(r.targets) \in Nat
          /\ Len(targets') = Len(targets) + Len(r.targets)
          /\ \A k \in 1..Len(targets) : targets'[k] = targets[k]
          /\ \A k \in 1..Len(r.targets) :
               targets'[Len(targets) + k] = Eng!Stamp(ts, r.targets[k])
      BY <2>2, CallbackAdds DEF AccountsInv
    <3>2. CASE n <= Len(targets)
      <4>1. n \in 1..Len(targets) /\ \A m \in 1..n : m \in 1..Len(targets)
        BY <1>3, <3>1, <3>2
      <4>. QED BY <1>1, <1>3, <3>1, <4>1
    <3>3. CASE n > Len(targets)
      <4> DEFINE k == n - Len(targets)
      <4>1. k \in 1..Len(r.targets) /\ Len(targets) + k = n
        BY <1>3, <3>1, <3>3
      <4> HIDE DEF k
      <4>2. targets'[n] = Eng!Stamp(ts, r.targets[k])
        BY <3>1, <4>1
      <4>. QED BY <4>2 DEF Eng!Stamp
    <3>. QED BY <1>3, <1>4, <3>1, <3>2, <3>3
  <2>. QED BY <1>1, <2>1, <2>2, EventCallback
<1>5. Stamped(targets)'
  BY <1>2, <1>4 DEF Stamped
<1>6. TradesInReplayOrder'
  BY <1>1, ReplayOrderKeeps DEF StampsInv
<1>. QED BY <1>1, <1>5, <1>6 DEF StampsInv, Elements

\* A fill keeps the time of its target.
LEMMA FillTimes ==
  ASSUME NEW t, NEW price, Pf!ExecuteTarget(t, price), trades \in Seq(Elements(trades))
  PROVE  /\ trades' \in Seq(Elements(trades'))
         /\ \/ UNCHANGED trades
            \/ /\ Len(trades) \in Nat /\ Len(trades') = Len(trades) + 1
               /\ \A n \in 1..Len(trades) : trades'[n] = trades[n]
               /\ trades'[Len(trades) + 1].ts_trade = t.ts
<1>1. CASE Pf!Fill(t, price)
  <2>1. PICK trade : trades' = Append(trades, trade) /\ trade.ts_trade = t.ts
    BY <1>1 DEF Pf!Fill
  <2>. QED BY <2>1, AppendElement
<1>2. CASE Pf!AlreadyThere(t)
  BY <1>2 DEF Pf!AlreadyThere, Pf!vars, Elements
<1>. QED BY <1>1, <1>2 DEF Pf!ExecuteTarget

\* A target of on_init is filled while only such have been.
LEMMA FillOpening ==
  ASSUME trades \in Seq(Elements(trades)), Opening, i' = i,
         NEW t, NEW price, Pf!ExecuteTarget(t, price), t.ts = InitTime
  PROVE  Opening' /\ TradesInReplayOrder'
<1>1. Len(trades') \in Nat /\ \A n \in 1..Len(trades') : trades'[n].ts_trade = InitTime
  <2>1. CASE UNCHANGED trades
    BY <2>1, LenProperties DEF Opening
  <2>2. CASE ~ UNCHANGED trades
    <3>1. /\ Len(trades) \in Nat /\ Len(trades') = Len(trades) + 1
          /\ \A n \in 1..Len(trades) : trades'[n] = trades[n]
          /\ trades'[Len(trades) + 1].ts_trade = InitTime
      BY <2>2, FillTimes
    <3>. QED BY <3>1 DEF Opening
  <2>. QED BY <2>1, <2>2
<1>. QED BY <1>1 DEF Opening, TradesInReplayOrder

\* A target of the event being replayed is filled last.
LEMMA FillAtEvent ==
  ASSUME trades \in Seq(Elements(trades)), TradesInReplayOrder, UNCHANGED <<events, i>>,
         OrderInv, TimesRise, i <= Len(events),
         NEW t, NEW price, Pf!ExecuteTarget(t, price), t.ts = EventTs(events[i])
  PROVE  TradesInReplayOrder'
<1>0. i \in 1..Len(events) /\ i \in Nat /\ Len(events) \in Nat
  BY DEF OrderInv
<1>1. CASE UNCHANGED trades
  BY <1>0, <1>1, ReplayOrderKeeps
<1>2. CASE ~ UNCHANGED trades
  <2> DEFINE len == Len(trades)
  <2>1. /\ len \in Nat /\ Len(trades') = len + 1
        /\ \A n \in 1..len : trades'[n] = trades[n]
        /\ trades'[len + 1].ts_trade = EventTs(events[i])
    BY <1>2, FillTimes
  <2>2. PICK k \in 0..len :
          /\ \A n \in 1..k : trades[n].ts_trade = InitTime
          /\ \A n \in (k + 1)..len :
               \E m \in 1..Len(events) : m <= i /\ trades[n].ts_trade = EventTs(events[m])
          /\ \A m, n \in (k + 1)..len :
               m <= n => trades[m].ts_trade <= trades[n].ts_trade
    BY DEF TradesInReplayOrder
  <2> HIDE DEF len
  <2>3. k \in Nat /\ k <= len /\ k \in 0..len + 1
    BY <2>1
  <2>4. ASSUME NEW n \in (k + 1)..len + 1
        PROVE  /\ \E m \in 1..Len(events) : m <= i /\ trades'[n].ts_trade = EventTs(events[m])
               /\ trades'[n].ts_trade <= EventTs(events[i])
    <3>1. EventTs(events[i]) \in Int /\ \A m \in 1..Len(events) :
            EventTs(events[m]) \in Int /\ (m <= i => EventTs(events[m]) <= EventTs(events[i]))
      BY <1>0 DEF TimesRise
    <3>2. CASE n = len + 1
      BY <1>0, <2>1, <3>1, <3>2
    <3>3. CASE n # len + 1
      <4>1. n \in (k + 1)..len /\ n \in 1..len
        BY <2>1, <2>3, <3>3
      <4>2. PICK m \in 1..Len(events) : m <= i /\ trades[n].ts_trade = EventTs(events[m])
        BY <2>2, <4>1
      <4>. QED BY <2>1, <3>1, <4>1, <4>2
    <3>. QED BY <3>2, <3>3
  <2>5. ASSUME NEW m \in (k + 1)..len + 1, NEW n \in (k + 1)..len + 1, m <= n
        PROVE  trades'[m].ts_trade <= trades'[n].ts_trade
    <3>1. CASE n = len + 1
      BY <2>1, <2>4, <3>1
    <3>2. CASE n # len + 1
      <4>1. m \in (k + 1)..len /\ n \in (k + 1)..len /\ m \in 1..len /\ n \in 1..len
        BY <2>1, <2>3, <2>5, <3>2
      <4>2. trades'[m] = trades[m] /\ trades'[n] = trades[n]
        BY <2>1, <4>1
      <4>. QED BY <2>2, <2>5, <4>1, <4>2
    <3>. QED BY <3>1, <3>2
  <2>6. \A n \in 1..k : trades'[n].ts_trade = InitTime
    <3> SUFFICES ASSUME NEW n \in 1..k PROVE trades'[n].ts_trade = InitTime
      OBVIOUS
    <3>1. n \in 1..len
      BY <2>1, <2>3
    <3>. QED BY <2>1, <2>2, <3>1
  <2>7. /\ k \in 0..Len(trades')
        /\ \A n \in (k + 1)..Len(trades') :
             \E m \in 1..Len(events') : m <= i' /\ trades'[n].ts_trade = EventTs(events'[m])
        /\ \A m, n \in (k + 1)..Len(trades') :
             m <= n => trades'[m].ts_trade <= trades'[n].ts_trade
    BY <2>1, <2>3, <2>4, <2>5
  <2>. QED BY <2>6, <2>7 DEF TradesInReplayOrder, EventTs
<1>. QED BY <1>1, <1>2

LEMMA StampsFill ==
  ASSUME StampsInv, AccountsInv, OrderInv, FillTarget
  PROVE  StampsInv'
<1> DEFINE t == Head(pending)
           ts == EventTs(events[i])
<1>1. /\ pc = "fill" /\ pc' = "fill" /\ pending # <<>> /\ pending' = Tail(pending)
      /\ UNCHANGED <<events, i>> /\ targets' = <<>>
      /\ trades \in Seq(Elements(trades)) /\ TradesInReplayOrder /\ Stamped(pending)
      /\ TimesRise /\ i <= Len(events) /\ i \in 1..Len(events)
  BY DEF FillTarget, Eng!SetPosition, StampsInv, OrderInv
<1>2. PICK price : Pf!ExecuteTarget(t, price)
  BY DEF FillTarget
<1>3. pending \in Seq(Elements(pending))
  BY DEF AccountsInv, IsQueue
<1>4. /\ Len(pending) \in Nat /\ Len(pending) > 0 /\ t = pending[1]
      /\ Len(pending') = Len(pending) - 1
      /\ \A n \in 1..Len(pending') : pending'[n] = pending[n + 1]
  BY <1>1, <1>3, LenProperties, HeadTailProperties
<1> HIDE DEF t
<1>5. trades' \in Seq(Elements(trades'))
  BY <1>1, <1>2, FillTimes
<1>6. ts' = ts
  BY <1>1 DEF EventTs
<1>7. CASE Opening /\ t.ts = InitTime
  <2>1. Opening' /\ TradesInReplayOrder'
    BY <1>1, <1>2, <1>7, FillOpening
  <2>2. ASSUME NEW n \in 1..Len(pending')
        PROVE  \/ pending'[n].ts = ts
               \/ \A m \in 1..n : pending'[m].ts = InitTime
    <3>1. n \in Int /\ n + 1 \in 1..Len(pending) /\ pending'[n] = pending[n + 1]
      BY <1>4
    <3>2. CASE pending[n + 1].ts = ts
      BY <3>1, <3>2
    <3>3. CASE \A m \in 1..n + 1 : pending[m].ts = InitTime
      <4> SUFFICES ASSUME NEW m \in 1..n PROVE pending'[m].ts = InitTime
        OBVIOUS
      <4>1. m \in 1..Len(pending') /\ m + 1 \in 1..n + 1
        BY <1>4, <3>1
      <4>. QED BY <1>4, <3>3, <4>1
    <3>. QED BY <1>1, <3>1, <3>2, <3>3 DEF Stamped
  <2>3. Stamped(pending)'
    BY <1>6, <2>1, <2>2 DEF Stamped
  <2>. QED BY <1>1, <1>5, <2>1, <2>3 DEF StampsInv
<1>8. CASE ~(Opening /\ t.ts = InitTime)
  <2>1. ASSUME NEW n \in 1..Len(pending)
        PROVE  pending[n].ts = ts
    <3>1. 1 \in 1..n
      BY <1>4
    <3>. QED BY <1>1, <1>4, <1>8, <3>1 DEF Stamped
  <2>2. t.ts = ts
    BY <1>4, <2>1
  <2>3. TradesInReplayOrder'
    BY <1>1, <1>2, <2>2, FillAtEvent
  <2>4. \A n \in 1..Len(pending') : pending'[n].ts = ts
    <3> SUFFICES ASSUME NEW n \in 1..Len(pending') PROVE pending'[n].ts = ts
      OBVIOUS
    <3>1. n + 1 \in 1..Len(pending) /\ pending'[n] = pending[n + 1]
      BY <1>4
    <3>. QED BY <2>1, <3>1
  <2>5. Stamped(pending)'
    BY <1>6, <2>4 DEF Stamped
  <2>. QED BY <1>1, <1>5, <2>3, <2>5 DEF StampsInv
<1>. QED BY <1>7, <1>8

LEMMA StampsStep ==
  ASSUME StampsInv, AccountsInv, OrderInv, [Next]_vars
  PROVE  StampsInv'
<1>0. i \in Nat /\ i + 1 \in Nat
  BY DEF OrderInv
<1>1. CASE Drain
  <2>1. /\ pc = "drain" /\ pc' = "fill" /\ UNCHANGED <<events, i, trades>>
        /\ targets' = <<>> /\ pending' = targets
    BY <1>1 DEF Drain, Eng!DrainTargets, portfolio
  <2>2. Stamped(pending)'
    BY <2>1 DEF StampsInv, Stamped, Opening, EventTs
  <2>3. TradesInReplayOrder'
    BY <1>0, <2>1, ReplayOrderKeeps DEF StampsInv
  <2>. QED BY <2>1, <2>2, <2>3 DEF StampsInv, Elements
<1>2. CASE MissFillPrice \/ Finish
  <2>1. UNCHANGED <<events, i, trades>> /\ pc' \in {"failed", "done"}
    BY <1>2 DEF MissFillPrice, Finish, portfolio
  <2>2. TradesInReplayOrder'
    BY <1>0, <2>1, ReplayOrderKeeps DEF StampsInv
  <2>. QED BY <2>1, <2>2 DEF StampsInv, Elements
<1>3. CASE Mark
  <2>1. /\ pc = "fill" /\ pc' = "replay" /\ pending = <<>> /\ i' = i + 1
        /\ UNCHANGED <<events, trades, pending, targets>>
    BY <1>3 DEF Mark, Pf!MarkToMarket, engine
  <2>2. TradesInReplayOrder'
    BY <1>0, <2>1, ReplayOrderKeeps DEF StampsInv
  <2>. QED BY <2>1, <2>2 DEF StampsInv, Elements
<1>4. CASE UNCHANGED vars
  <2>1. UNCHANGED <<pc, events, i, trades, pending, targets>>
    BY <1>4 DEF vars, control, portfolio, engine
  <2>2. TradesInReplayOrder'
    BY <1>0, <2>1, ReplayOrderKeeps DEF StampsInv
  <2>3. Opening' = Opening /\ EventTs(events[i])' = EventTs(events[i])
    BY <2>1 DEF Opening, EventTs
  <2>4. Stamped(targets)' = Stamped(targets) /\ Stamped(pending)' = Stamped(pending)
    BY <2>1, <2>3 DEF Stamped
  <2>. QED BY <2>1, <2>2, <2>3, <2>4 DEF StampsInv, Elements
<1>. QED BY <1>1, <1>2, <1>3, <1>4, StampsStart, StampsDispatch, StampsFill DEF Next, Settle

\* One equity point for every event, and the curve in time order.
THEOREM CurveCorrectness == Spec => []EquityFollowsEvents
<1> DEFINE Inv == AccountsInv /\ EquityInv /\ OrderInv /\ StampsInv
<1>1. Init => Inv
  BY AccountsInit, EquityInit, OrderInit, StampsInit
<1>2. Inv /\ [Next]_vars => Inv'
  BY AccountsStep, EquityStep, OrderStep, StampsStep
<1>3. Inv => EquityFollowsEvents
  BY CurveRises
<1>. QED BY <1>1, <1>2, <1>3, PTL DEF Spec

\* Trades follow the events.
THEOREM TradeOrderCorrectness == Spec => []TradesInReplayOrder
<1> DEFINE Inv == AccountsInv /\ OrderInv /\ StampsInv
<1>1. Init => Inv
  BY AccountsInit, OrderInit, StampsInit
<1>2. Inv /\ [Next]_vars => Inv'
  BY AccountsStep, OrderStep, StampsStep
<1>3. Inv => TradesInReplayOrder
  BY DEF StampsInv
<1>. QED BY <1>1, <1>2, <1>3, PTL DEF Spec
-----------------------------------------------------------------------------
\* Portfolio computes with the decimals of Decimal.
LEMMA SameDecimals ==
  /\ Pf!Zero = Zero /\ (\A n : Pf!Dec(n) = Dec(n) /\ Pf!Abs(n) = Abs(n) /\ Pf!Signum(n) = Signum(n))
  /\ \A a : Pf!IsDecimal(a) <=> IsDecimal(a)
  /\ \A a, b : /\ Pf!++(a, b) = a ++ b /\ Pf!--(a, b) = a -- b
               /\ Pf!**(a, b) = a ** b /\ Pf!//(a, b) = a // b
  /\ \A f, S : Pf!SumOver(f, S) = SumOver(f, S)
<1>1. Pf!Zero = Zero /\ (\A n : Pf!Dec(n) = Dec(n)) /\ Pf!Gcd = Gcd /\ Pf!Pairs = Pairs
      /\ \A n : Pf!Abs(n) = Abs(n) /\ Pf!Signum(n) = Signum(n)
  BY DEF Pf!Zero, Zero, Pf!Dec, Dec, Pf!Gcd, Gcd, Pf!Pairs, Pairs, Pf!Abs, Abs, Pf!Signum, Signum
<1>2. Pf!FractionOf = FractionOf
  BY <1>1 DEF Pf!FractionOf, FractionOf, Pf!Pairs, Pairs, Pf!Reduce, Reduce
<1>3. Pf!Plus = Plus /\ Pf!Times = Times /\ Pf!Over = Over /\ Pf!Negate = Negate
  BY <1>2 DEF Pf!Plus, Plus, Pf!Times, Times, Pf!Over, Over, Pf!Negate, Negate,
              Pf!Fraction, Fraction, Pf!Pairs, Pairs
<1>4. \A a, b : /\ Pf!++(a, b) = a ++ b /\ Pf!--(a, b) = a -- b
                /\ Pf!**(a, b) = a ** b /\ Pf!//(a, b) = a // b
  BY <1>3 DEF Pf!++, ++, Pf!--, --, Pf!**, **, Pf!//, //
<1>5. \A a : Pf!IsDecimal(a) <=> IsDecimal(a)
  BY <1>1 DEF Pf!IsDecimal, IsDecimal
<1>6. \A f, S : Pf!SumOver(f, S) = SumOver(f, S)
  BY <1>1, <1>4 DEF Pf!SumOver, SumOver, Pf!FoldFunctionOnSet, FoldFunctionOnSet,
                    Pf!MapThenFoldSet, MapThenFoldSet
<1>. QED BY <1>1, <1>4, <1>5, <1>6

\* A quantity and, when there is one, an entry price.
IsHeld(state) ==
  /\ state.qty \in Int
  /\ state.avg_entry_price # <<>> => IsDecimal(state.avg_entry_price[1])

LEMMA EntryIsDecimal ==
  ASSUME NEW state, IsHeld(state), NEW price, IsDecimal(price)
  PROVE  IsDecimal(Pf!UnwrapOr(state.avg_entry_price, price))
BY DEF IsHeld, Pf!UnwrapOr, Pf!IsSome, Pf!None

LEMMA UpdateIsHeld ==
  ASSUME NEW state, IsHeld(state), NEW diff \in Int, diff # 0, NEW price, IsDecimal(price)
  PROVE  /\ IsHeld(Pf!UpdatePositionState(state, diff, price))
         /\ IsDecimal(Pf!Realized(state, diff, price))
<1> DEFINE new == Pf!UpdatePositionState(state, diff, price)
           realized == Pf!Realized(state, diff, price)
           q == state.qty
           e == Pf!UnwrapOr(state.avg_entry_price, price)
<1>1. q \in Int /\ new.qty = q + diff
  BY DEF IsHeld, Pf!UpdatePositionState
<1>2. IsDecimal(e)
  BY EntryIsDecimal
<1>3. CASE Pf!Extends(q, diff)
  <2> DEFINE all == (e ** Dec(Abs(q))) ++ (price ** Dec(Abs(diff)))
  <2>1. new.avg_entry_price = Pf!Some(all // Dec(Abs(q + diff)))
    BY <1>3, SameDecimals DEF Pf!UpdatePositionState, Pf!AveragedEntry
  <2>2. Abs(q) \in Int /\ Abs(diff) \in Int /\ Abs(q + diff) \in Int /\ Abs(q + diff) # 0
    <3>1. q = 0 \/ Signum(q) = Signum(diff)
      BY <1>3, SameDecimals DEF Pf!Extends
    <3> HIDE DEF q
    <3>. QED BY <1>1, <3>1 DEF Abs, Signum
  <2>3. IsDecimal(all)
    <3> HIDE DEF e, q
    <3>. QED BY <1>2, <2>2, TimesDec, DecimalClosed
  <2>4. IsDecimal(Dec(Abs(q + diff))) /\ Dec(Abs(q + diff))[1] # 0
    <3> HIDE DEF q
    <3>. QED BY <2>2, FractionOfInt DEF Dec
  <2>5. IsDecimal(all // Dec(Abs(q + diff)))
    <3> HIDE DEF all, q
    <3>. QED BY <2>3, <2>4, DecimalClosed
  <2>6. realized = Zero /\ IsDecimal(Zero)
    BY <1>3, SameDecimals, FractionOfInt DEF Pf!Realized, Zero
  <2> HIDE DEF all, q
  <2>7. IsHeld(new)
    <3> HIDE DEF new
    <3>. QED BY <1>1, <2>1, <2>5 DEF IsHeld, Pf!Some
  <2>. QED BY <2>6, <2>7
<1>4. CASE ~Pf!Extends(q, diff)
  <2> DEFINE closed == IF Abs(q) < Abs(diff) THEN Abs(q) ELSE Abs(diff)
             k == closed * Signum(q)
  <2>1. realized = (price -- e) ** Dec(k)
    BY <1>4, SameDecimals DEF Pf!Realized
  <2>2. k \in Int
    <3> HIDE DEF q
    <3>. QED BY <1>1 DEF Abs, Signum
  <2> HIDE DEF k
  <2>3. IsDecimal(realized)
    BY <1>2, <2>1, <2>2, DecimalClosed, TimesDec
  <2>4. new.avg_entry_price \in {Pf!None, Pf!Some(e), Pf!Some(price)}
    BY <1>4 DEF Pf!UpdatePositionState, Pf!EntryAfterReduction
  <2>5. IsHeld(new)
    <3> HIDE DEF new, e, q
    <3>. QED BY <1>1, <1>2, <2>4 DEF IsHeld, Pf!Some, Pf!None
  <2>. QED BY <2>3, <2>5
<1>. QED BY <1>3, <1>4
-----------------------------------------------------------------------------
BookIsTyped ==
  /\ DOMAIN positions \subseteq Symbols
  /\ IsFiniteSet(DOMAIN positions)
  /\ \A s \in DOMAIN positions : IsHeld(positions[s])

MoneyIsTyped == IsDecimal(balance) /\ IsDecimal(realized_pnl) /\ IsDecimal(fee_total)

TradesAreTyped ==
  /\ trades \in Seq(Elements(trades))
  /\ \A k \in 1..Len(trades) :
       /\ trades[k].symbol \in Symbols
       /\ trades[k].side \in Pf!Sides
       /\ trades[k].qty \in Nat \ {0}
       /\ IsDecimal(trades[k].price) /\ IsDecimal(trades[k].fee)

CurveIsTyped ==
  /\ equity \in Seq(Elements(equity))
  /\ \A k \in 1..Len(equity) : IsDecimal(equity[k].equity)

AccountIsTyped == BookIsTyped /\ MoneyIsTyped /\ TradesAreTyped /\ CurveIsTyped

LEMMA HeldOfSymbol ==
  ASSUME BookIsTyped, NEW s
  PROVE  IsHeld(Pf!PositionOf(s))
<1>1. IsHeld(Pf!NoPosition)
  BY DEF IsHeld, Pf!NoPosition, Pf!None
<1>. QED BY <1>1 DEF BookIsTyped, Pf!PositionOf

LEMMA SlippedIsDecimal ==
  ASSUME NEW price, IsDecimal(price), NEW side
  PROVE  IsDecimal(Pf!ApplySlippage(price, side))
<1>1. IsDecimal(Dec(1)) /\ IsDecimal(Slippage)
  BY MoneyAssumption, FractionOfInt
<1>2. IsDecimal(Dec(1) ++ Slippage) /\ IsDecimal(Dec(1) -- Slippage)
  BY <1>1, DecimalClosed
<1>3. Pf!ApplySlippage(price, side) \in {price ** (Dec(1) ++ Slippage), price ** (Dec(1) -- Slippage)}
  BY SameDecimals DEF Pf!ApplySlippage
<1>. QED BY <1>2, <1>3, DecimalClosed

LEMMA FillIsTyped ==
  ASSUME AccountIsTyped, NEW t, t.symbol \in Symbols, t.target_qty \in Int,
         NEW reference, IsDecimal(reference), Pf!ExecuteTarget(t, reference)
  PROVE  AccountIsTyped'
<1>1. CASE Pf!AlreadyThere(t)
  BY <1>1 DEF Pf!AlreadyThere, Pf!vars, AccountIsTyped, BookIsTyped, MoneyIsTyped,
              TradesAreTyped, CurveIsTyped, Elements
<1>2. CASE Pf!Fill(t, reference)
  <2> DEFINE s == t.symbol
             state == Pf!PositionOf(s)
             diff == t.target_qty - state.qty
             side == IF diff > 0 THEN "Buy" ELSE "Sell"
             price == Pf!ApplySlippage(reference, side)
             fee == (Dec(Abs(diff)) ** price) ** FeeRate
             realized == Pf!Realized(state, diff, price)
             new == Pf!UpdatePositionState(state, diff, price)
             trade == [ts_trade |-> t.ts, symbol |-> s, side |-> side,
                       price |-> price, qty |-> Abs(diff), fee |-> fee,
                       realized_pnl |-> realized, order_id |-> order_seq']
  <2>1. /\ diff # 0 /\ positions' = Pf!Insert(positions, s, new)
        /\ realized_pnl' = realized_pnl ++ realized
        /\ fee_total' = fee_total ++ fee
        /\ balance' = balance ++ (realized -- fee)
        /\ trades' = Append(trades, trade)
        /\ equity' = equity
    BY <1>2, SameDecimals DEF Pf!Fill
  <2>2. IsHeld(state) /\ state.qty \in Int
    BY HeldOfSymbol DEF AccountIsTyped, IsHeld
  <2>3. diff \in Int /\ Abs(diff) \in Nat \ {0} /\ Abs(diff) \in Int
    <3> HIDE DEF state
    <3>1. diff \in Int
      BY <2>2
    <3> HIDE DEF diff
    <3>. QED BY <2>1, <3>1 DEF Abs
  <2>4. IsDecimal(price) /\ side \in Pf!Sides /\ s \in Symbols
    BY SlippedIsDecimal DEF Pf!Sides
  <2> HIDE DEF state, diff, side, price
  <2>5. IsDecimal(fee)
    <3>1. IsDecimal(Dec(Abs(diff)) ** price)
      BY <2>3, <2>4, FractionOfInt, DecimalClosed
    <3>. QED BY <3>1, MoneyAssumption, DecimalClosed
  <2>6. IsHeld(new) /\ IsDecimal(realized)
    BY <2>1, <2>2, <2>3, <2>4, UpdateIsHeld
  <2>7. trade.symbol = s /\ trade.side = side /\ trade.price = price
        /\ trade.qty = Abs(diff) /\ trade.fee = fee
    OBVIOUS
  <2> HIDE DEF s, fee, realized, new, trade
  <2>8. BookIsTyped'
    <3>1. /\ DOMAIN positions' = DOMAIN positions \cup {s}
          /\ \A r \in DOMAIN positions' : positions'[r] = IF r = s THEN new ELSE positions[r]
      BY <2>1 DEF Pf!Insert
    <3>2. IsFiniteSet(DOMAIN positions \cup {s})
      BY FS_AddElement DEF AccountIsTyped, BookIsTyped
    <3>. QED BY <2>4, <2>6, <3>1, <3>2 DEF AccountIsTyped, BookIsTyped
  <2>9. MoneyIsTyped'
    BY <2>1, <2>5, <2>6, DecimalClosed DEF AccountIsTyped, MoneyIsTyped
  <2>10. TradesAreTyped'
    <3>1. /\ trades' \in Seq(Elements(trades'))
          /\ Len(trades) \in Nat /\ Len(trades') = Len(trades) + 1
          /\ \A n \in 1..Len(trades) : trades'[n] = trades[n]
          /\ trades'[Len(trades) + 1] = trade
      BY <2>1, AppendElement DEF AccountIsTyped, TradesAreTyped
    <3>2. ASSUME NEW k \in 1..Len(trades')
          PROVE  /\ trades'[k].symbol \in Symbols
                 /\ trades'[k].side \in Pf!Sides
                 /\ trades'[k].qty \in Nat \ {0}
                 /\ IsDecimal(trades'[k].price) /\ IsDecimal(trades'[k].fee)
      <4>1. k \in 1..Len(trades) \/ k = Len(trades) + 1
        BY <3>1
      <4>. QED BY <2>3, <2>4, <2>5, <2>7, <3>1, <4>1 DEF AccountIsTyped, TradesAreTyped
    <3>3. trades' \in Seq(Elements(trades)')
      BY <3>1 DEF Elements
    <3>. QED BY <3>2, <3>3 DEF TradesAreTyped, Pf!Sides
  <2>11. CurveIsTyped'
    BY <2>1 DEF AccountIsTyped, CurveIsTyped, Elements
  <2>. QED BY <2>8, <2>9, <2>10, <2>11 DEF AccountIsTyped
<1>. QED BY <1>1, <1>2 DEF Pf!ExecuteTarget

LEMMA MarkIsTyped ==
  ASSUME AccountIsTyped, NEW ts, NEW prices, \A s \in DOMAIN prices : IsDecimal(prices[s]),
         Pf!MarkToMarket(ts, prices)
  PROVE  AccountIsTyped'
<1> DEFINE marked == Pf!Marked(prices)
           f == [s \in marked |-> (prices[s] -- positions[s].avg_entry_price[1])
                                    ** Dec(positions[s].qty)]
           value == balance ++ Pf!Unrealized(prices)
           point == [ts |-> ts, balance |-> balance, equity |-> value,
                     realized_pnl |-> realized_pnl, unrealized_pnl |-> Pf!Unrealized(prices),
                     fee_total |-> fee_total, marks |-> prices,
                     held |-> [s \in Symbols |-> Pf!PositionOf(s).qty]]
<1>1. equity' = Append(equity, point)
      /\ UNCHANGED <<positions, balance, realized_pnl, fee_total, trades>>
  BY SameDecimals DEF Pf!MarkToMarket
<1>2. Pf!Unrealized(prices) = SumOver(f, marked)
  BY SameDecimals DEF Pf!Unrealized
<1>3. IsFiniteSet(marked)
  <2>1. marked \subseteq DOMAIN positions
    BY DEF Pf!Marked
  <2>. QED BY <2>1, FS_Subset DEF AccountIsTyped, BookIsTyped
<1>4. ASSUME NEW s \in marked
      PROVE  IsDecimal(f[s])
  <2>1. /\ s \in DOMAIN prices /\ positions[s].qty \in Int
        /\ IsDecimal(positions[s].avg_entry_price[1])
    BY DEF Pf!Marked, Pf!IsSome, Pf!None, AccountIsTyped, BookIsTyped, IsHeld
  <2>2. IsDecimal(prices[s] -- positions[s].avg_entry_price[1])
    BY <2>1, DecimalClosed
  <2>. QED BY <2>1, <2>2, TimesDec
<1> HIDE DEF f, marked
<1>5. IsDecimal(value)
  BY <1>2, <1>3, <1>4, SumOverParts, DecimalClosed DEF AccountIsTyped, MoneyIsTyped
<1>6. point.equity = value
  OBVIOUS
<1> HIDE DEF point, value
<1>7. BookIsTyped' /\ MoneyIsTyped' /\ TradesAreTyped'
  BY <1>1 DEF AccountIsTyped, BookIsTyped, MoneyIsTyped, TradesAreTyped, Elements
<1>8. CurveIsTyped'
  <2>1. /\ equity' \in Seq(Elements(equity'))
        /\ Len(equity) \in Nat /\ Len(equity') = Len(equity) + 1
        /\ \A n \in 1..Len(equity) : equity'[n] = equity[n]
        /\ equity'[Len(equity) + 1] = point
    BY <1>1, AppendElement DEF AccountIsTyped, CurveIsTyped
  <2>2. ASSUME NEW k \in 1..Len(equity')
        PROVE  IsDecimal(equity'[k].equity)
    <3>1. k \in 1..Len(equity) \/ k = Len(equity) + 1
      BY <2>1
    <3>. QED BY <1>5, <1>6, <2>1, <3>1 DEF AccountIsTyped, CurveIsTyped
  <2>3. equity' \in Seq(Elements(equity)')
    BY <2>1 DEF Elements
  <2>. QED BY <2>2, <2>3 DEF CurveIsTyped
<1>. QED BY <1>7, <1>8 DEF AccountIsTyped
-----------------------------------------------------------------------------
\* The prices that a strategy gives its targets are Decimals.
PricedQueue(q) ==
  \A n \in 1..Len(q) : IsSome(q[n].signal_price) => IsDecimal(q[n].signal_price[1])

EngineIsTyped ==
  /\ Eng!TypeOK
  /\ \A key \in DOMAIN bars : bars[key] \in Seq(Elements(bars[key]))
  /\ PricedQueue(targets)

LEMMA TypedIsQueue ==
  ASSUME NEW q \in Seq(Eng!TargetPositions)
  PROVE  IsQueue(q)
<1>1. \A t \in Eng!TargetPositions : t.symbol \in Symbols /\ t.target_qty \in Int
  BY DEF Eng!TargetPositions
<1>. QED BY <1>1, SeqIsQueue

\* What a callback asks for has its types.
LEMMA StampIsTyped ==
  ASSUME Eng!TypeOK, NEW now \in Int, NEW r \in Reactions, NEW n \in 1..Len(r.targets)
  PROVE  LET t == Eng!Stamp(now, r.targets[n])
         IN  /\ t \in Eng!TargetPositions
             /\ IsSome(t.signal_price) => IsDecimal(t.signal_price[1])
<1> DEFINE request == r.targets[n]
<1>1. /\ request \in [symbol : Symbols, target_qty : Int, signal_price : Option(Pairs)]
      /\ IsSome(request.signal_price) => IsDecimal(request.signal_price[1])
  BY ReactionsAssumption, ElementOfSeq
<1>2. Option(Pairs) = Eng!Option(Eng!Pairs)
  BY DEF Option, Pairs, Eng!Option, Eng!Pairs
<1> HIDE DEF request
<1>3. Eng!Position(request.symbol) \in Int
  BY DEF Eng!TypeOK, Eng!Position, Eng!UnwrapOr, Eng!Get, Eng!IsSome, Eng!Some, Eng!None
<1>4. Eng!Some(Eng!Position(request.symbol)) \in Eng!Option(Int)
  BY <1>3 DEF Eng!Some, Eng!Option
<1>. QED BY <1>1, <1>2, <1>4 DEF Eng!Stamp, Eng!TargetPositions, request

LEMMA CallbackIsTyped ==
  ASSUME EngineIsTyped, NEW now \in Int, NEW r \in Reactions, Eng!Callback(now, r)
  PROVE  /\ targets' \in Seq(Eng!TargetPositions)
         /\ PricedQueue(targets')
         /\ tick_symbols' \subseteq Symbols
         /\ bar_keys' \subseteq Eng!BarKeys
<1>1. targets \in Seq(Eng!TargetPositions) /\ IsQueue(targets)
  BY TypedIsQueue DEF EngineIsTyped, Eng!TypeOK
<1>2. /\ Len(targets) \in Nat /\ Len(r.targets) \in Nat
      /\ Len(targets') = Len(targets) + Len(r.targets)
      /\ \A n \in 1..Len(targets) : targets'[n] = targets[n]
      /\ \A n \in 1..Len(r.targets) : targets'[Len(targets) + n] = Eng!Stamp(now, r.targets[n])
  BY <1>1, CallbackAdds
<1>3. targets' \in Seq(Eng!TargetPositions)
  <2> DEFINE new == [n \in 1..Len(r.targets) |-> Eng!Stamp(now, r.targets[n])]
  <2>1. new \in Seq(Eng!TargetPositions)
    BY <1>2, StampIsTyped, IsASeq DEF EngineIsTyped
  <2>2. targets' = targets \o new
    BY DEF Eng!Callback
  <2> HIDE DEF new
  <2>. QED BY <1>1, <2>1, <2>2, ConcatProperties
<1>4. ASSUME NEW n \in 1..Len(targets'), IsSome(targets'[n].signal_price)
      PROVE  IsDecimal(targets'[n].signal_price[1])
  <2>1. CASE n <= Len(targets)
    <3>1. n \in 1..Len(targets)
      BY <1>2, <2>1
    <3>. QED BY <1>2, <1>4, <3>1 DEF EngineIsTyped, PricedQueue
  <2>2. CASE ~(n <= Len(targets))
    <3> DEFINE k == n - Len(targets)
    <3>1. k \in 1..Len(r.targets) /\ n = Len(targets) + k
      BY <1>2, <2>2
    <3> HIDE DEF k
    <3>2. targets'[n] = Eng!Stamp(now, r.targets[k])
      BY <1>2, <3>1
    <3>. QED BY <1>4, <3>1, <3>2, StampIsTyped DEF EngineIsTyped
  <2>. QED BY <2>1, <2>2
<1>5. /\ tick_symbols' \subseteq Symbols
      /\ bar_keys' \subseteq Eng!BarKeys
  BY ReactionsAssumption DEF Eng!Callback, EngineIsTyped, Eng!TypeOK, Eng!BarKeys
<1>. QED BY <1>3, <1>4, <1>5 DEF PricedQueue

LEMMA LastBars ==
  ASSUME NEW S, NEW q \in Seq(S), NEW n \in Nat
  PROVE  /\ Eng!LastN(q, n) \in Seq(S)
         /\ Len(Eng!LastN(q, n)) = IF Len(q) > n THEN n ELSE Len(q)
         /\ \A k \in 1..Len(Eng!LastN(q, n)) :
              Eng!LastN(q, n)[k] = q[Len(q) - Len(Eng!LastN(q, n)) + k]
<1> DEFINE len == Len(q)
           from == IF len > n THEN len - n + 1 ELSE 1
           t == SubSeq(q, from, len)
<1>1. len \in Nat /\ \A k \in 1..len : q[k] \in S
  BY LenProperties, ElementOfSeq
<1>2. /\ from \in 1..(len + 1) /\ len - from + 1 = IF len > n THEN n ELSE len
      /\ \A k \in from..len : k \in 1..len
  BY <1>1
<1> HIDE DEF len, from
<1>3. \A k \in from..len : q[k] \in S
  BY <1>1, <1>2
<1>4. /\ t \in Seq(S)
      /\ Len(t) = IF from <= len THEN len - from + 1 ELSE 0
      /\ \A k \in 1..len - from + 1 : t[k] = q[from + k - 1]
  BY <1>1, <1>2, <1>3, SubSeqProperties
<1>5. Len(t) = len - from + 1 /\ \A k \in 1..Len(t) : from + k - 1 = len - Len(t) + k
  BY <1>1, <1>2, <1>4
<1>6. \A k \in 1..Len(t) : t[k] = q[len - Len(t) + k]
  BY <1>4, <1>5
<1>7. Eng!LastN(q, n) = t
  BY DEF Eng!LastN, from, len
<1> HIDE DEF t
<1>. QED BY <1>2, <1>4, <1>5, <1>6, <1>7 DEF len

\* The bar that enters its series.
LEMMA PushIsTyped ==
  ASSUME EngineIsTyped, NEW kline, kline.symbol \in Symbols, kline.interval \in Intervals,
         bars' = Eng!PushBar(bars, kline)
  PROVE  /\ DOMAIN bars' \subseteq Eng!BarKeys
         /\ \A key \in DOMAIN bars' :
              /\ bars'[key] \in Seq(Elements(bars'[key]))
              /\ Len(bars'[key]) <= MaxBars
              /\ \A n \in 1..Len(bars'[key]) : Eng!BarKey(bars'[key][n]) = key
<1> DEFINE key == Eng!BarKey(kline)
           old == Eng!Cached(bars, key)
           all == Append(old, kline)
           new == Eng!LastN(all, MaxBars)
<1>1. key \in Eng!BarKeys
  BY DEF Eng!BarKeys, Eng!BarKey
<1>2. /\ old \in Seq(Elements(old))
      /\ \A n \in 1..Len(old) : Eng!BarKey(old[n]) = key
  <2>1. CASE key \in DOMAIN bars
    BY <2>1 DEF Eng!Cached, EngineIsTyped, Eng!TypeOK
  <2>2. CASE key \notin DOMAIN bars
    <3>1. old = <<>>
      BY <2>2 DEF Eng!Cached
    <3> HIDE DEF old
    <3>. QED BY <3>1
  <2>. QED BY <2>1, <2>2
<1>3. bars' = Eng!Insert(bars, key, new)
  BY DEF Eng!PushBar
<1>4. Eng!BarKey(kline) = key
  OBVIOUS
<1> HIDE DEF old, key
<1>5. /\ all \in Seq(Elements(all)) /\ Len(old) \in Nat /\ Len(all) = Len(old) + 1
      /\ \A n \in 1..Len(old) : all[n] = old[n]
      /\ all[Len(old) + 1] = kline
  BY <1>2, AppendElement
<1>6. ASSUME NEW n \in 1..Len(all)
      PROVE  Eng!BarKey(all[n]) = key
  <2>1. n \in 1..Len(old) \/ n = Len(old) + 1
    BY <1>5
  <2>. QED BY <1>2, <1>4, <1>5, <2>1
<1> HIDE DEF all
<1>7. /\ new \in Seq(Elements(all))
      /\ Len(new) = IF Len(all) > MaxBars THEN MaxBars ELSE Len(all)
      /\ \A k \in 1..Len(new) : new[k] = all[Len(all) - Len(new) + k]
  BY <1>5, LastBars, LimitsAssumption
<1> HIDE DEF new
<1>8. new \in Seq(Elements(new)) /\ Len(new) \in Nat /\ Len(new) <= Len(all) /\ Len(new) <= MaxBars
  BY <1>5, <1>7, ElementsOfSeq, LimitsAssumption
<1>9. ASSUME NEW n \in 1..Len(new)
      PROVE  Eng!BarKey(new[n]) = key
  <2>1. Len(all) - Len(new) + n \in 1..Len(all)
    BY <1>5, <1>8
  <2>. QED BY <1>6, <1>7, <2>1
<1>10. /\ DOMAIN bars' = DOMAIN bars \cup {key}
       /\ \A other \in DOMAIN bars' : bars'[other] = IF other = key THEN new ELSE bars[other]
  BY <1>3 DEF Eng!Insert
<1>. QED BY <1>1, <1>8, <1>9, <1>10 DEF EngineIsTyped, Eng!TypeOK

LEMMA EventIsTyped ==
  ASSUME EngineIsTyped, NEW r \in Reactions, NEW e, IsPriced(e), Eng!OnEvent(e, r)
  PROVE  EngineIsTyped'
<1>1. Eng!IsEvent(e)
  BY DEF IsPriced
<1>2. CASE Eng!OnTick(e, r)
  <2>1. e.tick.ts_event \in Int /\ UNCHANGED <<engine_positions, bars>>
    BY <1>1, <1>2 DEF Eng!OnTick, Eng!IsEvent, Eng!IsBar
  <2>2. CASE Eng!Callback(e.tick.ts_event, r)
    BY <2>1, <2>2, CallbackIsTyped DEF EngineIsTyped, Eng!TypeOK, PricedQueue, Elements
  <2>3. CASE UNCHANGED <<Eng!subscriptions, targets>>
    BY <2>1, <2>3 DEF EngineIsTyped, Eng!TypeOK, PricedQueue, Elements, Eng!subscriptions
  <2>. QED BY <1>2, <2>2, <2>3 DEF Eng!OnTick
<1>3. CASE Eng!OnKline(e, r)
  <2>1. /\ e.kline.symbol \in Symbols /\ e.kline.interval \in Intervals
        /\ e.kline.close_time \in Int
        /\ bars' = Eng!PushBar(bars, e.kline) /\ UNCHANGED engine_positions
    BY <1>1, <1>3 DEF Eng!OnKline, Eng!IsEvent, Eng!IsBar
  <2>2. /\ DOMAIN bars' \subseteq Eng!BarKeys
        /\ \A key \in DOMAIN bars' :
             /\ bars'[key] \in Seq(Elements(bars'[key]))
             /\ Len(bars'[key]) <= MaxBars
             /\ \A n \in 1..Len(bars'[key]) : Eng!BarKey(bars'[key][n]) = key
    BY <2>1, PushIsTyped
  <2>3. CASE Eng!Callback(e.kline.close_time, r)
    <3>1. /\ targets' \in Seq(Eng!TargetPositions) /\ PricedQueue(targets')
          /\ tick_symbols' \subseteq Symbols /\ bar_keys' \subseteq Eng!BarKeys
      BY <2>1, <2>3, CallbackIsTyped
    <3>. QED BY <2>1, <2>2, <3>1 DEF EngineIsTyped, Eng!TypeOK, PricedQueue, Elements, Eng!BarKey
  <2>4. CASE UNCHANGED <<Eng!subscriptions, targets>>
    BY <2>1, <2>2, <2>4 DEF EngineIsTyped, Eng!TypeOK, PricedQueue, Elements, Eng!subscriptions,
                            Eng!BarKey
  <2>. QED BY <1>3, <2>3, <2>4 DEF Eng!OnKline
<1>4. CASE Eng!OnSchedule(e, r)
  <2>1. e.event.ts \in Int /\ UNCHANGED <<engine_positions, bars>> /\ Eng!Callback(e.event.ts, r)
    BY <1>1, <1>4 DEF Eng!OnSchedule, Eng!IsEvent, Eng!IsBar
  <2>. QED BY <2>1, CallbackIsTyped DEF EngineIsTyped, Eng!TypeOK, PricedQueue, Elements
<1>5. CASE Eng!Ignore(e)
  BY <1>5 DEF Eng!Ignore, Eng!vars, Eng!subscriptions, EngineIsTyped, Eng!TypeOK, PricedQueue, Elements
<1>. QED BY <1>2, <1>3, <1>4, <1>5 DEF Eng!OnEvent
-----------------------------------------------------------------------------
PricesAreTyped ==
  /\ DOMAIN last_prices \subseteq Symbols
  /\ \A s \in DOMAIN last_prices : IsDecimal(last_prices[s])

LoopIsTyped ==
  /\ \A n \in 1..Len(events) : IsPriced(events[n])
  /\ PricesAreTyped
  /\ PricedQueue(pending)
  /\ pc \in {"initialize", "replay", "drain", "fill", "done", "failed"}
  /\ pc = "done" => pending = <<>> /\ (targets # <<>> => i = 1)
  /\ pc = "failed" <=> IsSome(error)

TypedInv == AccountIsTyped /\ EngineIsTyped /\ LoopIsTyped

LEMMA TypedInit == Init => TypedInv
<1> SUFFICES ASSUME Init PROVE TypedInv
  OBVIOUS
<1>1. AccountIsTyped
  <2>1. IsDecimal(Zero) /\ IsDecimal(InitialBalance)
    BY FractionOfInt, MoneyAssumption DEF Zero
  <2>2. /\ positions = [k \in {} |-> <<>>] /\ balance = InitialBalance /\ realized_pnl = Zero
        /\ fee_total = Zero /\ trades = <<>> /\ equity = <<>>
    BY SameDecimals DEF Init, Pf!Init, Pf!EmptyMap, Pf!None
  <2>3. IsFiniteSet(DOMAIN positions) /\ DOMAIN positions = {}
    BY <2>2, FS_EmptySet
  <2>. QED BY <2>1, <2>2, <2>3 DEF AccountIsTyped, BookIsTyped, MoneyIsTyped, TradesAreTyped, CurveIsTyped
<1>2. EngineIsTyped
  BY DEF Init, Eng!Init, Eng!EmptyMap, EngineIsTyped, Eng!TypeOK, PricedQueue
<1>3. LoopIsTyped
  BY EventsAssumption DEF Init, LoopIsTyped, PricesAreTyped, PricedQueue, EmptyMap, IsSome
<1>. QED BY <1>1, <1>2, <1>3 DEF TypedInv

LEMMA AccountStays ==
  ASSUME AccountIsTyped, UNCHANGED portfolio
  PROVE  AccountIsTyped'
BY DEF portfolio, AccountIsTyped, BookIsTyped, MoneyIsTyped, TradesAreTyped, CurveIsTyped, Elements

LEMMA EngineStays ==
  ASSUME EngineIsTyped, UNCHANGED engine
  PROVE  EngineIsTyped'
BY DEF engine, EngineIsTyped, Eng!TypeOK, PricedQueue, Elements

\* The prices an event shows are Decimals.
LEMMA PriceIsTyped ==
  ASSUME PricesAreTyped, NEW e, IsPriced(e), e.type \in EventTypes,
         last_prices' = UpdateLastPrice(e, last_prices)
  PROVE  PricesAreTyped'
<1>1. ASSUME NEW s \in Symbols, NEW p, IsDecimal(p), last_prices' = Insert(last_prices, s, p)
      PROVE  PricesAreTyped'
  BY <1>1 DEF PricesAreTyped, Insert
<1>2. CASE e.type = "tick"
  BY <1>1, <1>2 DEF UpdateLastPrice, IsPriced, Eng!IsEvent, Eng!IsBar
<1>3. CASE e.type \in {"kline", "bar_closed"}
  BY <1>1, <1>3 DEF UpdateLastPrice, IsPriced, Eng!IsEvent, Eng!IsBar
<1>4. CASE e.type = "book_ticker"
  <2> DEFINE bid == e.book_ticker.bid_price
             ask == e.book_ticker.ask_price
  <2>1. IsDecimal(bid) /\ IsDecimal(ask) /\ e.book_ticker.symbol \in Symbols
    BY <1>4 DEF IsPriced, Eng!IsEvent, Eng!IsBar
  <2>2. last_prices' = Insert(last_prices, e.book_ticker.symbol, (bid ++ ask) // Dec(2))
    BY <1>4 DEF UpdateLastPrice
  <2>3. IsDecimal(Dec(2)) /\ Dec(2)[1] # 0
    BY FractionOfInt DEF Dec
  <2>4. IsDecimal(bid ++ ask)
    BY <2>1, DecimalClosed
  <2> HIDE DEF bid, ask
  <2>5. IsDecimal((bid ++ ask) // Dec(2))
    BY <2>3, <2>4, DecimalClosed
  <2>. QED BY <1>1, <2>1, <2>2, <2>5
<1>5. CASE e.type \in {"schedule", "session"}
  BY <1>5 DEF UpdateLastPrice, PricesAreTyped
<1>. QED BY <1>2, <1>3, <1>4, <1>5 DEF EventTypes

LEMMA TypedStart ==
  ASSUME TypedInv, OrderInv, StampsInv, NEW r \in Reactions, Start(r)
  PROVE  TypedInv'
<1>1. /\ pc = "initialize" /\ events \in Inputs /\ pending = <<>>
      /\ Eng!Callback(InitTime, r) /\ UNCHANGED <<engine_positions, bars>>
      /\ UNCHANGED <<portfolio, pending, last_prices>>
  BY DEF Start, OrderInv, StampsInv, Eng!Initialize
<1>2. EngineIsTyped'
  BY <1>1, CallbackIsTyped, LimitsAssumption DEF TypedInv, EngineIsTyped, Eng!TypeOK, PricedQueue, Elements
<1>3. \A n \in 1..Len(events') : IsPriced(events'[n])
  <2> DEFINE S == {e \in Range(events) : EventTs(e) \in Int}
  <2>1. events \in Seq(S)
    BY <1>1, InputsAssumption
  <2>2. \A n \in 1..Len(events) : EventTs(events[n]) \in Int /\ IsPriced(events[n])
    BY <1>1, <2>1, ElementOfSeq, EventsAssumption
  <2>3. CASE events' = StableSort(events)
    <3> HIDE DEF S
    <3>1. /\ Len(events') = Len(events)
          /\ \E place \in Bijection(1..Len(events), 1..Len(events)) :
               \A k \in 1..Len(events) : events'[k] = events[place[k]]
      BY <2>1, <2>2, <2>3, StableSortProperties
    <3>2. PICK place \in Bijection(1..Len(events), 1..Len(events)) :
            \A k \in 1..Len(events) : events'[k] = events[place[k]]
      BY <3>1
    <3>3. place \in [1..Len(events) -> 1..Len(events)]
      BY DEF Bijection, Injection
    <3>. QED BY <2>2, <3>1, <3>2, <3>3
  <2>4. CASE events' = events
    BY <2>2, <2>4
  <2>. QED BY <2>3, <2>4 DEF Start
<1>4. PricesAreTyped' /\ PricedQueue(pending')
  BY <1>1 DEF TypedInv, LoopIsTyped, PricesAreTyped, PricedQueue
<1>5. /\ pc' \in {"replay", "failed"}
      /\ pc' = "failed" <=> IsSome(error')
  BY <1>1 DEF Start, TypedInv, LoopIsTyped, IsSome, None, Some
<1>6. LoopIsTyped'
  BY <1>3, <1>4, <1>5 DEF LoopIsTyped, IsPriced, PricedQueue
<1>. QED BY <1>1, <1>2, <1>6, AccountStays DEF TypedInv

LEMMA TypedDispatch ==
  ASSUME TypedInv, OrderInv, StampsInv, NEW r \in Reactions, Dispatch(r)
  PROVE  TypedInv'
<1>1. /\ pc = "replay" /\ i \in 1..Len(events) /\ pending = <<>>
      /\ last_prices' = UpdateLastPrice(events[i], last_prices)
      /\ Eng!OnEvent(events[i], r)
      /\ UNCHANGED <<portfolio, events, i, pending>>
  BY DEF Dispatch, SeePrice, OrderInv, StampsInv
<1>2. IsPriced(events[i])
  BY <1>1 DEF TypedInv, LoopIsTyped
<1>3. EngineIsTyped'
  BY <1>1, <1>2, EventIsTyped DEF TypedInv
<1>4. events[i].type \in EventTypes
  BY <1>1 DEF Eng!OnEvent, Eng!OnTick, Eng!OnKline, Eng!OnSchedule, Eng!Ignore, Eng!IsBar, EventTypes
<1>5. PricesAreTyped'
  BY <1>1, <1>2, <1>4, PriceIsTyped DEF TypedInv, LoopIsTyped
<1>6. /\ pc' \in {"drain", "failed"}
      /\ pc' = "failed" <=> IsSome(error')
  BY <1>1 DEF Dispatch, TypedInv, LoopIsTyped, IsSome, None, Some
<1>7. LoopIsTyped'
  BY <1>1, <1>5, <1>6 DEF TypedInv, LoopIsTyped, IsPriced, PricedQueue
<1>. QED BY <1>1, <1>3, <1>7, AccountStays DEF TypedInv

LEMMA TypedFill ==
  ASSUME TypedInv, AccountsInv, FillTarget
  PROVE  TypedInv'
<1> DEFINE t == Head(pending)
           price == FillPrice(t)[1]
<1>1. /\ pc = "fill" /\ pending # <<>> /\ IsSome(FillPrice(t))
      /\ Pf!ExecuteTarget(t, price) /\ Eng!SetPosition(t.symbol, t.target_qty)
      /\ pending' = Tail(pending)
      /\ UNCHANGED <<pc, events, i, last_prices, error>>
  BY DEF FillTarget
<1>2. t.symbol \in Symbols /\ t.target_qty \in Int
  BY <1>1, QueueTail DEF AccountsInv
<1>3. pending \in Seq(Elements(pending)) /\ Len(pending) \in Nat /\ Len(pending) > 0 /\ t = pending[1]
  BY <1>1 DEF AccountsInv, IsQueue
<1>4. IsDecimal(price)
  <2>1. CASE IsSome(t.signal_price)
    BY <1>3, <2>1 DEF FillPrice, TypedInv, LoopIsTyped, PricedQueue
  <2>2. CASE ~IsSome(t.signal_price)
    BY <1>1, <2>2 DEF FillPrice, Get, IsSome, Some, None, TypedInv, LoopIsTyped, PricesAreTyped
  <2>. QED BY <2>1, <2>2
<1> HIDE DEF t, price
<1>5. AccountIsTyped'
  BY <1>1, <1>2, <1>4, FillIsTyped DEF TypedInv
<1>6. EngineIsTyped'
  BY <1>1, <1>2 DEF Eng!SetPosition, Eng!subscriptions, Eng!Insert, TypedInv, EngineIsTyped, Eng!TypeOK,
                    PricedQueue, Elements
<1>7. PricedQueue(pending')
  <2>1. /\ Len(pending') = Len(pending) - 1
        /\ \A n \in 1..Len(pending') : pending'[n] = pending[n + 1]
    BY <1>1, <1>3, HeadTailProperties
  <2>2. \A n \in 1..Len(pending') : n + 1 \in 1..Len(pending)
    BY <1>3, <2>1
  <2>. QED BY <2>1, <2>2 DEF TypedInv, LoopIsTyped, PricedQueue
<1>8. LoopIsTyped'
  BY <1>1, <1>7 DEF TypedInv, LoopIsTyped, PricesAreTyped, IsPriced, PricedQueue
<1>. QED BY <1>5, <1>6, <1>8 DEF TypedInv

LEMMA TypedStep ==
  ASSUME TypedInv, AccountsInv, OrderInv, StampsInv, [Next]_vars
  PROVE  TypedInv'
<1>1. CASE Drain
  <2>1. /\ pc = "drain" /\ pc' = "fill" /\ pending' = targets /\ Eng!DrainTargets
        /\ UNCHANGED <<portfolio, events, i, last_prices, error>>
    BY <1>1 DEF Drain
  <2>2. EngineIsTyped'
    BY <2>1 DEF Eng!DrainTargets, Eng!subscriptions, TypedInv, EngineIsTyped, Eng!TypeOK, PricedQueue, Elements
  <2>3. LoopIsTyped'
    BY <2>1 DEF TypedInv, EngineIsTyped, LoopIsTyped, PricesAreTyped, IsPriced, PricedQueue
  <2>. QED BY <2>1, <2>2, <2>3, AccountStays DEF TypedInv
<1>2. CASE MissFillPrice
  <2>1. /\ pc = "fill" /\ pc' = "failed" /\ IsSome(error')
        /\ UNCHANGED <<engine, portfolio, events, i, pending, last_prices>>
    BY <1>2 DEF MissFillPrice, IsSome, Some, None
  <2>2. LoopIsTyped'
    BY <2>1 DEF TypedInv, LoopIsTyped, PricesAreTyped, IsPriced, PricedQueue
  <2>. QED BY <2>1, <2>2, AccountStays, EngineStays DEF TypedInv
<1>3. CASE Mark
  <2>1. /\ pc = "fill" /\ pc' = "replay"
        /\ Pf!MarkToMarket(EventTs(events[i]), last_prices)
        /\ UNCHANGED <<engine, events, pending, last_prices, error>>
    BY <1>3 DEF Mark
  <2>2. AccountIsTyped'
    BY <2>1, MarkIsTyped DEF TypedInv, LoopIsTyped, PricesAreTyped
  <2>3. LoopIsTyped'
    BY <2>1 DEF TypedInv, LoopIsTyped, PricesAreTyped, IsPriced, PricedQueue
  <2>. QED BY <2>1, <2>2, <2>3, EngineStays DEF TypedInv
<1>4. CASE Finish
  <2>1. /\ pc = "replay" /\ pc' = "done"
        /\ UNCHANGED <<engine, portfolio, events, i, pending, last_prices, error>>
    BY <1>4 DEF Finish
  <2>2. pending = <<>> /\ (targets # <<>> => i = 1)
    BY <2>1 DEF StampsInv, Opening
  <2>3. LoopIsTyped'
    BY <2>1, <2>2 DEF TypedInv, LoopIsTyped, PricesAreTyped, IsPriced, PricedQueue, engine
  <2>. QED BY <2>1, <2>3, AccountStays, EngineStays DEF TypedInv
<1>5. CASE UNCHANGED vars
  <2>1. UNCHANGED <<engine, portfolio, pc, events, i, pending, last_prices, error>>
    BY <1>5 DEF vars, control
  <2>2. LoopIsTyped'
    BY <2>1 DEF TypedInv, LoopIsTyped, PricesAreTyped, IsPriced, PricedQueue, engine
  <2>. QED BY <2>1, <2>2, AccountStays, EngineStays DEF TypedInv
<1>. QED BY <1>1, <1>2, <1>3, <1>4, <1>5, TypedStart, TypedDispatch, TypedFill DEF Next, Settle

\* The types are those the portfolio states.
LEMMA AccountMeansTypes == AccountIsTyped => Pf!TypeOK
<1> SUFFICES ASSUME AccountIsTyped PROVE Pf!TypeOK
  OBVIOUS
<1>. QED BY SameDecimals DEF AccountIsTyped, BookIsTyped, MoneyIsTyped, TradesAreTyped,
                             CurveIsTyped, IsHeld, Pf!TypeOK, Pf!IsSome, Pf!None

\* For every strategy, input and cache limit the state of the loop is
\* well-typed: the accounting never leaves the decimals, no series outgrows
\* its limit, and targets wait only where the loop is at.
THEOREM BacktestTypeCorrectness == Spec => []TypeOK
<1> DEFINE Inv == TypedInv /\ AccountsInv /\ OrderInv /\ StampsInv
<1>1. Init => Inv
  BY TypedInit, AccountsInit, OrderInit, StampsInit
<1>2. Inv /\ [Next]_vars => Inv'
  BY TypedStep, AccountsStep, OrderStep, StampsStep
<1>3. Inv => TypeOK
  <2> SUFFICES ASSUME Inv PROVE TypeOK
    OBVIOUS
  <2>1. targets # <<>> => pc # "fill" /\ (pc \in {"replay", "done"} => i = 1)
    BY DEF TypedInv, LoopIsTyped, StampsInv, Opening
  <2>2. pending # <<>> => pc \in {"fill", "failed"}
    BY DEF TypedInv, LoopIsTyped, StampsInv
  <2>. QED BY <2>1, <2>2, AccountMeansTypes DEF TypedInv, EngineIsTyped, LoopIsTyped, PricesAreTyped,
                                                OrderInv, TypeOK
<1>. QED BY <1>1, <1>2, <1>3, PTL DEF Spec
-----------------------------------------------------------------------------
\* Trades are made by FillTarget alone, at the price FillPrice gives.
LEMMA FillsAtLatest ==
  ASSUME AccountsInv, PricesInv, TypedInv, FillTarget, trades' # trades
  PROVE  FilledAtLatest
<1> DEFINE t == Head(pending)
           price == FillPrice(t)
<1>1. /\ pc = "fill" /\ pending # <<>> /\ IsSome(price)
      /\ Pf!ExecuteTarget(t, price[1])
  BY DEF FillTarget
<1>2. t.symbol \in Symbols
  BY <1>1, QueueTail DEF AccountsInv
<1>3. price = IF IsSome(t.signal_price) THEN t.signal_price ELSE LatestPrice(t.symbol, i)
  BY <1>1, <1>2 DEF FillPrice, PricesInv, PricesAreLatest
<1>4. Pf!Fill(t, price[1])
  BY <1>1 DEF Pf!ExecuteTarget, Pf!AlreadyThere, Pf!vars
<1> DEFINE diff == t.target_qty - Pf!PositionOf(t.symbol).qty
           side == IF diff > 0 THEN "Buy" ELSE "Sell"
           fill == Pf!ApplySlippage(price[1], side)
           trade == [ts_trade |-> t.ts, symbol |-> t.symbol, side |-> side,
                     price |-> fill, qty |-> Pf!Abs(diff),
                     fee |-> Pf!**(Pf!**(Pf!Dec(Pf!Abs(diff)), fill), FeeRate),
                     realized_pnl |-> Pf!Realized(Pf!PositionOf(t.symbol), diff, fill),
                     order_id |-> order_seq']
<1>5. trades' = Append(trades, trade)
  BY <1>4 DEF Pf!Fill
<1>6. trade.symbol = t.symbol /\ trade.side = side /\ trade.price = fill
  OBVIOUS
<1> HIDE DEF trade
<1>7. trades'[Len(trades')] = trade
  <2>1. trades \in Seq(Elements(trades))
    BY DEF TypedInv, AccountIsTyped, TradesAreTyped
  <2>. QED BY <1>5, <2>1, AppendElement
<1>. QED BY <1>1, <1>3, <1>6, <1>7 DEF FilledAtLatest

\* The map of last prices and the prices shown last value an account alike.
LEMMA ValuesAgree ==
  ASSUME TypedInv, PricesInv, pc = "fill"
  PROVE  Pf!Unrealized(last_prices) = Pf!Unrealized(LatestPrices)
<1>1. DOMAIN positions \subseteq Symbols
  BY DEF TypedInv, AccountIsTyped, BookIsTyped
<1>2. ASSUME NEW s \in Symbols
      PROVE  /\ s \in DOMAIN last_prices <=> s \in DOMAIN LatestPrices
             /\ s \in DOMAIN last_prices => last_prices[s] = LatestPrices[s]
  <2>1. Get(last_prices, s) = LatestPrice(s, i)
    BY DEF PricesInv, PricesAreLatest
  <2>2. /\ s \in DOMAIN last_prices <=> IsSome(LatestPrice(s, i))
        /\ s \in DOMAIN last_prices => last_prices[s] = LatestPrice(s, i)[1]
    BY <2>1 DEF Get, IsSome, Some, None
  <2>. QED BY <2>2 DEF LatestPrices
<1> DEFINE marked == Pf!Marked(last_prices)
           f(prices) == [s \in marked |->
                          Pf!**(Pf!--(prices[s], positions[s].avg_entry_price[1]),
                                Pf!Dec(positions[s].qty))]
<1>3. Pf!Marked(LatestPrices) = marked
  BY <1>1, <1>2 DEF Pf!Marked
<1>4. \A s \in marked : last_prices[s] = LatestPrices[s]
  BY <1>1, <1>2 DEF Pf!Marked
<1>5. /\ Pf!Unrealized(last_prices) = Pf!SumOver(f(last_prices), marked)
      /\ Pf!Unrealized(LatestPrices) = Pf!SumOver(f(LatestPrices), marked)
  BY <1>3 DEF Pf!Unrealized
<1> HIDE DEF marked
<1>6. f(last_prices) = f(LatestPrices)
  BY <1>4
<1>. QED BY <1>5, <1>6

\* Equity points are made by Mark alone, at the prices of the map.
LEMMA MarksAtLatest ==
  ASSUME PricesInv, TypedInv, Mark
  PROVE  equity'[Len(equity')].equity = balance ++ Pf!Unrealized(LatestPrices)
<1> DEFINE point == [ts |-> EventTs(events[i]), balance |-> balance,
                     equity |-> balance ++ Pf!Unrealized(last_prices),
                     realized_pnl |-> realized_pnl,
                     unrealized_pnl |-> Pf!Unrealized(last_prices),
                     fee_total |-> fee_total, marks |-> last_prices,
                     held |-> [s \in Symbols |-> Pf!PositionOf(s).qty]]
<1>1. pc = "fill" /\ equity' = Append(equity, point)
  BY SameDecimals DEF Mark, Pf!MarkToMarket
<1>2. point.equity = balance ++ Pf!Unrealized(last_prices)
  OBVIOUS
<1> HIDE DEF point
<1>3. equity'[Len(equity')] = point
  <2>1. equity \in Seq(Elements(equity))
    BY DEF TypedInv, AccountIsTyped, CurveIsTyped
  <2>. QED BY <1>1, <2>1, AppendElement
<1>. QED BY <1>1, <1>2, <1>3, ValuesAgree

\* For every strategy and every input: a fill is at the price its strategy
\* gave or at the latest one shown, and equity is valued at the latest prices.
THEOREM PriceCorrectness == Spec => NoLookAhead
<1> DEFINE Inv == TypedInv /\ AccountsInv /\ OrderInv /\ StampsInv /\ PricesInv
           Step == /\ trades' # trades => FilledAtLatest
                   /\ equity' # equity =>
                        equity'[Len(equity')].equity = balance ++ Pf!Unrealized(LatestPrices)
<1>1. Init => Inv
  BY TypedInit, AccountsInit, OrderInit, StampsInit, PricesInit
<1>2. Inv /\ [Next]_vars => Inv'
  BY TypedStep, AccountsStep, OrderStep, StampsStep, PricesStep
<1>3. Inv /\ [Next]_vars => [Step]_vars
  <2> SUFFICES ASSUME Inv, Next PROVE Step
    OBVIOUS
  <2>1. ASSUME NEW r \in Reactions, Start(r) \/ Dispatch(r)
        PROVE  trades' = trades /\ equity' = equity
    BY <2>1 DEF Start, Dispatch, portfolio
  <2>2. CASE Drain \/ MissFillPrice \/ Finish
    <3>1. trades' = trades /\ equity' = equity
      BY <2>2 DEF Drain, MissFillPrice, Finish, portfolio
    <3>. QED BY <3>1
  <2>3. CASE FillTarget
    <3>1. equity' = equity
      BY <2>3 DEF FillTarget, Pf!ExecuteTarget, Pf!Fill, Pf!AlreadyThere, Pf!vars
    <3>. QED BY <2>3, <3>1, FillsAtLatest
  <2>4. CASE Mark
    <3>1. trades' = trades
      BY <2>4 DEF Mark, Pf!MarkToMarket
    <3>. QED BY <2>4, <3>1, MarksAtLatest
  <2>. QED BY <2>1, <2>2, <2>3, <2>4 DEF Next, Settle
<1>4. (Init /\ [][Next]_vars) => [][Step]_vars
  BY <1>1, <1>2, <1>3, PTL
<1>. QED BY <1>4 DEF Spec, NoLookAhead
-----------------------------------------------------------------------------
\* The loop implements Intent: what is held, changed by the targets on their
\* way, is what the strategy last asked for.
Held == [s \in Symbols |-> Pf!PositionOf(s).qty]

\* The places of the targets for a symbol.
Asked(q, s) == {n \in 1..Len(q) : q[n].symbol = s}

LEMMA SameMax == \A T : N!Max(T) = Max(T)
BY DEF N!Max, Max

LEMMA AfterIs ==
  ASSUME NEW Q, NEW q, NEW s \in Symbols
  PROVE  N!After(Q, q)[s] =
           IF Asked(q, s) = {} THEN Q[s] ELSE q[Max(Asked(q, s))].target_qty
BY SameMax DEF N!After, Asked

LEMMA AfterEqual ==
  ASSUME NEW Q, NEW q, NEW R, NEW r,
         \A s \in Symbols : N!After(Q, q)[s] = N!After(R, r)[s]
  PROVE  N!After(Q, q) = N!After(R, r)
<1> DEFINE f == N!After(Q, q)
           g == N!After(R, r)
<1>1. f = [s \in Symbols |-> f[s]] /\ g = [s \in Symbols |-> g[s]]
  BY DEF N!After
<1> HIDE DEF f, g
<1>2. f = g
  BY <1>1 DEF f, g
<1>. QED BY <1>2 DEF f, g

LEMMA WantedIs == Wanted = N!After(Held, pending \o targets)
<1> DEFINE f == N!After(Held, pending \o targets)
<1>1. f = [s \in Symbols |-> f[s]]
  BY DEF N!After
<1>2. ASSUME NEW s \in Symbols
      PROVE  Wanted[s] = f[s]
  <2> DEFINE q == pending \o targets
  <2>1. Wanted[s] = IF Asked(q, s) = {} THEN Held[s] ELSE q[Max(Asked(q, s))].target_qty
    BY DEF Wanted, Held, Asked
  <2> HIDE DEF q
  <2>2. N!After(Held, q)[s] =
          IF Asked(q, s) = {} THEN Held[s] ELSE q[Max(Asked(q, s))].target_qty
    BY AfterIs
  <2>. QED BY <2>1, <2>2 DEF q
<1> HIDE DEF f
<1>3. Wanted = [s \in Symbols |-> Wanted[s]]
  BY DEF Wanted
<1>. QED BY <1>1, <1>2, <1>3 DEF f

\* The last target for a symbol is among the later ones if any of them is for
\* the symbol.
LEMMA AfterMore ==
  ASSUME NEW Q, NEW p, NEW r, NEW q,
         Len(p) \in Nat, Len(r) \in Nat, Len(q) = Len(p) + Len(r),
         \A n \in 1..Len(p) : q[n] = p[n],
         \A n \in 1..Len(r) : /\ q[Len(p) + n].symbol = r[n].symbol
                              /\ q[Len(p) + n].target_qty = r[n].target_qty
  PROVE  N!After(Q, q) = N!After(N!After(Q, p), r)
<1> SUFFICES ASSUME NEW s \in Symbols
             PROVE  N!After(Q, q)[s] = N!After(N!After(Q, p), r)[s]
  BY AfterEqual
<1> DEFINE asked(x) == Asked(x, s)
           len == Len(p)
<1>0. \A x : asked(x) = {n \in 1..Len(x) : x[n].symbol = s}
  BY DEF Asked
<1>1. \A R, x : N!After(R, x)[s] = IF asked(x) = {} THEN R[s] ELSE x[Max(asked(x))].target_qty
  BY AfterIs
<1> HIDE DEF asked
<1>2. CASE asked(r) = {}
  <2>1. asked(q) = asked(p)
    <3>1. ASSUME NEW n \in 1..Len(q)
          PROVE  n \in asked(q) <=> n \in asked(p)
      <4>1. CASE n \in 1..len
        BY <1>0, <4>1
      <4>2. CASE n \notin 1..len
        <5> DEFINE k == n - len
        <5>1. k \in 1..Len(r) /\ len + k = n
          BY <4>2
        <5> HIDE DEF k
        <5>2. q[n].symbol = r[k].symbol /\ r[k].symbol # s
          BY <1>0, <1>2, <5>1
        <5>. QED BY <1>0, <4>2, <5>2
      <4>. QED BY <4>1, <4>2
    <3>2. asked(p) \subseteq 1..Len(q) /\ asked(q) \subseteq 1..Len(q)
      BY <1>0
    <3>. QED BY <3>1, <3>2
  <2>2. ASSUME asked(p) # {}
        PROVE  q[Max(asked(p))] = p[Max(asked(p))]
    <3>1. asked(p) \subseteq Int /\ len \in Int /\ \A n \in asked(p) : n <= len
      BY <1>0
    <3>2. Max(asked(p)) \in asked(p)
      BY <2>2, <3>1, MaxOfBounded
    <3>. QED BY <1>0, <3>2
  <2>. QED BY <1>1, <1>2, <2>1, <2>2
<1>3. CASE asked(r) # {}
  <2> DEFINE last == Max(asked(r))
             m == len + last
  <2>1. last \in asked(r) /\ \A n \in asked(r) : n <= last
    <3>1. asked(r) \subseteq Int /\ Len(r) \in Int /\ \A n \in asked(r) : n <= Len(r)
      BY <1>0
    <3>. QED BY <1>3, <3>1, MaxOfBounded
  <2>2. last \in 1..Len(r) /\ r[last].symbol = s
    BY <1>0, <2>1
  <2> HIDE DEF last
  <2>3. m \in asked(q) /\ q[m].target_qty = r[last].target_qty
    BY <1>0, <2>2
  <2>4. ASSUME NEW n \in asked(q)
        PROVE  n <= m
    <3>1. n \in 1..Len(q) /\ q[n].symbol = s
      BY <1>0
    <3>2. CASE n \in 1..len
      BY <2>2, <3>2
    <3>3. CASE n \notin 1..len
      <4> DEFINE k == n - len
      <4>1. k \in 1..Len(r) /\ len + k = n
        BY <3>1, <3>3
      <4> HIDE DEF k
      <4>2. k \in asked(r)
        BY <1>0, <3>1, <4>1
      <4>3. k <= last
        BY <2>1, <4>2
      <4>. QED BY <2>2, <4>1, <4>3
    <3>. QED BY <3>2, <3>3
  <2>5. asked(q) \subseteq Int
    BY <1>0
  <2> HIDE DEF m
  <2>6. Max(asked(q)) = m
    BY <2>3, <2>4, <2>5, MaxIs
  <2>. QED BY <1>1, <1>3, <2>3, <2>6 DEF last
<1>. QED BY <1>2, <1>3

LEMMA AfterNone ==
  ASSUME NEW f
  PROVE  N!After([s \in Symbols |-> f[s]], <<>>) = [s \in Symbols |-> f[s]]
BY DEF N!After

\* The first target changes one quantity; the others follow.
LEMMA AfterFirst ==
  ASSUME NEW Q, NEW R, NEW q, IsQueue(q), q # <<>>,
         \A s \in Symbols :
           R[s] = IF s = Head(q).symbol THEN Head(q).target_qty ELSE Q[s]
  PROVE  N!After(Q, q) = N!After(R, Tail(q))
<1> DEFINE h == Head(q)
           p == <<h>>
           t == Tail(q)
<1>1. /\ Len(q) \in Nat /\ h = q[1]
      /\ Len(t) = Len(q) - 1 /\ Len(t) \in Nat
      /\ \A n \in 1..Len(t) : t[n] = q[n + 1]
  <2>1. q \in Seq(Elements(q))
    BY DEF IsQueue
  <2>. QED BY <2>1, LenProperties, HeadTailProperties, EmptySeq
<1>2. Len(p) = 1 /\ p[1] = h
  OBVIOUS
<1> HIDE DEF h, p, t
<1>3. /\ Len(q) = Len(p) + Len(t)
      /\ \A n \in 1..Len(p) : q[n] = p[n]
      /\ \A n \in 1..Len(t) : /\ q[Len(p) + n].symbol = t[n].symbol
                              /\ q[Len(p) + n].target_qty = t[n].target_qty
  BY <1>1, <1>2
<1>4. N!After(Q, q) = N!After(N!After(Q, p), t)
  <2>1. Len(p) \in Nat /\ Len(t) \in Nat
    BY <1>1, <1>2
  <2>. QED BY <1>3, <2>1, AfterMore
<1>5. ASSUME NEW s \in Symbols
      PROVE  N!After(Q, p)[s] = R[s]
  <2> DEFINE asked == Asked(p, s)
  <2>1. N!After(Q, p)[s] = IF asked = {} THEN Q[s] ELSE p[Max(asked)].target_qty
    BY AfterIs
  <2>2. CASE s = h.symbol
    <3>1. asked \subseteq Int /\ 1 \in asked /\ \A n \in asked : n <= 1
      BY <1>2, <2>2 DEF Asked
    <3> HIDE DEF asked
    <3>2. Max(asked) = 1
      BY <3>1, MaxIs
    <3>. QED BY <1>2, <2>1, <2>2, <3>1, <3>2 DEF h
  <2>3. CASE s # h.symbol
    BY <1>2, <2>1, <2>3 DEF h, Asked
  <2>. QED BY <2>2, <2>3
<1>6. N!After(N!After(Q, p), t) = N!After(R, t)
  BY <1>5 DEF N!After
<1>. QED BY <1>4, <1>6 DEF t

LEMMA NothingQueued ==
  ASSUME IsQueue(targets), IsQueue(pending)
  PROVE  /\ pending = <<>> => pending \o targets = targets
         /\ targets = <<>> => pending \o targets = pending
<1>1. targets \in Seq(Elements(targets)) /\ pending \in Seq(Elements(pending))
  BY DEF IsQueue
<1>. QED BY <1>1, ConcatEmptySeq

snapshots == [n \in 1..Len(equity) |-> equity[n].held]
over == pc \in {"done", "failed"}

LEMMA IntentInitially == Init => N!IntentInit
<1> SUFFICES ASSUME Init PROVE N!IntentInit
  OBVIOUS
<1>1. /\ pending = <<>> /\ targets = <<>> /\ equity = <<>> /\ pc = "initialize"
      /\ \A s \in Symbols : Pf!PositionOf(s).qty = 0
  BY DEF Init, Eng!Init, Pf!Init, Pf!PositionOf, Pf!NoPosition, Pf!EmptyMap
<1>2. Wanted = [s \in Symbols |-> 0]
  <2>1. \A s \in Symbols : Wanted[s] = Held[s]
    <3>1. Wanted = N!After(Held, <<>>)
      BY <1>1, EmptyIsQueue, NothingQueued, WantedIs
    <3>. QED BY <3>1, AfterNone DEF Held
  <2>. QED BY <1>1, <2>1 DEF Held, Wanted
<1>3. snapshots = <<>>
  BY <1>1 DEF snapshots
<1>. QED BY <1>1, <1>2, <1>3 DEF N!IntentInit, snapshots

\* What is wanted depends on the queues and the quantities held alone.
LEMMA WantedNext ==
  ASSUME NEW f, \A s \in Symbols : Pf!PositionOf(s)'.qty = f[s]
  PROVE  Wanted' = N!After([s \in Symbols |-> f[s]], (pending \o targets)')
<1> DEFINE R == [s \in Symbols |-> f[s]]
           q == (pending \o targets)'
<1>1. ASSUME NEW s \in Symbols
      PROVE  Wanted'[s] = N!After(R, q)[s]
  <2>1. Wanted'[s] = IF Asked(q, s) = {} THEN f[s] ELSE q[Max(Asked(q, s))].target_qty
    BY DEF Wanted, Asked
  <2> HIDE DEF q
  <2>2. N!After(R, q)[s] = IF Asked(q, s) = {} THEN R[s] ELSE q[Max(Asked(q, s))].target_qty
    BY AfterIs
  <2>. QED BY <2>1, <2>2
<1>2. Wanted' = [s \in Symbols |-> Wanted'[s]]
  BY DEF Wanted
<1>3. N!After(R, q) = [s \in Symbols |-> N!After(R, q)[s]]
  BY DEF N!After
<1> HIDE DEF R, q
<1>4. Wanted' = N!After(R, q)
  BY <1>1, <1>2, <1>3
<1>. QED BY <1>4 DEF R, q

LEMMA HeldKeeps ==
  ASSUME UNCHANGED positions
  PROVE  \A s \in Symbols : Pf!PositionOf(s)'.qty = Held[s]
BY DEF Held, Pf!PositionOf, Pf!NoPosition

\* What is wanted stays while the queues do.
LEMMA WantedKeeps ==
  ASSUME UNCHANGED positions, (pending \o targets)' = pending \o targets
  PROVE  Wanted' = Wanted
<1>1. Wanted' = N!After([s \in Symbols |-> Held[s]], (pending \o targets)')
  BY HeldKeeps, WantedNext
<1>2. [s \in Symbols |-> Held[s]] = Held
  BY DEF Held
<1>. QED BY <1>1, <1>2, WantedIs

\* A callback is the strategy's decision.
LEMMA CallbackDecides ==
  ASSUME NEW r \in Reactions, NEW now, Eng!Callback(now, r),
         IsQueue(targets), IsQueue(targets'), pending = <<>>, UNCHANGED <<positions, pending>>
  PROVE  Wanted' = N!After(Wanted, r.targets)
<1>1. pending \o targets = targets /\ (pending \o targets)' = targets'
  <2>1. IsQueue(pending) /\ pending' = <<>>
    BY EmptyIsQueue
  <2>2. pending \o targets = targets
    BY <2>1, NothingQueued
  <2>3. <<>> \o targets' = targets'
    <3>1. targets' \in Seq(Elements(targets'))
      BY DEF IsQueue
    <3>. QED BY <3>1, ConcatEmptySeq
  <2>. QED BY <2>1, <2>2, <2>3
<1>2. Wanted' = N!After(Held, targets')
  <2>1. Wanted' = N!After([s \in Symbols |-> Held[s]], (pending \o targets)')
    BY HeldKeeps, WantedNext
  <2>2. [s \in Symbols |-> Held[s]] = Held
    BY DEF Held
  <2>. QED BY <1>1, <2>1, <2>2
<1>3. Wanted = N!After(Held, targets)
  BY <1>1, WantedIs
<1>4. /\ Len(targets) \in Nat /\ Len(r.targets) \in Nat
      /\ Len(targets') = Len(targets) + Len(r.targets)
      /\ \A n \in 1..Len(targets) : targets'[n] = targets[n]
      /\ \A n \in 1..Len(r.targets) :
           /\ targets'[Len(targets) + n].symbol = r.targets[n].symbol
           /\ targets'[Len(targets) + n].target_qty = r.targets[n].target_qty
  <2>1. /\ Len(targets) \in Nat /\ Len(r.targets) \in Nat
        /\ Len(targets') = Len(targets) + Len(r.targets)
        /\ \A n \in 1..Len(targets) : targets'[n] = targets[n]
        /\ \A n \in 1..Len(r.targets) :
             targets'[Len(targets) + n] = Eng!Stamp(now, r.targets[n])
    BY CallbackAdds
  <2>2. \A request : /\ Eng!Stamp(now, request).symbol = request.symbol
                     /\ Eng!Stamp(now, request).target_qty = request.target_qty
    BY DEF Eng!Stamp
  <2>. QED BY <2>1, <2>2
<1>5. N!After(Held, targets') = N!After(N!After(Held, targets), r.targets)
  BY <1>4, AfterMore
<1>. QED BY <1>2, <1>3, <1>5

\* A fill moves a quantity from the queue to the book.
LEMMA FillIsStutter ==
  ASSUME AccountsInv, StampsInv, FillTarget
  PROVE  Wanted' = Wanted
<1> DEFINE t == Head(pending)
           R == [s \in Symbols |-> Pf!PositionOf(s)'.qty]
<1>1. /\ pending # <<>> /\ pending' = Tail(pending) /\ targets = <<>> /\ targets' = <<>>
      /\ IsQueue(pending) /\ IsQueue(pending')
      /\ t.symbol \in Symbols /\ t.target_qty \in Int
  BY QueueTail DEF FillTarget, Eng!SetPosition, StampsInv, AccountsInv
<1>2. PICK price : Pf!ExecuteTarget(t, price)
  BY DEF FillTarget
<1>3. \A s \in Symbols : R[s] = IF s = t.symbol THEN t.target_qty ELSE Held[s]
  <2>1. \A s \in Symbols : Pf!PositionOf(s).qty \in Int
    BY DEF AccountsInv
  <2> HIDE DEF t
  <2>. QED BY <1>1, <1>2, <2>1, PortfolioReaches DEF Held
<1>4. N!After(Held, pending) = N!After(R, Tail(pending))
  <2> HIDE DEF R
  <2>. QED BY <1>1, <1>3, AfterFirst
<1>5. pending \o targets = pending /\ (pending \o targets)' = Tail(pending)
  <2>1. pending \in Seq(Elements(pending)) /\ Tail(pending) \in Seq(Elements(Tail(pending)))
    BY <1>1 DEF IsQueue
  <2>. QED BY <1>1, <2>1, ConcatEmptySeq
<1>6. Wanted' = N!After(R, (pending \o targets)')
  BY WantedNext
<1>. QED BY <1>4, <1>5, <1>6, WantedIs

\* Every statement of the loop is a step of Intent or none.
LEMMA IntentStep ==
  ASSUME AccountsInv, AccountsInv', EquityInv, StampsInv, StampsInv', [Next]_vars
  PROVE  [N!IntentNext]_(N!intentVars)
<1> USE DEF over, snapshots
<1>0. /\ IsQueue(targets) /\ IsQueue(pending) /\ IsQueue(targets') /\ IsQueue(pending')
  BY DEF AccountsInv
<1>1. ASSUME NEW r \in Reactions, NEW now, Eng!Callback(now, r), UNCHANGED portfolio,
             pc \in {"initialize", "replay"}, pending = <<>>, UNCHANGED pending,
             IF r.ok THEN pc' \in {"replay", "drain"} ELSE pc' = "failed"
      PROVE  N!Decide(r)
  <2>1. Wanted' = N!After(Wanted, r.targets)
    BY <1>0, <1>1, CallbackDecides DEF portfolio
  <2>2. snapshots' = snapshots
    BY <1>1 DEF portfolio
  <2>3. ~over
    BY <1>1
  <2>4. over' = ~r.ok
    <3>1. r.ok \in BOOLEAN
      BY ReactionsAssumption
    <3>. QED BY <1>1, <3>1
  <2>. QED BY <2>1, <2>2, <2>3, <2>4 DEF N!Decide
<1>2. ASSUME NEW r \in Reactions, Start(r)
      PROVE  N!IntentNext
  <2>1. /\ Eng!Callback(InitTime, r) /\ UNCHANGED portfolio
        /\ pc \in {"initialize", "replay"} /\ pending = <<>> /\ UNCHANGED pending
        /\ IF r.ok THEN pc' \in {"replay", "drain"} ELSE pc' = "failed"
    BY <1>2 DEF Start, Eng!Initialize, StampsInv
  <2>. QED BY <1>1, <2>1 DEF N!IntentNext
<1>3. ASSUME NEW r \in Reactions, Dispatch(r)
      PROVE  [N!IntentNext]_(N!intentVars)
  <2>1. /\ Eng!OnEvent(events[i], r) /\ UNCHANGED portfolio
        /\ pc = "replay" /\ pending = <<>> /\ UNCHANGED pending
        /\ IF Eng!Dispatched(events[i]) => r.ok THEN pc' = "drain" ELSE pc' = "failed"
    BY <1>3 DEF Dispatch, StampsInv
  <2>2. CASE Eng!Dispatched(events[i])
    <3>1. Eng!Callback(EventTs(events[i]), r)
      BY <2>1, <2>2, EventCallback
    <3>2. IF r.ok THEN pc' \in {"replay", "drain"} ELSE pc' = "failed"
      BY <2>1, <2>2
    <3>. QED BY <1>1, <2>1, <3>1, <3>2 DEF N!IntentNext
  <2>3. CASE ~ Eng!Dispatched(events[i])
    <3>1. UNCHANGED targets /\ pc' = "drain"
      BY <2>1, <2>3, EventCallback
    <3>2. UNCHANGED Wanted
      BY <2>1, <3>1, WantedKeeps DEF portfolio
    <3>. QED BY <2>1, <3>1, <3>2 DEF N!intentVars, portfolio
  <2>. QED BY <2>2, <2>3
<1>4. CASE Drain
  <2>1. /\ pc = "drain" /\ pc' = "fill" /\ UNCHANGED portfolio /\ pending = <<>>
        /\ pending' = targets /\ targets' = <<>>
    BY <1>4 DEF Drain, Eng!DrainTargets, StampsInv
  <2>2. (pending \o targets)' = pending \o targets
    <3>1. targets \in Seq(Elements(targets))
      BY <1>0 DEF IsQueue
    <3>. QED BY <2>1, <3>1, ConcatEmptySeq
  <2>3. UNCHANGED Wanted
    BY <2>1, <2>2, WantedKeeps DEF portfolio
  <2>. QED BY <2>1, <2>3 DEF N!intentVars, portfolio
<1>5. CASE FillTarget
  <2>1. pc = "fill" /\ pc' = "fill" /\ UNCHANGED equity
    BY <1>5 DEF FillTarget, Pf!ExecuteTarget, Pf!Fill, Pf!AlreadyThere, Pf!vars
  <2>2. UNCHANGED Wanted
    BY <1>5, FillIsStutter
  <2>. QED BY <2>1, <2>2 DEF N!intentVars
<1>6. CASE MissFillPrice \/ Finish
  <2>1. UNCHANGED <<portfolio, pending, targets>> /\ pc' \in {"done", "failed"}
    BY <1>6 DEF MissFillPrice, Finish, engine
  <2>2. UNCHANGED Wanted
    BY <2>1, WantedKeeps DEF portfolio
  <2>. QED BY <2>1, <2>2 DEF N!IntentNext, N!Stop, portfolio
<1>7. CASE Mark
  <2>1. /\ pc = "fill" /\ pc' = "replay" /\ pending = <<>> /\ targets = <<>>
        /\ UNCHANGED <<positions, pending, targets>>
    BY <1>7 DEF Mark, Pf!MarkToMarket, engine, StampsInv
  <2>2. UNCHANGED Wanted
    BY <2>1, WantedKeeps
  <2>3. Wanted = Held
    <3>1. Wanted = N!After(Held, <<>>)
      BY <1>0, <2>1, NothingQueued, WantedIs
    <3>. QED BY <3>1, AfterNone DEF Held
  <2>4. PICK point : equity' = Append(equity, point) /\ point.held = Held
    BY <1>7 DEF Mark, Pf!MarkToMarket, Held
  <2>5. snapshots' = Append(snapshots, Wanted)
    <3>1. equity \in Seq(Elements(equity))
      BY DEF EquityInv
    <3>2. /\ Len(equity) \in Nat
          /\ Len(equity') = Len(equity) + 1
          /\ \A n \in 1..Len(equity) : equity'[n] = equity[n]
          /\ equity'[Len(equity) + 1] = point
      BY <2>4, <3>1, AppendElement
    <3> DEFINE len == Len(equity)
               new == [n \in 1..len + 1 |-> equity'[n].held]
               old == [n \in 1..len |-> equity[n].held]
    <3>3. /\ len \in Nat
          /\ \A n \in 1..len + 1 : new[n] = IF n <= len THEN old[n] ELSE Wanted
      <4> HIDE DEF len
      <4>. QED BY <2>3, <2>4, <3>2 DEF len
    <3>4. old \in Seq(Elements(old)) /\ Len(old) = len
      <4> HIDE DEF len
      <4>. QED BY <3>3, IsASeq DEF Elements
    <3>5. new = [n \in 1..len + 1 |-> new[n]]
      OBVIOUS
    <3> HIDE DEF len, new, old
    <3>6. new = Append(old, Wanted)
      <4> DEFINE S == Elements(old) \cup {Wanted}
                 both == Append(old, Wanted)
      <4>1. /\ both \in Seq(Elements(both)) /\ Len(both) = len + 1
            /\ \A n \in 1..len : both[n] = old[n]
            /\ both[len + 1] = Wanted
        BY <3>4, AppendElement
      <4> HIDE DEF both
      <4>2. both = [n \in 1..len + 1 |-> both[n]]
        BY <4>1, LenProperties
      <4>3. \A n \in 1..len + 1 : new[n] = both[n]
        BY <3>3, <4>1
      <4>4. new = both
        BY <3>5, <4>2, <4>3
      <4>. QED BY <4>4 DEF both
    <3>. QED BY <3>2, <3>6 DEF len, new, old
  <2>6. ~over /\ over' = over
    BY <2>1
  <2>7. N!Snapshot
    BY <2>2, <2>5, <2>6 DEF N!Snapshot
  <2>. QED BY <2>7 DEF N!IntentNext
<1>8. CASE UNCHANGED vars
  <2>1. UNCHANGED <<portfolio, pending, targets, pc>>
    BY <1>8 DEF vars, engine, control
  <2>2. UNCHANGED Wanted
    BY <2>1, WantedKeeps DEF portfolio
  <2>. QED BY <2>1, <2>2 DEF N!intentVars, portfolio
<1>. QED BY <1>2, <1>3, <1>4, <1>5, <1>6, <1>7, <1>8 DEF Next, Settle

\* The account holds what the strategy last asked for at every equity point.
THEOREM IntentCorrectness == Spec => ImplementsIntent
<1> DEFINE Inv == AccountsInv /\ EquityInv /\ OrderInv /\ StampsInv
<1>1. Init => Inv
  BY AccountsInit, EquityInit, OrderInit, StampsInit
<1>2. Inv /\ [Next]_vars => Inv'
  BY AccountsStep, EquityStep, OrderStep, StampsStep
<1>3. Inv /\ Inv' /\ [Next]_vars => [N!IntentNext]_(N!intentVars)
  BY IntentStep
<1>4. Init => N!IntentInit
  BY IntentInitially
<1> HIDE DEF Inv
<1>. QED BY <1>1, <1>2, <1>3, <1>4, PTL DEF Spec, ImplementsIntent, N!Spec
-----------------------------------------------------------------------------
\* A bar of the series the strategy trades, closed or not.
OfSeries(e) == Eng!IsBar(e) /\ Eng!BarKey(e.kline) = Series

\* The one bar of the series that may be stored or sent before it closes is
\* the last one.
OpenBarsAreLast(list) ==
  \A m, n \in 1..Len(list) :
    m # n /\ OfSeries(list[m]) /\ OfSeries(list[n]) /\ ~list[m].kline.is_final =>
      EventTs(list[n]) < EventTs(list[m])

LEMMA ClosesShape ==
  ASSUME NEW n \in Nat
  PROVE  /\ IsFiniteSet(ClosedBars(n)) /\ Cardinality(ClosedBars(n)) \in Nat
         /\ ClosedBars(n) \in SUBSET (1..n)
         /\ Len(Closes(n)) = Cardinality(ClosedBars(n))
         /\ \A k \in 1..Cardinality(ClosedBars(n)) :
              Closes(n)[k] = Chosen(events, ClosedBars(n))[k].kline.close
<1> DEFINE places == ClosedBars(n)
           f(k) == Chosen(events, places)[k].kline.close
           c == Cardinality(places)
<1>1. places \in SUBSET (1..n)
  BY DEF ClosedBars
<1>2. IsFiniteSet(places) /\ c \in Nat
  <2> DEFINE all == 1..n
  <2>1. IsFiniteSet(all) /\ places \in SUBSET all
    BY <1>1, FS_Interval
  <2> HIDE DEF all, places
  <2>2. IsFiniteSet(places)
    BY <2>1, FS_Subset
  <2>3. Cardinality(places) \in Nat
    BY <2>2, FS_CardinalityType
  <2>. QED BY <2>2, <2>3
<1>3. Closes(n) = [k \in 1..c |-> f(k)]
  BY DEF Closes
<1> HIDE DEF f, c
<1>4. Len(Closes(n)) = c /\ \A k \in 1..c : Closes(n)[k] = f(k)
  BY <1>2, <1>3
<1>. QED BY <1>1, <1>2, <1>4 DEF f, c

\* An event adds its close if it is a closed bar of the series.
LEMMA ClosesStep ==
  ASSUME NEW n \in Nat
  PROVE  IF OfSeries(events[n + 1]) /\ events[n + 1].kline.is_final
         THEN /\ Len(Closes(n)) \in Nat
              /\ Len(Closes(n + 1)) = Len(Closes(n)) + 1
              /\ \A k \in 1..Len(Closes(n)) : Closes(n + 1)[k] = Closes(n)[k]
              /\ Closes(n + 1)[Len(Closes(n)) + 1] = events[n + 1].kline.close
         ELSE Closes(n + 1) = Closes(n)
<1>1. CASE OfSeries(events[n + 1]) /\ events[n + 1].kline.is_final
  <2> DEFINE S == ClosedBars(n)
             T == ClosedBars(n + 1)
             x == n + 1
             c == Cardinality(S)
  <2>1. /\ IsFiniteSet(S) /\ c \in Nat /\ S \in SUBSET (1..n) /\ Len(Closes(n)) = c
        /\ \A k \in 1..c : Closes(n)[k] = Chosen(events, S)[k].kline.close
    BY ClosesShape
  <2>2. /\ Len(Closes(n + 1)) = Cardinality(T)
        /\ \A k \in 1..Cardinality(T) : Closes(n + 1)[k] = Chosen(events, T)[k].kline.close
    <3>1. n + 1 \in Nat
      OBVIOUS
    <3>. QED BY <3>1, ClosesShape
  <2>3. T = S \cup {x}
    <3>1. 1..(n + 1) = (1..n) \cup {n + 1}
      OBVIOUS
    <3>. QED BY <1>1, <3>1 DEF ClosedBars, OfSeries
  <2>4. S \in SUBSET Int /\ x \in Int /\ \A s \in S : s < x
    BY <2>1
  <2> HIDE DEF S, T, x, c
  <2>5. /\ Cardinality(T) = c + 1
        /\ \A k \in 1..c : Chosen(events, T)[k] = Chosen(events, S)[k]
        /\ Chosen(events, T)[c + 1] = events[x]
    <3>0. S \in SUBSET Int /\ IsFiniteSet(S) /\ x \in Int /\ \A s \in S : s < x
      BY <2>1, <2>4
    <3>1. /\ Cardinality(S \cup {x}) = Cardinality(S) + 1
          /\ \A k \in 1..Cardinality(S) : Chosen(events, S \cup {x})[k] = Chosen(events, S)[k]
          /\ Chosen(events, S \cup {x})[Cardinality(S) + 1] = events[x]
      BY ONLY <3>0, ChosenNext
    <3>. QED BY <2>3, <3>1 DEF c
  <2>6. ASSUME NEW k \in 1..c
        PROVE  Closes(n + 1)[k] = Closes(n)[k]
    <3>1. k \in 1..(c + 1)
      BY <2>1
    <3>. QED BY <2>1, <2>2, <2>5, <3>1
  <2>7. Closes(n + 1)[c + 1] = events[x].kline.close
    <3>1. c + 1 \in 1..(c + 1)
      BY <2>1
    <3>. QED BY <2>2, <2>5, <3>1
  <2>. QED BY <1>1, <2>1, <2>2, <2>5, <2>6, <2>7 DEF x
<1>2. CASE ~(OfSeries(events[n + 1]) /\ events[n + 1].kline.is_final)
  <2>1. ClosedBars(n + 1) = ClosedBars(n)
    <3>1. 1..(n + 1) = (1..n) \cup {n + 1}
      OBVIOUS
    <3>. QED BY <1>2, <3>1 DEF ClosedBars, OfSeries
  <2>. QED BY <1>2, <2>1 DEF Closes
<1>. QED BY <1>1, <1>2

\* The averages over two parts of a window compare as the sums over their
\* places in the history do.
LEMMA AveragesCompare ==
  ASSUME NEW recent, NEW len \in Nat, Len(recent) = len, NEW ago \in Nat, ago + Slow <= len,
         NEW closes, NEW a \in Int,
         \A k \in 1..len : IsDecimal(recent[k].close) /\ recent[k].close = closes[a + k]
  PROVE  LET gap == Gap(closes, a + len - ago)
         IN  /\ gap[1] \in Int
             /\ AtMost(Average(recent, Slow, ago), Average(recent, Fast, ago)) <=> gap[1] >= 0
             /\ AtMost(Average(recent, Fast, ago), Average(recent, Slow, ago)) <=> gap[1] <= 0
<1> DEFINE m == a + len - ago
           fast == SumOver(closes, (m - Fast + 1)..m)
           slow == SumOver(closes, (m - Slow + 1)..m)
<1>1. /\ Fast \in Nat /\ Slow \in Nat /\ Fast > 0 /\ Slow > 0
      /\ ago + Fast <= len /\ ago + Slow <= len
  BY WindowsAssumption
<1>2. ASSUME NEW count \in Nat, count > 0, ago + count <= len
      PROVE  /\ IsDecimal(SumOver(closes, (m - count + 1)..m))
             /\ Average(recent, count, ago) = SumOver(closes, (m - count + 1)..m) // Dec(count)
  <2> SUFFICES ASSUME NEW b \in Int, b = m - count
               PROVE  /\ IsDecimal(SumOver(closes, (m - count + 1)..m))
                      /\ Average(recent, count, ago)
                           = SumOver(closes, (m - count + 1)..m) // Dec(count)
    OBVIOUS
  <2>1. /\ b = a + len - ago - count
        /\ m - count + 1 = b + 1 /\ m = b + count
    OBVIOUS
  <2>2. /\ len \in Nat /\ Len(recent) = len /\ a \in Int /\ ago \in Nat
        /\ \A k \in 1..len : IsDecimal(recent[k].close) /\ recent[k].close = closes[a + k]
    OBVIOUS
  <2> HIDE DEF m, fast, slow
  <2>3. /\ IsDecimal(SumOver(closes, (b + 1)..(b + count)))
        /\ Average(recent, count, ago) = SumOver(closes, (b + 1)..(b + count)) // Dec(count)
    <3> DEFINE from == len - ago - count
               S == {recent[k] : k \in 1..len}
               items == SubSeq(recent, from + 1, from + count)
               f == [n \in 1..count |-> items[n].close]
    <3>1. /\ from \in Nat /\ from + count <= len /\ from + count \in Int /\ from + 1 \in Int
          /\ len - ago - count + 1 = from + 1 /\ len - ago = from + count
          /\ b = a + from
      BY <1>2, <2>1
    <3>2. \A k \in from + 1..from + count : k \in 1..len
      BY <3>1
    <3>3. \A k \in from + 1..from + count : recent[k] \in S
      BY <3>2
    <3>4. from + 1 <= from + count /\ (from + count) - (from + 1) + 1 = count
      BY <1>2, <3>1
    <3> HIDE DEF from, S
    <3>5. /\ Len(items) = count
          /\ \A k \in 1..count : items[k] = recent[(from + 1) + k - 1]
      BY <3>1, <3>3, <3>4, SubSeqProperties
    <3>6. ASSUME NEW k \in 1..count
          PROVE  items[k].close = closes[b + k] /\ IsDecimal(items[k].close)
      <4>1. (from + 1) + k - 1 = from + k /\ from + k \in from + 1..from + count
            /\ a + (from + k) = b + k
        BY ONLY <3>1, from \in Nat, k \in 1..count, count \in Nat, a \in Int, b \in Int
      <4>2. items[k] = recent[from + k] /\ from + k \in 1..len
        BY <3>2, <3>5, <4>1
      <4>3. /\ IsDecimal(recent[from + k].close)
            /\ recent[from + k].close = closes[a + (from + k)]
        BY <4>2
      <4>. QED BY <4>1, <4>2, <4>3
    <3> HIDE DEF items
    <3>7. \A k \in 1..count : IsDecimal(f[k]) /\ closes[b + k] = f[k]
      BY <3>6
    <3> HIDE DEF f
    <3>8. /\ SumOver(closes, (b + 1)..(b + count)) = SumOver(f, 1..count)
          /\ IsDecimal(SumOver(f, 1..count))
      <4>1. ASSUME NEW g, \A k \in 1..count : IsDecimal(g[k]) /\ closes[b + k] = g[k]
            PROVE  /\ SumOver(closes, (b + 1)..(b + count)) = SumOver(g, 1..count)
                   /\ IsDecimal(SumOver(g, 1..count))
        BY ONLY <4>1, b \in Int, count \in Nat, SumOverShift
      <4>. QED BY <3>7, <4>1
    <3>9. Average(recent, count, ago) = SumOver(f, 1..count) // Dec(count)
      <4>1. SimpleMa(items) = SumOver(f, 1..count) // Dec(count)
        BY <3>5 DEF SimpleMa, f
      <4>2. Average(recent, count, ago) = SimpleMa(items)
        BY <3>1 DEF Average, items
      <4>. QED BY <4>1, <4>2
    <3>. QED BY <3>1, <3>8, <3>9
  <2>. QED BY <2>1, <2>3
<1>3. IsDecimal(fast) /\ Average(recent, Fast, ago) = fast // Dec(Fast)
  BY <1>1, <1>2
<1>4. IsDecimal(slow) /\ Average(recent, Slow, ago) = slow // Dec(Slow)
  BY <1>1, <1>2
<1>5. Gap(closes, m) = (Dec(Slow) ** fast) -- (Dec(Fast) ** slow)
  BY DEF Gap
<1> HIDE DEF fast, slow, m
<1>6. LET gap == (Dec(Slow) ** fast) -- (Dec(Fast) ** slow)
      IN  /\ gap[1] \in Int
          /\ AtMost(slow // Dec(Slow), fast // Dec(Fast)) <=> gap[1] >= 0
          /\ AtMost(fast // Dec(Fast), slow // Dec(Slow)) <=> gap[1] <= 0
  BY ONLY <1>1, <1>3, <1>4, QuotientsCompare
<1>. QED BY <1>3, <1>4, <1>5, <1>6 DEF m

\* What is in the cache after the first n events: the last closes of the
\* history.
IsWindow(q, n) ==
  LET length == Len(Closes(n))
  IN  /\ q \in Seq(Elements(q))
      /\ Len(q) = IF length > MaxBars THEN MaxBars ELSE length
      /\ \A k \in 1..Len(q) :
           IsDecimal(q[k].close) /\ q[k].close = Closes(n)[length - Len(q) + k]

\* A closed bar of the series moves the window by one.
LEMMA WindowMoves ==
  ASSUME NEW n \in Nat, NEW q, IsWindow(q, n), NEW kline, events[n + 1].kline = kline,
         OfSeries(events[n + 1]), kline.is_final, IsDecimal(kline.close)
  PROVE  IsWindow(Eng!LastN(Append(q, kline), MaxBars), n + 1)
<1> DEFINE old == Closes(n)
           new == Closes(n + 1)
           length == Len(old)
           S == Elements(q) \cup {kline}
           p == Append(q, kline)
           w == Eng!LastN(p, MaxBars)
<1>1. MaxBars \in Nat /\ MaxBars > 0
  BY WindowsAssumption
<1>2. /\ length \in Nat /\ Len(new) = length + 1 /\ new[length + 1] = kline.close
      /\ \A k \in 1..length : new[k] = old[k]
  BY ClosesStep
<1>3. /\ q \in Seq(Elements(q)) /\ Len(q) \in Nat
      /\ Len(q) = IF length > MaxBars THEN MaxBars ELSE length
      /\ \A k \in 1..Len(q) : IsDecimal(q[k].close) /\ q[k].close = old[length - Len(q) + k]
  BY LenProperties DEF IsWindow
<1>4. /\ p \in Seq(S) /\ Len(p) = Len(q) + 1
      /\ \A k \in 1..Len(q) : p[k] = q[k]
      /\ p[Len(q) + 1] = kline
  <2>1. q \in Seq(S) /\ kline \in S
    BY <1>3, SeqMonotonic
  <2> HIDE DEF S
  <2>. QED BY <2>1, AppendProperties
<1> HIDE DEF S, p, old, new
<1>5. /\ w \in Seq(S) /\ Len(w) \in Nat
      /\ Len(w) = IF Len(p) > MaxBars THEN MaxBars ELSE Len(p)
      /\ \A k \in 1..Len(w) : w[k] = p[Len(p) - Len(w) + k]
  BY <1>1, <1>4, LastBars, LenProperties
<1> HIDE DEF w
<1>6. Len(w) = IF Len(new) > MaxBars THEN MaxBars ELSE Len(new)
  BY <1>1, <1>2, <1>3, <1>4, <1>5
<1>7. /\ Len(p) = Len(q) + 1 /\ Len(w) <= Len(p)
      /\ Len(new) - Len(w) = length - Len(q) + Len(p) - Len(w)
      /\ Len(q) \in Nat /\ Len(w) \in Nat /\ length \in Nat
  <2>1. Len(q) \in Nat /\ Len(w) \in Nat /\ length \in Nat /\ Len(p) = Len(q) + 1
    BY <1>2, <1>3, <1>4, <1>5
  <2>2. Len(w) = IF Len(p) > MaxBars THEN MaxBars ELSE Len(p)
    BY <1>5
  <2>3. Len(w) <= Len(p)
    BY ONLY <1>1, <2>1, <2>2
  <2>4. Len(new) = length + 1
    BY <1>2
  <2>5. Len(new) - Len(w) = length - Len(q) + Len(p) - Len(w)
    BY ONLY <2>1, <2>4
  <2>. QED BY <2>1, <2>3, <2>5
<1>8. ASSUME NEW k \in 1..Len(w)
      PROVE  IsDecimal(w[k].close) /\ w[k].close = new[Len(new) - Len(w) + k]
  <2> DEFINE m == Len(p) - Len(w) + k
  <2>1. m \in 1..Len(q) + 1 /\ w[k] = p[m]
    <3>1. m \in 1..Len(q) + 1
      BY ONLY <1>7, k \in 1..Len(w)
    <3>. QED BY <1>5, <3>1
  <2>2. CASE m = Len(q) + 1
    <3>1. Len(new) - Len(w) + k = length + 1
      BY <1>2, <1>3, <1>4, <1>5, <2>2
    <3>. QED BY <1>2, <1>4, <2>1, <2>2, <3>1
  <2>3. CASE m \in 1..Len(q)
    <3>1. Len(new) - Len(w) + k = length - Len(q) + m
      BY <1>7
    <3>2. length - Len(q) + m \in 1..length
      <4>1. Len(q) <= length
        BY <1>1, <1>3
      <4>. QED BY ONLY <1>7, <2>3, <4>1
    <3> HIDE DEF m
    <3>3. p[m] = q[m] /\ IsDecimal(q[m].close) /\ q[m].close = old[length - Len(q) + m]
      BY <1>3, <1>4, <2>3
    <3>4. new[length - Len(q) + m] = old[length - Len(q) + m]
      BY <1>2, <3>2
    <3>. QED BY <2>1, <3>1, <3>3, <3>4
  <2> HIDE DEF m
  <2>. QED BY <1>3, <2>1, <2>2, <2>3
<1>9. w \in Seq(Elements(w))
  BY <1>5, LenProperties, IsASeq DEF Elements
<1>. QED BY <1>6, <1>8, <1>9 DEF IsWindow, w, p, new

\* The bars of the history have decimal closes.
ClosesAreDecimal(n) ==
  \A m \in 1..n : OfSeries(events[m]) => IsDecimal(events[m].kline.close)

LEMMA HistoryIsDecimal ==
  ASSUME NEW n \in Nat, ClosesAreDecimal(n)
  PROVE  \A k \in 1..Len(Closes(n)) : IsDecimal(Closes(n)[k])
<1> DEFINE S == ClosedBars(n)
<1>1. /\ IsFiniteSet(S) /\ S \in SUBSET (1..n)
      /\ Len(Closes(n)) = Cardinality(S)
      /\ \A k \in 1..Cardinality(S) : Closes(n)[k] = Chosen(events, S)[k].kline.close
  BY ClosesShape
<1>2. S \in SUBSET Int
  BY <1>1
<1>3. \A m \in S : OfSeries(events[m])
  BY DEF ClosedBars, OfSeries
<1> HIDE DEF S
<1>4. \A k \in 1..Cardinality(S) : \E m \in S : \A seq : Chosen(seq, S)[k] = seq[m]
  BY <1>1, <1>2, ChosenPlaces
<1>5. ASSUME NEW k \in 1..Len(Closes(n))
      PROVE  IsDecimal(Closes(n)[k])
  <2>1. PICK m \in S : Chosen(events, S)[k] = events[m]
    BY <1>1, <1>4
  <2>2. IsDecimal(events[m].kline.close)
    BY <1>1, <1>3, <2>1 DEF ClosesAreDecimal
  <2>. QED BY <1>1, <2>1, <2>2
<1>. QED BY <1>5

\* The distance of the averages depends on the closes up to the place only.
LEMMA GapIsOfPast ==
  ASSUME NEW old, NEW new, NEW m \in Nat, m >= Slow,
         \A k \in 1..m : IsDecimal(old[k]) /\ new[k] = old[k]
  PROVE  Gap(new, m) = Gap(old, m)
<1>1. ASSUME NEW count \in Nat, count > 0, count <= Slow
      PROVE  SumOver(new, (m - count + 1)..m) = SumOver(old, (m - count + 1)..m)
  <2> SUFFICES ASSUME NEW a \in Int, a = m - count
               PROVE  SumOver(new, (m - count + 1)..m) = SumOver(old, (m - count + 1)..m)
    OBVIOUS
  <2>1. /\ m - count + 1 = a + 1 /\ m = a + count
        /\ \A k \in 1..count : a + k \in 1..m
    BY <1>1, WindowsAssumption
  <2> DEFINE f == [k \in 1..count |-> old[a + k]]
  <2>2. \A k \in 1..count : IsDecimal(f[k]) /\ old[a + k] = f[k] /\ new[a + k] = f[k]
    BY <2>1
  <2> HIDE DEF f
  <2>3. ASSUME NEW g, NEW h, \A k \in 1..count : IsDecimal(g[k]) /\ h[a + k] = g[k]
        PROVE  SumOver(h, (a + 1)..(a + count)) = SumOver(g, 1..count)
    BY ONLY <2>3, a \in Int, count \in Nat, SumOverShift
  <2>4. SumOver(old, (a + 1)..(a + count)) = SumOver(f, 1..count)
    BY <2>2, <2>3
  <2>5. SumOver(new, (a + 1)..(a + count)) = SumOver(f, 1..count)
    BY <2>2, <2>3
  <2>. QED BY <2>1, <2>4, <2>5
<1>2. /\ SumOver(new, (m - Fast + 1)..m) = SumOver(old, (m - Fast + 1)..m)
      /\ SumOver(new, (m - Slow + 1)..m) = SumOver(old, (m - Slow + 1)..m)
  BY <1>1, WindowsAssumption
<1>. QED BY <1>2 DEF Gap

\* What the strategy asks for at a closed bar is what the cross of the
\* averages over the history asks for.
LEMMA CrossIsOfHistory ==
  ASSUME NEW n \in Nat, OfSeries(events[n + 1]), events[n + 1].kline.is_final,
         NEW q, IsWindow(q, n + 1), NEW recent, recent = Eng!LastN(q, Slow + 1)
  PROVE  /\ Len(recent) < Slow + 1 <=> Len(Closes(n + 1)) <= Slow
         /\ CrossTarget(n + 1) = IF Len(recent) < Slow + 1 THEN None
                                 ELSE IF CrossesUp(recent) THEN Some(TargetQty)
                                 ELSE IF CrossesDown(recent) THEN Some(-TargetQty)
                                 ELSE None
<1> DEFINE closes == Closes(n + 1)
           length == Len(closes)
           now == Sign(Gap(closes, length))
           before == Sign(Gap(closes, length - 1))
<1>1. length \in Nat /\ length > Len(Closes(n))
  BY ClosesStep
<1>2. CrossTarget(n + 1) = IF length <= Slow \/ now = 0 \/ before = now THEN None
                                                                    ELSE Some(now * TargetQty)
  <2>1. (n + 1) - 1 = n
    OBVIOUS
  <2>. QED BY <1>1, <2>1 DEF CrossTarget
<1>3. /\ q \in Seq(Elements(q)) /\ Len(q) \in Nat
      /\ Len(q) = IF length > MaxBars THEN MaxBars ELSE length
      /\ \A k \in 1..Len(q) : IsDecimal(q[k].close) /\ q[k].close = closes[length - Len(q) + k]
  BY LenProperties DEF IsWindow
<1> HIDE DEF closes
<1>4. Slow \in Nat /\ Slow > 0 /\ MaxBars \in Nat /\ MaxBars >= Slow + 1 /\ TargetQty \in Int
  BY WindowsAssumption
<1>5. /\ Len(recent) = IF Len(q) > Slow + 1 THEN Slow + 1 ELSE Len(q)
      /\ \A k \in 1..Len(recent) : recent[k] = q[Len(q) - Len(recent) + k]
  <2>1. Slow + 1 \in Nat /\ Slow + 1 > 0
    BY <1>4
  <2>. QED BY ONLY <2>1, <1>3, recent = Eng!LastN(q, Slow + 1), LastBars
<1>6. Len(recent) \in Nat /\ (Len(recent) < Slow + 1 <=> length <= Slow)
  BY ONLY <1>1, <1>3, <1>4, <1>5
<1>7. CASE length > Slow
  <2>1. Len(recent) = Slow + 1 /\ Len(q) >= Slow + 1 /\ length >= Len(q)
    BY ONLY <1>1, <1>3, <1>4, <1>5, <1>7
  <2> DEFINE a == length - (Slow + 1)
  <2>2. ASSUME NEW k \in 1..(Slow + 1)
        PROVE  IsDecimal(recent[k].close) /\ recent[k].close = closes[a + k]
    <3> DEFINE m == Len(q) - (Slow + 1) + k
    <3>1. recent[k] = q[m]
      BY <1>5, <2>1
    <3>2. m \in 1..Len(q) /\ length - Len(q) + m = a + k
      <4>1. Len(q) \in Nat /\ length \in Nat
        BY <1>1, <1>3
      <4>. QED BY ONLY <1>4, <2>1, <4>1, k \in 1..(Slow + 1)
    <3> HIDE DEF m, a
    <3>3. IsDecimal(q[m].close) /\ q[m].close = closes[length - Len(q) + m]
      BY <1>3, <3>2
    <3>. QED BY <3>1, <3>2, <3>3
  <2>3. a \in Int /\ a + (Slow + 1) - 0 = length /\ a + (Slow + 1) - 1 = length - 1
        /\ Slow + 1 \in Nat
    BY ONLY <1>1, <1>4
  <2> HIDE DEF a
  <2>4. ASSUME NEW ago \in {0, 1}
        PROVE  LET gap == Gap(closes, a + (Slow + 1) - ago)
               IN  /\ gap[1] \in Int
                   /\ AtMost(Average(recent, Slow, ago), Average(recent, Fast, ago))
                        <=> gap[1] >= 0
                   /\ AtMost(Average(recent, Fast, ago), Average(recent, Slow, ago))
                        <=> gap[1] <= 0
    <3>1. ago \in Nat /\ ago + Slow <= Slow + 1
      BY <1>4
    <3>. QED BY ONLY <3>1, <2>1, <2>2, <2>3, AveragesCompare
  <2>5. /\ Gap(closes, length)[1] \in Int
        /\ AtMost(Average(recent, Slow, 0), Average(recent, Fast, 0))
             <=> Gap(closes, length)[1] >= 0
        /\ AtMost(Average(recent, Fast, 0), Average(recent, Slow, 0))
             <=> Gap(closes, length)[1] <= 0
    BY <2>3, <2>4
  <2>6. /\ Gap(closes, length - 1)[1] \in Int
        /\ AtMost(Average(recent, Slow, 1), Average(recent, Fast, 1))
             <=> Gap(closes, length - 1)[1] >= 0
        /\ AtMost(Average(recent, Fast, 1), Average(recent, Slow, 1))
             <=> Gap(closes, length - 1)[1] <= 0
    BY <2>3, <2>4
  <2>7. /\ now \in {-1, 0, 1} /\ before \in {-1, 0, 1}
        /\ now = 1 <=> Gap(closes, length)[1] > 0
        /\ now = -1 <=> Gap(closes, length)[1] < 0
        /\ before = 1 <=> Gap(closes, length - 1)[1] > 0
        /\ before = -1 <=> Gap(closes, length - 1)[1] < 0
    BY <2>5, <2>6 DEF Sign, Signum
  <2> HIDE DEF now, before
  <2>8. CrossesUp(recent) <=> before # 1 /\ now = 1
    BY <2>5, <2>6, <2>7 DEF CrossesUp, Above
  <2>9. CrossesDown(recent) <=> before # -1 /\ now = -1
    BY <2>5, <2>6, <2>7 DEF CrossesDown, Above
  <2>10. 1 * TargetQty = TargetQty /\ (-1) * TargetQty = -TargetQty
    BY <1>4
  <2>. QED BY <1>1, <1>2, <1>4, <1>6, <1>7, <2>7, <2>8, <2>9, <2>10 DEF closes
<1>8. CASE length <= Slow
  BY <1>2, <1>6, <1>8 DEF closes
<1>. QED BY <1>1, <1>4, <1>7, <1>8

\* A quantity that follows the averages after the first n events: the target
\* on the side of the fast average, or one that was asked for while it could
\* be; none before there are averages.
Follows(n, qty) ==
  \E side \in {-1, 0, 1} :
    /\ qty = side * TargetQty
    /\ IF Len(Closes(n)) <= Slow THEN side = 0
       ELSE side * Sign(Gap(Closes(n), Len(Closes(n)))) >= 0

LEMMA SignIs == \A a : Sign(a) \in {-1, 0, 1}
BY DEF Sign, Signum

\* What follows the averages still does after an event, unless there is a
\* cross, and then what the cross asks for does.
LEMMA FollowsOn ==
  ASSUME NEW n \in Nat, ClosesAreDecimal(n), NEW qty, Follows(n, qty)
  PROVE  Follows(n + 1, UnwrapOr(CrossTarget(n + 1), qty))
<1> DEFINE old == Closes(n)
           new == Closes(n + 1)
           length == Len(new)
           now == Sign(Gap(new, length))
           before == Sign(Gap(new, length - 1))
<1>1. PICK side \in {-1, 0, 1} :
        /\ qty = side * TargetQty
        /\ IF Len(old) <= Slow THEN side = 0 ELSE side * Sign(Gap(old, Len(old))) >= 0
  BY DEF Follows
<1>2. CrossTarget(n + 1) =
        IF length <= Len(old) \/ length <= Slow \/ now = 0 \/ before = now THEN None
                                                              ELSE Some(now * TargetQty)
  <2>1. (n + 1) - 1 = n
    OBVIOUS
  <2>2. Len(old) \in Nat /\ length \in Nat
    BY ClosesShape
  <2>. QED BY <2>1, <2>2 DEF CrossTarget
<1>3. now \in {-1, 0, 1} /\ before \in {-1, 0, 1} /\ Sign(Gap(old, Len(old))) \in {-1, 0, 1}
  BY SignIs
<1>4. Slow \in Nat /\ TargetQty \in Int
  BY WindowsAssumption
<1>5. UnwrapOr(None, qty) = qty /\ \A x : UnwrapOr(Some(x), qty) = x
  BY DEF UnwrapOr, IsSome, Some, None
<1>6. CASE new = old
  <2>1. Len(old) \in Nat
    BY ClosesShape
  <2>2. CrossTarget(n + 1) = None
    BY <1>2, <1>6, <2>1
  <2>3. Follows(n + 1, qty)
    BY <1>1, <1>6 DEF Follows
  <2>. QED BY <1>5, <2>2, <2>3
<1>7. CASE /\ Len(old) \in Nat /\ length = Len(old) + 1
           /\ \A k \in 1..Len(old) : new[k] = old[k]
  <2>1. CASE length <= Slow
    <3>1. CrossTarget(n + 1) = None /\ side = 0
      BY <1>1, <1>2, <1>4, <1>7, <2>1
    <3>. QED BY <1>1, <1>5, <2>1, <3>1 DEF Follows
  <2>2. CASE length > Slow /\ (now = 0 \/ before = now)
    <3>1. CrossTarget(n + 1) = None
      BY <1>2, <2>2
    <3>2. side * now >= 0
      <4>1. CASE Len(old) <= Slow
        BY <1>1, <1>3, <4>1
      <4>2. CASE Len(old) > Slow
        <5>1. \A k \in 1..Len(old) : IsDecimal(old[k])
          BY HistoryIsDecimal
        <5>2. Len(old) >= Slow /\ length - 1 = Len(old)
          BY <1>4, <1>7, <4>2
        <5>3. Gap(new, Len(old)) = Gap(old, Len(old))
          <6> HIDE DEF old, new
          <6>. QED BY <1>7, <5>1, <5>2, GapIsOfPast
        <5>4. side * before >= 0
          BY <1>1, <1>4, <1>7, <4>2, <5>2, <5>3
        <5>. QED BY <1>1, <1>3, <2>2, <5>4
      <4>. QED BY <1>4, <1>7, <4>1, <4>2
    <3>3. ~(length <= Slow)
      BY <1>4, <1>7, <2>2
    <3>4. Follows(n + 1, qty)
      BY <1>1, <3>2, <3>3 DEF Follows
    <3>. QED BY <1>5, <3>1, <3>4
  <2>3. CASE length > Slow /\ now # 0 /\ before # now
    <3>1. ~(length <= Slow) /\ ~(length <= Len(old))
      BY <1>4, <1>7, <2>3
    <3>2. UnwrapOr(CrossTarget(n + 1), qty) = now * TargetQty
      BY <1>2, <1>5, <2>3, <3>1
    <3>3. now * now >= 0
      BY <1>3
    <3> HIDE DEF now
    <3>4. \E s \in {-1, 0, 1} : now * TargetQty = s * TargetQty /\ s * now >= 0
      BY <1>3, <3>3
    <3>. QED BY <3>1, <3>2, <3>4 DEF Follows, now
  <2>. QED BY <1>4, <1>7, <2>1, <2>2, <2>3
<1>8. new = old \/ (/\ Len(old) \in Nat /\ length = Len(old) + 1
                    /\ \A k \in 1..Len(old) : new[k] = old[k])
  BY ClosesStep
<1>. QED BY <1>6, <1>7, <1>8
-----------------------------------------------------------------------------
\* What the proofs need of the events of a replay.
IsHistory(list) ==
  /\ list \in Seq(Elements(list))
  /\ \A n \in 1..Len(list) :
       /\ EventTs(list[n]) \in Int
       /\ OfSeries(list[n]) => IsDecimal(list[n].kline.close)
  /\ OpenBarsAreLast(list)

InOrder(list) ==
  \A m, n \in 1..Len(list) : m <= n => EventTs(list[m]) <= EventTs(list[n])

\* The events at distinct places of a history are one, in any order.
LEMMA PartOfHistory ==
  ASSUME NEW list, IsHistory(list), NEW part, part \in Seq(Elements(part)),
         NEW place, \A k \in 1..Len(part) : place[k] \in 1..Len(list),
         \A k, l \in 1..Len(part) : k # l => place[k] # place[l],
         \A k \in 1..Len(part) : part[k] = list[place[k]]
  PROVE  IsHistory(part)
<1>1. ASSUME NEW k \in 1..Len(part)
      PROVE  /\ EventTs(part[k]) \in Int
             /\ OfSeries(part[k]) => IsDecimal(part[k].kline.close)
  BY DEF IsHistory
<1>2. ASSUME NEW m \in 1..Len(part), NEW n \in 1..Len(part), m # n,
             OfSeries(part[m]), OfSeries(part[n]), ~part[m].kline.is_final
      PROVE  EventTs(part[n]) < EventTs(part[m])
  <2>1. /\ part[m] = list[place[m]] /\ part[n] = list[place[n]]
        /\ place[m] \in 1..Len(list) /\ place[n] \in 1..Len(list) /\ place[m] # place[n]
    BY <1>2
  <2>. QED BY <1>2, <2>1 DEF IsHistory, OpenBarsAreLast
<1>3. OpenBarsAreLast(part)
  BY <1>2 DEF OpenBarsAreLast
<1>. QED BY <1>1, <1>3 DEF IsHistory

LEMMA SortedHistory ==
  ASSUME NEW list, IsHistory(list)
  PROVE  IsHistory(StableSort(list)) /\ InOrder(StableSort(list))
<1> DEFINE S == Elements(list)
           D == 1..Len(list)
           sorted == StableSort(list)
<1>1. list \in Seq(S) /\ \A n \in 1..Len(list) : EventTs(list[n]) \in Int
  BY DEF IsHistory
<1> HIDE DEF S
<1>2. /\ sorted \in Seq(S) /\ Len(sorted) = Len(list)
      /\ \E place \in Bijection(D, D) : \A k \in D : sorted[k] = list[place[k]]
  BY <1>1, StableSortProperties
<1>3. InOrder(sorted)
  BY <1>1, <1>2, StableSortOrders DEF InOrder
<1> HIDE DEF sorted
<1>4. PICK place \in Bijection(D, D) : \A k \in D : sorted[k] = list[place[k]]
  BY <1>2
<1> HIDE DEF D
<1>5. /\ \A k \in D : place[k] \in D
      /\ \A k, l \in D : k # l => place[k] # place[l]
  BY <1>4 DEF Bijection, Injection, Surjection, IsInjective
<1>6. sorted \in Seq(Elements(sorted))
  BY <1>2, LenProperties, IsASeq DEF Elements
<1>7. IsHistory(sorted)
  BY <1>2, <1>4, <1>5, <1>6, PartOfHistory, SMTT(20) DEF D
<1>. QED BY <1>3, <1>7 DEF sorted

\* The events of the current replay that the strategy has seen.
Seen == IF pc = "replay" THEN i - 1 ELSE i

AllClosed(n) == \A m \in 1..n : OfSeries(events[m]) => events[m].kline.is_final

\* A queue holds one target at most, of the strategy's symbol.
IsRequest(q) ==
  q = <<>> \/ \E t : q = <<t>> /\ t.symbol = Symbol /\ t.target_qty \in Int

\* What the account will hold when the queues are empty.
Ahead ==
  IF targets # <<>> THEN targets[1].target_qty
  ELSE IF pending # <<>> THEN pending[1].target_qty ELSE Pf!PositionOf(Symbol).qty

AskedFor == IF targets = <<>> THEN None ELSE Some(targets[1].target_qty)

Fresh ==
  /\ pc = "initialize" /\ i = 1
  /\ bars = EmptyMap /\ tick_symbols = {} /\ bar_keys = {}
  /\ targets = <<>> /\ pending = <<>>
  /\ Pf!PositionOf(Symbol).qty = 0

Replaying ==
  /\ pc \in {"replay", "drain", "fill"}
  /\ i \in Nat /\ i >= 1
  /\ pc # "replay" => i <= Len(events)
  /\ tick_symbols = {} /\ bar_keys = {Series}
  /\ InOrder(events)
  /\ Seen \in Nat
  /\ AllClosed(Seen) => IsWindow(Eng!Cached(bars, Series), Seen)
  /\ pc # "drain" => targets = <<>>
  /\ pc # "fill" => pending = <<>>
  /\ IsRequest(targets) /\ IsRequest(pending)
  /\ Follows(Seen, Ahead)
  /\ pc = "drain" => AskedFor = CrossTarget(Seen)

HeldInts == \A s \in Symbols : Pf!PositionOf(s).qty \in Int

\* The inductive invariant: the queues, the cache and the account are what
\* the closed bars seen so far make them.
CrossInv ==
  /\ IsHistory(events)
  /\ HeldInts
  /\ Fresh \/ Replaying \/ pc \in {"done", "failed"}

\* A callback leaves the target of its reaction, if it has one.
LEMMA CallbackAsks ==
  ASSUME NEW r, NEW now, targets = <<>>, Eng!Callback(now, r)
  PROVE  /\ r.targets = <<>> => targets' = <<>>
         /\ \A x : r.targets = <<x>> => targets' = <<Eng!Stamp(now, x)>>
<1> DEFINE f == [k \in 1..Len(r.targets) |-> Eng!Stamp(now, r.targets[k])]
<1>1. targets' = <<>> \o f
  BY DEF Eng!Callback
<1>2. ASSUME r.targets = <<>>
      PROVE  targets' = <<>>
  <2>1. Len(r.targets) = 0
    BY <1>2
  <2>2. f = <<>>
    BY <2>1
  <2>. QED BY <1>1, <2>2
<1>3. ASSUME NEW x, r.targets = <<x>>
      PROVE  targets' = <<Eng!Stamp(now, x)>>
  <2>1. Len(r.targets) = 1 /\ r.targets[1] = x
    BY <1>3
  <2> DEFINE y == Eng!Stamp(now, x)
  <2>2. f = <<y>>
    <3>1. \A k \in 1..1 : k = 1
      OBVIOUS
    <3>2. f = [k \in 1..1 |-> y]
      BY <2>1, <3>1
    <3>3. [k \in 1..1 |-> y] = <<y>>
      OBVIOUS
    <3>. QED BY <3>2, <3>3
  <2>3. <<y>> \in Seq({y}) /\ <<>> \o <<y>> = <<y>>
    <3> HIDE DEF y
    <3>1. <<y>> \in Seq({y})
      OBVIOUS
    <3>. QED BY <3>1, ConcatEmptySeq
  <2>. QED BY <1>1, <2>2, <2>3
<1>. QED BY <1>2, <1>3

LEMMA FillRequest ==
  ASSUME NEW q, IsRequest(q), q # <<>>
  PROVE  /\ Head(q) = q[1] /\ Head(q).symbol = Symbol /\ Head(q).target_qty \in Int
         /\ Tail(q) = <<>>
<1>1. PICK t : q = <<t>> /\ t.symbol = Symbol /\ t.target_qty \in Int
  BY DEF IsRequest
<1>2. Head(<<t>>) = t /\ <<t>>[1] = t /\ Tail(<<t>>) = <<>>
  <2>1. <<t>> \in Seq({t}) /\ Len(<<t>>) = 1
    OBVIOUS
  <2>2. Len(Tail(<<t>>)) = 0 /\ Tail(<<t>>) \in Seq({t})
    BY <2>1, HeadTailProperties
  <2>. QED BY <2>1, <2>2, EmptySeq
<1>. QED BY <1>1, <1>2

\* Nothing the invariant speaks of changes.
LEMMA CrossKeeps ==
  ASSUME CrossInv,
         UNCHANGED <<pc, i, events, bars, tick_symbols, bar_keys, targets, pending, positions>>
  PROVE  CrossInv'
<1>1. \A s : Pf!PositionOf(s)' = Pf!PositionOf(s)
  BY DEF Pf!PositionOf, Pf!NoPosition
<1>2. Fresh => Fresh'
  BY <1>1 DEF Fresh
<1>3. Replaying => Replaying'
  <2>1. \A n : Closes(n)' = Closes(n)
    BY DEF Closes, ClosedBars
  <2>2. \A n : CrossTarget(n)' = CrossTarget(n)
    BY <2>1 DEF CrossTarget
  <2>3. Seen' = Seen /\ Ahead' = Ahead /\ AskedFor' = AskedFor
    BY <1>1 DEF Seen, Ahead, AskedFor
  <2>4. \A n, qty : Follows(n, qty)' <=> Follows(n, qty)
    BY <2>1 DEF Follows
  <2>5. \A n, q : IsWindow(q, n)' <=> IsWindow(q, n)
    BY <2>1 DEF IsWindow
  <2>6. AllClosed(Seen)' <=> AllClosed(Seen)
    BY <2>3 DEF AllClosed
  <2>7. Eng!Cached(bars, Series)' = Eng!Cached(bars, Series)
    BY DEF Eng!Cached
  <2>8. Follows(Seen, Ahead)' <=> Follows(Seen, Ahead)
    BY <2>3, <2>1 DEF Follows
  <2>9. IsWindow(Eng!Cached(bars, Series), Seen)' <=> IsWindow(Eng!Cached(bars, Series), Seen)
    BY <2>1, <2>3, <2>7 DEF IsWindow
  <2>10. CrossTarget(Seen)' = CrossTarget(Seen)
    BY <2>1, <2>3 DEF CrossTarget
  <2>11. InOrder(events)' <=> InOrder(events)
    OBVIOUS
  <2>12. (IsRequest(targets) /\ IsRequest(pending))' <=> IsRequest(targets) /\ IsRequest(pending)
    BY DEF IsRequest
  <2>. QED BY <2>3, <2>6, <2>8, <2>9, <2>10, <2>11, <2>12 DEF Replaying
<1>4. HeldInts => HeldInts'
  BY <1>1 DEF HeldInts
<1>. QED BY <1>2, <1>3, <1>4 DEF CrossInv, IsHistory, OpenBarsAreLast

\* What a step leaves of the predicates of the history, when the events stay.
LEMMA HistoryKeeps ==
  ASSUME events' = events
  PROVE  /\ \A n : Closes(n)' = Closes(n) /\ CrossTarget(n)' = CrossTarget(n)
         /\ \A n, qty : Follows(n, qty)' <=> Follows(n, qty)
         /\ \A n, q : IsWindow(q, n)' <=> IsWindow(q, n)
         /\ \A n : AllClosed(n)' <=> AllClosed(n)
         /\ IsHistory(events)' <=> IsHistory(events)
         /\ InOrder(events)' <=> InOrder(events)
<1>1. \A n : Closes(n)' = Closes(n)
  BY DEF Closes, ClosedBars
<1>2. \A n : CrossTarget(n)' = CrossTarget(n)
  BY <1>1 DEF CrossTarget
<1>3. \A n, qty : Follows(n, qty)' <=> Follows(n, qty)
  BY <1>1 DEF Follows
<1>4. \A n, q : IsWindow(q, n)' <=> IsWindow(q, n)
  BY <1>1 DEF IsWindow
<1>5. \A n : AllClosed(n)' <=> AllClosed(n)
  BY DEF AllClosed
<1>. QED BY <1>1, <1>2, <1>3, <1>4, <1>5 DEF IsHistory, OpenBarsAreLast, InOrder

\* Before the first event there is no close, no window and no side.
LEMMA NothingSeen == IsWindow(<<>>, 0) /\ Follows(0, 0) /\ AllClosed(0)
<1>1. Len(Closes(0)) = 0
  <2>1. 1..0 = {} /\ 0 \in Nat
    OBVIOUS
  <2>2. ClosedBars(0) = {} /\ Len(Closes(0)) = Cardinality(ClosedBars(0))
    BY <2>1, ClosesShape DEF ClosedBars
  <2>. QED BY <2>2, FS_EmptySet
<1>2. MaxBars \in Nat /\ Slow \in Nat /\ TargetQty \in Int
  BY WindowsAssumption
<1>3. <<>> \in Seq(Elements(<<>>)) /\ Len(<<>>) = 0
  BY EmptySeq
<1>4. IsWindow(<<>>, 0)
  BY <1>1, <1>2, <1>3 DEF IsWindow
<1>5. Follows(0, 0)
  <2>1. 0 = 0 * TargetQty /\ 0 \in {-1, 0, 1} /\ 0 <= Slow
    BY <1>2
  <2>. QED BY <1>1, <2>1 DEF Follows
<1>. QED BY <1>4, <1>5 DEF AllClosed

LEMMA CrossStart ==
  ASSUME CrossInv, Start(OnInit)
  PROVE  CrossInv'
<1>1. Fresh /\ IsHistory(events) /\ HeldInts
  BY DEF CrossInv, Start, Replaying
<1>2. OnInit.ok /\ OnInit.ticks = {} /\ OnInit.bars = {Series} /\ OnInit.targets = <<>>
  BY DEF OnInit, Silent
<1>3. pc' = "replay" /\ events' = StableSort(events) /\ UNCHANGED <<bars, i, pending, positions>>
  BY <1>2 DEF Start, Eng!Initialize, portfolio
<1>4. Eng!Callback(InitTime, OnInit)
  BY DEF Start, Eng!Initialize
<1>5. targets' = <<>>
  BY <1>1, <1>2, <1>4, CallbackAsks DEF Fresh
<1>6. tick_symbols' = {} /\ bar_keys' = {Series}
  BY <1>1, <1>2, <1>4 DEF Fresh, Eng!Callback
<1>7. (IsHistory(events) /\ InOrder(events))'
  <2>1. IsHistory(StableSort(events)) /\ InOrder(StableSort(events))
    BY <1>1, SortedHistory
  <2>. QED BY <1>3, <2>1 DEF IsHistory, OpenBarsAreLast, InOrder
<1>8. (IsWindow(<<>>, 0) /\ Follows(0, 0) /\ AllClosed(0))'
  BY NothingSeen, PTL
<1>9. HeldInts' /\ Pf!PositionOf(Symbol)'.qty = 0
  BY <1>1, <1>3 DEF HeldInts, Fresh, Pf!PositionOf, Pf!NoPosition
<1>10. Seen' = 0 /\ i' = 1 /\ pending' = <<>> /\ Ahead' = 0
  BY <1>1, <1>3, <1>5, <1>9 DEF Seen, Fresh, Ahead
<1>11. Eng!Cached(bars, Series)' = <<>>
  BY <1>1, <1>3 DEF Eng!Cached, Fresh, EmptyMap
<1>12. /\ IsWindow(Eng!Cached(bars, Series), Seen)'
       /\ Follows(Seen, Ahead)'
  BY <1>8, <1>10, <1>11 DEF IsWindow, Follows
<1>13. Replaying'
  BY <1>3, <1>5, <1>6, <1>7, <1>10, <1>12 DEF Replaying, IsRequest
<1>. QED BY <1>7, <1>9, <1>13 DEF CrossInv

LEMMA CrossDrain ==
  ASSUME CrossInv, Drain
  PROVE  CrossInv'
<1>1. Replaying /\ IsHistory(events) /\ HeldInts /\ pc = "drain"
  BY DEF CrossInv, Drain, Fresh
<1>2. /\ pc' = "fill" /\ targets' = <<>> /\ pending' = targets
      /\ UNCHANGED <<i, events, bars, tick_symbols, bar_keys, positions>>
  BY DEF Drain, Eng!DrainTargets, Eng!subscriptions, portfolio
<1>3. Seen' = Seen
  BY <1>1, <1>2 DEF Seen
<1>4. Ahead' = Ahead
  BY <1>1, <1>2 DEF Ahead, Replaying, Pf!PositionOf, Pf!NoPosition
<1>5. Eng!Cached(bars, Series)' = Eng!Cached(bars, Series)
  BY <1>2 DEF Eng!Cached
<1>6. /\ Follows(Seen, Ahead)'
      /\ AllClosed(Seen)' => IsWindow(Eng!Cached(bars, Series), Seen)'
      /\ (IsHistory(events) /\ InOrder(events))'
  BY <1>1, <1>2, <1>3, <1>4, <1>5, HistoryKeeps DEF Replaying
<1>7. HeldInts'
  BY <1>1, <1>2 DEF HeldInts, Pf!PositionOf, Pf!NoPosition
<1>8. Replaying'
  BY <1>1, <1>2, <1>3, <1>6 DEF Replaying, IsRequest
<1>. QED BY <1>6, <1>7, <1>8 DEF CrossInv

LEMMA CrossFill ==
  ASSUME CrossInv, FillTarget
  PROVE  CrossInv'
<1>1. Replaying /\ IsHistory(events) /\ HeldInts /\ pc = "fill" /\ pending # <<>>
  BY DEF CrossInv, FillTarget, Fresh
<1> DEFINE t == Head(pending)
<1>2. /\ t = pending[1] /\ t.symbol = Symbol /\ t.target_qty \in Int /\ Tail(pending) = <<>>
  BY <1>1, FillRequest DEF Replaying
<1>3. PICK price : Pf!ExecuteTarget(t, price)
  BY DEF FillTarget
<1>4. /\ pc' = pc /\ pending' = Tail(pending)
      /\ UNCHANGED <<i, events, bars, tick_symbols, bar_keys, targets>>
  BY DEF FillTarget, Eng!SetPosition, Eng!subscriptions
<1> HIDE DEF t
<1>5. \A s \in Symbols :
        Pf!PositionOf(s)'.qty = IF s = t.symbol THEN t.target_qty ELSE Pf!PositionOf(s).qty
  <2>1. t.symbol \in Symbols
    BY <1>2, SeriesAssumption
  <2>. QED BY <1>1, <1>2, <1>3, <2>1, PortfolioReaches DEF HeldInts
<1>6. Ahead' = Ahead /\ HeldInts'
  BY <1>1, <1>2, <1>4, <1>5, SeriesAssumption DEF Ahead, HeldInts, Replaying
<1>7. Seen' = Seen
  BY <1>4 DEF Seen
<1>8. Eng!Cached(bars, Series)' = Eng!Cached(bars, Series)
  BY <1>4 DEF Eng!Cached
<1>9. /\ Follows(Seen, Ahead)'
      /\ AllClosed(Seen)' => IsWindow(Eng!Cached(bars, Series), Seen)'
      /\ (IsHistory(events) /\ InOrder(events))'
  BY <1>1, <1>4, <1>6, <1>7, <1>8, HistoryKeeps DEF Replaying
<1>10. Replaying'
  BY <1>1, <1>2, <1>4, <1>7, <1>9 DEF Replaying, IsRequest
<1>. QED BY <1>6, <1>9, <1>10 DEF CrossInv

LEMMA CrossMark ==
  ASSUME CrossInv, Mark
  PROVE  CrossInv'
<1>1. Replaying /\ IsHistory(events) /\ HeldInts /\ pc = "fill" /\ pending = <<>>
  BY DEF CrossInv, Mark, Fresh
<1>2. /\ pc' = "replay" /\ i' = i + 1 /\ pending' = pending
      /\ UNCHANGED <<events, bars, tick_symbols, bar_keys, targets, positions>>
  BY DEF Mark, Pf!MarkToMarket, engine
<1>3. Seen' = Seen /\ i' \in Nat /\ i' >= 1 /\ Seen \in Nat
  BY <1>1, <1>2 DEF Seen, Replaying
<1>4. Ahead' = Ahead
  BY <1>1, <1>2 DEF Ahead, Replaying, Pf!PositionOf, Pf!NoPosition
<1>5. Eng!Cached(bars, Series)' = Eng!Cached(bars, Series)
  BY <1>2 DEF Eng!Cached
<1>6. /\ Follows(Seen, Ahead)'
      /\ AllClosed(Seen)' => IsWindow(Eng!Cached(bars, Series), Seen)'
      /\ (IsHistory(events) /\ InOrder(events))'
  BY <1>1, <1>2, <1>3, <1>4, <1>5, HistoryKeeps DEF Replaying
<1>7. HeldInts'
  BY <1>1, <1>2 DEF HeldInts, Pf!PositionOf, Pf!NoPosition
<1>8. Replaying'
  BY <1>1, <1>2, <1>3, <1>6 DEF Replaying, IsRequest
<1>. QED BY <1>6, <1>7, <1>8 DEF CrossInv

\* The loop returns.
LEMMA CrossOver ==
  ASSUME CrossInv, pc' \in {"done", "failed"}, UNCHANGED <<events, positions>>
  PROVE  CrossInv'
<1>1. HeldInts'
  BY DEF CrossInv, HeldInts, Pf!PositionOf, Pf!NoPosition
<1>. QED BY <1>1, HistoryKeeps DEF CrossInv

\* No bar of the series is closed: the history stays, and nothing is asked
\* for.
LEMMA HistoryStays ==
  ASSUME NEW n \in Nat, ~(OfSeries(events[n + 1]) /\ events[n + 1].kline.is_final)
  PROVE  Closes(n + 1) = Closes(n) /\ CrossTarget(n + 1) = None
<1>1. Closes(n + 1) = Closes(n)
  BY ClosesStep
<1>2. (n + 1) - 1 = n /\ Len(Closes(n)) \in Nat
  BY ClosesShape
<1>. QED BY <1>1, <1>2 DEF CrossTarget

\* An event that is not of the series leaves its bars in the cache.
LEMMA OthersKeepWindow ==
  ASSUME NEW e, NEW r, Eng!OnEvent(e, r), ~OfSeries(e)
  PROVE  Eng!Cached(bars', Series) = Eng!Cached(bars, Series)
<1>1. CASE Eng!OnKline(e, r)
  BY <1>1 DEF Eng!OnKline, Eng!PushBar, Eng!Insert, Eng!Cached, OfSeries
<1>2. CASE Eng!OnTick(e, r) \/ Eng!OnSchedule(e, r) \/ Eng!Ignore(e)
  BY <1>2 DEF Eng!OnTick, Eng!OnSchedule, Eng!Ignore, Eng!vars
<1>. QED BY <1>1, <1>2 DEF Eng!OnEvent

\* The engine passes the strategy every bar of the series and no other.
LEMMA EngineDispatches ==
  ASSUME NEW e, NEW r, Eng!OnEvent(e, r), tick_symbols = {}, bar_keys = {Series}
  PROVE  IF OfSeries(e)
         THEN /\ bars' = Eng!PushBar(bars, e.kline)
              /\ Eng!Callback(e.kline.close_time, r)
         ELSE \/ UNCHANGED <<tick_symbols, bar_keys, targets>>
              \/ \E now : Eng!Callback(now, r)
<1>1. CASE Eng!OnKline(e, r)
  BY <1>1 DEF Eng!OnKline, OfSeries, Eng!subscriptions
<1>2. CASE Eng!OnTick(e, r)
  BY <1>2 DEF Eng!OnTick, OfSeries, Eng!IsBar, Eng!subscriptions
<1>3. CASE Eng!OnSchedule(e, r)
  BY <1>3 DEF Eng!OnSchedule, OfSeries, Eng!IsBar
<1>4. CASE Eng!Ignore(e)
  BY <1>4 DEF Eng!Ignore, OfSeries, Eng!IsBar, Eng!vars, Eng!subscriptions
<1>. QED BY <1>1, <1>2, <1>3, <1>4 DEF Eng!OnEvent

\* What the strategy returns.
LEMMA ReactIs ==
  ASSUME NEW e
  PROVE  LET cache == Eng!PushBar(bars, e.kline)
             recent == Eng!LastN(Eng!Cached(cache, Series), Slow + 1)
             asks(qty) == \E x : /\ React(e).targets = <<x>>
                                 /\ x.symbol = Symbol /\ x.target_qty = qty
         IN  /\ React(e).ok /\ React(e).ticks = {} /\ React(e).bars = {}
             /\ IF ~OfSeries(e) \/ ~e.kline.is_final \/ Len(recent) < Slow + 1
                THEN React(e).targets = <<>>
                ELSE IF CrossesUp(recent) THEN asks(TargetQty)
                ELSE IF CrossesDown(recent) THEN asks(-TargetQty)
                ELSE React(e).targets = <<>>
<1> DEFINE cache == Eng!PushBar(bars, e.kline)
           recent == Eng!LastN(Eng!Cached(cache, Series), Slow + 1)
           request(qty) == [symbol |-> Symbol, target_qty |-> qty,
                            signal_price |-> Some(e.kline.close)]
           asking(qty) == [Silent EXCEPT !.targets = <<request(qty)>>]
<1>1. Silent.ok /\ Silent.ticks = {} /\ Silent.bars = {} /\ Silent.targets = <<>>
  BY DEF Silent
<1>2. \A qty : /\ asking(qty).ok /\ asking(qty).ticks = {} /\ asking(qty).bars = {}
               /\ asking(qty).targets = <<request(qty)>>
  BY DEF Silent
<1>3. \A qty : request(qty).symbol = Symbol /\ request(qty).target_qty = qty
  OBVIOUS
<1>4. React(e) = IF ~OfSeries(e) \/ ~e.kline.is_final \/ Len(recent) < Slow + 1 THEN Silent
                 ELSE IF CrossesUp(recent) THEN asking(TargetQty)
                 ELSE IF CrossesDown(recent) THEN asking(-TargetQty)
                 ELSE Silent
  <2>1. recent = Eng!RecentBars(cache, Series, Slow + 1)
    BY DEF Eng!RecentBars
  <2> HIDE DEF cache, recent
  <2>2. CASE Eng!IsBar(e)
    BY <2>1, <2>2 DEF React, OnBar, OfSeries, cache
  <2>3. CASE ~Eng!IsBar(e)
    BY <2>3 DEF React, OfSeries
  <2>. QED BY <2>2, <2>3
<1> HIDE DEF request, asking, recent, cache
<1>5. ASSUME NEW qty, React(e) = asking(qty)
      PROVE  /\ React(e).ok /\ React(e).ticks = {} /\ React(e).bars = {}
             /\ \E x : React(e).targets = <<x>> /\ x.symbol = Symbol /\ x.target_qty = qty
  BY <1>2, <1>3, <1>5
<1>. QED BY <1>1, <1>4, <1>5 DEF recent, cache

\* Every bar of the series before another one is closed.
LEMMA EarlierClosed ==
  ASSUME IsHistory(events), InOrder(events), NEW n \in 1..Len(events), OfSeries(events[n])
  PROVE  AllClosed(n - 1)
<1>1. Len(events) \in Nat
  BY LenProperties DEF IsHistory
<1>2. ASSUME NEW m \in 1..(n - 1), OfSeries(events[m]), ~events[m].kline.is_final
      PROVE  FALSE
  <2>1. m \in 1..Len(events) /\ m # n /\ m <= n
    BY <1>1
  <2>2. EventTs(events[n]) < EventTs(events[m])
    BY <1>2, <2>1 DEF IsHistory, OpenBarsAreLast
  <2>3. EventTs(events[m]) <= EventTs(events[n])
    BY <2>1 DEF InOrder
  <2>4. EventTs(events[m]) \in Int /\ EventTs(events[n]) \in Int
    BY <2>1 DEF IsHistory
  <2>. QED BY <2>2, <2>3, <2>4
<1>. QED BY <1>2 DEF AllClosed

\* The engine and the strategy together: after an event the window is that of
\* one event more, and what is asked for is what the history asks for.
LEMMA EventIsSeen ==
  ASSUME IsHistory(events), InOrder(events), NEW n \in Nat, n + 1 \in 1..Len(events),
         AllClosed(n) => IsWindow(Eng!Cached(bars, Series), n),
         tick_symbols = {}, bar_keys = {Series}, targets = <<>>,
         Eng!OnEvent(events[n + 1], React(events[n + 1]))
  PROVE  /\ AllClosed(n + 1) => IsWindow(Eng!Cached(bars', Series), n + 1)
         /\ tick_symbols' = {} /\ bar_keys' = {Series}
         /\ IsRequest(targets')
         /\ CrossTarget(n + 1) = IF targets' = <<>> THEN None ELSE Some(targets'[1].target_qty)
<1> DEFINE e == events[n + 1]
           r == React(e)
           cache == Eng!PushBar(bars, e.kline)
           recent == Eng!LastN(Eng!Cached(cache, Series), Slow + 1)
           asks(qty) == \E x : r.targets = <<x>> /\ x.symbol = Symbol /\ x.target_qty = qty
<1>1. /\ r.ok /\ r.ticks = {} /\ r.bars = {}
      /\ IF ~OfSeries(e) \/ ~e.kline.is_final \/ Len(recent) < Slow + 1
         THEN r.targets = <<>>
         ELSE IF CrossesUp(recent) THEN asks(TargetQty)
         ELSE IF CrossesDown(recent) THEN asks(-TargetQty)
         ELSE r.targets = <<>>
  BY ReactIs
<1>2. IF OfSeries(e)
      THEN bars' = cache /\ Eng!Callback(e.kline.close_time, r)
      ELSE \/ UNCHANGED <<tick_symbols, bar_keys, targets>>
           \/ \E now : Eng!Callback(now, r)
  BY EngineDispatches
<1>3. OfSeries(e) \/ Eng!Cached(bars', Series) = Eng!Cached(bars, Series)
  BY OthersKeepWindow
<1>4. IF OfSeries(e) /\ e.kline.is_final THEN TRUE
      ELSE Closes(n + 1) = Closes(n) /\ CrossTarget(n + 1) = None
  BY HistoryStays
<1>5. AllClosed(n + 1) => AllClosed(n)
  <2>1. \A m \in 1..n : m \in 1..(n + 1)
    OBVIOUS
  <2>. QED BY <2>1 DEF AllClosed
<1>6. OfSeries(e) => AllClosed(n)
  <2>1. (n + 1) - 1 = n
    OBVIOUS
  <2>. QED BY <2>1, EarlierClosed
<1>7. /\ tick_symbols' = {} /\ bar_keys' = {Series}
      /\ r.targets = <<>> => targets' = <<>>
  <2>1. ASSUME NEW now, Eng!Callback(now, r)
        PROVE  /\ tick_symbols' = {} /\ bar_keys' = {Series}
               /\ r.targets = <<>> => targets' = <<>>
    <3>1. r.targets = <<>> => targets' = <<>>
      <4> HIDE DEF r
      <4>. QED BY <2>1, CallbackAsks
    <3>. QED BY <1>1, <2>1, <3>1 DEF Eng!Callback
  <2> HIDE DEF r
  <2>. QED BY <1>2, <2>1
<1>8. IsRequest(<<>>) /\ None = IF <<>> = <<>> THEN None ELSE Some(<<>>[1].target_qty)
  BY DEF IsRequest
<1>9. CASE ~OfSeries(e)
  <2>1. targets' = <<>>
    BY <1>1, <1>2, <1>7, <1>9
  <2>2. AllClosed(n + 1) => IsWindow(Eng!Cached(bars', Series), n + 1)
    BY <1>3, <1>4, <1>5, <1>9 DEF IsWindow
  <2>. QED BY <1>4, <1>7, <1>8, <1>9, <2>1, <2>2
<1>10. CASE OfSeries(e) /\ ~e.kline.is_final
  <2>1. targets' = <<>>
    BY <1>1, <1>7, <1>10
  <2>2. ~AllClosed(n + 1)
    <3>1. n + 1 \in 1..(n + 1)
      OBVIOUS
    <3>. QED BY <1>10, <3>1 DEF AllClosed
  <2>. QED BY <1>4, <1>7, <1>8, <1>10, <2>1, <2>2
<1>11. CASE OfSeries(e) /\ e.kline.is_final
  <2> DEFINE q == Eng!Cached(bars, Series)
             w == Eng!Cached(cache, Series)
  <2>1. IsWindow(q, n)
    BY <1>6, <1>11
  <2>2. w = Eng!LastN(Append(q, e.kline), MaxBars)
    BY <1>11 DEF Eng!PushBar, Eng!Cached, Eng!Insert, OfSeries
  <2>3. IsDecimal(e.kline.close)
    BY <1>11 DEF IsHistory
  <2>4. IsWindow(w, n + 1)
    <3> HIDE DEF q, w
    <3>1. IsWindow(Eng!LastN(Append(q, e.kline), MaxBars), n + 1)
      BY <1>11, <2>1, <2>3, WindowMoves
    <3>. QED BY <2>2, <3>1
  <2>5. Eng!Cached(bars', Series) = w
    BY <1>2, <1>11
  <2>6. CrossTarget(n + 1) = IF Len(recent) < Slow + 1 THEN None
                             ELSE IF CrossesUp(recent) THEN Some(TargetQty)
                             ELSE IF CrossesDown(recent) THEN Some(-TargetQty)
                             ELSE None
    <3>1. recent = Eng!LastN(w, Slow + 1)
      OBVIOUS
    <3> HIDE DEF w, recent
    <3>. QED BY <1>11, <2>4, <3>1, CrossIsOfHistory
  <2>7. \A x : r.targets = <<x>> => targets' = <<Eng!Stamp(e.kline.close_time, x)>>
    <3>1. Eng!Callback(e.kline.close_time, r)
      BY <1>2, <1>11
    <3> HIDE DEF r
    <3>. QED BY <3>1, CallbackAsks
  <2> HIDE DEF r, recent, cache, w, q
  <2>8. ASSUME NEW qty \in Int, asks(qty)
        PROVE  /\ IsRequest(targets')
               /\ Some(qty) = IF targets' = <<>> THEN None ELSE Some(targets'[1].target_qty)
    <3>1. PICK x : r.targets = <<x>> /\ x.symbol = Symbol /\ x.target_qty = qty
      BY <2>8
    <3> DEFINE t == Eng!Stamp(e.kline.close_time, x)
    <3>2. targets' = <<t>>
      BY <2>7, <3>1
    <3>3. t.symbol = Symbol /\ t.target_qty = qty
      BY <3>1 DEF Eng!Stamp
    <3> HIDE DEF t
    <3>4. <<t>> # <<>> /\ <<t>>[1] = t
      OBVIOUS
    <3>. QED BY <3>2, <3>3, <3>4 DEF IsRequest
  <2>9. TargetQty \in Int /\ -TargetQty \in Int
    BY WindowsAssumption
  <2>10. CASE Len(recent) < Slow + 1
    BY <1>1, <1>7, <1>8, <2>4, <2>5, <2>6, <2>10
  <2>11. CASE ~(Len(recent) < Slow + 1) /\ CrossesUp(recent)
    BY <1>1, <1>7, <1>11, <2>4, <2>5, <2>6, <2>8, <2>9, <2>11
  <2>12. CASE ~(Len(recent) < Slow + 1) /\ ~CrossesUp(recent) /\ CrossesDown(recent)
    BY <1>1, <1>7, <1>11, <2>4, <2>5, <2>6, <2>8, <2>9, <2>12
  <2>13. CASE ~(Len(recent) < Slow + 1) /\ ~CrossesUp(recent) /\ ~CrossesDown(recent)
    BY <1>1, <1>7, <1>8, <1>11, <2>4, <2>5, <2>6, <2>13
  <2>. QED BY <2>10, <2>11, <2>12, <2>13
<1>. QED BY <1>9, <1>10, <1>11

LEMMA CrossDispatch ==
  ASSUME CrossInv, i <= Len(events), Dispatch(React(events[i]))
  PROVE  CrossInv'
<1> DEFINE n == i - 1
           qty == Pf!PositionOf(Symbol).qty
<1>1. Replaying /\ IsHistory(events) /\ HeldInts /\ pc = "replay"
  BY DEF CrossInv, Dispatch, Fresh
<1>2. /\ n \in Nat /\ n + 1 = i /\ i \in 1..Len(events)
      /\ Seen = n /\ targets = <<>> /\ pending = <<>> /\ Ahead = qty /\ i \in Nat
      /\ \A m \in 1..n : m \in 1..Len(events)
  <2>1. Len(events) \in Nat
    BY <1>1, LenProperties DEF IsHistory
  <2>. QED BY <1>1, <2>1 DEF Replaying, Seen, Ahead
<1>3. /\ UNCHANGED <<positions, events, i, pending>> /\ pc' \in {"drain", "failed"}
      /\ Eng!OnEvent(events[i], React(events[i]))
  BY DEF Dispatch, portfolio
<1>4. CASE pc' = "failed"
  BY <1>3, <1>4, CrossOver
<1>5. CASE pc' = "drain"
  <2> HIDE DEF n
  <2>1. /\ AllClosed(n + 1) => IsWindow(Eng!Cached(bars', Series), n + 1)
        /\ tick_symbols' = {} /\ bar_keys' = {Series}
        /\ IsRequest(targets')
        /\ CrossTarget(n + 1) = IF targets' = <<>> THEN None ELSE Some(targets'[1].target_qty)
    <3>1. /\ AllClosed(n) => IsWindow(Eng!Cached(bars, Series), n)
          /\ tick_symbols = {} /\ bar_keys = {Series} /\ InOrder(events)
      BY <1>1, <1>2 DEF Replaying
    <3>2. n \in Nat /\ n + 1 \in 1..Len(events) /\ targets = <<>> /\ IsHistory(events)
      BY <1>1, <1>2
    <3>3. Eng!OnEvent(events[n + 1], React(events[n + 1]))
      BY <1>2, <1>3
    <3>. QED BY ONLY <3>1, <3>2, <3>3, EventIsSeen
  <2>2. Follows(n + 1, UnwrapOr(CrossTarget(n + 1), qty))
    <3>1. ClosesAreDecimal(n)
      BY <1>1, <1>2 DEF IsHistory, ClosesAreDecimal
    <3>2. Follows(n, qty)
      BY <1>1, <1>2 DEF Replaying
    <3> HIDE DEF qty
    <3>. QED BY <1>2, <3>1, <3>2, FollowsOn
  <2>3. Seen' = n + 1 /\ HeldInts' /\ qty' = qty
    BY <1>1, <1>2, <1>3, <1>5 DEF Seen, HeldInts, Pf!PositionOf, Pf!NoPosition
  <2>4. AskedFor' = CrossTarget(n + 1) /\ Ahead' = UnwrapOr(CrossTarget(n + 1), qty)
    BY <1>2, <1>3, <2>1, <2>3 DEF AskedFor, Ahead, UnwrapOr, IsSome, Some, None
  <2>5. /\ (AllClosed(Seen)' => IsWindow(Eng!Cached(bars, Series), Seen)')
        /\ Follows(Seen, Ahead)' /\ CrossTarget(Seen)' = CrossTarget(n + 1)
        /\ IsHistory(events)' /\ InOrder(events)'
    <3>1. Eng!Cached(bars, Series)' = Eng!Cached(bars', Series)
      BY DEF Eng!Cached
    <3>2. InOrder(events)
      BY <1>1 DEF Replaying
    <3>. QED BY <1>1, <1>3, <2>1, <2>2, <2>3, <2>4, <3>1, <3>2, HistoryKeeps
  <2>6. Replaying'
    BY <1>1, <1>2, <1>3, <1>5, <2>1, <2>3, <2>4, <2>5 DEF Replaying, IsRequest
  <2>. QED BY <2>3, <2>5, <2>6 DEF CrossInv
<1>. QED BY <1>3, <1>4, <1>5

LEMMA CrossStep ==
  ASSUME CrossInv, [MaNext]_vars
  PROVE  CrossInv'
<1>1. CASE Start(OnInit)
  BY <1>1, CrossStart
<1>2. CASE pc = "replay" /\ i <= Len(events) /\ Dispatch(React(events[i]))
  BY <1>2, CrossDispatch
<1>3. CASE Drain
  BY <1>3, CrossDrain
<1>4. CASE FillTarget
  BY <1>4, CrossFill
<1>5. CASE Mark
  BY <1>5, CrossMark
<1>6. CASE MissFillPrice
  BY <1>6, CrossOver DEF MissFillPrice, portfolio
<1>7. CASE Finish
  BY <1>7, CrossOver DEF Finish, portfolio
<1>8. CASE UNCHANGED vars
  BY <1>8, CrossKeeps DEF vars, engine, portfolio, control
<1>. QED BY <1>1, <1>2, <1>3, <1>4, <1>5, <1>6, <1>7, <1>8 DEF MaNext, Settle

LEMMA FreshInitially == Init => Fresh /\ HeldInts
BY SeriesAssumption DEF Init, Eng!Init, Pf!Init, Fresh, HeldInts, Pf!PositionOf, Pf!NoPosition,
     Pf!EmptyMap, EmptyMap, Eng!EmptyMap

LEMMA InputsAreHistories ==
  ASSUME NEW input \in Inputs, OpenBarsAreLast(input)
  PROVE  IsHistory(input)
<1>1. input \in Seq({e \in Range(input) : EventTs(e) \in Int})
  BY InputsAssumption
<1>2. \A n \in 1..Len(input) : input[n] \in {e \in Range(input) : EventTs(e) \in Int}
  BY <1>1, ElementOfSeq
<1>3. input \in Seq(Elements(input))
  BY <1>1, ElementsOfSeq
<1>4. \A n \in 1..Len(input) : OfSeries(input[n]) => IsDecimal(input[n].kline.close)
  BY EventsAssumption DEF OfSeries, IsPriced
<1>. QED BY <1>2, <1>3, <1>4 DEF IsHistory

LEMMA CrossMeansSignal == CrossInv => SignalIsHistoryCross
<1> SUFFICES ASSUME CrossInv, pc = "drain"
             PROVE  Len(targets) <= 1 /\ AskedFor = CrossTarget(i)
  BY DEF SignalIsHistoryCross, AskedFor
<1>1. Replaying
  BY DEF CrossInv, Fresh
<1>2. AskedFor = CrossTarget(i)
  BY <1>1 DEF Replaying, Seen
<1>3. Len(targets) <= 1
  <2>1. CASE targets = <<>>
    BY <2>1
  <2>2. CASE \E t : targets = <<t>>
    BY <2>2
  <2>. QED BY <1>1, <2>1, <2>2 DEF Replaying, IsRequest
<1>. QED BY <1>2, <1>3

LEMMA CrossMeansFollows == CrossInv => PositionFollowsAverages
<1> DEFINE qty == Pf!PositionOf(Symbol).qty
           gap == Sign(Gap(Closes(i - 1), Len(Closes(i - 1))))
<1> SUFFICES ASSUME CrossInv, pc = "replay", Len(Closes(i - 1)) > Slow
             PROVE  Signum(TargetQty) * Signum(qty) * gap >= 0
  BY DEF PositionFollowsAverages
<1>1. Replaying
  BY DEF CrossInv, Fresh
<1>2. Follows(i - 1, qty) /\ ~(Len(Closes(i - 1)) <= Slow)
  <2>1. i - 1 \in Nat /\ Follows(i - 1, qty)
    BY <1>1 DEF Replaying, Seen, Ahead
  <2>2. Len(Closes(i - 1)) \in Nat /\ Slow \in Nat
    BY <2>1, ClosesShape, WindowsAssumption
  <2>. QED BY <2>1, <2>2
<1>3. PICK side \in {-1, 0, 1} : qty = side * TargetQty /\ side * gap >= 0
  BY <1>2 DEF Follows
<1>4. gap \in {-1, 0, 1} /\ TargetQty \in Int
  BY SignIs, WindowsAssumption
<1> HIDE DEF qty, gap
<1>5. Signum(TargetQty) \in {-1, 0, 1}
  BY DEF Signum
<1>6. CASE side = 0
  <2>1. qty = 0
    BY <1>3, <1>4, <1>6
  <2>2. Signum(qty) = 0
    BY <2>1 DEF Signum
  <2>. QED BY <1>4, <1>5, <2>2
<1>7. CASE side = 1
  <2>1. qty = TargetQty
    BY <1>3, <1>4, <1>7
  <2>2. gap \in {0, 1}
    BY <1>3, <1>4, <1>7
  <2>. QED BY <1>5, <2>1, <2>2
<1>8. CASE side = -1
  <2>1. qty = -TargetQty
    BY <1>3, <1>4, <1>8
  <2>2. gap \in {0, -1}
    BY <1>3, <1>4, <1>8
  <2>3. Signum(qty) = -Signum(TargetQty)
    BY <1>4, <2>1 DEF Signum
  <2>. QED BY <1>5, <2>2, <2>3
<1>. QED BY <1>3, <1>6, <1>7, <1>8

\* Over any events of which the last bar of the series alone may be open,
\* MaCrossCtaStrategy asks for exactly what the cross of the averages over the
\* whole history of closed bars asks for, whatever comes between them and
\* however many bars the cache has dropped.  Without the hypothesis it does
\* not: a bar that the engine caches before it closes counts twice.
THEOREM SignalCorrectness ==
  ASSUME \A input \in Inputs : OpenBarsAreLast(input)
  PROVE  MaSpec => []SignalIsHistoryCross
<1>1. Init => CrossInv
  BY FreshInitially, InputsAreHistories DEF Init, CrossInv
<1>. QED BY <1>1, CrossStep, CrossMeansSignal, PTL DEF MaSpec

\* Over the same events the account that run_cta_backtest keeps is, with a
\* positive size, never long while the fast average is below the slow one, nor
\* short while it is above.
THEOREM FollowCorrectness ==
  ASSUME \A input \in Inputs : OpenBarsAreLast(input)
  PROVE  MaSpec => []PositionFollowsAverages
<1>1. Init => CrossInv
  BY FreshInitially, InputsAreHistories DEF Init, CrossInv
<1>. QED BY <1>1, CrossStep, CrossMeansFollows, PTL DEF MaSpec
=============================================================================
