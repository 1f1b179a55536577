------------------------------ MODULE MaCross ------------------------------
(***************************************************************************)
(* A backtest of MaCrossCtaStrategy of wt-engine, the moving-average cross *)
(* that the examples and the command line run.  The strategy keeps no      *)
(* state: each callback is a function of the engine's bar cache and the    *)
(* bar just pushed.                                                        *)
(***************************************************************************)
EXTENDS Backtest

CONSTANTS
  Symbol, Interval,  \* the series the strategy trades
  Fast, Slow,        \* the windows, in bars
  TargetQty          \* the size of its positions

\* MaCrossCtaStrategy::new asserts the first two.  CtaEngine::new caches 4096
\* bars, and a strategy with a longer slow window never acts.
ASSUME WindowsAssumption ==
  /\ Fast \in Nat \ {0}
  /\ Slow \in Nat /\ Slow > Fast
  /\ MaxBars \in Nat /\ MaxBars >= Slow + 1
  /\ TargetQty \in Int

ASSUME SeriesAssumption == Symbol \in Symbols /\ Interval \in Intervals

Series == <<Symbol, Interval>>

SimpleMa(items) ==
  SumOver([n \in 1..Len(items) |-> items[n].close], 1..Len(items)) // Dec(Len(items))

Silent == [ok |-> TRUE, ticks |-> {}, bars |-> {}, targets |-> <<>>]

OnInit == [Silent EXCEPT !.bars = {Series}]

Above(a, b) == ~AtMost(a, b)

\* The average over count bars, the last of them as many bars ago.
Average(recent, count, ago) ==
  SimpleMa(SubSeq(recent, Len(recent) - ago - count + 1, Len(recent) - ago))

\* Mutants: a cross from equality is missed; both averages are the latest.
CrossesUpStrictly(recent) ==
  /\ Above(Average(recent, Slow, 1), Average(recent, Fast, 1))
  /\ Above(Average(recent, Fast, 0), Average(recent, Slow, 0))
CrossesDownNever(recent) ==
  /\ AtMost(Average(recent, Slow, 0), Average(recent, Fast, 0))
  /\ Above(Average(recent, Slow, 0), Average(recent, Fast, 0))

\* recent is the last Slow + 1 bars: the averages before the last bar, and
\* with it.
CrossesUp(recent) ==
  /\ AtMost(Average(recent, Fast, 1), Average(recent, Slow, 1))
  /\ Above(Average(recent, Fast, 0), Average(recent, Slow, 0))

CrossesDown(recent) ==
  /\ AtMost(Average(recent, Slow, 1), Average(recent, Fast, 1))
  /\ Above(Average(recent, Slow, 0), Average(recent, Fast, 0))

OnBar(cache, bar) ==
  LET recent == Eng!RecentBars(cache, Series, Slow + 1)
      setTarget(qty) ==
        [Silent EXCEPT !.targets =
           <<[symbol |-> Symbol, target_qty |-> qty, signal_price |-> Some(bar.close)]>>]
  IN  IF ~bar.is_final \/ Eng!BarKey(bar) # Series \/ Len(recent) < Slow + 1 THEN Silent
      ELSE IF CrossesUp(recent) THEN setTarget(TargetQty)
      ELSE IF CrossesDown(recent) THEN setTarget(-TargetQty)
      ELSE Silent

\* on_tick and on_schedule are the trait's defaults, which do nothing.
React(event) ==
  IF Eng!IsBar(event) THEN OnBar(Eng!PushBar(bars, event.kline), event.kline) ELSE Silent

MaNext ==
  \/ Start(OnInit)
  \/ pc = "replay" /\ i <= Len(events) /\ Dispatch(React(events[i]))
  \/ Settle

MaSpec == Init /\ [][MaNext]_vars
-----------------------------------------------------------------------------
\* The places of the closed bars of the series among the first n events.
ClosedBars(n) ==
  {m \in 1..n : /\ Eng!IsBar(events[m])
                /\ Eng!BarKey(events[m].kline) = Series
                /\ events[m].kline.is_final}

\* Their closes: the whole history, of which the strategy sees a window
\* through the cache.
Closes(n) ==
  LET places == ClosedBars(n)
  IN  [k \in 1..Cardinality(places) |-> Chosen(events, places)[k].kline.close]

\* Slow * Fast times the distance of the fast average over the slow one after
\* the first m closes, when there are that many.
Gap(closes, m) ==
  LET sum(count) == SumOver(closes, (m - count + 1)..m)
  IN  (Dec(Slow) ** sum(Fast)) -- (Dec(Fast) ** sum(Slow))

Sign(n) == Signum(n[1])

\* What the cross of the averages asks for after the first n events.
CrossTarget(n) ==
  LET closes == Closes(n)
      now    == Sign(Gap(closes, Len(closes)))
      before == Sign(Gap(closes, Len(closes) - 1))
      isNew  == Len(closes) > Len(Closes(n - 1))
  IN  IF ~isNew \/ Len(closes) <= Slow \/ now = 0 \/ before = now THEN None
      ELSE Some(now * TargetQty)

\* After each event the strategy has asked for exactly what the cross of the
\* averages over the whole history of closed bars asks for: the bounded cache
\* and the other series and events between the bars make no difference.
SignalIsHistoryCross ==
  pc = "drain" =>
    /\ Len(targets) <= 1
    /\ (IF targets = <<>> THEN None ELSE Some(targets[1].target_qty)) = CrossTarget(i)

\* With a positive size, the account is never long while the fast average is
\* below the slow one, nor short while it is above: no cross is missed between
\* the first and the last bar.
PositionFollowsAverages ==
  pc = "replay" =>
    LET closes == Closes(i - 1)
    IN  Len(closes) > Slow =>
          Signum(TargetQty) * Signum(Pf!PositionOf(Symbol).qty) * Sign(Gap(closes, Len(closes))) >= 0
=============================================================================
