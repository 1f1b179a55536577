---------------------------- MODULE SelSchedule ----------------------------
(***************************************************************************)
(* MomentumRankSelStrategy run by an EveryIntervalScheduler: the driver    *)
(* hands its SelEngine the bars as they come and, whenever a poll of the   *)
(* scheduler finds an event due, that event.  Bars and polls come in any   *)
(* order, and polls late, repeatedly or with a clock that went back.       *)
(* The bars are closed ones: a SelEngine caches updates of open bars as    *)
(* the CTA engine does, whose effect the run ma_cross_live shows.          *)
(***************************************************************************)
EXTENDS Scheduler, MomentumRank

CONSTANT MaxBarsSeen  \* bound on the number of bars of all symbols

VARIABLE ranked  \* history: the closes seen and the positions when the latest event fired

runVars == <<vars, selVars, ranked>>

RunInit == Init /\ SelInit /\ ranked = [seen |-> seen, positions |-> positions]

Arrive(symbol, close) ==
  /\ FoldFunctionOnSet(LAMBDA closes, sum : Len(closes) + sum, 0, seen, Symbols) < MaxBarsSeen
  /\ Bar(symbol, close)
  /\ UNCHANGED <<vars, ranked>>

\* What next_due returns, if anything, is the engine's next event.
Poll(now) ==
  /\ phase = "event"
  /\ Len(fired) < MaxFires
  /\ NextDue(now)
  /\ IF fired' # fired
     THEN /\ Schedule(Last(fired'))
          /\ ranked' = [seen |-> seen, positions |-> positions]
     ELSE UNCHANGED <<selVars, ranked>>

RunNext ==
  \/ Start /\ UNCHANGED <<vars, ranked>>
  \/ \E s \in Symbols, c \in Closes : Arrive(s, c)
  \/ \E now \in PollTimes : Poll(now)
  \/ Settle /\ UNCHANGED <<vars, ranked>>

RunSpec == RunInit /\ [][RunNext]_runVars
-----------------------------------------------------------------------------
Held(map, symbol) == UnwrapOr(Get(map, symbol), Zero)

\* The close that a ranking compares the last one with.
Past(closes) == closes[Len(closes) - LookbackBars]

IsRanked(closes) ==
  Len(closes) > LookbackBars /\ Past(closes) # Zero /\ Last(closes) # Zero

\* What a ranking asks a map of positions to be: the sides follow the change
\* over the lookback, every leg is worth the notional at the last close, and
\* what is not ranked is left alone.
FollowsRanking(map, then) ==
  LET scored == {s \in Range(SymbolList) : IsRanked(then.seen[s])}
      past(s) == Past(then.seen[s])
      last(s) == Last(then.seen[s])
      side(s) == Sign(Held(map, s))
  IN  /\ \A s \in Symbols \ scored : Held(map, s) = Held(then.positions, s)
      /\ \A s \in scored : Held(map, s) ** last(s) = NotionalPerLeg ** Dec(side(s))
      /\ \A s, t \in scored :
           ~AtMost(last(s) ** past(t), last(t) ** past(s)) => side(s) >= side(t)
      /\ Cardinality(scored) >= LongCount + ShortCount =>
           /\ Cardinality({s \in scored : side(s) > 0}) = LongCount
           /\ Cardinality({s \in scored : side(s) < 0}) = ShortCount

\* Between two events of the scheduler the account holds what the ranking at
\* the first of them asked for, whatever bars come meanwhile and however often
\* the scheduler is polled.  A symbol that has too few bars, or a close of
\* zero, is left as it was before.
HoldsLatestRanking ==
  phase = "event" /\ fired # <<>> => FollowsRanking(positions, ranked)
=============================================================================
