------------------------------ MODULE Metrics ------------------------------
(***************************************************************************)
(* compute_metrics of wt-report over the equity curve and the trades of a  *)
(* BacktestPortfolio.  f64 is an exact fraction.  Roots and powers are     *)
(* left out: the annualized return and the Calmar ratio are modelled by    *)
(* whether they have a value, volatility and Sharpe ratio not at all, for  *)
(* the rounding of f64 decides whether they have one.  periods_per_year is *)
(* positive.                                                               *)
(***************************************************************************)
EXTENDS Portfolio

CONSTANT MaxSteps  \* bound on trades and equity points together

MetricsNext == Len(trades) + Len(equity) < MaxSteps /\ Next

MetricsSpec == Init /\ [][MetricsNext]_vars
-----------------------------------------------------------------------------
Values == [n \in 1..Len(equity) |-> equity[n].equity]

IsPositive(value) == Signum(value[1]) > 0

\* Some(f) unless there is nothing to divide by.
Ratio(a, b) == IF b = Zero THEN None ELSE Some(a // b)

Total(values) == SumOver(values, 1..Len(values))

\* A loop over a sequence; step is a function of what was found so far and of
\* the next element.
Folded(step, first, seq) == FoldLeft(LAMBDA found, x : step[<<found, x>>], first, seq)

\* Mutants: relative to the end; returns relative to the later value.
TotalReturnOfEnd ==
  IF Head(Values) = Zero THEN Zero ELSE Dec(1) -- (Head(Values) // Last(Values))
PeriodReturnsOfLater ==
  LET periods == 1..(Len(Values) - 1)
      earlier == Chosen([n \in periods |-> n], {n \in periods : Values[n + 1] # Zero})
  IN  [n \in 1..Len(earlier) |-> (Values[earlier[n]] // Values[earlier[n] + 1]) -- Dec(1)]

TotalReturn ==
  IF Head(Values) = Zero THEN Zero ELSE (Last(Values) // Head(Values)) -- Dec(1)

\* A period that starts with nothing has no return.
PeriodReturns ==
  LET periods == 1..(Len(Values) - 1)
      from == Chosen([n \in periods |-> n], {n \in periods : Values[n] # Zero})
  IN  [n \in 1..Len(from) |-> (Values[from[n] + 1] // Values[from[n]]) -- Dec(1)]

\* The peak starts below every value, which None stands for.
Peaks == [peak : Option(Pairs), worst : Pairs]

Lower(a, b) == IF AtMost(a, b) THEN a ELSE b

Fall(v, peak) == (v // peak) -- Dec(1)

\* Mutant: the peak follows the curve down.
DrawdownOfPrevious ==
  LET step ==
        [p \in Peaks \X Pairs |->
           LET v == p[2]
           IN  [peak |-> Some(v),
                worst |-> IF IsSome(p[1].peak) /\ IsPositive(p[1].peak[1])
                          THEN Lower(p[1].worst, Fall(v, p[1].peak[1])) ELSE p[1].worst]]
  IN  Folded(step, [peak |-> None, worst |-> Zero], Values).worst

DrawdownStep ==
  [p \in Peaks \X Pairs |->
     LET v == p[2]
         peak == IF IsSome(p[1].peak) /\ AtMost(v, p[1].peak[1]) THEN p[1].peak[1] ELSE v
     IN  [peak |-> Some(peak),
          worst |-> IF IsPositive(peak) THEN Lower(p[1].worst, Fall(v, peak)) ELSE p[1].worst]]

MaxDrawdown == Folded(DrawdownStep, [peak |-> None, worst |-> Zero], Values).worst

TradePnls == [n \in 1..Len(trades) |-> trades[n].realized_pnl]
Winners == Chosen(TradePnls, {n \in 1..Len(trades) : Signum(TradePnls[n][1]) > 0})

\* Mutant: a trade that realizes nothing counts as a loss.
LosersOrFlat == Chosen(TradePnls, {n \in 1..Len(trades) : Signum(TradePnls[n][1]) <= 0})

Losers == Chosen(TradePnls, {n \in 1..Len(trades) : Signum(TradePnls[n][1]) < 0})

Average(values) == Ratio(Total(values), Dec(Len(values)))

PayoffRatio ==
  IF Winners = <<>> \/ Losers = <<>> THEN None
  ELSE Ratio(Average(Winners)[1], Negate[Average(Losers)[1]])

\* annualized_return has a value, of the sign of the total return.
IsAnnualized == Len(Values) > 1 /\ IsPositive(Head(Values)) /\ IsPositive(Last(Values))

MetricsSummary ==
  IF equity = <<>>
  THEN [total_return |-> Zero, max_drawdown |-> Zero, win_rate |-> None,
        profit_factor |-> None, payoff_ratio |-> None, avg_trade_pnl |-> None,
        trade_count |-> 0, fee_total |-> Zero,
        has_calmar |-> FALSE]
  ELSE [total_return |-> TotalReturn,
        max_drawdown |-> MaxDrawdown,
        win_rate |-> Ratio(Dec(Len(Winners)), Dec(Len(trades))),
        profit_factor |-> Ratio(Total(Winners), Negate[Total(Losers)]),
        payoff_ratio |-> PayoffRatio,
        avg_trade_pnl |-> Average(TradePnls),
        trade_count |-> Len(trades),
        fee_total |-> Total([n \in 1..Len(trades) |-> trades[n].fee]),
        has_calmar |-> IsAnnualized /\ MaxDrawdown # Zero]
-----------------------------------------------------------------------------
\* The falls between any two points of the curve, the earlier one positive.
Falls ==
  LET starts == {m \in 1..Len(Values) : IsPositive(Values[m])}
  IN  UNION {{Fall(Values[n], Values[m]) : n \in m..Len(Values)} : m \in starts}

\* max_drawdown, which looks at every point once, is the worst fall between
\* any two points of a curve that never goes below zero; it is below -1
\* exactly when the account owed money after it had some; and a run that loses
\* money but not all of it has at least that drawdown and a Calmar ratio.
DrawdownIsWorstFall ==
  LET m == MetricsSummary
      solvent == \A n \in 1..Len(Values) : Signum(Values[n][1]) >= 0
  IN  /\ solvent =>
           /\ \A fall \in Falls : AtMost(m.max_drawdown, fall)
           /\ m.max_drawdown \in Falls \cup {Zero}
      /\ ~AtMost(Dec(-1), m.max_drawdown) <=>
           \E k, n \in 1..Len(Values) :
             k < n /\ IsPositive(Values[k]) /\ Signum(Values[n][1]) < 0
      /\ IsAnnualized /\ Signum(m.total_return[1]) < 0 =>
           AtMost(m.max_drawdown, m.total_return) /\ m.has_calmar

\* The returns of the periods compound to the total return, unless the account
\* is at zero before the end: period_returns skips the period that starts there.
ReturnsCompound ==
  LET compound == [p \in Pairs \X Pairs |-> p[1] ** (Dec(1) ++ p[2])]
      compounded == Folded(compound, Dec(1), PeriodReturns)
  IN  /\ equity # <<>>
      /\ \A n \in 1..(Len(Values) - 1) : Values[n] # Zero
      /\ Head(Values) # Zero
      => compounded = Dec(1) ++ MetricsSummary.total_return

\* The trades account for the return: when the first point was taken before
\* any trade and the last one after all of them, what the summary's average
\* profit, count and fees add up to, with the open profit, is the total return
\* on an initial balance other than zero.
TradesExplainReturn ==
  LET m == MetricsSummary
      profit == UnwrapOr(m.avg_trade_pnl, Zero) ** Dec(m.trade_count)
      within == \A n \in 1..Len(trades) :
                  Head(equity).ts < trades[n].ts_trade /\ trades[n].ts_trade <= Last(equity).ts
  IN  equity # <<>> /\ InitialBalance # Zero /\ within =>
        InitialBalance ** m.total_return =
          (profit -- m.fee_total) ++ Last(equity).unrealized_pnl

Count(test(_)) == Cardinality({n \in 1..Len(trades) : test(trades[n].realized_pnl[1])})

\* The statistics count the same trades: profit factor and payoff ratio differ
\* by the numbers of winning and losing trades, and both have values only if
\* there is a loss.  Trades that open a position count too, so that no run
\* wins with all its trades.
TradeStatisticsAgree ==
  LET m == MetricsSummary
      won == Count(LAMBDA pnl : pnl > 0)
      lost == Count(LAMBDA pnl : pnl < 0)
  IN  equity # <<>> =>
        /\ IsSome(m.profit_factor) <=> lost > 0
        /\ IsSome(m.payoff_ratio) <=> won > 0 /\ lost > 0
        /\ IsSome(m.payoff_ratio) =>
             m.profit_factor[1] ** Dec(lost) = m.payoff_ratio[1] ** Dec(won)
        /\ IsSome(m.win_rate) => ~AtMost(Dec(1), m.win_rate[1])
=============================================================================
