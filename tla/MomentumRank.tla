---------------------------- MODULE MomentumRank ----------------------------
(***************************************************************************)
(* MomentumRankSelStrategy of wt-engine in a SelEngine: at every schedule  *)
(* event it ranks its symbols by the change of their closes over the       *)
(* lookback, goes long the best and short the worst, each leg of the same  *)
(* notional, and flat the others.                                          *)
(*                                                                         *)
(* The driver is not part of the code yet; as in the backtest of CTA       *)
(* strategies it drains the targets after every event, fills them and      *)
(* reports the positions before the next.                                  *)
(***************************************************************************)
EXTENDS SelEngine, FiniteSets, FiniteSetsExt

CONSTANTS
  SymbolList,             \* symbols, a sequence without repetition
  BarInterval,
  LookbackBars,
  LongCount, ShortCount,
  NotionalPerLeg,         \* a Decimal
  Closes,                 \* the closes seen, Decimals
  MaxSeen                 \* bound on the number of bars of one symbol

\* MomentumRankSelStrategy::new asserts the first; SelEngine::new caches 4096
\* bars, and a strategy that looks back further never acts.
ASSUME LookbackAssumption ==
  /\ LookbackBars \in Nat \ {0}
  /\ MaxBars >= LookbackBars + 1
  /\ LongCount \in Nat /\ ShortCount \in Nat
  /\ \A m, n \in 1..Len(SymbolList) : SymbolList[m] = SymbolList[n] => m = n
  /\ SymbolList \in Seq(Symbols)

\* Prices are not negative, but may be zero; a leg has a notional.
ASSUME PricesAssumption ==
  /\ \A c \in Closes : IsDecimal(c) /\ c[1] >= 0
  /\ IsDecimal(NotionalPerLeg) /\ NotionalPerLeg[1] > 0

VARIABLES
  phase,  \* what the driver does next: "initialize", "event" or "drain"
  seen    \* history: map from symbol to the closes of its bars so far

selVars == <<engineVars, phase, seen>>

SelInit ==
  /\ EngineInit
  /\ phase = "initialize"
  /\ seen = [s \in Symbols |-> <<>>]
-----------------------------------------------------------------------------
Silent == [ok |-> TRUE, bars |-> {}, targets |-> <<>>]

OnInit == [Silent EXCEPT !.bars = Range(SymbolList) \X {BarInterval}]

Window(symbol) == RecentBars(bars, <<symbol, BarInterval>>, LookbackBars + 1)
First(symbol) == Head(Window(symbol)).close
Latest(symbol) == Last(Window(symbol)).close

IsScored(symbol) ==
  /\ Len(Window(symbol)) = LookbackBars + 1
  /\ First(symbol) # Zero
  /\ Latest(symbol) # Zero

Score(symbol) == (Latest(symbol) // First(symbol)) -- Dec(1)

\* The places of the symbols that are scored.
Scored == {n \in 1..Len(SymbolList) : IsScored(SymbolList[n])}

\* Best first; the sort is stable, so equals keep the order of the symbols.
Ahead(n) ==
  {m \in Scored :
     LET score == Score(SymbolList[n])
         other == Score(SymbolList[m])
     IN  ~AtMost(other, score) \/ (other = score /\ m < n)}

Ranked ==
  [k \in 1..Cardinality(Scored) |->
     SymbolList[CHOOSE n \in Scored : Cardinality(Ahead(n)) = k - 1]]

\* The short legs are entered in the map last, over long ones.
LegQty(n) ==
  LET leg == NotionalPerLeg // Latest(Ranked[n])
  IN  IF n > Len(Ranked) - ShortCount THEN Negate[leg]
      ELSE IF n <= LongCount THEN leg
      ELSE Zero

\* Mutant: symbols without a leg get no target.
RebalanceLegsOnly ==
  [Silent EXCEPT !.targets =
     LET leg(n) == LegQty(n) # Zero
         legs == SelectSeq([n \in 1..Len(Ranked) |-> n], leg)
     IN  [n \in 1..Len(legs) |->
            [symbol |-> Ranked[legs[n]], target_qty |-> LegQty(legs[n]),
             signal_price |-> Some(Latest(Ranked[legs[n]]))]]]

Rebalance ==
  [Silent EXCEPT !.targets =
     [n \in 1..Len(Ranked) |->
        [symbol |-> Ranked[n], target_qty |-> LegQty(n),
         signal_price |-> Some(Latest(Ranked[n]))]]]
-----------------------------------------------------------------------------
\* Time is counted in bars: the latest close of any symbol.
Now == Max({Len(seen[s]) : s \in Symbols})

Start ==
  /\ phase = "initialize"
  /\ Initialize(Now, OnInit)
  /\ phase' = "event"
  /\ UNCHANGED seen

\* on_bar is the trait's default, which does nothing.
Bar(symbol, close) ==
  /\ phase = "event"
  /\ Len(seen[symbol]) < MaxSeen
  /\ OnKline([symbol |-> symbol, interval |-> BarInterval,
              close_time |-> Len(seen[symbol]) + 1, close |-> close], Silent)
  /\ seen' = [seen EXCEPT ![symbol] = Append(@, close)]
  /\ phase' = "drain"

Schedule(event) ==
  /\ phase = "event"
  /\ OnSchedule(event, Rebalance)
  /\ phase' = "drain"
  /\ UNCHANGED seen

Settle ==
  /\ phase = "drain"
  /\ DrainTargets
  /\ positions' = FoldLeft(SetPosition, positions, targets)
  /\ phase' = "event"
  /\ UNCHANGED seen

SelNext ==
  \/ Start
  \/ \E s \in Symbols, c \in Closes : Bar(s, c)
  \/ Schedule([ts |-> Now])
  \/ Settle

SelSpec == SelInit /\ [][SelNext]_selVars
-----------------------------------------------------------------------------
Sign(decimal) == Signum(decimal[1])

Longs == {n \in 1..Len(targets) : Sign(targets[n].target_qty) > 0}

\* The live configuration asks for three long and three short legs among four
\* symbols: a ranking of at least long_count symbols has long_count longs.
LongLegsAsConfigured ==
  targets # <<>> /\ Len(targets) >= LongCount => Cardinality(Longs) = LongCount
=============================================================================
