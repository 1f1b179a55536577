----------------------------- MODULE Portfolio -----------------------------
(***************************************************************************)
(* BacktestPortfolio of wt-backtest: the average-cost book a backtest      *)
(* keeps.  A strategy's target position is filled at once at the reference *)
(* price moved by slippage; the trade updates the symbol's position and    *)
(* average entry price, the realized profit, the fees and the balance.     *)
(* Marking to market appends a point to the equity curve.                  *)
(*                                                                         *)
(* Quantities are integers, in the smallest tradeable unit; prices, rates  *)
(* and money are Decimals.                                                 *)
(***************************************************************************)
EXTENDS Decimal, Option, FiniteSets, FiniteSetsExt, SequencesExt

CONSTANTS
  Symbols,        \* the instruments
  InitialBalance, \* BacktestConfig::initial_balance, a Decimal
  FeeRate,        \* BacktestConfig::taker_fee_rate, a Decimal
  Slippage,       \* BacktestConfig::slippage_bps / 10_000, a Decimal
  Qtys,           \* the target quantities strategies ask for, integers
  Prices,         \* the reference prices seen, Decimals
  MaxTrades,      \* bound on the number of trades
  MaxMarks        \* bound on the number of equity points

ASSUME SymbolsAssumption == IsFiniteSet(Symbols)

ASSUME MoneyAssumption ==
  /\ IsDecimal(InitialBalance) /\ IsDecimal(FeeRate) /\ IsDecimal(Slippage)
  /\ \A p \in Prices : IsDecimal(p)

ASSUME QtysAssumption == Qtys \subseteq Int

VARIABLES
  positions,    \* map from symbol to [qty, avg_entry_price]
  balance, realized_pnl, fee_total,
  trades,       \* sequence of trades
  equity,       \* sequence of equity points
  order_seq     \* number of orders made, the source of order ids

vars == <<positions, balance, realized_pnl, fee_total, trades, equity, order_seq>>

Sides == {"Buy", "Sell"}

\* PositionState::default()
NoPosition == [qty |-> 0, avg_entry_price |-> None]

PositionOf(symbol) ==
  IF symbol \in DOMAIN positions THEN positions[symbol] ELSE NoPosition

Init ==
  /\ positions = EmptyMap
  /\ balance = InitialBalance
  /\ realized_pnl = Zero
  /\ fee_total = Zero
  /\ trades = <<>>
  /\ equity = <<>>
  /\ order_seq = 0
-----------------------------------------------------------------------------
\* What a buyer pays more and a seller receives less than the reference price.
ApplySlippage(price, side) ==
  IF side = "Buy" THEN price ** (Dec(1) ++ Slippage)
                  ELSE price ** (Dec(1) -- Slippage)

\* A trade in the direction of the position, or from flat, averages the fill
\* into the entry price and realizes nothing.
Extends(qty, diff) == qty = 0 \/ Signum(qty) = Signum(diff)

AveragedEntry(state, diff, fill) ==
  LET held  == UnwrapOr(state.avg_entry_price, fill) ** Dec(Abs(state.qty))
      added == fill ** Dec(Abs(diff))
  IN  (held ++ added) // Dec(Abs(state.qty + diff))

\* Mutants: a closed position keeps its entry; a flip keeps the old entry.
EntryKeptWhenFlat(state, diff, fill) ==
  IF Signum(state.qty + diff) = Signum(state.qty) THEN Some(UnwrapOr(state.avg_entry_price, fill))
                                                 ELSE Some(fill)
EntryKeptByFlip(state, diff, fill) ==
  IF state.qty + diff = 0 THEN None ELSE Some(UnwrapOr(state.avg_entry_price, fill))

\* A trade against the position closes all or part of it; what is left over
\* after closing opens the opposite position at the fill price.
EntryAfterReduction(state, diff, fill) ==
  LET qty == state.qty + diff
  IN  IF qty = 0 THEN None
      ELSE IF Signum(qty) = Signum(state.qty)
           THEN Some(UnwrapOr(state.avg_entry_price, fill))
           ELSE Some(fill)

\* Mutant: a trade larger than the position only closes it.
UpdatePositionStateClamped(state, diff, fill) ==
  [qty |-> IF Extends(state.qty, diff) \/ Abs(diff) <= Abs(state.qty) THEN state.qty + diff ELSE 0,
   avg_entry_price |->
     IF Extends(state.qty, diff) THEN Some(AveragedEntry(state, diff, fill))
                                 ELSE EntryAfterReduction(state, diff, fill)]

UpdatePositionState(state, diff, fill) ==
  [qty |-> state.qty + diff,
   avg_entry_price |->
     IF Extends(state.qty, diff) THEN Some(AveragedEntry(state, diff, fill))
                                 ELSE EntryAfterReduction(state, diff, fill)]

\* Mutant: a flip realizes the profit of the whole trade.
RealizedOfTrade(state, diff, fill) ==
  IF Extends(state.qty, diff) THEN Zero
  ELSE (fill -- UnwrapOr(state.avg_entry_price, fill)) ** Dec(Abs(diff) * Signum(state.qty))

Realized(state, diff, fill) ==
  IF Extends(state.qty, diff) THEN Zero
  ELSE LET closed == IF Abs(state.qty) < Abs(diff) THEN Abs(state.qty) ELSE Abs(diff)
           entry  == UnwrapOr(state.avg_entry_price, fill)
       IN  (fill -- entry) ** Dec(closed * Signum(state.qty))

Fill(target, reference) ==
  LET state    == PositionOf(target.symbol)
      diff     == target.target_qty - state.qty
      side     == IF diff > 0 THEN "Buy" ELSE "Sell"
      price    == ApplySlippage(reference, side)
      fee      == Dec(Abs(diff)) ** price ** FeeRate
      realized == Realized(state, diff, price)
  IN  /\ diff # 0
      /\ positions' = Insert(positions, target.symbol,
                             UpdatePositionState(state, diff, price))
      /\ realized_pnl' = realized_pnl ++ realized
      /\ fee_total' = fee_total ++ fee
      /\ balance' = balance ++ (realized -- fee)
      /\ order_seq' = order_seq + 1
      /\ trades' = Append(trades,
           [ts_trade |-> target.ts, symbol |-> target.symbol, side |-> side,
            price |-> price, qty |-> Abs(diff), fee |-> fee,
            realized_pnl |-> realized, order_id |-> order_seq'])
      /\ UNCHANGED equity

AlreadyThere(target) ==
  /\ target.target_qty = PositionOf(target.symbol).qty
  /\ UNCHANGED vars

ExecuteTarget(target, reference) == Fill(target, reference) \/ AlreadyThere(target)
-----------------------------------------------------------------------------
\* A position counts when the market has shown a price for its symbol.
Marked(prices) ==
  {s \in DOMAIN positions : s \in DOMAIN prices /\ IsSome(positions[s].avg_entry_price)}

Unrealized(prices) ==
  SumOver([s \in Marked(prices) |->
             (prices[s] -- positions[s].avg_entry_price[1]) ** Dec(positions[s].qty)],
          Marked(prices))

\* The fields marks and held are a history of the prices used and the
\* quantities valued; EquityPoint has no such fields.
MarkToMarket(ts, prices) ==
  /\ equity' = Append(equity,
       [ts |-> ts, balance |-> balance, equity |-> balance ++ Unrealized(prices),
        realized_pnl |-> realized_pnl, unrealized_pnl |-> Unrealized(prices),
        fee_total |-> fee_total, marks |-> prices,
        held |-> [s \in Symbols |-> PositionOf(s).qty]])
  /\ UNCHANGED <<positions, balance, realized_pnl, fee_total, trades, order_seq>>

\* BacktestResult::final_positions, the symbols ever traded.
FinalPositions == [s \in DOMAIN positions |-> positions[s].qty]
-----------------------------------------------------------------------------
TradeSome ==
  /\ Len(trades) < MaxTrades
  /\ \E s \in Symbols, q \in Qtys, p \in Prices :
       ExecuteTarget([ts |-> Len(equity), symbol |-> s, target_qty |-> q], p)

MarkSome ==
  /\ Len(equity) < MaxMarks
  /\ \E prices \in Maps(Symbols, Prices) : MarkToMarket(Len(equity), prices)

Next == TradeSome \/ MarkSome

Spec == Init /\ [][Next]_vars
-----------------------------------------------------------------------------
\* Every variable holds the type the struct's field declares.
TypeOK ==
  /\ DOMAIN positions \subseteq Symbols
  /\ \A s \in DOMAIN positions :
       /\ positions[s].qty \in Int
       /\ IsSome(positions[s].avg_entry_price) => IsDecimal(positions[s].avg_entry_price[1])
  /\ IsDecimal(balance) /\ IsDecimal(realized_pnl) /\ IsDecimal(fee_total)
  /\ \A i \in 1..Len(trades) :
       /\ trades[i].symbol \in Symbols
       /\ trades[i].side \in Sides
       /\ trades[i].qty \in Nat \ {0}
       /\ IsDecimal(trades[i].price) /\ IsDecimal(trades[i].fee)
  /\ \A i \in 1..Len(equity) : IsDecimal(equity[i].equity)

\* A position has an average entry price exactly while it is open: after any
\* sequence of additions, partial closes, closes and flips, a flat symbol has
\* forgotten its entry and an open one has not (update_position_state).
FlatIffNoEntry ==
  \A s \in DOMAIN positions :
    positions[s].qty = 0 <=> positions[s].avg_entry_price = None

SignedQty(trade) == IF trade.side = "Buy" THEN trade.qty ELSE -trade.qty

\* What the trades say a symbol's position was after the first n of them.
TradedQty(symbol, n) ==
  SumOver([k \in 1..n |-> Dec(SignedQty(trades[k]))], {k \in 1..n : trades[k].symbol = symbol})

TotalOf(field) == SumOver([k \in 1..Len(trades) |-> trades[k][field]], 1..Len(trades))

\* The trade list explains the book: signed quantities add up to the
\* positions, the realized profits and fees of the trades to the totals and,
\* with the initial balance, to the balance; order ids number the trades.
TradesExplainBook ==
  /\ \A s \in Symbols : Dec(PositionOf(s).qty) = TradedQty(s, Len(trades))
  /\ realized_pnl = TotalOf("realized_pnl")
  /\ fee_total = TotalOf("fee")
  /\ balance = InitialBalance ++ (realized_pnl -- fee_total)
  /\ order_seq = Len(trades)
  /\ \A i \in 1..Len(trades) : trades[i].order_id = i

\* The trades that built the open position of a symbol: those in its
\* direction since it was last flat or on the other side.
Building(symbol) ==
  LET sign == Signum(PositionOf(symbol).qty)
  IN  {i \in 1..Len(trades) :
         /\ trades[i].symbol = symbol
         /\ Signum(SignedQty(trades[i])) = sign
         /\ \A j \in i..Len(trades) : Signum(TradedQty(symbol, j)[1]) = sign}

\* The average entry price lies between the lowest and the highest price paid
\* for the open position: no price from before the last flip or flat leaks in.
EntryWithinFills ==
  \A s \in DOMAIN positions :
    positions[s].qty # 0 =>
      LET entry == positions[s].avg_entry_price[1]
      IN  /\ \E i \in Building(s) : AtMost(trades[i].price, entry)
          /\ \E i \in Building(s) : AtMost(entry, trades[i].price)
-----------------------------------------------------------------------------
\* The cash a ledger without averages would hold: the balance less what the
\* open positions cost.
CostOf(state) == UnwrapOr(state.avg_entry_price, Zero) ** Dec(state.qty)

CostOfPositions == SumOver([s \in Symbols |-> CostOf(PositionOf(s))], Symbols)

L == INSTANCE Ledger WITH
       cash <- balance -- CostOfPositions,
       holdings <- [s \in Symbols |-> PositionOf(s).qty],
       reports <- [i \in 1..Len(equity) |-> [marks |-> equity[i].marks, value |-> equity[i].equity]]

\* The average-cost book implements a cash ledger: whatever the sequence of
\* additions, closes and flips, no money appears or disappears, and a marked
\* equity point is the value of cash and holdings at the marks.
ImplementsLedger == L!Spec
=============================================================================
