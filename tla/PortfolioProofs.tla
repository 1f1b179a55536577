--------------------------- MODULE PortfolioProofs ---------------------------
(***************************************************************************)
(* Proofs about Portfolio: an open position has an entry price and a flat  *)
(* one has none, the variables have their types, the trades explain the    *)
(* book, and the average-cost book implements a cash ledger.  And about    *)
(* Metrics: drawdown, returns and statistics are what their definitions    *)
(* over all points and trades say.                                         *)
(*                                                                         *)
(* What is said of the book rests on what a trade does to one position: it *)
(* stays a position, and its cost changes by the money of the trade and the*)
(* profit it realizes.  What is said of a loop over the curve rests on what*)
(* it has found after each of its rounds.                                  *)
(***************************************************************************)
EXTENDS Metrics, DataProofs

\* A position has an entry price exactly while it is open.
IsPosition(state) ==
  /\ state.qty \in Int
  /\ state.qty = 0 => state.avg_entry_price = None
  /\ state.qty # 0 => /\ state.avg_entry_price = Some(state.avg_entry_price[1])
                      /\ IsDecimal(state.avg_entry_price[1])

LEMMA OptionFacts == \A x : IsSome(Some(x)) /\ ~IsSome(None) /\ Some(x)[1] = x /\ Some(x) # None
BY DEF IsSome, Some, None

\* What a position is worth at a price when there is no entry to take.
LEMMA EntryIs ==
  ASSUME NEW state, IsPosition(state), NEW price, IsDecimal(price)
  PROVE  /\ IsDecimal(UnwrapOr(state.avg_entry_price, price))
         /\ UnwrapOr(state.avg_entry_price, price) ** Dec(state.qty) = CostOf(state)
         /\ IsDecimal(CostOf(state))
<1>1. IsDecimal(Zero)
  BY FractionOfInt DEF Zero
<1>2. CASE state.qty = 0
  <2>1. UnwrapOr(state.avg_entry_price, price) = price
        /\ UnwrapOr(state.avg_entry_price, Zero) = Zero
    BY <1>2, OptionFacts DEF IsPosition, UnwrapOr
  <2>2. price ** Dec(0) = Zero /\ Zero ** Dec(0) = Zero
    BY <1>1, TimesDec
  <2>. QED BY <1>1, <1>2, <2>1, <2>2 DEF CostOf
<1>3. CASE state.qty # 0
  <2> DEFINE entry == state.avg_entry_price[1]
  <2>1. state.avg_entry_price = Some(entry) /\ IsDecimal(entry) /\ state.qty \in Int
    BY <1>3 DEF IsPosition
  <2>2. UnwrapOr(state.avg_entry_price, price) = entry
        /\ UnwrapOr(state.avg_entry_price, Zero) = entry
    BY <2>1, OptionFacts DEF UnwrapOr
  <2>3. IsDecimal(entry ** Dec(state.qty))
    BY <2>1, TimesDec
  <2>. QED BY <2>1, <2>2, <2>3 DEF CostOf
<1>. QED BY <1>2, <1>3 DEF IsPosition

\* Quantities in one direction add up in that direction.
LEMMA SameDirection ==
  ASSUME NEW q \in Int, NEW d \in Int, d # 0, Extends(q, d)
  PROVE  \E s \in {-1, 1} : /\ q = Abs(q) * s /\ d = Abs(d) * s
                            /\ q + d = Abs(q + d) * s
                            /\ Abs(q + d) # 0 /\ Abs(q) \in Int /\ Abs(d) \in Int
                            /\ Abs(q + d) \in Int
<1>1. CASE d > 0
  <2>1. q >= 0
    BY <1>1 DEF Extends, Signum
  <2>. QED BY <1>1, <2>1 DEF Abs
<1>2. CASE d < 0
  <2>1. q <= 0
    BY <1>2 DEF Extends, Signum
  <2>. QED BY <1>2, <2>1 DEF Abs
<1>. QED BY <1>1, <1>2

\* The algebra of a trade: shares of one sign, bought at two prices and
\* averaged; a part of a position closed; a position closed and the opposite
\* one opened.
LEMMA AveragedAlgebra ==
  ASSUME NEW e, NEW p, NEW entry, IsDecimal(e), IsDecimal(p), IsDecimal(entry),
         NEW a \in Int, NEW b \in Int, NEW c \in Int, NEW s \in Int,
         entry ** Dec(c) = (e ** Dec(a)) ++ (p ** Dec(b))
  PROVE  entry ** Dec(c * s) = (e ** Dec(a * s)) ++ (p ** Dec(b * s))
<1> DEFINE all == (e ** Dec(a)) ++ (p ** Dec(b))
<1>1. IsDecimal(e ** Dec(a)) /\ IsDecimal(p ** Dec(b)) /\ IsDecimal(all) /\ IsDecimal(Dec(s))
  BY TimesDec, DecimalClosed, FractionOfInt
<1>2. all ** Dec(s) = Dec(s) ** all
      /\ Dec(s) ** all = (Dec(s) ** (e ** Dec(a))) ++ (Dec(s) ** (p ** Dec(b)))
      /\ Dec(s) ** (e ** Dec(a)) = (e ** Dec(a)) ** Dec(s)
      /\ Dec(s) ** (p ** Dec(b)) = (p ** Dec(b)) ** Dec(s)
  BY <1>1, DecimalTimes
<1>3. /\ (e ** Dec(a)) ** Dec(s) = e ** Dec(a * s)
      /\ (p ** Dec(b)) ** Dec(s) = p ** Dec(b * s)
      /\ (entry ** Dec(c)) ** Dec(s) = entry ** Dec(c * s)
  BY ZenonT(60), TimesDecSum
<1>. QED BY <1>2, <1>3

LEMMA ClosedPartAlgebra ==
  ASSUME NEW e, NEW p, IsDecimal(e), IsDecimal(p), NEW q \in Int, NEW d \in Int
  PROVE  e ** Dec(q + d)
           = ((e ** Dec(q)) ++ (p ** Dec(d))) ++ ((p ** Dec(-d)) ++ (e ** Dec(d)))
<1>1. /\ IsDecimal(e ** Dec(q)) /\ IsDecimal(e ** Dec(d)) /\ IsDecimal(p ** Dec(d))
      /\ IsDecimal(p ** Dec(-d))
  BY TimesDec
<1>2. (p ** Dec(-d)) ++ (e ** Dec(d)) = (e ** Dec(d)) ++ (p ** Dec(-d))
  BY <1>1, DecimalPlus
<1>3. ((e ** Dec(q)) ++ (p ** Dec(d))) ++ ((e ** Dec(d)) ++ (p ** Dec(-d)))
      = ((e ** Dec(q)) ++ (e ** Dec(d))) ++ ((p ** Dec(d)) ++ (p ** Dec(-d)))
  BY <1>1, PlusSwap
<1>4. (p ** Dec(d)) ++ (p ** Dec(-d)) = Zero
  <2>1. d + (-d) = 0 /\ -d \in Int
    OBVIOUS
  <2>. QED BY <2>1, TimesDec, TimesDecSum
<1>5. (e ** Dec(q)) ++ (e ** Dec(d)) = e ** Dec(q + d) /\ IsDecimal(e ** Dec(q + d))
  BY TimesDec, TimesDecSum
<1>6. (e ** Dec(q + d)) ++ Zero = e ** Dec(q + d)
  BY <1>5, DecimalPlus
<1>. QED BY <1>2, <1>3, <1>4, <1>5, <1>6

LEMMA FlippedAlgebra ==
  ASSUME NEW e, NEW p, IsDecimal(e), IsDecimal(p), NEW q \in Int, NEW d \in Int
  PROVE  p ** Dec(q + d)
           = ((e ** Dec(q)) ++ (p ** Dec(d))) ++ ((p ** Dec(q)) ++ (e ** Dec(-q)))
<1>1. /\ IsDecimal(e ** Dec(q)) /\ IsDecimal(e ** Dec(-q)) /\ IsDecimal(p ** Dec(d))
      /\ IsDecimal(p ** Dec(q)) /\ IsDecimal(Zero)
  BY TimesDec, FractionOfInt DEF Zero
<1>2. (p ** Dec(q)) ++ (e ** Dec(-q)) = (e ** Dec(-q)) ++ (p ** Dec(q))
  BY <1>1, DecimalPlus
<1>3. ((e ** Dec(q)) ++ (p ** Dec(d))) ++ ((e ** Dec(-q)) ++ (p ** Dec(q)))
      = ((e ** Dec(q)) ++ (e ** Dec(-q))) ++ ((p ** Dec(d)) ++ (p ** Dec(q)))
  BY <1>1, PlusSwap
<1>4. (e ** Dec(q)) ++ (e ** Dec(-q)) = Zero
  <2>1. q + (-q) = 0 /\ -q \in Int
    OBVIOUS
  <2>. QED BY <2>1, TimesDec, TimesDecSum
<1>5. (p ** Dec(d)) ++ (p ** Dec(q)) = p ** Dec(q + d) /\ IsDecimal(p ** Dec(q + d))
  <2>1. (p ** Dec(d)) ++ (p ** Dec(q)) = (p ** Dec(q)) ++ (p ** Dec(d))
    BY <1>1, DecimalPlus
  <2>. QED BY <2>1, TimesDec, TimesDecSum
<1>6. Zero ++ (p ** Dec(q + d)) = p ** Dec(q + d)
  BY <1>1, <1>5, DecimalPlus
<1>. QED BY <1>2, <1>3, <1>4, <1>5, <1>6

\* The entry price averaged over old and new is what they cost together.
LEMMA AveragedCost ==
  ASSUME NEW state, IsPosition(state), NEW diff \in Int, diff # 0,
         NEW fill, IsDecimal(fill), Extends(state.qty, diff)
  PROVE  /\ IsDecimal(AveragedEntry(state, diff, fill))
         /\ state.qty + diff # 0
         /\ AveragedEntry(state, diff, fill) ** Dec(state.qty + diff)
              = CostOf(state) ++ (fill ** Dec(diff))
<1> DEFINE q == state.qty
           e == UnwrapOr(state.avg_entry_price, fill)
           a == Abs(q)
           b == Abs(diff)
           c == Abs(q + diff)
           entry == AveragedEntry(state, diff, fill)
<1>1. q \in Int
  BY DEF IsPosition
<1>2. PICK s \in {-1, 1} : /\ q = a * s /\ diff = b * s /\ q + diff = c * s /\ c # 0
                           /\ a \in Int /\ b \in Int /\ c \in Int
  <2> HIDE DEF q
  <2>. QED BY <1>1, SameDirection DEF q
<1>3. entry = ((e ** Dec(a)) ++ (fill ** Dec(b))) // Dec(c)
  BY DEF AveragedEntry
<1>4. IsDecimal(e) /\ e ** Dec(q) = CostOf(state)
  BY EntryIs
<1> HIDE DEF e, a, b, c, entry, q
<1>5. IsDecimal(Dec(c)) /\ Dec(c)[1] # 0
  BY <1>2, FractionOfInt DEF Dec
<1> DEFINE all == (e ** Dec(a)) ++ (fill ** Dec(b))
<1>6. IsDecimal(e ** Dec(a)) /\ IsDecimal(fill ** Dec(b)) /\ IsDecimal(all)
  BY <1>2, <1>4, TimesDec, DecimalClosed
<1>7. IsDecimal(entry) /\ entry ** Dec(c) = all
  BY <1>3, <1>5, <1>6, DecimalClosed, DecimalTimes
<1>8. entry ** Dec(c * s) = (e ** Dec(a * s)) ++ (fill ** Dec(b * s))
  BY <1>2, <1>4, <1>7, AveragedAlgebra
<1>9. Dec(c * s) = Dec(q + diff) /\ Dec(a * s) = Dec(q) /\ Dec(b * s) = Dec(diff)
  BY <1>2
<1>10. q + diff # 0
  BY <1>2
<1>. QED BY <1>4, <1>7, <1>8, <1>9, <1>10 DEF entry, q

\* What a trade does to a position.
LEMMA UpdateIs ==
  ASSUME NEW state, IsPosition(state), NEW diff \in Int, diff # 0, NEW fill, IsDecimal(fill)
  PROVE  LET new == UpdatePositionState(state, diff, fill)
             realized == Realized(state, diff, fill)
         IN  /\ IsPosition(new)
             /\ new.qty = state.qty + diff
             /\ IsDecimal(realized)
             /\ CostOf(new) = (CostOf(state) ++ (fill ** Dec(diff))) ++ realized
<1> DEFINE new == UpdatePositionState(state, diff, fill)
           realized == Realized(state, diff, fill)
           q == state.qty
           e == UnwrapOr(state.avg_entry_price, fill)
<1>1. q \in Int /\ IsDecimal(e) /\ e ** Dec(q) = CostOf(state) /\ IsDecimal(CostOf(state))
      /\ IsDecimal(fill ** Dec(diff)) /\ IsDecimal(Zero)
  BY EntryIs, TimesDec, FractionOfInt DEF IsPosition, Zero
<1>2. new.qty = q + diff
  BY DEF UpdatePositionState
<1>3. CASE Extends(q, diff)
  <2>1. realized = Zero
    BY <1>3 DEF Realized
  <2>2. new.avg_entry_price = Some(AveragedEntry(state, diff, fill))
    BY <1>3 DEF UpdatePositionState
  <2>3. /\ IsDecimal(AveragedEntry(state, diff, fill)) /\ q + diff # 0
        /\ AveragedEntry(state, diff, fill) ** Dec(q + diff) = CostOf(state) ++ (fill ** Dec(diff))
    BY <1>3, AveragedCost
  <2>4. IsPosition(new)
    BY <1>1, <1>2, <2>2, <2>3, OptionFacts DEF IsPosition
  <2>5. CostOf(new) = CostOf(state) ++ (fill ** Dec(diff))
    BY <1>2, <2>2, <2>3, OptionFacts DEF CostOf, UnwrapOr
  <2>6. CostOf(new) = CostOf(new) ++ Zero
    BY <1>1, <2>5, DecimalClosed, DecimalPlus
  <2>. QED BY <1>1, <1>2, <2>1, <2>4, <2>5, <2>6
<1>4. CASE ~Extends(q, diff)
  <2> DEFINE closed == IF Abs(q) < Abs(diff) THEN Abs(q) ELSE Abs(diff)
             k == closed * Signum(q)
  <2>1. realized = (fill -- e) ** Dec(k) /\ q # 0 /\ k \in Int
    BY <1>1, <1>4 DEF Realized, Extends, Abs, Signum
  <2>2. new.avg_entry_price = EntryAfterReduction(state, diff, fill)
    BY <1>4 DEF UpdatePositionState
  <2>3. state.avg_entry_price = Some(e)
    BY <2>1, OptionFacts DEF IsPosition, UnwrapOr
  <2>4. /\ realized = (fill ** Dec(k)) ++ (e ** Dec(-k)) /\ IsDecimal(realized)
        /\ IsDecimal(fill ** Dec(k)) /\ IsDecimal(e ** Dec(-k))
    <3>1. IsDecimal(Negate[e]) /\ IsDecimal(fill ++ Negate[e]) /\ IsDecimal(Dec(k))
      BY <1>1, <2>1, NegateFraction, DecimalClosed, FractionOfInt
    <3>2. fill -- e = fill ++ Negate[e]
      BY <1>1, DecimalPlus
    <3>3. (fill ++ Negate[e]) ** Dec(k) = Dec(k) ** (fill ++ Negate[e])
          /\ Dec(k) ** (fill ++ Negate[e]) = (Dec(k) ** fill) ++ (Dec(k) ** Negate[e])
          /\ Dec(k) ** fill = fill ** Dec(k) /\ Dec(k) ** Negate[e] = Negate[e] ** Dec(k)
      BY <3>1, DecimalTimes
    <3>4. Negate[e] ** Dec(k) = e ** Dec(-k)
      BY <1>1, <2>1, TimesDec
    <3>5. -k \in Int
      BY <2>1
    <3> HIDE DEF k, realized, e
    <3>. QED BY <1>1, <2>1, <3>1, <3>2, <3>3, <3>4, <3>5, TimesDec, DecimalClosed
  <2>5. CASE Abs(diff) < Abs(q)
    <3>1. k = -diff /\ q + diff # 0 /\ Signum(q + diff) = Signum(q)
      BY <1>1, <1>4, <2>1, <2>5 DEF Extends, Abs, Signum
    <3>2. new.avg_entry_price = Some(e)
      BY <2>2, <2>3, <3>1, OptionFacts DEF EntryAfterReduction
    <3>3. IsPosition(new) /\ CostOf(new) = e ** Dec(q + diff)
      BY <1>1, <1>2, <3>1, <3>2, OptionFacts DEF IsPosition, CostOf, UnwrapOr
    <3>4. e ** Dec(q + diff) = (CostOf(state) ++ (fill ** Dec(diff))) ++ realized
      <4>1. -k = diff
        BY <3>1
      <4> HIDE DEF new, realized, q, e, k
      <4>. QED BY <1>1, <2>4, <3>1, <4>1, ClosedPartAlgebra
    <3>. QED BY <1>2, <2>4, <3>3, <3>4
  <2>6. CASE ~(Abs(diff) < Abs(q))
    <3>1. k = q /\ (q + diff # 0 => Signum(q + diff) # Signum(q))
      BY <1>1, <1>4, <2>1, <2>6 DEF Extends, Abs, Signum
    <3>2. new.avg_entry_price = IF q + diff = 0 THEN None ELSE Some(fill)
      BY <2>2, <3>1 DEF EntryAfterReduction
    <3>3. IsPosition(new) /\ CostOf(new) = fill ** Dec(q + diff)
      <4>1. CASE q + diff = 0
        <5>1. fill ** Dec(0) = Zero /\ Zero ** Dec(0) = Zero
          BY <1>1, TimesDec
        <5>. QED BY <1>1, <1>2, <3>2, <4>1, <5>1, OptionFacts DEF IsPosition, CostOf, UnwrapOr
      <4>2. CASE q + diff # 0
        BY <1>1, <1>2, <3>2, <4>2, OptionFacts DEF IsPosition, CostOf, UnwrapOr
      <4>. QED BY <4>1, <4>2
    <3>4. fill ** Dec(q + diff) = (CostOf(state) ++ (fill ** Dec(diff))) ++ realized
      <4> HIDE DEF new, realized, q, e, k
      <4>. QED BY <1>1, <2>4, <3>1, FlippedAlgebra
    <3>. QED BY <1>2, <2>4, <3>3, <3>4
  <2>. QED BY <2>5, <2>6
<1>. QED BY <1>3, <1>4
-----------------------------------------------------------------------------
BookInv ==
  /\ DOMAIN positions \subseteq Symbols
  /\ \A s \in DOMAIN positions : IsPosition(positions[s])

MoneyInv == IsDecimal(balance) /\ IsDecimal(realized_pnl) /\ IsDecimal(fee_total)

TradesInv ==
  /\ trades \in Seq(Elements(trades))
  /\ \A k \in 1..Len(trades) :
       /\ trades[k].symbol \in Symbols
       /\ trades[k].side \in Sides
       /\ trades[k].qty \in Nat \ {0}
       /\ IsDecimal(trades[k].price)
       /\ IsDecimal(trades[k].fee)
       /\ IsDecimal(trades[k].realized_pnl)

CurveInv ==
  /\ equity \in Seq(Elements(equity))
  /\ \A k \in 1..Len(equity) : IsDecimal(equity[k].equity)

AccountInv == BookInv /\ MoneyInv /\ TradesInv /\ CurveInv

LEMMA PositionOfIs ==
  ASSUME BookInv, NEW s
  PROVE  IsPosition(PositionOf(s))
<1>1. IsPosition(NoPosition)
  BY DEF IsPosition, NoPosition
<1>. QED BY <1>1 DEF BookInv, PositionOf

LEMMA SlippageIs ==
  ASSUME NEW price, IsDecimal(price), NEW side
  PROVE  IsDecimal(ApplySlippage(price, side))
<1>1. IsDecimal(Dec(1)) /\ IsDecimal(Slippage)
  BY MoneyAssumption, FractionOfInt
<1>2. IsDecimal(Dec(1) ++ Slippage) /\ IsDecimal(Dec(1) -- Slippage)
  BY <1>1, DecimalClosed
<1>. QED BY <1>2, DecimalClosed DEF ApplySlippage

\* A trade, by what it changes.
LEMMA FillIs ==
  ASSUME BookInv, NEW target, target.symbol \in Symbols, target.target_qty \in Int,
         NEW reference, IsDecimal(reference), Fill(target, reference)
  PROVE  LET s     == target.symbol
             state == PositionOf(s)
             diff  == target.target_qty - state.qty
             side  == IF diff > 0 THEN "Buy" ELSE "Sell"
             price == ApplySlippage(reference, side)
             fee   == Dec(Abs(diff)) ** price ** FeeRate
             realized == Realized(state, diff, price)
             new   == UpdatePositionState(state, diff, price)
         IN  /\ diff \in Int /\ diff # 0 /\ Abs(diff) \in Nat \ {0} /\ side \in Sides
             /\ IsPosition(state) /\ IsPosition(new) /\ new.qty = target.target_qty
             /\ IsDecimal(price) /\ IsDecimal(fee) /\ IsDecimal(realized)
             /\ CostOf(new) = (CostOf(state) ++ (price ** Dec(diff))) ++ realized
             /\ DOMAIN positions' = DOMAIN positions \cup {s}
             /\ \A r : PositionOf(r)' = IF r = s THEN new ELSE PositionOf(r)
             /\ \A r \in DOMAIN positions' : positions'[r] = PositionOf(r)'
             /\ realized_pnl' = realized_pnl ++ realized
             /\ fee_total' = fee_total ++ fee
             /\ balance' = balance ++ (realized -- fee)
             /\ order_seq' = order_seq + 1
             /\ trades' = Append(trades,
                  [ts_trade |-> target.ts, symbol |-> s, side |-> side,
                   price |-> price, qty |-> Abs(diff), fee |-> fee,
                   realized_pnl |-> realized, order_id |-> order_seq'])
             /\ equity' = equity
<1> DEFINE s == target.symbol
           state == PositionOf(s)
           diff == target.target_qty - state.qty
           side == IF diff > 0 THEN "Buy" ELSE "Sell"
           price == ApplySlippage(reference, side)
           fee == Dec(Abs(diff)) ** price ** FeeRate
           realized == Realized(state, diff, price)
           new == UpdatePositionState(state, diff, price)
<1>1. IsPosition(state) /\ state.qty \in Int
  BY PositionOfIs DEF IsPosition
<1>2. diff # 0 /\ side \in Sides
  BY DEF Fill, Sides
<1>3. diff \in Int /\ Abs(diff) \in Nat \ {0} /\ Abs(diff) \in Int
  <2> HIDE DEF state
  <2>1. diff \in Int
    BY <1>1
  <2> HIDE DEF diff
  <2>. QED BY <1>2, <2>1 DEF Abs
<1>4. IsDecimal(price)
  BY SlippageIs
<1>5. IsDecimal(fee)
  <2> HIDE DEF price, diff
  <2>1. IsDecimal(Dec(Abs(diff)) ** price)
    BY <1>3, <1>4, FractionOfInt, DecimalClosed
  <2>. QED BY <2>1, MoneyAssumption, DecimalClosed
<1>6. /\ IsPosition(new) /\ new.qty = state.qty + diff /\ IsDecimal(realized)
      /\ CostOf(new) = (CostOf(state) ++ (price ** Dec(diff))) ++ realized
  <2> HIDE DEF state, diff, price
  <2>. QED BY <1>1, <1>2, <1>3, <1>4, UpdateIs
<1>7. new.qty = target.target_qty
  <2> HIDE DEF state, new
  <2>. QED BY <1>1, <1>6
<1>8. positions' = Insert(positions, s, new)
  BY DEF Fill
<1>9. /\ DOMAIN positions' = DOMAIN positions \cup {s}
      /\ \A r \in DOMAIN positions' : positions'[r] = IF r = s THEN new ELSE positions[r]
  <2> HIDE DEF new, s
  <2>. QED BY <1>8 DEF Insert
<1>10. \A r : PositionOf(r)' = IF r = s THEN new ELSE PositionOf(r)
  <2> HIDE DEF new, s
  <2>. QED BY <1>9 DEF PositionOf
<1>11. \A r \in DOMAIN positions' : positions'[r] = PositionOf(r)'
  BY DEF PositionOf
<1>12. /\ realized_pnl' = realized_pnl ++ realized
       /\ fee_total' = fee_total ++ fee
       /\ balance' = balance ++ (realized -- fee)
       /\ order_seq' = order_seq + 1
       /\ trades' = Append(trades,
            [ts_trade |-> target.ts, symbol |-> s, side |-> side,
             price |-> price, qty |-> Abs(diff), fee |-> fee,
             realized_pnl |-> realized, order_id |-> order_seq'])
       /\ equity' = equity
  BY DEF Fill
<1> HIDE DEF s, state, diff, side, price, fee, realized, new
<1>13. /\ diff \in Int /\ diff # 0 /\ Abs(diff) \in Nat \ {0} /\ side \in Sides
       /\ IsPosition(state) /\ IsPosition(new) /\ new.qty = target.target_qty
       /\ IsDecimal(price) /\ IsDecimal(fee) /\ IsDecimal(realized)
       /\ CostOf(new) = (CostOf(state) ++ (price ** Dec(diff))) ++ realized
  BY <1>1, <1>2, <1>3, <1>4, <1>5, <1>6, <1>7
<1>. QED BY <1>9, <1>10, <1>11, <1>12, <1>13 DEF s, state, diff, side, price, fee, realized, new

\* The open profit is money.
LEMMA UnrealizedIs ==
  ASSUME BookInv, NEW prices, \A s \in DOMAIN prices : IsDecimal(prices[s])
  PROVE  /\ IsDecimal(Unrealized(prices))
         /\ IsFiniteSet(Marked(prices))
         /\ \A s \in Marked(prices) :
              IsDecimal((prices[s] -- positions[s].avg_entry_price[1]) ** Dec(positions[s].qty))
<1>1. IsFiniteSet(Marked(prices))
  <2>1. Marked(prices) \subseteq Symbols
    BY DEF Marked, BookInv
  <2>. QED BY <2>1, SymbolsAssumption, FS_Subset
<1>2. ASSUME NEW s \in Marked(prices)
      PROVE  IsDecimal((prices[s] -- positions[s].avg_entry_price[1]) ** Dec(positions[s].qty))
  <2>1. s \in DOMAIN prices /\ IsPosition(positions[s]) /\ IsSome(positions[s].avg_entry_price)
    BY DEF Marked, BookInv
  <2>2. IsDecimal(positions[s].avg_entry_price[1]) /\ positions[s].qty \in Int
    BY <2>1 DEF IsPosition, IsSome
  <2>. QED BY <2>1, <2>2, DecimalClosed, TimesDec
<1> DEFINE f == [s \in Marked(prices) |->
                   (prices[s] -- positions[s].avg_entry_price[1]) ** Dec(positions[s].qty)]
<1>3. \A s \in Marked(prices) : IsDecimal(f[s])
  BY <1>2
<1> HIDE DEF f
<1>4. IsDecimal(SumOver(f, Marked(prices)))
  BY <1>1, <1>3, SumOverParts
<1>. QED BY <1>1, <1>2, <1>4 DEF Unrealized, f

LEMMA AccountInit == Init => AccountInv
<1> SUFFICES ASSUME Init PROVE AccountInv
  OBVIOUS
<1>1. BookInv
  BY DEF Init, BookInv, EmptyMap
<1>2. MoneyInv
  BY MoneyAssumption, FractionOfInt DEF Init, MoneyInv, Zero
<1>3. TradesInv /\ CurveInv
  BY DEF Init, TradesInv, CurveInv
<1>. QED BY <1>1, <1>2, <1>3 DEF AccountInv

LEMMA FillAccount ==
  ASSUME AccountInv, NEW target, target.symbol \in Symbols, target.target_qty \in Int,
         NEW reference, IsDecimal(reference), Fill(target, reference)
  PROVE  AccountInv'
<1> DEFINE s == target.symbol
           state == PositionOf(s)
           diff == target.target_qty - state.qty
           side == IF diff > 0 THEN "Buy" ELSE "Sell"
           price == ApplySlippage(reference, side)
           fee == Dec(Abs(diff)) ** price ** FeeRate
           realized == Realized(state, diff, price)
           new == UpdatePositionState(state, diff, price)
           trade == [ts_trade |-> target.ts, symbol |-> s, side |-> side,
                     price |-> price, qty |-> Abs(diff), fee |-> fee,
                     realized_pnl |-> realized, order_id |-> order_seq']
<1>1. /\ diff \in Int /\ diff # 0 /\ Abs(diff) \in Nat \ {0} /\ side \in Sides
      /\ IsPosition(new)
      /\ IsDecimal(price) /\ IsDecimal(fee) /\ IsDecimal(realized)
      /\ DOMAIN positions' = DOMAIN positions \cup {s}
      /\ \A r : PositionOf(r)' = IF r = s THEN new ELSE PositionOf(r)
      /\ \A r \in DOMAIN positions' : positions'[r] = PositionOf(r)'
      /\ realized_pnl' = realized_pnl ++ realized
      /\ fee_total' = fee_total ++ fee
      /\ balance' = balance ++ (realized -- fee)
      /\ trades' = Append(trades, trade)
      /\ equity' = equity
  BY FillIs DEF AccountInv
<1>2. s \in Symbols
  OBVIOUS
<1>3. /\ trade.symbol \in Symbols /\ trade.side \in Sides /\ trade.qty \in Nat \ {0}
      /\ IsDecimal(trade.price) /\ IsDecimal(trade.fee) /\ IsDecimal(trade.realized_pnl)
  BY <1>1
<1> HIDE DEF s, state, diff, side, price, fee, realized, new, trade
<1>4. BookInv'
  BY <1>1, <1>2, PositionOfIs DEF BookInv, AccountInv
<1>5. MoneyInv'
  BY <1>1, DecimalClosed DEF MoneyInv, AccountInv
<1>6. TradesInv'
  <2>1. /\ trades' \in Seq(Elements(trades'))
        /\ Len(trades) \in Nat /\ Len(trades') = Len(trades) + 1
        /\ \A n \in 1..Len(trades) : trades'[n] = trades[n]
        /\ trades'[Len(trades) + 1] = trade
    BY <1>1, AppendElement DEF AccountInv, TradesInv
  <2>2. ASSUME NEW k \in 1..Len(trades')
        PROVE  k \in 1..Len(trades) \/ k = Len(trades) + 1
    BY <2>1
  <2>3. ASSUME NEW k \in 1..Len(trades')
        PROVE  /\ trades'[k].symbol \in Symbols
               /\ trades'[k].side \in Sides
               /\ trades'[k].qty \in Nat \ {0}
               /\ IsDecimal(trades'[k].price)
               /\ IsDecimal(trades'[k].fee)
               /\ IsDecimal(trades'[k].realized_pnl)
    BY <1>3, <2>1, <2>2 DEF AccountInv, TradesInv
  <2>4. trades' \in Seq(Elements(trades)')
    BY <2>1 DEF Elements
  <2>. QED BY <2>3, <2>4 DEF TradesInv
<1>7. CurveInv'
  BY <1>1 DEF CurveInv, AccountInv, Elements
<1>. QED BY <1>4, <1>5, <1>6, <1>7 DEF AccountInv

LEMMA MarkAccount ==
  ASSUME AccountInv, NEW ts, NEW prices, \A s \in DOMAIN prices : IsDecimal(prices[s]),
         MarkToMarket(ts, prices)
  PROVE  AccountInv'
<1> DEFINE point == [ts |-> ts, balance |-> balance, equity |-> balance ++ Unrealized(prices),
                     realized_pnl |-> realized_pnl, unrealized_pnl |-> Unrealized(prices),
                     fee_total |-> fee_total, marks |-> prices,
                     held |-> [s \in Symbols |-> PositionOf(s).qty]]
<1>1. equity' = Append(equity, point)
      /\ UNCHANGED <<positions, balance, realized_pnl, fee_total, trades, order_seq>>
  BY DEF MarkToMarket
<1>2. IsDecimal(point.equity)
  BY UnrealizedIs, DecimalClosed DEF AccountInv, MoneyInv
<1> HIDE DEF point
<1>3. BookInv' /\ MoneyInv' /\ TradesInv'
  BY <1>1 DEF AccountInv, BookInv, MoneyInv, TradesInv, Elements
<1>4. CurveInv'
  <2>1. /\ equity' \in Seq(Elements(equity'))
        /\ Len(equity) \in Nat /\ Len(equity') = Len(equity) + 1
        /\ \A n \in 1..Len(equity) : equity'[n] = equity[n]
        /\ equity'[Len(equity) + 1] = point
    BY <1>1, AppendElement DEF AccountInv, CurveInv
  <2>2. ASSUME NEW k \in 1..Len(equity')
        PROVE  IsDecimal(equity'[k].equity)
    <3>1. k \in 1..Len(equity) \/ k = Len(equity) + 1
      BY <2>1
    <3>. QED BY <1>2, <2>1, <3>1 DEF AccountInv, CurveInv
  <2>3. equity' \in Seq(Elements(equity)')
    BY <2>1 DEF Elements
  <2>. QED BY <2>2, <2>3 DEF CurveInv
<1>. QED BY <1>3, <1>4 DEF AccountInv

\* What a step is: nothing, a trade, or an equity point.
LEMMA StepIs ==
  ASSUME [Next]_vars
  PROVE  \/ UNCHANGED vars
         \/ \E s \in Symbols, q \in Qtys, p \in Prices :
              Fill([ts |-> Len(equity), symbol |-> s, target_qty |-> q], p)
         \/ \E prices \in Maps(Symbols, Prices) : MarkToMarket(Len(equity), prices)
BY DEF Next, TradeSome, MarkSome, ExecuteTarget, AlreadyThere

LEMMA MapsDecimals ==
  ASSUME NEW prices \in Maps(Symbols, Prices)
  PROVE  DOMAIN prices \subseteq Symbols /\ \A s \in DOMAIN prices : IsDecimal(prices[s])
                                                            /\ prices[s] \in Prices
BY MoneyAssumption DEF Maps

LEMMA AccountStep == AccountInv /\ [Next]_vars => AccountInv'
<1> SUFFICES ASSUME AccountInv, [Next]_vars PROVE AccountInv'
  OBVIOUS
<1>1. CASE UNCHANGED vars
  BY <1>1 DEF vars, AccountInv, BookInv, MoneyInv, TradesInv, CurveInv, Elements
<1>2. ASSUME NEW s \in Symbols, NEW q \in Qtys, NEW p \in Prices,
             Fill([ts |-> Len(equity), symbol |-> s, target_qty |-> q], p)
      PROVE  AccountInv'
  <2> DEFINE target == [ts |-> Len(equity), symbol |-> s, target_qty |-> q]
  <2>1. target.symbol \in Symbols /\ target.target_qty \in Int /\ IsDecimal(p)
    BY QtysAssumption, MoneyAssumption
  <2>2. Fill(target, p)
    BY <1>2
  <2> HIDE DEF target
  <2>. QED BY <2>1, <2>2, FillAccount
<1>3. ASSUME NEW prices \in Maps(Symbols, Prices), MarkToMarket(Len(equity), prices)
      PROVE  AccountInv'
  BY <1>3, MapsDecimals, MarkAccount
<1>. QED BY <1>1, <1>2, <1>3, StepIs

LEMMA AccountAlways == Spec => []AccountInv
<1>. QED BY AccountInit, AccountStep, PTL DEF Spec

\* The variables hold the types the struct's fields declare, for any prices,
\* fees and slippage: the accounting of execute_target and mark_to_market
\* never leaves the decimals.
THEOREM AccountTypeCorrectness == Spec => []TypeOK
<1>1. AccountInv => TypeOK
  <2> SUFFICES ASSUME AccountInv PROVE TypeOK
    OBVIOUS
  <2>1. ASSUME NEW s \in DOMAIN positions
        PROVE  /\ positions[s].qty \in Int
               /\ IsSome(positions[s].avg_entry_price) =>
                    IsDecimal(positions[s].avg_entry_price[1])
    BY DEF AccountInv, BookInv, IsPosition, IsSome
  <2>. QED BY <2>1 DEF AccountInv, BookInv, MoneyInv, TradesInv, CurveInv, TypeOK
<1>. QED BY <1>1, AccountAlways, PTL

\* A position has an entry price exactly while it is open, after any sequence
\* of additions, partial closes, closes and flips (update_position_state).
THEOREM EntryCorrectness == Spec => []FlatIffNoEntry
<1>1. AccountInv => FlatIffNoEntry
  BY OptionFacts DEF AccountInv, BookInv, IsPosition, FlatIffNoEntry
<1>. QED BY <1>1, AccountAlways, PTL
-----------------------------------------------------------------------------
\* TradedQty and TotalOf of any list of trades.
QtyOf(list, symbol, n) ==
  SumOver([k \in 1..n |-> Dec(SignedQty(list[k]))], {k \in 1..n : list[k].symbol = symbol})

SumOf(list, field) == SumOver([k \in 1..Len(list) |-> list[k][field]], 1..Len(list))

LEMMA PrefixFinite ==
  ASSUME NEW n \in Nat
  PROVE  /\ IsFiniteSet(1..n) /\ n + 1 \notin 1..n /\ 1..n + 1 = (1..n) \cup {n + 1}
         /\ \A T \in SUBSET (1..n) : IsFiniteSet(T)
<1>1. IsFiniteSet(1..n)
  BY FS_Interval
<1>2. n + 1 \notin 1..n /\ 1..n + 1 = (1..n) \cup {n + 1}
  OBVIOUS
<1>. QED BY <1>1, <1>2, FS_Subset

LEMMA QtyOfPrefix ==
  ASSUME NEW q, q \in Seq(Elements(q)), NEW t, NEW r, NEW j \in 0..Len(q)
  PROVE  QtyOf(Append(q, t), r, j) = QtyOf(q, r, j)
<1> DEFINE w == Append(q, t)
           f(list) == [k \in 1..j |-> Dec(SignedQty(list[k]))]
           S(list) == {k \in 1..j : list[k].symbol = r}
<1>1. Len(q) \in Nat /\ \A k \in 1..Len(q) : w[k] = q[k]
  BY AppendElement
<1> HIDE DEF w
<1>2. S(w) = S(q) /\ f(w) = f(q)
  BY <1>1
<1>. QED BY <1>2 DEF QtyOf, w

LEMMA QtyOfGrows ==
  ASSUME NEW q, q \in Seq(Elements(q)), \A k \in 1..Len(q) : SignedQty(q[k]) \in Int,
         NEW t, SignedQty(t) \in Int, NEW r
  PROVE  QtyOf(Append(q, t), r, Len(q) + 1)
           = IF t.symbol = r THEN QtyOf(q, r, Len(q)) ++ Dec(SignedQty(t))
                             ELSE QtyOf(q, r, Len(q))
<1> DEFINE w == Append(q, t)
           n == Len(q)
           f(list, j) == [k \in 1..j |-> Dec(SignedQty(list[k]))]
           S(list, j) == {k \in 1..j : list[k].symbol = r}
<1>1. n \in Nat /\ (\A k \in 1..n : w[k] = q[k]) /\ w[n + 1] = t
  BY AppendElement
<1> HIDE DEF w, n
<1>2. \A k \in 1..n : SignedQty(q[k]) \in Int
  BY DEF n
<1>3. QtyOf(w, r, n + 1)
        = IF t.symbol = r THEN QtyOf(q, r, n) ++ Dec(SignedQty(t)) ELSE QtyOf(q, r, n)
  <2>1. IsFiniteSet(S(q, n)) /\ n + 1 \notin S(q, n)
        /\ S(w, n + 1) = IF t.symbol = r THEN S(q, n) \cup {n + 1} ELSE S(q, n)
    <3>1. S(q, n) \in SUBSET (1..n)
      OBVIOUS
    <3>2. S(w, n + 1) = IF t.symbol = r THEN S(q, n) \cup {n + 1} ELSE S(q, n)
      <4>1. \A k : k \in 1..(n + 1) <=> k \in 1..n \/ k = n + 1
        BY <1>1
      <4>2. ~(n + 1 \in 1..n)
        BY <1>1
      <4>. QED BY <1>1, <4>1, <4>2
    <3> HIDE DEF S
    <3>. QED BY <1>1, <3>1, <3>2, PrefixFinite
  <2>2. \A k \in S(q, n) : IsDecimal(f(q, n)[k]) /\ f(w, n + 1)[k] = f(q, n)[k]
    <3> SUFFICES ASSUME NEW k \in S(q, n)
                 PROVE  IsDecimal(f(q, n)[k]) /\ f(w, n + 1)[k] = f(q, n)[k]
      OBVIOUS
    <3>1. k \in 1..n /\ k \in 1..n + 1
      BY <1>1
    <3>. QED BY <1>1, <1>2, <3>1, FractionOfInt
  <2>3. f(w, n + 1)[n + 1] = Dec(SignedQty(t)) /\ IsDecimal(Dec(SignedQty(t)))
    BY <1>1, FractionOfInt
  <2>4. QtyOf(q, r, n) = SumOver(f(q, n), S(q, n))
        /\ QtyOf(w, r, n + 1) = SumOver(f(w, n + 1), S(w, n + 1))
    BY DEF QtyOf
  <2> HIDE DEF f, S
  <2>5. SumOver(f(w, n + 1), S(q, n) \cup {n + 1}) = SumOver(f(q, n), S(q, n)) ++ Dec(SignedQty(t))
    BY <2>1, <2>2, <2>3, SumOverGrows
  <2>6. SumOver(f(w, n + 1), S(q, n)) = SumOver(f(q, n), S(q, n))
    BY <2>1, <2>2, SumOverSame
  <2>. QED BY <2>1, <2>4, <2>5, <2>6
<1>. QED BY <1>3 DEF w, n

LEMMA SumOfGrows ==
  ASSUME NEW q, q \in Seq(Elements(q)), NEW field,
         \A k \in 1..Len(q) : IsDecimal(q[k][field]), NEW t, IsDecimal(t[field])
  PROVE  SumOf(Append(q, t), field) = SumOf(q, field) ++ t[field]
<1> DEFINE w == Append(q, t)
           n == Len(q)
           f == [k \in 1..Len(q) |-> q[k][field]]
           g == [k \in 1..Len(w) |-> w[k][field]]
<1>1. n \in Nat /\ Len(w) = n + 1 /\ (\A k \in 1..n : w[k] = q[k]) /\ w[n + 1] = t
  BY AppendElement
<1> HIDE DEF w
<1>2. \A k \in 1..n : IsDecimal(f[k]) /\ g[k] = f[k]
  BY <1>1
<1>3. g[n + 1] = t[field]
  BY <1>1
<1>4. SumOf(q, field) = SumOver(f, 1..n) /\ SumOf(w, field) = SumOver(g, 1..n + 1)
  BY <1>1 DEF SumOf
<1> HIDE DEF f, g, n
<1> DEFINE S == 1..n
           x == n + 1
<1>5. IsFiniteSet(S) /\ x \notin S /\ IsDecimal(g[x]) /\ g[x] = t[field]
      /\ \A k \in S : IsDecimal(f[k]) /\ g[k] = f[k]
  BY <1>1, <1>2, <1>3, PrefixFinite
<1> HIDE DEF S, x
<1>6. SumOver(g, S \cup {x}) = SumOver(f, S) ++ g[x]
  BY <1>5, SumOverGrows
<1>. QED BY <1>1, <1>4, <1>5, <1>6, PrefixFinite DEF w, S, x

\* What the balance is follows from what the profit and the fees are.
LEMMA BalanceAlgebra ==
  ASSUME NEW i, NEW r, NEW f, NEW x, NEW y,
         IsDecimal(i), IsDecimal(r), IsDecimal(f), IsDecimal(x), IsDecimal(y)
  PROVE  (i ++ (r -- f)) ++ (x -- y) = i ++ ((r ++ x) -- (f ++ y))
<1> DEFINE m == Negate[f]
           n == Negate[y]
<1>1. IsDecimal(m) /\ IsDecimal(n) /\ r -- f = r ++ m /\ x -- y = x ++ n
  BY ZenonT(60), NegateFraction, DecimalPlus
<1>2. Negate[f ++ y] = m ++ n /\ (r ++ x) -- (f ++ y) = (r ++ x) ++ Negate[f ++ y]
  <2>1. IsDecimal(Dec(-1)) /\ IsDecimal(f ++ y) /\ IsDecimal(r ++ x)
    BY FractionOfInt, DecimalClosed
  <2>2. Negate[f ++ y] = (f ++ y) ** Dec(-1) /\ m = f ** Dec(-1) /\ n = y ** Dec(-1)
    BY <2>1, DecimalTimes
  <2>3. (f ++ y) ** Dec(-1) = Dec(-1) ** (f ++ y)
        /\ Dec(-1) ** (f ++ y) = (Dec(-1) ** f) ++ (Dec(-1) ** y)
        /\ Dec(-1) ** f = f ** Dec(-1) /\ Dec(-1) ** y = y ** Dec(-1)
    BY <2>1, DecimalTimes
  <2>4. (r ++ x) -- (f ++ y) = (r ++ x) ++ Negate[f ++ y]
    BY <2>1, DecimalPlus
  <2>. QED BY <2>2, <2>3, <2>4
<1> HIDE DEF m, n
<1>3. (r ++ m) ++ (x ++ n) = (r ++ x) ++ (m ++ n)
  BY <1>1, PlusSwap
<1>4. IsDecimal(r ++ m) /\ IsDecimal(x ++ n)
  BY <1>1, DecimalClosed
<1>5. (i ++ (r ++ m)) ++ (x ++ n) = i ++ ((r ++ m) ++ (x ++ n))
  BY <1>4, DecimalPlus
<1>. QED BY <1>1, <1>2, <1>3, <1>5

LEMMA SignedQtyIs ==
  ASSUME TradesInv
  PROVE  \A k \in 1..Len(trades) : SignedQty(trades[k]) \in Int
BY DEF TradesInv, SignedQty

\* The trade list explains the book, whatever is traded at whatever prices:
\* the positions, the profit, the fees and the balance follow from it.
THEOREM BookCorrectness == Spec => []TradesExplainBook
<1>1. Init => TradesExplainBook
  <2> SUFFICES ASSUME Init PROVE TradesExplainBook
    OBVIOUS
  <2>1. trades = <<>> /\ Len(trades) = 0 /\ 1..Len(trades) = {}
    BY DEF Init
  <2>2. \A f : SumOver(f, {}) = Zero
    BY SumOverParts, FS_EmptySet
  <2>3. TotalOf("realized_pnl") = Zero /\ TotalOf("fee") = Zero
    BY <2>1, <2>2 DEF TotalOf
  <2>4. \A s : TradedQty(s, Len(trades)) = Zero
    <3>1. \A s : {k \in 1..Len(trades) : trades[k].symbol = s} = {}
      BY <2>1
    <3>. QED BY <2>2, <3>1 DEF TradedQty
  <2>5. \A s \in Symbols : Dec(PositionOf(s).qty) = Zero
    BY DEF Init, PositionOf, EmptyMap, NoPosition, Zero
  <2>6. InitialBalance = InitialBalance ++ (Zero -- Zero)
    <3>1. IsDecimal(Zero) /\ Zero -- Zero = Zero ++ Negate[Zero] /\ Zero ++ Negate[Zero] = Zero
      BY FractionOfInt, DecimalPlus DEF Zero
    <3>2. InitialBalance ++ Zero = InitialBalance
      BY <3>1, MoneyAssumption, DecimalPlus
    <3>. QED BY <3>1, <3>2
  <2>. QED BY <2>1, <2>3, <2>4, <2>5, <2>6 DEF Init, TradesExplainBook
<1>2. ASSUME AccountInv, TradesExplainBook, NEW s \in Symbols, NEW q \in Qtys, NEW p \in Prices,
             Fill([ts |-> Len(equity), symbol |-> s, target_qty |-> q], p)
      PROVE  TradesExplainBook'
  <2> DEFINE target == [ts |-> Len(equity), symbol |-> s, target_qty |-> q]
  <2>1. target.symbol \in Symbols /\ target.target_qty \in Int /\ IsDecimal(p)
        /\ target.symbol = s /\ target.target_qty = q /\ q \in Int
    BY QtysAssumption, MoneyAssumption
  <2>2. Fill(target, p)
    BY <1>2
  <2> HIDE DEF target
  <2> DEFINE state == PositionOf(s)
             diff == q - state.qty
             side == IF diff > 0 THEN "Buy" ELSE "Sell"
             price == ApplySlippage(p, side)
             fee == Dec(Abs(diff)) ** price ** FeeRate
             realized == Realized(state, diff, price)
             new == UpdatePositionState(state, diff, price)
             trade == [ts_trade |-> target.ts, symbol |-> s, side |-> side,
                       price |-> price, qty |-> Abs(diff), fee |-> fee,
                       realized_pnl |-> realized, order_id |-> order_seq']
  <2>3. /\ diff \in Int /\ diff # 0 /\ IsPosition(state)
        /\ IsDecimal(fee) /\ IsDecimal(realized) /\ new.qty = q
        /\ \A r : PositionOf(r)' = IF r = s THEN new ELSE PositionOf(r)
        /\ realized_pnl' = realized_pnl ++ realized
        /\ fee_total' = fee_total ++ fee
        /\ balance' = balance ++ (realized -- fee)
        /\ order_seq' = order_seq + 1
        /\ trades' = Append(trades, trade)
    BY ZenonT(60), <1>2, <2>1, <2>2, FillIs DEF AccountInv
  <2>4. /\ trade.symbol = s /\ trade.fee = fee /\ trade.realized_pnl = realized
        /\ trade["fee"] = fee /\ trade["realized_pnl"] = realized
        /\ trade.order_id = order_seq'
    OBVIOUS
  <2>5. SignedQty(trade) = diff
    <3>1. trade.side = side /\ trade.qty = Abs(diff)
      OBVIOUS
    <3> HIDE DEF diff, trade
    <3>. QED BY <2>3, <3>1 DEF SignedQty, Abs, side
  <2>6. state.qty \in Int /\ q = state.qty + diff
    <3>1. state.qty \in Int
      BY <2>3 DEF IsPosition
    <3> HIDE DEF state
    <3>. QED BY <2>1, <3>1
  <2> HIDE DEF state, diff, side, price, fee, realized, new, trade
  <2>7. trades \in Seq(Elements(trades)) /\ MoneyInv /\ \A k \in 1..Len(trades) :
          IsDecimal(trades[k].fee) /\ IsDecimal(trades[k].realized_pnl)
    BY <1>2 DEF AccountInv, TradesInv
  <2>8. /\ Len(trades) \in Nat /\ Len(trades') = Len(trades) + 1
        /\ \A n \in 1..Len(trades) : trades'[n] = trades[n]
        /\ trades'[Len(trades) + 1] = trade
    BY <2>3, <2>7, AppendElement
  <2>9. TotalOf("fee")' = TotalOf("fee") ++ fee
        /\ TotalOf("realized_pnl")' = TotalOf("realized_pnl") ++ realized
    <3>1. SumOf(Append(trades, trade), "fee") = SumOf(trades, "fee") ++ fee
          /\ SumOf(Append(trades, trade), "realized_pnl")
               = SumOf(trades, "realized_pnl") ++ realized
      BY <2>3, <2>4, <2>7, SumOfGrows
    <3>. QED BY <2>3, <3>1 DEF TotalOf, SumOf
  <2>10. ASSUME NEW r \in Symbols
         PROVE  Dec(PositionOf(r).qty)' = TradedQty(r, Len(trades))'
    <3>1. Dec(PositionOf(r).qty) = QtyOf(trades, r, Len(trades))
      BY <1>2 DEF TradesExplainBook, TradedQty, QtyOf
    <3>2. TradedQty(r, Len(trades))' = QtyOf(trades', r, Len(trades) + 1)
      BY <2>8 DEF TradedQty, QtyOf
    <3>3. QtyOf(trades', r, Len(trades) + 1)
            = IF r = s THEN QtyOf(trades, r, Len(trades)) ++ Dec(diff)
                       ELSE QtyOf(trades, r, Len(trades))
      <4>1. /\ SignedQty(trade) \in Int
            /\ \A k \in 1..Len(trades) : SignedQty(trades[k]) \in Int
        BY <1>2, <2>3, <2>5, SignedQtyIs DEF AccountInv
      <4>. QED BY <2>3, <2>4, <2>5, <2>7, <4>1, QtyOfGrows
    <3>4. CASE r = s
      <4>1. Dec(state.qty) ++ Dec(diff) = Dec(q)
        BY <2>3, <2>6, DecOf
      <4>. QED BY <2>3, <3>1, <3>2, <3>3, <3>4, <4>1 DEF state, Dec
    <3>5. CASE r # s
      BY <2>3, <3>1, <3>2, <3>3, <3>5 DEF Dec
    <3>. QED BY <3>4, <3>5
  <2>11. realized_pnl' = TotalOf("realized_pnl")' /\ fee_total' = TotalOf("fee")'
    BY <1>2, <2>3, <2>9 DEF TradesExplainBook
  <2>12. balance' = InitialBalance ++ (realized_pnl' -- fee_total')
    <3>1. balance = InitialBalance ++ (realized_pnl -- fee_total)
      BY <1>2 DEF TradesExplainBook
    <3>. QED BY <2>3, <2>7, <3>1, MoneyAssumption, BalanceAlgebra DEF MoneyInv
  <2>13. order_seq' = Len(trades') /\ \A k \in 1..Len(trades') : trades'[k].order_id = k
    <3>1. order_seq = Len(trades) /\ \A k \in 1..Len(trades) : trades[k].order_id = k
      BY <1>2 DEF TradesExplainBook
    <3>2. \A k \in 1..Len(trades') : k \in 1..Len(trades) \/ k = Len(trades) + 1
      BY <2>8
    <3>. QED BY <2>3, <2>4, <2>8, <3>1, <3>2
  <2>. QED BY <2>10, <2>11, <2>12, <2>13 DEF TradesExplainBook
<1>3. ASSUME TradesExplainBook, UNCHANGED <<positions, balance, realized_pnl, fee_total, trades,
                                            order_seq>>
      PROVE  TradesExplainBook'
  BY <1>3 DEF TradesExplainBook, PositionOf, TradedQty, TotalOf
<1>4. AccountInv /\ TradesExplainBook /\ [Next]_vars => TradesExplainBook'
  <2> SUFFICES ASSUME AccountInv, TradesExplainBook, [Next]_vars PROVE TradesExplainBook'
    OBVIOUS
  <2>1. CASE UNCHANGED vars
    BY <1>3, <2>1 DEF vars
  <2>2. ASSUME NEW prices \in Maps(Symbols, Prices), MarkToMarket(Len(equity), prices)
        PROVE  TradesExplainBook'
    BY <1>3, <2>2 DEF MarkToMarket
  <2>. QED BY <1>2, <2>1, <2>2, StepIs
<1>. QED BY <1>1, <1>4, AccountAlways, PTL DEF Spec
-----------------------------------------------------------------------------
\* What a trade leaves as the entry price: between the old entry, when the
\* position stays on its side, and the fill, when the trade is on that side.
LEMMA AveragedBetween ==
  ASSUME NEW state, IsPosition(state), NEW diff \in Int, diff # 0,
         NEW fill, IsDecimal(fill), Extends(state.qty, diff)
  PROVE  LET v == AveragedEntry(state, diff, fill)
             e == state.avg_entry_price[1]
         IN  /\ IsDecimal(v)
             /\ state.qty # 0 => IsDecimal(e)
             /\ (state.qty # 0 /\ AtMost(e, v)) \/ AtMost(fill, v)
             /\ (state.qty # 0 /\ AtMost(v, e)) \/ AtMost(v, fill)
<1> DEFINE q == state.qty
           e == UnwrapOr(state.avg_entry_price, fill)
           a == Abs(q)
           b == Abs(diff)
           v == AveragedEntry(state, diff, fill)
<1>1. q \in Int
  BY DEF IsPosition
<1>2. a \in Nat /\ b \in Nat /\ b > 0 /\ Abs(q + diff) = a + b /\ (q = 0 => a = 0)
      /\ (q # 0 => a > 0)
  <2> HIDE DEF q
  <2>1. q = 0 \/ (q > 0 /\ diff > 0) \/ (q < 0 /\ diff < 0)
    BY <1>1 DEF Extends, Signum, q
  <2>. QED BY <1>1, <2>1 DEF Abs
<1>3. v = ((e ** Dec(a)) ++ (fill ** Dec(b))) // Dec(a + b)
  BY <1>2 DEF AveragedEntry
<1>4. IsDecimal(e) /\ (q # 0 => e = state.avg_entry_price[1])
  BY EntryIs, OptionFacts DEF IsPosition, UnwrapOr
<1> HIDE DEF e, a, b, v, q
<1> DEFINE all == (e ** Dec(a)) ++ (fill ** Dec(b))
<1>5. /\ IsDecimal(Dec(a + b)) /\ Dec(a + b)[1] # 0
      /\ IsDecimal(fill ** Dec(b)) /\ IsDecimal(all)
  <2>1. a + b \in Int /\ a + b # 0 /\ a \in Int /\ b \in Int
    BY <1>2
  <2>2. IsDecimal(e ** Dec(a)) /\ IsDecimal(fill ** Dec(b))
    BY <1>4, <2>1, TimesDec
  <2>. QED BY <2>1, <2>2, FractionOfInt, DecimalClosed DEF Dec
<1>6. IsDecimal(v) /\ v ** Dec(a + b) = all
  BY <1>3, <1>5, DecimalClosed, DecimalTimes
<1>7. CASE q # 0
  <2>1. /\ AtMost(e, v) \/ AtMost(fill, v)
        /\ AtMost(v, e) \/ AtMost(v, fill)
    BY <1>2, <1>4, <1>6, <1>7, AverageBetween
  <2>. QED BY <1>4, <1>6, <1>7, <2>1 DEF v, q
<1>8. CASE q = 0
  <2>1. e ** Dec(a) = Zero
    BY <1>2, <1>4, <1>8, TimesDec
  <2>2. Zero ++ (fill ** Dec(b)) = fill ** Dec(b)
    <3>1. IsDecimal(Zero)
      BY FractionOfInt DEF Zero
    <3>. QED BY <1>5, <3>1, DecimalPlus
  <2>3. v ** Dec(b) = fill ** Dec(b)
    BY <1>2, <1>6, <1>8, <2>1, <2>2
  <2>4. v ** Dec(b + b) = (fill ** Dec(b)) ++ (fill ** Dec(b))
    BY <1>2, <1>6, <2>3, TimesDecSum
  <2>5. AtMost(fill, v) /\ AtMost(v, fill)
    BY <1>2, <1>6, <2>4, AverageBetween
  <2>. QED BY <1>6, <1>8, <2>5 DEF v, q
<1>. QED BY <1>7, <1>8

LEMMA NewEntry ==
  ASSUME NEW state, IsPosition(state), NEW diff \in Int, diff # 0,
         NEW fill, IsDecimal(fill), UpdatePositionState(state, diff, fill).qty # 0
  PROVE  LET new   == UpdatePositionState(state, diff, fill)
             v     == new.avg_entry_price[1]
             e     == state.avg_entry_price[1]
             stays == state.qty # 0 /\ Signum(new.qty) = Signum(state.qty)
             adds  == Signum(new.qty) = Signum(diff)
         IN  /\ (stays /\ AtMost(e, v)) \/ (adds /\ AtMost(fill, v))
             /\ (stays /\ AtMost(v, e)) \/ (adds /\ AtMost(v, fill))
<1> DEFINE new == UpdatePositionState(state, diff, fill)
           v == new.avg_entry_price[1]
           e == state.avg_entry_price[1]
           q == state.qty
<1>1. q \in Int /\ new.qty = q + diff /\ AtMost(fill, fill)
      /\ (q # 0 => /\ state.avg_entry_price = Some(e) /\ IsDecimal(e) /\ AtMost(e, e)
                   /\ UnwrapOr(state.avg_entry_price, fill) = e)
  BY AtMostOrders, OptionFacts DEF IsPosition, UpdatePositionState, UnwrapOr
<1>2. CASE Extends(q, diff)
  <2>1. v = AveragedEntry(state, diff, fill)
    BY <1>2, OptionFacts DEF UpdatePositionState
  <2>2. Signum(q + diff) = Signum(diff) /\ (q # 0 => Signum(q + diff) = Signum(q))
    <3> HIDE DEF q
    <3>1. q = 0 \/ (q > 0 /\ diff > 0) \/ (q < 0 /\ diff < 0)
      BY <1>1, <1>2 DEF Extends, Signum
    <3>. QED BY <1>1, <3>1 DEF Signum
  <2>. QED BY <1>1, <1>2, <2>1, <2>2, AveragedBetween
<1>3. CASE ~Extends(q, diff)
  <2>1. /\ q # 0 /\ q + diff # 0
        /\ v = IF Signum(q + diff) = Signum(q) THEN e ELSE fill
    BY <1>1, <1>3, OptionFacts DEF UpdatePositionState, EntryAfterReduction, Extends
  <2>2. Signum(q + diff) # Signum(q) => Signum(q + diff) = Signum(diff)
    <3> HIDE DEF q
    <3>1. (q > 0 /\ diff < 0) \/ (q < 0 /\ diff > 0)
      BY <1>1, <1>3, <2>1 DEF Extends, Signum
    <3>. QED BY <1>1, <2>1, <3>1 DEF Signum
  <2>. QED BY <1>1, <2>1, <2>2
<1>. QED BY <1>2, <1>3

\* The trades of a symbol that built its position, after one more trade.
LEMMA BuildingGrows ==
  ASSUME AccountInv, TradesExplainBook', NEW trade, trades' = Append(trades, trade),
         SignedQty(trade) \in Int, NEW r \in Symbols
  PROVE  /\ Signum(PositionOf(r)'.qty) = Signum(PositionOf(r).qty)
              => Building(r) \subseteq Building(r)'
         /\ trade.symbol = r /\ Signum(SignedQty(trade)) = Signum(PositionOf(r)'.qty)
              => Len(trades) + 1 \in Building(r)'
         /\ \A i \in Building(r) : i \in 1..Len(trades) /\ trades'[i] = trades[i]
         /\ trades'[Len(trades) + 1] = trade
<1> DEFINE n == Len(trades)
           m == PositionOf(r)'.qty
           w == trades'
<1>1. /\ trades \in Seq(Elements(trades)) /\ n \in Nat /\ Len(w) = n + 1
      /\ \A k \in 1..n : w[k] = trades[k]
      /\ w[n + 1] = trade
  BY AppendElement DEF AccountInv, TradesInv
<1>2. \A j \in 0..n : QtyOf(w, r, j) = QtyOf(trades, r, j)
  <2>1. \A j \in 0..n : QtyOf(Append(trades, trade), r, j) = QtyOf(trades, r, j)
    BY <1>1, QtyOfPrefix
  <2>. QED BY <2>1
<1>3. QtyOf(w, r, n + 1)[1] = m
  <2>1. QtyOf(w, r, Len(w)) = Dec(m)
    BY DEF TradesExplainBook, TradedQty, QtyOf, Dec
  <2>. QED BY <1>1, <2>1 DEF Dec
<1>4. Building(r)' = {i \in 1..n + 1 :
                        /\ w[i].symbol = r
                        /\ Signum(SignedQty(w[i])) = Signum(m)
                        /\ \A j \in i..n + 1 : Signum(QtyOf(w, r, j)[1]) = Signum(m)}
  <2>1. Building(r)' = {i \in 1..Len(w) :
                          /\ w[i].symbol = r
                          /\ Signum(SignedQty(w[i])) = Signum(m)
                          /\ \A j \in i..Len(w) : Signum(QtyOf(w, r, j)[1]) = Signum(m)}
    BY DEF Building, TradedQty, QtyOf, SignedQty, Signum
  <2>. QED BY <1>1, <2>1
<1> HIDE DEF w, m
<1>5. ASSUME Signum(m) = Signum(PositionOf(r).qty), NEW i \in Building(r)
      PROVE  i \in Building(r)'
  <2>1. /\ i \in 1..n /\ trades[i].symbol = r /\ Signum(SignedQty(trades[i])) = Signum(m)
        /\ \A j \in i..n : Signum(QtyOf(trades, r, j)[1]) = Signum(m)
    BY <1>5 DEF Building, TradedQty, QtyOf
  <2>2. i \in 1..n + 1 /\ w[i] = trades[i]
    BY <1>1, <2>1
  <2>3. ASSUME NEW j \in i..n + 1
        PROVE  Signum(QtyOf(w, r, j)[1]) = Signum(m)
    <3>1. CASE j = n + 1
      BY <1>3, <3>1
    <3>2. CASE j # n + 1
      <4>1. j \in i..n /\ j \in 0..n
        BY <1>1, <2>1, <3>2
      <4>. QED BY <1>2, <2>1, <4>1
    <3>. QED BY <3>1, <3>2
  <2>. QED BY <1>4, <2>1, <2>2, <2>3
<1>6. ASSUME trade.symbol = r, Signum(SignedQty(trade)) = Signum(m)
      PROVE  n + 1 \in Building(r)'
  <2>1. n + 1 \in 1..n + 1 /\ \A j \in n + 1..n + 1 : j = n + 1
    BY <1>1
  <2>. QED BY <1>1, <1>3, <1>4, <1>6, <2>1
<1>7. \A i \in Building(r) : i \in 1..n /\ w[i] = trades[i]
  BY <1>1 DEF Building
<1>. QED BY <1>1, <1>5, <1>6, <1>7 DEF w, m

LEMMA FillWithinFills ==
  ASSUME AccountInv, AccountInv', TradesExplainBook', EntryWithinFills,
         NEW s \in Symbols, NEW q \in Qtys, NEW p \in Prices,
         Fill([ts |-> Len(equity), symbol |-> s, target_qty |-> q], p)
  PROVE  EntryWithinFills'
<1> DEFINE target == [ts |-> Len(equity), symbol |-> s, target_qty |-> q]
<1>1. target.symbol \in Symbols /\ target.target_qty \in Int /\ IsDecimal(p)
      /\ target.symbol = s /\ target.target_qty = q /\ q \in Int /\ Fill(target, p) /\ BookInv
  BY QtysAssumption, MoneyAssumption DEF AccountInv
<1> HIDE DEF target
<1> DEFINE state == PositionOf(s)
           diff == q - state.qty
           side == IF diff > 0 THEN "Buy" ELSE "Sell"
           fill == ApplySlippage(p, side)
           new == UpdatePositionState(state, diff, fill)
           trade == [ts_trade |-> target.ts, symbol |-> s, side |-> side, price |-> fill,
                     qty |-> Abs(diff), fee |-> Dec(Abs(diff)) ** fill ** FeeRate,
                     realized_pnl |-> Realized(state, diff, fill), order_id |-> order_seq']
           n == Len(trades)
<1>2. /\ diff \in Int /\ diff # 0 /\ IsPosition(state) /\ IsDecimal(fill)
      /\ \A r : PositionOf(r)' = IF r = s THEN new ELSE PositionOf(r)
      /\ DOMAIN positions' = DOMAIN positions \cup {s}
      /\ \A r \in DOMAIN positions' : positions'[r] = PositionOf(r)'
      /\ trades' = Append(trades, trade)
  BY <1>1, FillIs
<1>3. SignedQty(trade) = diff /\ trade.symbol = s /\ trade.price = fill
  <2>1. trade.side = side /\ trade.qty = Abs(diff) /\ trade.symbol = s /\ trade.price = fill
    OBVIOUS
  <2> HIDE DEF diff, trade
  <2>. QED BY <1>2, <2>1 DEF SignedQty, Abs, side
<1> HIDE DEF trade, state, diff, fill, n
<1>4. ASSUME NEW r \in DOMAIN positions', positions'[r].qty # 0, r # s
      PROVE  LET entry == positions'[r].avg_entry_price[1]
             IN  /\ \E i \in Building(r)' : AtMost(trades'[i].price, entry)
                 /\ \E i \in Building(r)' : AtMost(entry, trades'[i].price)
  <2>1. r \in DOMAIN positions /\ PositionOf(r)' = PositionOf(r) /\ positions'[r] = positions[r]
        /\ r \in Symbols
    BY <1>1, <1>2, <1>4 DEF PositionOf, BookInv
  <2>2. /\ \E i \in Building(r) : AtMost(trades[i].price, positions[r].avg_entry_price[1])
        /\ \E i \in Building(r) : AtMost(positions[r].avg_entry_price[1], trades[i].price)
    BY <1>4, <2>1 DEF EntryWithinFills
  <2>3. /\ Building(r) \subseteq Building(r)'
        /\ \A i \in Building(r) : trades'[i] = trades[i]
    BY <1>2, <1>3, <2>1, BuildingGrows
  <2>. QED BY <2>1, <2>2, <2>3
<1>5. ASSUME positions'[s].qty # 0
      PROVE  LET entry == positions'[s].avg_entry_price[1]
             IN  /\ \E i \in Building(s)' : AtMost(trades'[i].price, entry)
                 /\ \E i \in Building(s)' : AtMost(entry, trades'[i].price)
  <2> DEFINE v == new.avg_entry_price[1]
             e == state.avg_entry_price[1]
             stays == state.qty # 0 /\ Signum(new.qty) = Signum(state.qty)
             adds == Signum(new.qty) = Signum(diff)
  <2>1. positions'[s] = new /\ PositionOf(s)' = new /\ new.qty # 0
    BY <1>2, <1>5
  <2>2. /\ (stays /\ AtMost(e, v)) \/ (adds /\ AtMost(fill, v))
        /\ (stays /\ AtMost(v, e)) \/ (adds /\ AtMost(v, fill))
    BY <1>2, <2>1, NewEntry
  <2>3. IsDecimal(v)
    <3>1. BookInv' /\ s \in DOMAIN positions'
      BY <1>2 DEF AccountInv
    <3>2. IsPosition(positions'[s])
      BY <3>1 DEF BookInv
    <3>. QED BY <2>1, <3>2 DEF IsPosition
  <2> HIDE DEF new
  <2>4. adds => n + 1 \in Building(s)' /\ trades'[n + 1].price = fill
    BY <1>2, <1>3, <2>1, BuildingGrows DEF n
  <2>5. ASSUME stays
        PROVE  /\ Building(s) \subseteq Building(s)'
               /\ \A i \in Building(s) : trades'[i] = trades[i] /\ IsDecimal(trades[i].price)
               /\ \E i \in Building(s) : AtMost(trades[i].price, e)
               /\ \E i \in Building(s) : AtMost(e, trades[i].price)
               /\ IsDecimal(e)
    <3>1. /\ Building(s) \subseteq Building(s)'
          /\ \A i \in Building(s) : i \in 1..Len(trades) /\ trades'[i] = trades[i]
      BY <1>2, <1>3, <2>1, <2>5, BuildingGrows DEF state
    <3>2. s \in DOMAIN positions /\ positions[s] = state
      BY <2>5 DEF state, PositionOf, NoPosition
    <3>3. /\ \E i \in Building(s) : AtMost(trades[i].price, e)
          /\ \E i \in Building(s) : AtMost(e, trades[i].price)
      BY <2>5, <3>2 DEF EntryWithinFills
    <3>4. IsDecimal(e)
      BY <1>2, <2>5 DEF IsPosition
    <3>. QED BY <3>1, <3>3, <3>4 DEF AccountInv, TradesInv
  <2>6. \E i \in Building(s)' : AtMost(trades'[i].price, v)
    <3>1. CASE adds /\ AtMost(fill, v)
      BY <2>4, <3>1
    <3>2. CASE stays /\ AtMost(e, v)
      <4>1. PICK i \in Building(s) : AtMost(trades[i].price, e)
        BY <2>5, <3>2
      <4>2. AtMost(trades[i].price, v)
        BY <2>3, <2>5, <3>2, <4>1, AtMostOrders
      <4>. QED BY <2>5, <3>2, <4>1, <4>2
    <3>. QED BY <2>2, <3>1, <3>2
  <2>7. \E i \in Building(s)' : AtMost(v, trades'[i].price)
    <3>1. CASE adds /\ AtMost(v, fill)
      BY <2>4, <3>1
    <3>2. CASE stays /\ AtMost(v, e)
      <4>1. PICK i \in Building(s) : AtMost(e, trades[i].price)
        BY <2>5, <3>2
      <4>2. AtMost(v, trades[i].price)
        BY <2>3, <2>5, <3>2, <4>1, AtMostOrders
      <4>. QED BY <2>5, <3>2, <4>1, <4>2
    <3>. QED BY <2>2, <3>1, <3>2
  <2>. QED BY <2>1, <2>6, <2>7
<1>. QED BY <1>4, <1>5 DEF EntryWithinFills

\* The entry price of an open position lies between the prices paid to build
\* it, however the position was added to, reduced, closed and flipped before.
THEOREM EntryBoundsCorrectness == Spec => []EntryWithinFills
<1>1. Init => EntryWithinFills
  BY DEF Init, EmptyMap, EntryWithinFills
<1>2. ASSUME EntryWithinFills, UNCHANGED <<positions, trades>>
      PROVE  EntryWithinFills'
  BY <1>2 DEF EntryWithinFills, Building, PositionOf, TradedQty
<1>3. AccountInv /\ AccountInv' /\ TradesExplainBook' /\ EntryWithinFills /\ [Next]_vars
        => EntryWithinFills'
  <2> SUFFICES ASSUME AccountInv, AccountInv', TradesExplainBook', EntryWithinFills, [Next]_vars
               PROVE  EntryWithinFills'
    OBVIOUS
  <2>1. CASE UNCHANGED vars
    BY <1>2, <2>1 DEF vars
  <2>2. ASSUME NEW prices \in Maps(Symbols, Prices), MarkToMarket(Len(equity), prices)
        PROVE  EntryWithinFills'
    BY <1>2, <2>2 DEF MarkToMarket
  <2>. QED BY <2>1, <2>2, FillWithinFills, StepIs
<1>. QED BY <1>1, <1>3, AccountAlways, BookCorrectness, PTL DEF Spec
-----------------------------------------------------------------------------
\* Ledger counts with the decimals of Portfolio.
LEMMA LedgerDecimals ==
  /\ \A a, b : L!++(a, b) = a ++ b /\ L!--(a, b) = a -- b /\ L!**(a, b) = a ** b
  /\ \A n : L!Dec(n) = Dec(n) /\ L!Abs(n) = Abs(n) /\ L!Signum(n) = Signum(n)
  /\ \A f, S : L!SumOver(f, S) = SumOver(f, S)
<1>1. /\ L!Pairs = Pairs /\ L!Gcd = Gcd /\ L!Zero = Zero
      /\ \A n : L!Dec(n) = Dec(n) /\ L!Abs(n) = Abs(n) /\ L!Signum(n) = Signum(n)
  BY DEF L!Pairs, Pairs, L!Gcd, Gcd, L!Zero, Zero, L!Dec, Dec, L!Abs, Abs, L!Signum, Signum
<1>2. \A n, d, g : L!Reduce(n, d, g) = Reduce(n, d, g)
  BY <1>1 DEF L!Reduce, Reduce
<1>3. L!FractionOf = FractionOf
  BY <1>1, <1>2 DEF L!FractionOf, FractionOf
<1>4. \A n, d : L!Fraction(n, d) = Fraction(n, d)
  BY <1>3 DEF L!Fraction, Fraction
<1>5. L!Plus = Plus /\ L!Times = Times /\ L!Negate = Negate
  BY <1>1, <1>4 DEF L!Plus, Plus, L!Times, Times, L!Negate, Negate
<1>6. \A a, b : L!++(a, b) = a ++ b /\ L!--(a, b) = a -- b /\ L!**(a, b) = a ** b
  BY <1>5 DEF L!++, ++, L!--, --, L!**, **
<1>7. \A f, S : L!SumOver(f, S) = SumOver(f, S)
  BY <1>1, <1>5 DEF L!SumOver, SumOver, L!FoldFunctionOnSet, FoldFunctionOnSet,
                    L!MapThenFoldSet, MapThenFoldSet, L!++, ++
<1>. QED BY <1>1, <1>6, <1>7

LEMMA SubtractTwice ==
  ASSUME NEW a, NEW b, NEW c, IsDecimal(a), IsDecimal(b), IsDecimal(c)
  PROVE  /\ (a -- b) -- c = a -- (b ++ c)
         /\ (a -- b) ++ b = a
         /\ (a ++ b) -- (c ++ b) = a -- c
<1>1. /\ IsDecimal(Negate[b]) /\ IsDecimal(Negate[c]) /\ IsDecimal(Dec(-1)) /\ IsDecimal(b ++ c)
      /\ IsDecimal(c ++ b) /\ IsDecimal(a ++ b) /\ IsDecimal(a -- b)
  BY NegateFraction, FractionOfInt, DecimalClosed
<1>2. ASSUME NEW x, NEW y, IsDecimal(x), IsDecimal(y)
      PROVE  Negate[x ++ y] = Negate[x] ++ Negate[y]
  <2>1. IsDecimal(x ++ y)
    BY <1>2, DecimalClosed
  <2>2. /\ Negate[x ++ y] = (x ++ y) ** Dec(-1)
        /\ Negate[x] = x ** Dec(-1) /\ Negate[y] = y ** Dec(-1)
    BY <1>1, <1>2, <2>1, DecimalTimes
  <2>3. (x ++ y) ** Dec(-1) = Dec(-1) ** (x ++ y)
        /\ Dec(-1) ** (x ++ y) = (Dec(-1) ** x) ++ (Dec(-1) ** y)
        /\ Dec(-1) ** x = x ** Dec(-1) /\ Dec(-1) ** y = y ** Dec(-1)
    BY <1>1, <1>2, <2>1, DecimalTimes
  <2>. QED BY <2>2, <2>3
<1>3. (a -- b) -- c = a -- (b ++ c)
  <2>1. (a -- b) -- c = (a ++ Negate[b]) ++ Negate[c]
    BY <1>1, DecimalPlus
  <2>2. a -- (b ++ c) = a ++ (Negate[b] ++ Negate[c])
    BY <1>1, <1>2, DecimalPlus
  <2>. QED BY <1>1, <2>1, <2>2, DecimalPlus
<1>4. (a -- b) ++ b = a
  <2>1. (a ++ Negate[b]) ++ b = a ++ (Negate[b] ++ b)
    BY <1>1, DecimalPlus
  <2>2. Negate[b] ++ b = Zero
    BY <1>1, DecimalPlus
  <2>. QED BY <2>1, <2>2, DecimalPlus
<1>5. (a ++ b) -- (c ++ b) = a -- c
  <2>1. (a ++ b) -- (c ++ b) = (a ++ b) ++ (Negate[c] ++ Negate[b])
    BY <1>1, <1>2, DecimalPlus
  <2>2. (a ++ b) ++ (Negate[c] ++ Negate[b]) = (a ++ Negate[c]) ++ (b ++ Negate[b])
    BY <1>1, PlusSwap
  <2>3. b ++ Negate[b] = Zero /\ a -- c = a ++ Negate[c] /\ (a -- c) ++ Zero = a -- c
    BY ZenonT(60), DecimalPlus, DecimalClosed
  <2>. QED BY <2>1, <2>2, <2>3
<1>. QED BY <1>3, <1>4, <1>5

\* The cash left after a trade, from the balance and the cost of the positions.
LEMMA CashAlgebra ==
  ASSUME NEW b, NEW r, NEW c, NEW p, NEW x, NEW f, IsDecimal(b), IsDecimal(r),
         IsDecimal(c), IsDecimal(p), IsDecimal(x), IsDecimal(f)
  PROVE  (b ++ (x -- f)) -- (r ++ ((c ++ p) ++ x)) = ((b -- (r ++ c)) -- p) -- f
<1> DEFINE n == Negate[f]
           s == (r ++ c) ++ p
<1>1. /\ IsDecimal(n) /\ IsDecimal(s) /\ IsDecimal(r ++ c) /\ IsDecimal(c ++ p)
      /\ IsDecimal(b ++ n) /\ x -- f = x ++ n /\ IsDecimal(b -- s)
  BY ZenonT(60), NegateFraction, DecimalClosed, DecimalPlus
<1>2. r ++ ((c ++ p) ++ x) = s ++ x
  <2>1. r ++ ((c ++ p) ++ x) = (r ++ (c ++ p)) ++ x
    BY <1>1, DecimalPlus
  <2>2. (r ++ c) ++ p = r ++ (c ++ p)
    BY DecimalPlus
  <2>. QED BY <2>1, <2>2
<1>3. b ++ (x ++ n) = (b ++ n) ++ x
  <2> HIDE DEF n
  <2>1. x ++ n = n ++ x
    BY <1>1, DecimalPlus
  <2>2. (b ++ n) ++ x = b ++ (n ++ x)
    BY <1>1, DecimalPlus
  <2>. QED BY <2>1, <2>2
<1>4. ((b -- (r ++ c)) -- p) -- f = (b -- s) -- f
  BY <1>1, SubtractTwice
<1>5. (b -- s) -- f = (b ++ n) -- s
  <2>1. IsDecimal(Negate[s])
    BY <1>1, NegateFraction
  <2>2. (b -- s) -- f = (b -- s) ++ n /\ b -- s = b ++ Negate[s]
        /\ (b ++ n) -- s = (b ++ n) ++ Negate[s]
    BY DEF --, ++
  <2> HIDE DEF n, s
  <2>3. Negate[s] ++ n = n ++ Negate[s]
    BY <1>1, <2>1, DecimalPlus
  <2>4. (b ++ Negate[s]) ++ n = b ++ (Negate[s] ++ n)
    BY <1>1, <2>1, DecimalPlus
  <2>5. (b ++ n) ++ Negate[s] = b ++ (n ++ Negate[s])
    BY <1>1, <2>1, DecimalPlus
  <2>. QED BY <2>2, <2>3, <2>4, <2>5
<1>6. ((b ++ n) ++ x) -- (s ++ x) = (b ++ n) -- s
  BY <1>1, SubtractTwice
<1> HIDE DEF n, s
<1>. QED BY <1>1, <1>2, <1>3, <1>4, <1>5, <1>6

\* What every position costs.
Costs == [s \in Symbols |-> CostOf(PositionOf(s))]

LEMMA CostsAre ==
  ASSUME BookInv
  PROVE  /\ \A s \in Symbols : IsDecimal(Costs[s])
         /\ \A s \in Symbols : PositionOf(s).qty = 0 => Costs[s] = Zero
         /\ CostOfPositions = SumOver(Costs, Symbols)
         /\ IsDecimal(CostOfPositions)
<1>1. ASSUME NEW s \in Symbols
      PROVE  IsDecimal(Costs[s]) /\ (PositionOf(s).qty = 0 => Costs[s] = Zero)
  <2>1. IsPosition(PositionOf(s)) /\ IsDecimal(Zero) /\ Costs[s] = CostOf(PositionOf(s))
    BY PositionOfIs, FractionOfInt DEF Zero, Costs
  <2> DEFINE state == PositionOf(s)
  <2> HIDE DEF state
  <2>2. IsPosition(state) /\ Costs[s] = CostOf(state)
    BY <2>1 DEF state
  <2>3. IsDecimal(CostOf(state))
    BY <2>1, <2>2, EntryIs
  <2>4. state.qty = 0 => CostOf(state) = Zero
    <3>1. Zero ** Dec(0) = Zero
      BY <2>1, TimesDec
    <3>. QED BY <2>2, <3>1, OptionFacts DEF IsPosition, CostOf, UnwrapOr
  <2>. QED BY <2>2, <2>3, <2>4 DEF state
<1>2. CostOfPositions = SumOver(Costs, Symbols)
  BY DEF CostOfPositions, Costs
<1>. QED BY <1>1, <1>2, SymbolsAssumption, SumOverParts

Holdings == [s \in Symbols |-> PositionOf(s).qty]

\* A fill moves the ledger's holding at the price after slippage.
LEMMA FillMovesLedger ==
  ASSUME AccountInv, NEW s \in Symbols, NEW q \in Qtys, NEW p \in Prices,
         Fill([ts |-> Len(equity), symbol |-> s, target_qty |-> q], p)
  PROVE  L!MoveTo(s, q, p)
<1> DEFINE target == [ts |-> Len(equity), symbol |-> s, target_qty |-> q]
<1>1. target.symbol \in Symbols /\ target.target_qty \in Int /\ IsDecimal(p)
      /\ target.symbol = s /\ target.target_qty = q /\ q \in Int
  BY QtysAssumption, MoneyAssumption
<1>2. Fill(target, p) /\ BookInv /\ BookInv'
  BY FillAccount, <1>1 DEF AccountInv
<1> HIDE DEF target
<1> DEFINE state == PositionOf(s)
           diff == q - state.qty
           side == IF diff > 0 THEN "Buy" ELSE "Sell"
           price == ApplySlippage(p, side)
           fee == Dec(Abs(diff)) ** price ** FeeRate
           realized == Realized(state, diff, price)
           new == UpdatePositionState(state, diff, price)
<1>3. /\ diff \in Int /\ diff # 0 /\ Abs(diff) \in Nat \ {0}
      /\ IsPosition(state) /\ IsPosition(new) /\ new.qty = q
      /\ IsDecimal(price) /\ IsDecimal(fee) /\ IsDecimal(realized)
      /\ CostOf(new) = (CostOf(state) ++ (price ** Dec(diff))) ++ realized
      /\ \A r : PositionOf(r)' = IF r = s THEN new ELSE PositionOf(r)
      /\ balance' = balance ++ (realized -- fee)
      /\ equity' = equity
  BY <1>1, <1>2, FillIs
<1>4. L!Worse(p, diff) = price
  <2>1. L!Worse(p, diff) = p ** (Dec(1) ++ (Slippage ** Dec(Signum(diff))))
    BY LedgerDecimals DEF L!Worse
  <2>2. CASE diff > 0
    <3>1. Signum(diff) = 1 /\ side = "Buy"
      <4> HIDE DEF diff
      <4>. QED BY <1>3, <2>2 DEF Signum, side
    <3>2. Slippage ** Dec(1) = Slippage
      BY MoneyAssumption, DecimalTimes
    <3>. QED BY <2>1, <3>1, <3>2 DEF ApplySlippage
  <2>3. CASE ~(diff > 0)
    <3>1. Signum(diff) = -1 /\ side = "Sell"
      <4>1. diff < 0
        <5> HIDE DEF diff
        <5>. QED BY <1>3, <2>3
      <4> HIDE DEF diff
      <4>. QED BY <2>3, <4>1 DEF Signum, side
    <3>2. Slippage ** Dec(-1) = Negate[Slippage]
      BY MoneyAssumption, DecimalTimes
    <3>3. Dec(1) ++ Negate[Slippage] = Dec(1) -- Slippage
      BY DEF --, ++
    <3>. QED BY <2>1, <3>1, <3>2, <3>3 DEF ApplySlippage
  <2>. QED BY <2>2, <2>3
<1>5. price ** Dec(Abs(diff)) ** FeeRate = fee
  <2> HIDE DEF price, diff
  <2>1. IsDecimal(Dec(Abs(diff)))
    BY <1>3, FractionOfInt
  <2>2. price ** Dec(Abs(diff)) = Dec(Abs(diff)) ** price
    BY <1>3, <2>1, DecimalTimes
  <2>. QED BY <2>2 DEF price, diff
<1>6. state.qty = Holdings[s]
  BY DEF Holdings
<1> HIDE DEF state, side, price, fee, realized, new
<1>7. (balance -- CostOfPositions)' = ((balance -- CostOfPositions) -- (price ** Dec(diff))) -- fee
  <2>1. /\ \A r \in Symbols : IsDecimal(Costs[r]) /\ IsDecimal(Costs'[r])
        /\ CostOfPositions = SumOver(Costs, Symbols)
        /\ CostOfPositions' = SumOver(Costs', Symbols)
    <3>1. \A r \in Symbols : IsDecimal(Costs'[r])
      <4>1. ASSUME NEW r \in Symbols
            PROVE  IsDecimal(CostOf(PositionOf(r)'))
        <5>1. IsPosition(PositionOf(r)')
          BY <1>2, <1>3, PositionOfIs
        <5>. QED BY <5>1, EntryIs, FractionOfInt DEF Zero
      <4>2. \A r \in Symbols : Costs'[r] = CostOf(PositionOf(r)')
        BY DEF Costs, CostOf
      <4>. QED BY <4>1, <4>2
    <3>2. CostOfPositions' = SumOver(Costs', Symbols)
      BY DEF Costs, CostOfPositions
    <3>. QED BY <1>2, <3>1, <3>2, CostsAre
  <2>2. \A r \in Symbols \ {s} : Costs'[r] = Costs[r]
    BY <1>3 DEF Costs
  <2>3. PICK rest : /\ IsDecimal(rest)
                    /\ SumOver(Costs, Symbols) = rest ++ Costs[s]
                    /\ SumOver(Costs', Symbols) = rest ++ Costs'[s]
    BY <2>1, <2>2, SymbolsAssumption, SumOverChanges
  <2>4. Costs[s] = CostOf(state) /\ Costs'[s] = CostOf(new)
    BY <1>3 DEF Costs, state, CostOf
  <2>5. /\ IsDecimal(balance) /\ IsDecimal(CostOf(state)) /\ IsDecimal(price ** Dec(diff))
    BY <1>3, <2>1, <2>4, TimesDec DEF AccountInv, MoneyInv
  <2>6. (balance ++ (realized -- fee)) -- (rest ++ ((CostOf(state) ++ (price ** Dec(diff))) ++ realized))
        = ((balance -- (rest ++ CostOf(state))) -- (price ** Dec(diff))) -- fee
    <3> HIDE DEF diff
    <3>. QED BY <1>3, <2>3, <2>5, CashAlgebra
  <2>. QED BY <1>3, <2>1, <2>3, <2>4, <2>6
<1>8. Holdings' = [Holdings EXCEPT ![s] = q]
  BY <1>3 DEF Holdings
<1>9. [i \in 1..Len(equity) |-> [marks |-> equity[i].marks, value |-> equity[i].equity]]'
      = [i \in 1..Len(equity) |-> [marks |-> equity[i].marks, value |-> equity[i].equity]]
  BY <1>3
<1>10. /\ q - Holdings[s] # 0
       /\ (balance -- CostOfPositions)'
            = L!--(L!--(balance -- CostOfPositions,
                        L!**(L!Worse(p, q - Holdings[s]), L!Dec(q - Holdings[s]))),
                   L!**(L!**(L!Worse(p, q - Holdings[s]), L!Dec(L!Abs(q - Holdings[s]))), FeeRate))
  <2>1. diff = q - Holdings[s]
    BY <1>6
  <2> HIDE DEF diff
  <2>. QED BY <1>3, <1>4, <1>5, <1>7, <2>1, LedgerDecimals
<1>. QED BY <1>8, <1>9, <1>10 DEF L!MoveTo, Holdings
\* Valued at marks for every open position, the balance and the open profit
\* are the cash and the holdings.
LEMMA EquityIsWorth ==
  ASSUME AccountInv, NEW prices, \A s \in DOMAIN prices : IsDecimal(prices[s]),
         L!Open \subseteq DOMAIN prices
  PROVE  balance ++ Unrealized(prices) = L!Value(prices)
<1> DEFINE M == Marked(prices)
           U == [s \in M |-> (prices[s] -- positions[s].avg_entry_price[1])
                               ** Dec(positions[s].qty)]
           W == [s \in M |-> prices[s] ** Dec(Holdings[s])]
<1>1. L!Open = M
  <2>1. L!Open = {s \in Symbols : PositionOf(s).qty # 0}
    BY DEF L!Open
  <2>2. ASSUME NEW s \in Symbols, PositionOf(s).qty # 0
        PROVE  s \in M
    <3>1. s \in DOMAIN positions /\ PositionOf(s) = positions[s]
      BY <2>2 DEF PositionOf, NoPosition
    <3>2. s \in DOMAIN prices
      BY <2>1, <2>2
    <3>3. IsSome(positions[s].avg_entry_price)
      BY <2>2, <3>1, OptionFacts DEF AccountInv, BookInv, IsPosition
    <3>. QED BY <3>1, <3>2, <3>3 DEF Marked
  <2>3. ASSUME NEW s \in M
        PROVE  s \in Symbols /\ PositionOf(s).qty # 0
    BY <2>3 DEF Marked, AccountInv, BookInv, IsPosition, PositionOf, IsSome
  <2>. QED BY <2>1, <2>2, <2>3
<1>2. IsFiniteSet(M) /\ M \in SUBSET Symbols /\ IsDecimal(Unrealized(prices))
      /\ Unrealized(prices) = SumOver(U, M)
      /\ \A s \in M : IsDecimal(U[s])
  <2>1. M \in SUBSET Symbols
    BY DEF Marked, AccountInv, BookInv
  <2>. QED BY <2>1, UnrealizedIs DEF AccountInv, Unrealized
<1>3. /\ \A s \in Symbols : IsDecimal(Costs[s])
      /\ CostOfPositions = SumOver(Costs, Symbols) /\ IsDecimal(CostOfPositions)
  BY CostsAre DEF AccountInv
<1>4. ASSUME NEW s \in M
      PROVE  W[s] = U[s] ++ Costs[s]
  <2> DEFINE p == prices[s]
             e == positions[s].avg_entry_price[1]
             q == positions[s].qty
  <2>1. /\ s \in Symbols /\ s \in DOMAIN positions /\ PositionOf(s) = positions[s]
        /\ IsPosition(positions[s]) /\ IsSome(positions[s].avg_entry_price)
        /\ s \in DOMAIN prices
    BY DEF Marked, AccountInv, BookInv, PositionOf
  <2>2. IsDecimal(p) /\ IsDecimal(e) /\ q \in Int
    BY <2>1 DEF IsPosition, IsSome
  <2>3. Costs[s] = e ** Dec(q)
    BY <2>1 DEF Costs, CostOf, UnwrapOr
  <2>4. W[s] = p ** Dec(q) /\ U[s] = (p -- e) ** Dec(q)
    BY <2>1 DEF Holdings
  <2> HIDE DEF p, e, q, U, W
  <2>5. IsDecimal(Dec(q)) /\ IsDecimal(p -- e)
    BY <2>2, FractionOfInt, DecimalClosed
  <2>6. ((p -- e) ** Dec(q)) ++ (e ** Dec(q)) = ((p -- e) ++ e) ** Dec(q)
    <3>1. IsDecimal((p -- e) ++ e)
      BY <2>2, <2>5, DecimalClosed
    <3>2. (p -- e) ** Dec(q) = Dec(q) ** (p -- e) /\ e ** Dec(q) = Dec(q) ** e
      BY <2>2, <2>5, DecimalTimes
    <3>3. ((p -- e) ++ e) ** Dec(q) = Dec(q) ** ((p -- e) ++ e)
      BY <2>5, <3>1, DecimalTimes
    <3>4. Dec(q) ** ((p -- e) ++ e) = (Dec(q) ** (p -- e)) ++ (Dec(q) ** e)
      BY <2>2, <2>5, DecimalTimes
    <3>. QED BY <3>2, <3>3, <3>4
  <2>7. (p -- e) ++ e = p
    BY <2>2, SubtractTwice
  <2>. QED BY <2>3, <2>4, <2>6, <2>7
<1>5. L!Value(prices) = (balance -- CostOfPositions) ++ SumOver(W, M)
  <2>1. W = [s \in L!Open |-> L!**(prices[s], L!Dec(Holdings[s]))]
    BY <1>1, LedgerDecimals
  <2> HIDE DEF W, M
  <2>. QED BY <1>1, <2>1, LedgerDecimals DEF L!Value, Holdings
<1> HIDE DEF M, U, W
<1>6. SumOver(W, M) = SumOver(U, M) ++ SumOver(Costs, M)
  BY <1>2, <1>3, <1>4, SumOverPlus
<1>7. SumOver(Costs, M) = CostOfPositions
  <2>1. \A s \in Symbols \ M : Costs[s] = Zero
    BY <1>1, CostsAre DEF AccountInv, L!Open
  <2>2. SumOver(Costs, Symbols) = SumOver(Costs, M)
    BY <1>2, <1>3, <2>1, SymbolsAssumption, SumOverNonZero
  <2>. QED BY <1>3, <2>2
<1>8. ASSUME NEW b, NEW c, NEW u, IsDecimal(b), IsDecimal(c), IsDecimal(u)
      PROVE  (b -- c) ++ (u ++ c) = b ++ u
  <2>1. IsDecimal(Negate[c]) /\ IsDecimal(b ++ u)
    BY <1>8, NegateFraction, DecimalClosed
  <2>2. b -- c = b ++ Negate[c]
    BY DEF --, ++
  <2>3. (b ++ Negate[c]) ++ (u ++ c) = (b ++ u) ++ (Negate[c] ++ c)
    BY <1>8, <2>1, PlusSwap
  <2>4. Negate[c] ++ c = Zero
    BY <1>8, <2>1, DecimalPlus
  <2>5. (b ++ u) ++ Zero = b ++ u
    BY <2>1, DecimalPlus
  <2>. QED BY <2>2, <2>3, <2>4, <2>5
<1>. QED BY <1>2, <1>3, <1>5, <1>6, <1>7, <1>8 DEF AccountInv, MoneyInv

\* Sequences given as functions.
LEMMA FunctionIsSeq ==
  ASSUME NEW n \in Nat, NEW f, f = [i \in 1..n |-> f[i]]
  PROVE  f \in Seq(Elements(f)) /\ Len(f) = n
<1>1. Len([i \in 1..n |-> f[i]]) = n
  OBVIOUS
<1>2. Len(f) = n
  BY <1>1
<1>3. f \in [1..n -> Elements(f)]
  BY <1>2 DEF Elements
<1>. QED BY <1>2, <1>3, SeqDef

LEMMA SamePrefix ==
  ASSUME NEW n \in Nat, NEW r, NEW t, r \in Seq(Elements(r)), t \in Seq(Elements(t)),
         Len(r) = n, Len(t) = n + 1, \A i \in 1..n : t[i] = r[i]
  PROVE  SubSeq(r, 1, n) = SubSeq(t, 1, n)
<1> DEFINE S == Elements(r)
<1>1. \A i \in 1..n : r[i] \in S /\ t[i] \in S
  BY DEF Elements
<1> HIDE DEF S
<1>2. /\ SubSeq(r, 1, n) \in Seq(S) /\ SubSeq(t, 1, n) \in Seq(S)
      /\ Len(SubSeq(r, 1, n)) = n /\ Len(SubSeq(t, 1, n)) = n
      /\ \A i \in 1..n : SubSeq(r, 1, n)[i] = r[i] /\ SubSeq(t, 1, n)[i] = t[i]
  BY <1>1, SubSeqProperties
<1>. QED BY <1>2, SeqEqual

Reports == [i \in 1..Len(equity) |-> [marks |-> equity[i].marks, value |-> equity[i].equity]]

\* A mark appends one report, of the account's worth at the marks.
LEMMA MarkReports ==
  ASSUME AccountInv, NEW prices \in Maps(Symbols, Prices), MarkToMarket(Len(equity), prices)
  PROVE  L!Report
<1> DEFINE worth == balance ++ Unrealized(prices)
           point == [ts |-> Len(equity), balance |-> balance, equity |-> worth,
                     realized_pnl |-> realized_pnl, unrealized_pnl |-> Unrealized(prices),
                     fee_total |-> fee_total, marks |-> prices,
                     held |-> [s \in Symbols |-> PositionOf(s).qty]]
           n == Len(equity)
<1>1. equity' = Append(equity, point)
      /\ UNCHANGED <<positions, balance, realized_pnl, fee_total, trades, order_seq>>
  BY DEF MarkToMarket
<1>2. point.marks = prices /\ point.equity = worth
  OBVIOUS
<1>3. L!Open \subseteq DOMAIN prices => worth = L!Value(prices)
  BY MapsDecimals, EquityIsWorth
<1> HIDE DEF worth, point
<1>4. /\ n \in Nat /\ Len(equity') = n + 1
      /\ \A i \in 1..n : equity'[i] = equity[i]
      /\ equity'[n + 1] = point
  BY <1>1, AppendElement DEF AccountInv, CurveInv
<1> HIDE DEF n
<1>5. /\ Reports = [i \in 1..n |-> [marks |-> equity[i].marks, value |-> equity[i].equity]]
      /\ Reports' = [i \in 1..(n + 1) |-> [marks |-> equity'[i].marks, value |-> equity'[i].equity]]
  BY <1>4 DEF Reports, n
<1>6. /\ Len(Reports) = n /\ Len(Reports') = n + 1
      /\ Reports \in Seq(Elements(Reports)) /\ Reports' \in Seq(Elements(Reports'))
  BY <1>4, <1>5, FunctionIsSeq
<1>7. \A i \in 1..n : Reports'[i] = Reports[i]
  BY <1>4, <1>5
<1>8. SubSeq(Reports, 1, n) = SubSeq(Reports', 1, n)
  BY <1>4, <1>6, <1>7, SamePrefix
<1>9. Reports'[n + 1] = [marks |-> prices, value |-> worth]
  BY <1>2, <1>4, <1>5
<1>10. /\ L!IsStrictPrefix(Reports, Reports')
       /\ L!Last(Reports') = Reports'[n + 1]
  <2>1. Reports # Reports' /\ n <= n + 1
    BY <1>4, <1>6
  <2>. QED BY <1>6, <1>8, <2>1 DEF L!IsStrictPrefix, L!IsPrefix, L!Last
<1>11. (balance -- CostOfPositions)' = balance -- CostOfPositions
       /\ Holdings' = Holdings
  BY <1>1 DEF CostOfPositions, CostOf, Holdings, PositionOf
<1>12. L!Open \subseteq DOMAIN Reports'[n + 1].marks
         => Reports'[n + 1].value = L!Value(Reports'[n + 1].marks)
  BY <1>3, <1>9
<1>. QED BY <1>6, <1>10, <1>11, <1>12 DEF L!Report, Reports, Holdings

LEMMA LedgerStart == Init => L!LedgerInit
<1> SUFFICES ASSUME Init PROVE L!LedgerInit
  OBVIOUS
<1>1. \A s \in Symbols : PositionOf(s).qty = 0
  BY DEF Init, EmptyMap, PositionOf, NoPosition
<1>2. CostOfPositions = Zero
  <2>1. BookInv
    BY AccountInit DEF AccountInv
  <2>2. \A s \in Symbols \ {} : Costs[s] = Zero
    BY <1>1, <2>1, CostsAre
  <2>3. SumOver(Costs, Symbols) = SumOver(Costs, {}) /\ SumOver(Costs, {}) = Zero
    BY <2>1, <2>2, CostsAre, SumOverNonZero, SumOverParts, SymbolsAssumption
  <2>. QED BY <2>1, <2>3, CostsAre
<1>3. balance -- Zero = InitialBalance
  <2>1. IsDecimal(Zero) /\ IsDecimal(InitialBalance) /\ balance = InitialBalance
    BY FractionOfInt, MoneyAssumption DEF Zero, Init
  <2>2. Zero -- Zero = Zero ++ Negate[Zero] /\ Zero ++ Negate[Zero] = Zero
    BY <2>1, DecimalPlus
  <2>3. IsDecimal(Negate[Zero])
    BY <2>1, NegateFraction
  <2>4. Negate[Zero] ++ Zero = Zero ++ Negate[Zero] /\ Negate[Zero] ++ Zero = Negate[Zero]
    BY <2>1, <2>3, DecimalPlus
  <2>5. InitialBalance -- Zero = InitialBalance ++ Zero
    BY <2>1, <2>2, <2>4, DecimalPlus
  <2>. QED BY <2>1, <2>5, DecimalPlus
<1>4. equity = <<>> /\ Len(equity) = 0
  BY DEF Init
<1>. QED BY <1>1, <1>2, <1>3, <1>4 DEF L!LedgerInit

LEMMA LedgerStep == AccountInv /\ [Next]_vars => [L!LedgerNext]_L!ledgerVars
<1> SUFFICES ASSUME AccountInv, [Next]_vars
             PROVE  L!LedgerNext \/ UNCHANGED L!ledgerVars
  OBVIOUS
<1>1. CASE UNCHANGED vars
  BY <1>1 DEF vars, L!ledgerVars, CostOfPositions, CostOf, PositionOf
<1>2. ASSUME NEW s \in Symbols, NEW q \in Qtys, NEW p \in Prices,
             Fill([ts |-> Len(equity), symbol |-> s, target_qty |-> q], p)
      PROVE  L!LedgerNext
  <2>1. L!MoveTo(s, q, p)
    BY <1>2, FillMovesLedger
  <2>. QED BY <2>1 DEF L!LedgerNext
<1>3. ASSUME NEW prices \in Maps(Symbols, Prices), MarkToMarket(Len(equity), prices)
      PROVE  L!LedgerNext
  <2>1. L!Report
    BY <1>3, MarkReports
  <2>. QED BY <2>1 DEF L!LedgerNext
<1>. QED BY <1>1, <1>2, <1>3, StepIs

\* The average-cost book implements a cash ledger, for any symbols, prices,
\* fees and slippage: a fill is one cash movement at the price after slippage,
\* a mark one report of what cash and holdings are worth.  No money appears or
\* disappears in the averaging of update_position_state, in a partial close or
\* in a flip.
THEOREM LedgerCorrectness == Spec => ImplementsLedger
<1>. QED BY AccountInit, AccountStep, LedgerStart, LedgerStep, PTL
         DEF Spec, ImplementsLedger, L!Spec
-----------------------------------------------------------------------------
\* What was lost against an earlier value.
LEMMA FallIs ==
  ASSUME NEW v, NEW p, IsDecimal(v), IsDecimal(p), p[1] > 0
  PROVE  /\ IsDecimal(v // p) /\ IsDecimal(Fall(v, p))
         /\ v[2] * p[1] \in Int /\ v[2] * p[1] > 0 /\ v[1] * p[2] - v[2] * p[1] \in Int
         /\ Fall(v, p) = Fraction(v[1] * p[2] - v[2] * p[1], v[2] * p[1])
<1>1. PICK n \in Int, d \in Int : d > 0 /\ v[1] = n /\ v[2] = d
  BY DecimalParts
<1>2. PICK m \in Int, e \in Int : e > 0 /\ m > 0 /\ p[1] = m /\ p[2] = e
  BY DecimalParts
<1>3. v // p = Fraction(n * e, d * m)
  BY <1>1, <1>2, DecimalParts DEF //, Over
<1> DEFINE x == n * e
           y == d * m
<1>4. x \in Int /\ y \in Int /\ y > 0 /\ y # 0
  BY <1>1, <1>2
<1>5. IsDecimal(v // p) /\ IsDecimal(Fall(v, p))
  BY <1>2, DecimalClosed, FractionOfInt DEF Fall
<1> HIDE DEF x, y
<1>6. Fall(v, p) = Fraction(x, y) ++ Dec(-1)
  <2>1. Negate[Dec(1)] = Dec(-1)
    BY DEF Negate, Dec, Pairs
  <2>. QED BY <1>3, <2>1 DEF Fall, --, ++, x, y
<1>7. Fraction(x, y) ++ Dec(-1) = Fraction(x - y, y)
  <2>1. Dec(-1) = Fraction(-1, 1)
    BY FractionOfInt
  <2>2. Fraction(x, y) ++ Fraction(-1, 1) = Fraction(x * 1 + (-1) * y, y * 1)
    BY <1>4, PlusFraction
  <2>3. x * 1 + (-1) * y = x - y /\ y * 1 = y
    BY <1>4
  <2>. QED BY <2>1, <2>2, <2>3
<1>8. x - y \in Int
  BY <1>4
<1>. QED BY <1>1, <1>2, <1>4, <1>5, <1>6, <1>7, <1>8 DEF x, y

\* A value at most the peak falls by at most one whole, unless it is a debt; the
\* higher of two peaks makes the greater fall.
LEMMA FallCompare ==
  ASSUME NEW v, NEW p, IsDecimal(v), IsDecimal(p), p[1] > 0
  PROVE  /\ AtMost(Fall(v, p), Zero) <=> AtMost(v, p)
         /\ AtMost(Dec(-1), Fall(v, p)) <=> v[1] >= 0
         /\ \A q : IsDecimal(q) /\ AtMost(p, q) /\ v[1] >= 0 =>
                     q[1] > 0 /\ AtMost(Fall(v, q), Fall(v, p))
<1>1. PICK n \in Int, d \in Int : d > 0 /\ v[1] = n /\ v[2] = d
  BY DecimalParts
<1>2. PICK m \in Int, e \in Int : e > 0 /\ m > 0 /\ p[1] = m /\ p[2] = e
  BY DecimalParts
<1> DEFINE x == n * e
           y == d * m
<1>3. Fall(v, p) = Fraction(x - y, y) /\ x - y \in Int /\ y \in Int /\ y > 0 /\ x \in Int
  BY <1>1, <1>2, FallIs
<1>4. Zero = Fraction(0, 1) /\ Dec(-1) = Fraction(-1, 1)
  BY FractionOfInt DEF Zero
<1>5. AtMost(v, p) <=> x <= y
  <2>1. m * d = d * m
    BY <1>1, <1>2
  <2>. QED BY <1>1, <1>2, <2>1 DEF AtMost
<1>6. x >= 0 <=> n >= 0
  BY <1>1, <1>2
<1>7. ASSUME NEW q, IsDecimal(q), AtMost(p, q), v[1] >= 0
      PROVE  q[1] > 0 /\ AtMost(Fall(v, q), Fall(v, p))
  <2>1. PICK k \in Int, l \in Int : l > 0 /\ q[1] = k /\ q[2] = l
    BY <1>7, DecimalParts
  <2>2. m * l <= k * e
    BY <1>2, <1>7, <2>1 DEF AtMost
  <2>3. k > 0
    <3>1. m * l > 0
      BY <1>2, <2>1
    <3>2. k * e > 0
      BY <1>2, <2>1, <2>2, <3>1
    <3>. QED BY <1>2, <2>1, <3>2
  <2> DEFINE a == n * l
             b == d * k
  <2>4. Fall(v, q) = Fraction(a - b, b) /\ a - b \in Int /\ b \in Int /\ b > 0 /\ a \in Int
    BY <1>1, <1>7, <2>1, <2>3, FallIs
  <2>5. a * y <= x * b
    <3>1. a * y = (n * d) * (m * l) /\ x * b = (n * d) * (k * e)
      BY <1>1, <1>2, <2>1
    <3>2. n * d \in Int /\ n * d >= 0 /\ m * l \in Int /\ k * e \in Int
      BY <1>1, <1>2, <1>7, <2>1
    <3>3. \A r, s, t \in Int : r >= 0 /\ s <= t => r * s <= r * t
      OBVIOUS
    <3>4. (n * d) * (m * l) <= (n * d) * (k * e)
      BY <2>2, <3>2, <3>3
    <3>. QED BY <3>1, <3>4
  <2> HIDE DEF a, b, x, y
  <2>6. (a - b) * y = a * y - b * y /\ (x - y) * b = x * b - b * y
        /\ a * y \in Int /\ b * y \in Int /\ x * b \in Int
    BY <1>3, <2>4
  <2>7. (a - b) * y <= (x - y) * b
    BY <2>5, <2>6
  <2>8. AtMost(Fraction(a - b, b), Fraction(x - y, y))
    BY <1>3, <2>4, <2>7, FractionCompare
  <2>. QED BY <1>3, <2>1, <2>3, <2>4, <2>8
<1> HIDE DEF x, y
<1>8. AtMost(Fraction(x - y, y), Fraction(0, 1)) <=> (x - y) * 1 <= 0 * y
  BY <1>3, FractionCompare
<1>9. AtMost(Fraction(-1, 1), Fraction(x - y, y)) <=> (-1) * y <= (x - y) * 1
  BY <1>3, FractionCompare
<1>10. ((x - y) * 1 <= 0 * y <=> x <= y) /\ ((-1) * y <= (x - y) * 1 <=> x >= 0)
  BY <1>3
<1>. QED BY <1>1, <1>3, <1>4, <1>5, <1>6, <1>7, <1>8, <1>9, <1>10

-----------------------------------------------------------------------------

\* What a loop over a sequence of n elements has found after each of them.
Runs(found, A, step, first, seq, n) ==
  /\ found \in [0..n -> A]
  /\ found[0] = first
  /\ \A k \in 1..n : found[k] = step[<<found[k - 1], seq[k]>>]

Loopable(A, step, first, seq, n) ==
  /\ n \in Nat /\ first \in A /\ DOMAIN seq = 1..n
  /\ \A a \in A : \A k \in 1..n : step[<<a, seq[k]>>] \in A

LEMMA FoldedIs ==
  ASSUME NEW A, NEW step, NEW first, NEW seq, NEW n, Loopable(A, step, first, seq, n)
  PROVE  \E found : /\ Runs(found, A, step, first, seq, n)
                    /\ Folded(step, first, seq) = found[n]
<1>0. /\ n \in Nat /\ first \in A /\ DOMAIN seq = 1..n
      /\ \A a \in A : \A k \in 1..n : step[<<a, seq[k]>>] \in A
  BY DEF Loopable
<1> DEFINE D == 1..n
           iterates(h) ==
             h = [T \in SUBSET D |->
                    IF T = {} THEN first ELSE step[<<h[T \ {Max(T)}], seq[Max(T)]>>]]
           iter == CHOOSE h : iterates(h)
<1>1. PICK g \in [SUBSET D -> A] : Loops(g, step, first, seq, n)
  BY <1>0, LoopExists
<1>2. iterates(g)
  <2>1. \A T \in SUBSET D :
          g[T] = IF T = {} THEN first ELSE step[<<g[T \ {Max(T)}], seq[Max(T)]>>]
    BY <1>1 DEF Loops
  <2>2. g = [T \in SUBSET D |-> g[T]]
    BY <1>1
  <2>. QED BY <2>1, <2>2
<1>3. iterates(iter)
  <2> HIDE DEF iterates
  <2>. QED BY <1>2
<1>4. Folded(step, first, seq) = iter[D]
  BY <1>0 DEF Folded, FoldLeft, MapThenFoldSet
<1>5. \A T \in SUBSET D :
        iter[T] = IF T = {} THEN first ELSE step[<<iter[T \ {Max(T)}], seq[Max(T)]>>]
  <2> HIDE DEF iter
  <2>. QED BY <1>3
<1> HIDE DEF iter
<1>6. Loops(iter, step, first, seq, n)
  <2> HIDE DEF iterates
  <2>. QED BY <1>5 DEF Loops
<1> HIDE DEF iterates
<1>7. iter[{}] = first /\ \A k \in 1..n : iter[1..k] = step[<<iter[1..(k - 1)], seq[k]>>]
  <2>1. iter[{}] = first
    BY <1>5
  <2>2. ASSUME NEW k \in 1..n PROVE iter[1..k] = step[<<iter[1..(k - 1)], seq[k]>>]
    BY <1>0, <1>6, LoopSteps
  <2>. QED BY <2>1, <2>2
<1> DEFINE found == [k \in 0..n |-> iter[1..k]]
<1>8. \A k \in 1..n : k - 1 \in 0..n /\ k \in 0..n
  BY <1>0
<1>9. found[0] = first /\ \A k \in 1..n : found[k] = step[<<found[k - 1], seq[k]>>]
  <2>1. found[0] = first
    <3>1. 1..0 = {}
      OBVIOUS
    <3>2. 0 \in 0..n
      BY <1>0
    <3>. QED BY <1>7, <3>1, <3>2
  <2>2. ASSUME NEW k \in 1..n PROVE found[k] = step[<<found[k - 1], seq[k]>>]
    <3>1. found[k] = iter[1..k] /\ found[k - 1] = iter[1..(k - 1)]
      BY <1>8
    <3>2. 0 \in 0..n
      BY <1>0
    <3>. QED BY <1>7, <3>1, <3>2
  <2>. QED BY <2>1, <2>2
<1>10. Folded(step, first, seq) = found[n]
  <2>1. n \in 0..n
    BY <1>0
  <2>. QED BY <1>4, <2>1
<1>11. found = [k \in 0..n |-> found[k]]
  OBVIOUS
<1> HIDE DEF found, D
<1>12. \A k \in 0..n : found[k] \in A
  <2> DEFINE S == {k \in Nat : k <= n => found[k] \in A}
  <2>1. 0 \in S
    BY <1>0, <1>9
  <2>2. ASSUME NEW k \in Nat, k \in S PROVE k + 1 \in S
    <3> SUFFICES ASSUME k + 1 <= n PROVE found[k + 1] \in A
      OBVIOUS
    <3>1. k + 1 \in 1..n /\ (k + 1) - 1 = k /\ found[k] \in A
      BY <1>0, <2>2
    <3>2. found[k + 1] = step[<<found[k], seq[k + 1]>>]
      BY <1>9, <3>1
    <3>. QED BY <1>0, <3>1, <3>2
  <2> HIDE DEF S
  <2>3. Nat \subseteq S
    BY <2>1, <2>2, InductNat
  <2>. QED BY <1>0, <2>3 DEF S
<1>13. found \in [0..n -> A]
  BY <1>11, <1>12
<1>. QED BY <1>9, <1>10, <1>13 DEF Runs
-----------------------------------------------------------------------------
\* What is known of the worst fall among the first k values.
Worst(found, q, k) ==
  /\ IsDecimal(found.worst)
  /\ IF k = 0 THEN found.peak = None
     ELSE /\ \E j \in 1..k : found.peak = Some(q[j])
          /\ \A m \in 1..k : AtMost(q[m], found.peak[1])
  /\ AtMost(found.worst, Zero)
  /\ \/ found.worst = Zero
     \/ \E m, n \in 1..k : m <= n /\ q[m][1] > 0 /\ found.worst = Fall(q[n], q[m])
  /\ \A m, n \in 1..k :
       m <= n /\ q[m][1] > 0 /\ q[n][1] >= 0 => AtMost(found.worst, Fall(q[n], q[m]))
  /\ ~AtMost(Dec(-1), found.worst) <=> \E m, n \in 1..k : m < n /\ q[m][1] > 0 /\ q[n][1] < 0

\* One value more.
LEMMA WorstStep ==
  ASSUME NEW q, NEW k \in Nat, \A m \in 1..(k + 1) : IsDecimal(q[m]),
         NEW old, Worst(old, q, k), NEW peak, IsDecimal(peak),
         peak = IF IsSome(old.peak) /\ AtMost(q[k + 1], old.peak[1]) THEN old.peak[1] ELSE q[k + 1],
         NEW new, new.peak = Some(peak),
         new.worst = IF IsPositive(peak) THEN Lower(old.worst, Fall(q[k + 1], peak)) ELSE old.worst
  PROVE  Worst(new, q, k + 1)
<1> DEFINE l == k + 1
           v == q[l]
           fall == Fall(v, peak)
<1>1. /\ l \in Nat /\ l # 0 /\ l \in 1..l /\ IsDecimal(v)
      /\ \A m \in 1..l : m \in 1..k \/ m = l
      /\ \A m \in 1..k : m \in 1..l /\ m < l /\ m <= l
  OBVIOUS
<1>2. \A m \in 1..l : IsDecimal(q[m])
  OBVIOUS
<1>3. IsSome(new.peak) /\ new.peak[1] = peak
  BY OptionFacts
<1>4. (\E j \in 1..l : peak = q[j]) /\ AtMost(v, peak) /\ \A m \in 1..l : AtMost(q[m], peak)
  <2>1. CASE IsSome(old.peak) /\ AtMost(v, old.peak[1])
    <3>1. peak = old.peak[1]
      BY <2>1
    <3>2. k # 0
      BY <2>1, OptionFacts DEF Worst
    <3>3. (\E j \in 1..k : peak = q[j]) /\ \A m \in 1..k : AtMost(q[m], peak)
      BY <3>1, <3>2, OptionFacts DEF Worst
    <3>. QED BY <1>1, <2>1, <3>1, <3>3
  <2>2. CASE ~(IsSome(old.peak) /\ AtMost(v, old.peak[1]))
    <3>1. peak = v /\ AtMost(v, v)
      BY <1>1, <2>2, AtMostOrders
    <3>2. ASSUME NEW m \in 1..k PROVE AtMost(q[m], v)
      <4>1. IsSome(old.peak) /\ AtMost(q[m], old.peak[1]) /\ \E j \in 1..k : old.peak[1] = q[j]
        BY OptionFacts DEF Worst
      <4>2. AtMost(old.peak[1], v)
        BY <1>1, <1>2, <2>2, <4>1, AtMostTotal
      <4>. QED BY <1>1, <1>2, <4>1, <4>2, AtMostOrders
    <3>. QED BY <1>1, <3>1, <3>2
  <2>. QED BY <2>1, <2>2
<1>5. peak[1] \in Int /\ (IsPositive(peak) <=> peak[1] > 0)
  <2>1. peak[1] \in Int
    BY DecimalParts
  <2>. QED BY <2>1 DEF IsPositive, Signum
<1>6. \A m \in 1..l : q[m][1] > 0 => peak[1] > 0
  <2> SUFFICES ASSUME NEW m \in 1..l, q[m][1] > 0 PROVE peak[1] > 0
    OBVIOUS
  <2>1. AtMost(q[m], peak) /\ IsDecimal(q[m])
    BY <1>2, <1>4
  <2>2. q[m][1] \in Int /\ q[m][1] >= 0
    BY <2>1, DecimalParts
  <2>. QED BY <2>1, <2>2, FallCompare
<1>7. \A m \in 1..k : \A n \in 1..k : m \in 1..l /\ n \in 1..l
  OBVIOUS
<1>8. IsDecimal(Zero) /\ IsDecimal(Dec(-1)) /\ IsDecimal(old.worst) /\ AtMost(old.worst, Zero)
  BY FractionOfInt DEF Zero, Worst
<1>9. peak[1] > 0 => /\ IsDecimal(fall) /\ AtMost(fall, Zero)
                     /\ AtMost(Dec(-1), fall) <=> v[1] >= 0
  <2> SUFFICES ASSUME peak[1] > 0
               PROVE  /\ IsDecimal(fall) /\ AtMost(fall, Zero)
                      /\ AtMost(Dec(-1), fall) <=> v[1] >= 0
    OBVIOUS
  <2>1. IsDecimal(fall)
    BY <1>1, FallIs
  <2>. QED BY <1>1, <1>4, <2>1, FallCompare
<1> HIDE DEF fall
<1>10. /\ peak[1] > 0 => new.worst = Lower(old.worst, fall)
       /\ ~(peak[1] > 0) => new.worst = old.worst
  BY <1>5 DEF fall
<1>11. /\ IsDecimal(new.worst) /\ AtMost(new.worst, old.worst)
       /\ peak[1] > 0 => AtMost(new.worst, fall)
       /\ new.worst = old.worst \/ (peak[1] > 0 /\ new.worst = fall)
  <2>1. AtMost(old.worst, old.worst)
    BY <1>8, AtMostOrders
  <2>2. CASE ~(peak[1] > 0)
    BY <1>8, <1>10, <2>1, <2>2
  <2>3. CASE peak[1] > 0
    <3>1. AtMost(fall, fall) /\ (AtMost(old.worst, fall) \/ AtMost(fall, old.worst))
      BY <1>8, <1>9, <2>3, AtMostOrders, AtMostTotal
    <3>. QED BY <1>8, <1>9, <1>10, <2>1, <2>3, <3>1 DEF Lower
  <2>. QED BY <2>2, <2>3
<1>12. AtMost(new.worst, Zero)
  BY <1>8, <1>9, <1>11
<1>13. \/ new.worst = Zero
       \/ \E m, n \in 1..l : m <= n /\ q[m][1] > 0 /\ new.worst = Fall(q[n], q[m])
  <2>1. CASE new.worst = old.worst
    BY <1>7, <2>1 DEF Worst
  <2>2. CASE peak[1] > 0 /\ new.worst = fall
    <3>1. PICK j \in 1..l : peak = q[j]
      BY <1>4
    <3>2. j <= l /\ q[j][1] > 0 /\ new.worst = Fall(q[l], q[j])
      BY <2>2, <3>1 DEF fall
    <3>. QED BY <1>1, <3>2
  <2>. QED BY <1>11, <2>1, <2>2
<1>14. ASSUME NEW m \in 1..l, NEW n \in 1..l, m <= n, q[m][1] > 0, q[n][1] >= 0
       PROVE  AtMost(new.worst, Fall(q[n], q[m]))
  <2>1. IsDecimal(Fall(q[n], q[m]))
    BY <1>2, <1>14, FallIs
  <2>2. CASE n = l
    <3>1. peak[1] > 0 /\ AtMost(q[m], peak) /\ IsDecimal(q[m])
      BY <1>2, <1>4, <1>6, <1>14
    <3>2. AtMost(fall, Fall(q[n], q[m]))
      BY <1>1, <1>14, <2>2, <3>1, FallCompare DEF fall
    <3>. QED BY <1>9, <1>11, <2>1, <3>1, <3>2, AtMostOrders
  <2>3. CASE n # l
    <3>1. m \in 1..k /\ n \in 1..k
      BY <1>14, <2>3
    <3>2. AtMost(old.worst, Fall(q[n], q[m]))
      BY <1>14, <3>1 DEF Worst
    <3>. QED BY <1>8, <1>11, <2>1, <3>2, AtMostOrders
  <2>. QED BY <2>2, <2>3
<1>15. ~AtMost(Dec(-1), new.worst) => \E m, n \in 1..l : m < n /\ q[m][1] > 0 /\ q[n][1] < 0
  <2> SUFFICES ASSUME ~AtMost(Dec(-1), new.worst)
               PROVE  \E m, n \in 1..l : m < n /\ q[m][1] > 0 /\ q[n][1] < 0
    OBVIOUS
  <2>1. CASE new.worst = old.worst
    BY <1>7, <2>1 DEF Worst
  <2>2. CASE peak[1] > 0 /\ new.worst = fall
    <3>1. v[1] \in Int /\ v[1] < 0
      <4>1. v[1] \in Int
        BY <1>1, DecimalParts
      <4>. QED BY <1>9, <2>2, <4>1
    <3>2. PICK j \in 1..l : peak = q[j]
      BY <1>4
    <3>3. j < l /\ q[j][1] > 0 /\ q[l][1] < 0
      <4>1. j # l
        BY <1>5, <2>2, <3>1, <3>2
      <4>. QED BY <2>2, <3>1, <3>2, <4>1
    <3>. QED BY <1>1, <3>3
  <2>. QED BY <1>11, <2>1, <2>2
<1>16. ASSUME NEW m \in 1..l, NEW n \in 1..l, m < n, q[m][1] > 0, q[n][1] < 0
       PROVE  ~AtMost(Dec(-1), new.worst)
  <2>1. CASE n = l
    <3>1. peak[1] > 0 /\ v[1] \in Int
      BY <1>1, <1>6, <1>16, DecimalParts
    <3>2. ~AtMost(Dec(-1), fall)
      BY <1>9, <1>16, <2>1, <3>1
    <3>. QED BY <1>8, <1>9, <1>11, <3>1, <3>2, AtMostOrders
  <2>2. CASE n # l
    <3>1. m \in 1..k /\ n \in 1..k
      BY <1>16, <2>2
    <3>2. ~AtMost(Dec(-1), old.worst)
      BY <1>16, <3>1 DEF Worst
    <3>. QED BY <1>8, <1>11, <3>2, AtMostOrders
  <2>. QED BY <2>1, <2>2
<1> HIDE DEF v
<1>17. Worst(new, q, l)
  BY <1>1, <1>3, <1>4, <1>11, <1>12, <1>13, <1>14, <1>15, <1>16 DEF Worst
<1>. QED BY <1>17

LEMMA OptionOf ==
  ASSUME NEW S
  PROVE  /\ None \in Option(S)
         /\ \A x \in S : Some(x) \in Option(S)
         /\ \A o \in Option(S) : IsSome(o) => o[1] \in S
<1>1. ASSUME NEW o \in Option(S), IsSome(o) PROVE o[1] \in S
  <2>1. o \in Seq(S) /\ o # <<>>
    BY <1>1 DEF Option, IsSome, None
  <2>. QED BY <2>1
<1>. QED BY <1>1 DEF Option, None, Some

\* max_drawdown of a curve of any length.
LEMMA DrawdownIs ==
  ASSUME NEW n \in Nat, NEW q, DOMAIN q = 1..n, \A k \in 1..n : IsDecimal(q[k])
  PROVE  \E found : /\ Worst(found, q, n)
                    /\ Folded(DrawdownStep, [peak |-> None, worst |-> Zero], q) = found
<1> DEFINE A == [peak : Option(Decimals), worst : Decimals]
           first == [peak |-> None, worst |-> Zero]
<1>1. first \in A
  <2>1. IsDecimal(Zero)
    BY FractionOfInt DEF Zero
  <2>. QED BY <2>1, OptionOf, DecimalsAre
<1>2. A \subseteq Peaks
  BY DEF Peaks, Option, Decimals
<1>3. ASSUME NEW a \in A, NEW k \in 1..n, NEW peak,
             peak = IF IsSome(a.peak) /\ AtMost(q[k], a.peak[1]) THEN a.peak[1] ELSE q[k]
      PROVE  /\ IsDecimal(peak)
             /\ DrawdownStep[<<a, q[k]>>] =
                  [peak |-> Some(peak),
                   worst |-> IF IsPositive(peak) THEN Lower(a.worst, Fall(q[k], peak)) ELSE a.worst]
             /\ DrawdownStep[<<a, q[k]>>] \in A
  <2>1. IsDecimal(q[k]) /\ IsDecimal(a.worst) /\ (IsSome(a.peak) => IsDecimal(a.peak[1]))
    BY OptionOf, DecimalsAre
  <2>2. IsDecimal(peak)
    BY <1>3, <2>1
  <2>3. <<a, q[k]>> \in Peaks \X Pairs
    BY <1>2, <2>1 DEF IsDecimal
  <2>4. DrawdownStep[<<a, q[k]>>] =
          [peak |-> Some(peak),
           worst |-> IF IsPositive(peak) THEN Lower(a.worst, Fall(q[k], peak)) ELSE a.worst]
    BY <1>3, <2>3 DEF DrawdownStep
  <2>5. IsPositive(peak) => IsDecimal(Fall(q[k], peak))
    <3>1. peak[1] \in Int
      BY <2>2, DecimalParts
    <3>2. IsPositive(peak) => peak[1] > 0
      BY <3>1 DEF IsPositive, Signum
    <3>. QED BY <2>1, <2>2, <3>2, FallIs
  <2> DEFINE worst == IF IsPositive(peak) THEN Lower(a.worst, Fall(q[k], peak)) ELSE a.worst
  <2>6. IsDecimal(worst)
    BY <2>1, <2>5 DEF Lower
  <2> HIDE DEF worst
  <2>7. [peak |-> Some(peak), worst |-> worst] \in A
    BY <2>2, <2>6, OptionOf, DecimalsAre
  <2>. QED BY <2>2, <2>4, <2>7 DEF worst
<1>4. \A a \in A : \A k \in 1..n : DrawdownStep[<<a, q[k]>>] \in A
  BY <1>3
<1>5. PICK found : /\ Runs(found, A, DrawdownStep, first, q, n)
                   /\ Folded(DrawdownStep, first, q) = found[n]
  <2> HIDE DEF A, first
  <2>1. Loopable(A, DrawdownStep, first, q, n)
    BY <1>1, <1>4 DEF Loopable
  <2>. QED BY <2>1, FoldedIs
<1>9. /\ found \in [0..n -> A] /\ found[0] = first
      /\ \A k \in 1..n : found[k] = DrawdownStep[<<found[k - 1], q[k]>>]
  BY <1>5 DEF Runs
<1> DEFINE S == {k \in Nat : k <= n => Worst(found[k], q, k)}
<1>6. 0 \in S
  <2>1. IsDecimal(Zero) /\ AtMost(Zero, Zero) /\ AtMost(Dec(-1), Zero)
    <3>1. IsDecimal(Zero) /\ AtMost(Dec(-1), Zero)
      BY FractionOfInt DEF Zero, AtMost, Dec
    <3>. QED BY <3>1, AtMostOrders
  <2>2. 1..0 = {} /\ found[0].peak = None /\ found[0].worst = Zero
    BY <1>9
  <2>3. Worst(found[0], q, 0)
    BY <2>1, <2>2 DEF Worst
  <2>. QED BY <2>3
<1>7. ASSUME NEW k \in Nat, k \in S PROVE k + 1 \in S
  <2> SUFFICES ASSUME k + 1 <= n PROVE Worst(found[k + 1], q, k + 1)
    OBVIOUS
  <2>1. /\ k + 1 \in 1..n /\ (k + 1) - 1 = k /\ k \in 0..n
        /\ \A m \in 1..(k + 1) : m \in 1..n
    OBVIOUS
  <2> DEFINE l == k + 1
             old == found[k]
             peak == IF IsSome(old.peak) /\ AtMost(q[l], old.peak[1]) THEN old.peak[1] ELSE q[l]
             new == found[l]
  <2>2. old \in A /\ l \in 1..n /\ Worst(old, q, k)
    BY <1>7, <1>9, <2>1
  <2>3. new = DrawdownStep[<<old, q[l]>>]
    BY <1>9, <2>1
  <2> HIDE DEF A, new, old
  <2>4. /\ IsDecimal(peak)
        /\ new = [peak |-> Some(peak),
                  worst |-> IF IsPositive(peak) THEN Lower(old.worst, Fall(q[l], peak))
                                                ELSE old.worst]
    BY <1>3, <2>2, <2>3
  <2>5. /\ new.peak = Some(peak)
        /\ new.worst = IF IsPositive(peak) THEN Lower(old.worst, Fall(q[l], peak)) ELSE old.worst
    <3> HIDE DEF peak
    <3>. QED BY <2>4
  <2>6. \A m \in 1..(k + 1) : IsDecimal(q[m])
    BY <2>1
  <2>7. Worst(new, q, k + 1)
    BY <2>2, <2>4, <2>5, <2>6, WorstStep
  <2>. QED BY <2>7 DEF new
<1>8. Worst(found[n], q, n)
  <2> HIDE DEF S
  <2>1. n \in S
    BY <1>6, <1>7, InductNat
  <2>. QED BY <2>1 DEF S
<1>. QED BY <1>5, <1>8

\* A run that stops at MaxSteps is a run of the account.
LEMMA MetricsSteps == MetricsSpec => Spec
<1>1. [MetricsNext]_vars => [Next]_vars
  BY DEF MetricsNext
<1>. QED BY <1>1, PTL DEF MetricsSpec, Spec

LEMMA MetricsAlways == MetricsSpec => []AccountInv
<1>. QED BY MetricsSteps, AccountAlways, PTL

\* The curve as numbers.
LEMMA ValuesAre ==
  ASSUME AccountInv
  PROVE  /\ Len(equity) \in Nat /\ DOMAIN Values = 1..Len(equity) /\ Len(Values) = Len(equity)
         /\ (equity = <<>> <=> Len(equity) = 0)
         /\ Values = [k \in 1..Len(equity) |-> Values[k]]
         /\ \A k \in 1..Len(equity) :
              /\ Values[k] = equity[k].equity
              /\ IsDecimal(Values[k]) /\ Values[k][1] \in Int
              /\ IsPositive(Values[k]) <=> Values[k][1] > 0
<1>1. equity \in Seq(Elements(equity)) /\ Len(equity) \in Nat
  BY DEF AccountInv, CurveInv
<1>2. /\ DOMAIN Values = 1..Len(equity) /\ Len(Values) = Len(equity)
      /\ Values = [k \in 1..Len(equity) |-> Values[k]]
  BY <1>1 DEF Values
<1>3. ASSUME NEW k \in 1..Len(equity)
      PROVE  /\ Values[k] = equity[k].equity
             /\ IsDecimal(Values[k]) /\ Values[k][1] \in Int
             /\ IsPositive(Values[k]) <=> Values[k][1] > 0
  <2>1. Values[k] = equity[k].equity
    BY DEF Values
  <2>2. IsDecimal(Values[k])
    BY <2>1 DEF AccountInv, CurveInv
  <2>. QED BY <2>1, <2>2, DecimalParts, SignumIs DEF IsPositive
<1>4. equity = <<>> <=> Len(equity) = 0
  BY <1>1
<1>. QED BY <1>1, <1>2, <1>3, <1>4

\* The ends of a curve and the total return between them.
LEMMA EndsAre ==
  ASSUME AccountInv, equity # <<>>
  PROVE  /\ 1 \in 1..Len(equity) /\ Len(equity) \in 1..Len(equity)
         /\ Head(Values) = Values[1] /\ Last(Values) = Values[Len(equity)]
         /\ MetricsSummary.total_return = TotalReturn
         /\ MetricsSummary.has_calmar = (IsAnnualized /\ MaxDrawdown # Zero)
         /\ MetricsSummary.max_drawdown = MaxDrawdown
<1>1. Len(equity) \in Nat /\ Len(equity) # 0 /\ Len(Values) = Len(equity)
  BY ValuesAre
<1>2. Head(Values) = Values[1] /\ Last(Values) = Values[Len(equity)]
  BY <1>1 DEF Last
<1>3. equity # <<>>
  OBVIOUS
<1>4. /\ MetricsSummary.total_return = TotalReturn
      /\ MetricsSummary.max_drawdown = MaxDrawdown
  BY DEF MetricsSummary
<1>5. MetricsSummary.has_calmar = (IsAnnualized /\ MaxDrawdown # Zero)
  BY ONLY <1>3, Zenon DEF MetricsSummary
<1>6. 1 \in 1..Len(equity) /\ Len(equity) \in 1..Len(equity)
  BY <1>1
<1>. QED BY <1>2, <1>4, <1>5, <1>6

\* max_drawdown, which looks at every point once, is the worst fall between
\* any two points of a solvent curve, is below -1 exactly when the account
\* owed money after it had some, and is at least the loss of a losing run.
THEOREM DrawdownCorrectness == MetricsSpec => []DrawdownIsWorstFall
<1>1. ASSUME AccountInv PROVE DrawdownIsWorstFall
  <2> DEFINE n == Len(equity)
             q == Values
             solvent == \A k \in 1..n : Signum(q[k][1]) >= 0
             owed == \E k, l \in 1..n : k < l /\ IsPositive(q[k]) /\ Signum(q[l][1]) < 0
             worst == MetricsSummary.max_drawdown
  <2>1. /\ n \in Nat /\ DOMAIN q = 1..n /\ Len(q) = n /\ (equity = <<>> <=> n = 0)
        /\ \A k \in 1..n : /\ IsDecimal(q[k]) /\ q[k][1] \in Int
                           /\ IsPositive(q[k]) <=> q[k][1] > 0
    BY <1>1, ValuesAre
  <2> HIDE DEF n, q
  <2>2. PICK found : /\ Worst(found, q, n)
                     /\ Folded(DrawdownStep, [peak |-> None, worst |-> Zero], q) = found
    BY <2>1, DrawdownIs
  <2>3. worst = found.worst
    <3>1. CASE n = 0
      <4>1. worst = Zero
        BY <2>1, <3>1 DEF MetricsSummary
      <4>2. 1..n = {}
        BY <3>1
      <4>3. found.worst = Zero
        BY <2>2, <4>2 DEF Worst
      <4>. QED BY <4>1, <4>3
    <3>2. CASE n # 0
      <4>1. worst = MaxDrawdown
        BY <1>1, <2>1, <3>2, EndsAre
      <4>. QED BY <2>2, <4>1 DEF MaxDrawdown, q
    <3>. QED BY <3>1, <3>2
  <2> HIDE DEF worst
  <2>4. \A k \in 1..n : (Signum(q[k][1]) >= 0 <=> q[k][1] >= 0)
                        /\ (Signum(q[k][1]) < 0 <=> q[k][1] < 0)
    BY <2>1, SignumIs
  <2>5. \A fall : fall \in Falls <=>
          \E k, l \in 1..n : k <= l /\ q[k][1] > 0 /\ fall = Fall(q[l], q[k])
    <3>1. ASSUME NEW fall \in Falls
          PROVE  \E k, l \in 1..n : k <= l /\ q[k][1] > 0 /\ fall = Fall(q[l], q[k])
      <4>1. PICK k \in 1..n : IsPositive(q[k]) /\ \E l \in k..n : fall = Fall(q[l], q[k])
        BY <2>1, <3>1 DEF Falls, q
      <4>2. PICK l \in k..n : fall = Fall(q[l], q[k])
        BY <4>1
      <4>3. l \in 1..n /\ k <= l
        BY <2>1
      <4>. QED BY <2>1, <4>1, <4>2, <4>3
    <3>2. ASSUME NEW fall, NEW k \in 1..n, NEW l \in 1..n,
                 k <= l, q[k][1] > 0, fall = Fall(q[l], q[k])
          PROVE  fall \in Falls
      <4>1. l \in k..n /\ IsPositive(q[k])
        BY <2>1, <3>2
      <4>. QED BY <2>1, <3>2, <4>1 DEF Falls, q
    <3>. QED BY <3>1, <3>2
  <2>6. solvent => (\A fall \in Falls : AtMost(worst, fall)) /\ worst \in Falls \cup {Zero}
    <3> SUFFICES ASSUME solvent
                 PROVE  (\A fall \in Falls : AtMost(worst, fall)) /\ worst \in Falls \cup {Zero}
      OBVIOUS
    <3>1. ASSUME NEW fall \in Falls PROVE AtMost(worst, fall)
      <4>1. PICK k \in 1..n, l \in 1..n : k <= l /\ q[k][1] > 0 /\ fall = Fall(q[l], q[k])
        BY <2>5
      <4>2. q[l][1] >= 0
        BY <2>4
      <4>. QED BY <2>2, <2>3, <4>1, <4>2 DEF Worst
    <3>2. worst \in Falls \cup {Zero}
      BY <2>2, <2>3, <2>5 DEF Worst
    <3>. QED BY <3>1, <3>2
  <2>7. ~AtMost(Dec(-1), worst) <=> owed
    <3>1. owed <=> \E k, l \in 1..n : k < l /\ q[k][1] > 0 /\ q[l][1] < 0
      BY <2>1, <2>4
    <3>. QED BY <2>2, <2>3, <3>1 DEF Worst
  <2>8. ASSUME IsAnnualized, Signum(MetricsSummary.total_return[1]) < 0
        PROVE  AtMost(worst, MetricsSummary.total_return) /\ MetricsSummary.has_calmar
    <3> DEFINE total == MetricsSummary.total_return
    <3>1. n > 1 /\ IsPositive(Head(q)) /\ IsPositive(Last(q))
      BY <2>1, <2>8 DEF IsAnnualized, q
    <3>2. /\ 1 \in 1..n /\ n \in 1..n /\ Head(q) = q[1] /\ Last(q) = q[n]
          /\ total = TotalReturn
          /\ MetricsSummary.has_calmar = (IsAnnualized /\ MaxDrawdown # Zero)
          /\ worst = MaxDrawdown
      BY <1>1, <2>1, <2>8, <3>1, EndsAre DEF n, q, worst
    <3>3. q[1][1] > 0 /\ q[n][1] > 0 /\ q[n][1] >= 0 /\ 1 <= n
      BY <2>1, <3>1, <3>2
    <3>4. total = Fall(q[n], q[1])
      <4>1. Head(q) # Zero
        BY <3>2, <3>3 DEF Zero, Dec
      <4>. QED BY <3>2, <4>1 DEF TotalReturn, Fall, q
    <3> HIDE DEF total
    <3>5. AtMost(worst, total)
      BY <2>2, <2>3, <3>2, <3>3, <3>4 DEF Worst
    <3>6. IsDecimal(total)
      BY <2>1, <3>2, <3>3, <3>4, FallIs
    <3>7. total[1] \in Int /\ total[1] < 0
      BY <2>8, <3>6, DecimalParts, SignumIs DEF total
    <3>8. ~AtMost(Zero, total)
      BY <3>6, <3>7, DecimalParts DEF AtMost, Zero, Dec
    <3>9. MaxDrawdown # Zero
      BY <3>2, <3>5, <3>8
    <3>10. MetricsSummary.has_calmar
      BY <2>8, <3>2, <3>9, Zenon
    <3>. QED BY <3>5, <3>10 DEF total
  <2>9. (\A k \in 1..Len(Values) : Signum(Values[k][1]) >= 0) <=> solvent
    BY <2>1 DEF q
  <2>10. (\E k, l \in 1..Len(Values) :
            k < l /\ IsPositive(Values[k]) /\ Signum(Values[l][1]) < 0) <=> owed
    BY <2>1 DEF q
  <2> HIDE DEF solvent, owed
  <2>. QED BY <2>6, <2>7, <2>8, <2>9, <2>10 DEF DrawdownIsWorstFall, worst
<1>. QED BY <1>1, MetricsAlways, PTL

\* What the returns of a curve of n + 1 values compound to.
LEMMA CompoundIs ==
  ASSUME NEW n \in Nat, NEW q, \A k \in 1..(n + 1) : IsDecimal(q[k]), \A k \in 1..n : q[k] # Zero,
         NEW returns, DOMAIN returns = 1..n,
         \A k \in 1..n : returns[k] = (q[k + 1] // q[k]) -- Dec(1), q[1] # Zero,
         NEW compound, compound = [p \in Pairs \X Pairs |-> p[1] ** (Dec(1) ++ p[2])]
  PROVE  Folded(compound, Dec(1), returns) = q[n + 1] // q[1]
<1> DEFINE A == Decimals
           o == Dec(1)
<1>1. /\ IsDecimal(o)
      /\ \A k \in 1..n : k \in 1..(n + 1) /\ k + 1 \in 1..(n + 1)
      /\ 1 \in 1..(n + 1)
  BY FractionOfInt
<1>2. ASSUME NEW k \in 1..n
      PROVE  /\ IsDecimal(q[k + 1] // q[k]) /\ IsDecimal(returns[k])
             /\ o ++ returns[k] = q[k + 1] // q[k]
  <2>1. IsDecimal(q[k]) /\ IsDecimal(q[k + 1]) /\ q[k] # Zero
    BY <1>1
  <2>2. IsDecimal(q[k + 1] // q[k])
    BY <2>1, QuotientChain
  <2>. QED BY <2>2, LessOnePlusOne
<1> HIDE DEF o
<1>3. ASSUME NEW a, IsDecimal(a), NEW k \in 1..n
      PROVE  compound[<<a, returns[k]>>] = a ** (q[k + 1] // q[k])
  <2>1. <<a, returns[k]>> \in Pairs \X Pairs
    BY <1>2, <1>3, DecimalParts
  <2>2. compound[<<a, returns[k]>>] = a ** (o ++ returns[k])
    BY <2>1 DEF o
  <2>. QED BY <1>2, <2>2
<1>4. Loopable(A, compound, o, returns, n)
  <2>1. ASSUME NEW a \in A, NEW k \in 1..n PROVE compound[<<a, returns[k]>>] \in A
    <3>1. IsDecimal(a) /\ IsDecimal(q[k + 1] // q[k])
      BY <1>2, DecimalsAre
    <3>2. IsDecimal(a ** (q[k + 1] // q[k]))
      BY <3>1, DecimalClosed
    <3>3. compound[<<a, returns[k]>>] = a ** (q[k + 1] // q[k])
      BY <1>3, <3>1
    <3>. QED BY <3>2, <3>3, DecimalsAre
  <2>. QED BY <1>1, <2>1, DecimalsAre DEF Loopable
<1>5. PICK found : /\ Runs(found, A, compound, o, returns, n)
                   /\ Folded(compound, o, returns) = found[n]
  BY <1>4, FoldedIs
<1>6. /\ found \in [0..n -> A] /\ found[0] = o
      /\ \A k \in 1..n : found[k] = compound[<<found[k - 1], returns[k]>>]
  BY <1>5 DEF Runs
<1> DEFINE S == {k \in Nat : k <= n => found[k] = q[k + 1] // q[1]}
<1>7. 0 \in S
  <2>1. q[1] // q[1] = o
    BY <1>1, QuotientChain DEF o
  <2>. QED BY <1>6, <2>1
<1>8. ASSUME NEW k \in Nat, k \in S PROVE k + 1 \in S
  <2> SUFFICES ASSUME k + 1 <= n PROVE found[k + 1] = q[(k + 1) + 1] // q[1]
    OBVIOUS
  <2> DEFINE l == k + 1
  <2>1. l \in 1..n /\ l - 1 = k /\ k <= n /\ l \in 1..(n + 1) /\ l + 1 \in 1..(n + 1) /\ k \in 0..n
    OBVIOUS
  <2>2. found[k] = q[l] // q[1] /\ IsDecimal(found[k])
    BY <1>6, <1>8, <2>1, DecimalsAre
  <2> HIDE DEF l
  <2>3. found[l] = found[k] ** (q[l + 1] // q[l])
    BY <1>3, <1>6, <2>1, <2>2
  <2>4. (q[l] // q[1]) ** (q[l + 1] // q[l]) = q[l + 1] // q[1]
    <3>1. IsDecimal(q[1]) /\ IsDecimal(q[l]) /\ IsDecimal(q[l + 1]) /\ q[1] # Zero /\ q[l] # Zero
      BY <1>1, <2>1
    <3>. QED BY <3>1, QuotientChain
  <2>. QED BY <2>2, <2>3, <2>4 DEF l
<1>9. n \in S
  <2> HIDE DEF S
  <2>. QED BY <1>7, <1>8, InductNat
<1>. QED BY <1>5, <1>9 DEF o

\* The returns of a curve that is never at zero before its end.
LEMMA ReturnsAre ==
  ASSUME AccountInv, NEW n \in Nat, Len(equity) = n + 1, \A k \in 1..n : Values[k] # Zero
  PROVE  PeriodReturns = [k \in 1..n |-> (Values[k + 1] // Values[k]) -- Dec(1)]
<1> DEFINE places == {k \in 1..(Len(Values) - 1) : Values[k] # Zero}
           ids == [k \in 1..(Len(Values) - 1) |-> k]
           from == Chosen(ids, places)
<1>1. Len(Values) - 1 = n
  BY ValuesAre
<1>2. places = 1..n /\ ids = [k \in 1..n |-> k]
  BY <1>1
<1>3. PeriodReturns =
        [k \in 1..Len(from) |-> (Values[from[k] + 1] // Values[from[k]]) -- Dec(1)]
  BY DEF PeriodReturns
<1> HIDE DEF places, ids
<1>4. from = [k \in 1..n |-> ids[k]]
  BY <1>2, ChosenAll
<1>5. Len(from) = n /\ \A k \in 1..n : from[k] = k
  BY <1>2, <1>4
<1> HIDE DEF from
<1>. QED BY <1>3, <1>5

\* The returns of the periods compound to the total return of every curve that
\* is not at zero before its end (period_returns, compute_metrics).
THEOREM ReturnsCorrectness == MetricsSpec => []ReturnsCompound
<1>1. ASSUME AccountInv PROVE ReturnsCompound
  <2> DEFINE compound == [p \in Pairs \X Pairs |-> p[1] ** (Dec(1) ++ p[2])]
             length == Len(equity)
  <2>1. length \in Nat /\ (equity = <<>> <=> length = 0)
    BY <1>1, ValuesAre
  <2>2. ASSUME equity # <<>>, \A k \in 1..(Len(Values) - 1) : Values[k] # Zero,
               Head(Values) # Zero
        PROVE  Folded(compound, Dec(1), PeriodReturns) = Dec(1) ++ MetricsSummary.total_return
    <3>1. PICK n \in Nat : length = n + 1
      <4>1. length - 1 \in Nat /\ length = (length - 1) + 1
        BY <2>1, <2>2
      <4>. QED BY <4>1
    <3>2. Len(Values) = n + 1 /\ \A k \in 1..(n + 1) : IsDecimal(Values[k])
      BY <1>1, <3>1, ValuesAre
    <3>3. \A k \in 1..n : Values[k] # Zero
      BY <2>2, <3>2
    <3>4. /\ Head(Values) = Values[1] /\ Last(Values) = Values[n + 1]
          /\ MetricsSummary.total_return = TotalReturn
          /\ 1 \in 1..(n + 1) /\ n + 1 \in 1..(n + 1)
      BY <1>1, <2>2, <3>1, EndsAre
    <3>5. PeriodReturns = [k \in 1..n |-> (Values[k + 1] // Values[k]) -- Dec(1)]
      BY <1>1, <3>1, <3>3, ReturnsAre
    <3>6. /\ DOMAIN PeriodReturns = 1..n
          /\ \A k \in 1..n : PeriodReturns[k] = (Values[k + 1] // Values[k]) -- Dec(1)
      BY <3>5
    <3>7. compound = [p \in Pairs \X Pairs |-> p[1] ** (Dec(1) ++ p[2])] /\ Values[1] # Zero
      BY <2>2, <3>4
    <3> HIDE DEF compound
    <3>8. Folded(compound, Dec(1), PeriodReturns) = Values[n + 1] // Values[1]
      BY <3>2, <3>3, <3>6, <3>7, CompoundIs
    <3>9. TotalReturn = (Values[n + 1] // Values[1]) -- Dec(1)
      BY <2>2, <3>4 DEF TotalReturn
    <3>10. IsDecimal(Values[n + 1] // Values[1])
      BY <3>2, <3>4, <3>7, QuotientChain
    <3>. QED BY <3>4, <3>8, <3>9, <3>10, LessOnePlusOne
  <2>. QED BY <2>2 DEF ReturnsCompound
<1>. QED BY <1>1, MetricsAlways, PTL

\* A sum of losses is a loss.
LEMMA SumOfNegative ==
  ASSUME NEW n \in Nat, NEW f, \A k \in 1..n : IsDecimal(f[k]) /\ f[k][1] < 0
  PROVE  /\ IsDecimal(SumOver(f, 1..n))
         /\ n = 0 => SumOver(f, 1..n) = Zero
         /\ n > 0 => SumOver(f, 1..n)[1] < 0
<1> DEFINE sum(k) == SumOver(f, 1..k)
           S == {k \in Nat : k <= n => /\ IsDecimal(sum(k))
                                       /\ k = 0 => sum(k) = Zero
                                       /\ k > 0 => sum(k)[1] < 0}
<1>1. 0 \in S
  <2>1. 1..0 = {} /\ SumOver(f, {}) = Zero /\ IsDecimal(Zero)
    BY FS_EmptySet, SumOverParts, FractionOfInt DEF Zero
  <2>. QED BY <2>1
<1>2. ASSUME NEW k \in Nat, k \in S PROVE k + 1 \in S
  <2> SUFFICES ASSUME k + 1 <= n PROVE IsDecimal(sum(k + 1)) /\ sum(k + 1)[1] < 0
    OBVIOUS
  <2> DEFINE D == 1..k
             x == k + 1
  <2>1. /\ IsFiniteSet(D) /\ x \notin D /\ 1..(k + 1) = D \cup {x}
        /\ IsDecimal(f[x]) /\ f[x][1] < 0
        /\ \A m \in D \cup {x} : IsDecimal(f[m])
    BY PrefixFinite
  <2>2. IsDecimal(sum(k)) /\ (k = 0 => sum(k) = Zero) /\ (k > 0 => sum(k)[1] < 0)
    BY <1>2
  <2>3. sum(k) = SumOver(f, D) /\ sum(k + 1) = SumOver(f, D \cup {x})
    BY <2>1
  <2> HIDE DEF D, x, sum
  <2>4. sum(k + 1) = sum(k) ++ f[x]
    <3>1. SumOver(f, D \cup {x}) = SumOver(f, D) ++ f[x]
      BY <2>1, SumOverAdd
    <3>. QED BY ONLY <2>3, <3>1
  <2>5. CASE k = 0
    <3>1. Zero ++ f[x] = f[x] ++ Zero /\ f[x] ++ Zero = f[x]
      BY <2>1, <2>2, <2>5, DecimalPlus
    <3>. QED BY <2>1, <2>2, <2>4, <2>5, <3>1
  <2>6. CASE k # 0
    BY <2>1, <2>2, <2>4, <2>6, SignOfSum, DecimalClosed
  <2>. QED BY <2>5, <2>6
<1>3. n \in S
  <2> HIDE DEF S
  <2>. QED BY <1>1, <1>2, InductNat
<1>. QED BY <1>3

\* The trades chosen by what they realized.
LEMMA ChosenPnls ==
  ASSUME AccountInv, NEW S \in SUBSET (1..Len(trades))
  PROVE  /\ IsFiniteSet(S) /\ Cardinality(S) \in Nat
         /\ Len(Chosen(TradePnls, S)) = Cardinality(S)
         /\ Chosen(TradePnls, S) = <<>> <=> Cardinality(S) = 0
         /\ \A k \in 1..Cardinality(S) :
              \E n \in S : /\ Chosen(TradePnls, S)[k] = trades[n].realized_pnl
                           /\ IsDecimal(Chosen(TradePnls, S)[k])
<1>1. Len(trades) \in Nat /\ \A n \in 1..Len(trades) : IsDecimal(trades[n].realized_pnl)
  BY DEF AccountInv, TradesInv
<1>2. S \in SUBSET Int /\ IsFiniteSet(S)
  BY <1>1, PrefixFinite
<1>3. Cardinality(S) \in Nat
  BY <1>2, FS_CardinalityType
<1>4. Len(Chosen(TradePnls, S)) = Cardinality(S)
      /\ (Chosen(TradePnls, S) = <<>> <=> Cardinality(S) = 0)
  BY <1>3 DEF Chosen
<1>5. ASSUME NEW k \in 1..Cardinality(S)
      PROVE  \E n \in S : /\ Chosen(TradePnls, S)[k] = trades[n].realized_pnl
                          /\ IsDecimal(Chosen(TradePnls, S)[k])
  <2>1. PICK n \in S : Chosen(TradePnls, S)[k] = TradePnls[n]
    BY <1>2, ChosenPlaces
  <2>2. TradePnls[n] = trades[n].realized_pnl
    BY DEF TradePnls
  <2>. QED BY <1>1, <2>1, <2>2
<1>. QED BY <1>2, <1>3, <1>4, <1>5
-----------------------------------------------------------------------------
\* The first trade opens a position.
FirstOpens ==
  IF trades = <<>> THEN DOMAIN positions = {} ELSE trades[1].realized_pnl = Zero

LEMMA FirstOpensAlways == MetricsSpec => []FirstOpens
<1>1. Init => FirstOpens
  BY DEF Init, FirstOpens, EmptyMap
<1>2. AccountInv /\ FirstOpens /\ [MetricsNext]_vars => FirstOpens'
  <2> SUFFICES ASSUME AccountInv, FirstOpens, [MetricsNext]_vars PROVE FirstOpens'
    OBVIOUS
  <2>1. CASE UNCHANGED vars
    BY <2>1 DEF vars, FirstOpens
  <2>2. ASSUME NEW s \in Symbols, NEW q \in Qtys, NEW p \in Prices,
               Fill([ts |-> Len(equity), symbol |-> s, target_qty |-> q], p)
        PROVE  FirstOpens'
    <3> DEFINE target == [ts |-> Len(equity), symbol |-> s, target_qty |-> q]
               state == PositionOf(s)
               diff == q - state.qty
               side == IF diff > 0 THEN "Buy" ELSE "Sell"
               price == ApplySlippage(p, side)
               realized == Realized(state, diff, price)
    <3>1. PICK trade : trades' = Append(trades, trade) /\ trade.realized_pnl = realized
      BY <2>2 DEF Fill
    <3>2. /\ Len(trades) \in Nat /\ Len(trades') = Len(trades) + 1
          /\ \A n \in 1..Len(trades) : trades'[n] = trades[n]
          /\ trades'[Len(trades) + 1] = trade /\ (trades = <<>> <=> Len(trades) = 0)
      <4>1. trades \in Seq(Elements(trades))
        BY DEF AccountInv, TradesInv
      <4>. QED BY <3>1, <4>1, AppendElement
    <3>3. trades' # <<>>
      BY <3>2
    <3>4. CASE trades = <<>>
      <4>1. state = NoPosition
        BY <3>4 DEF FirstOpens, PositionOf
      <4>2. realized = Zero
        BY <4>1 DEF NoPosition, Realized, Extends
      <4>3. trades'[1].realized_pnl = Zero
        BY <3>1, <3>2, <3>4, <4>2
      <4>. QED BY <3>3, <4>3 DEF FirstOpens
    <3>5. CASE trades # <<>>
      <4>1. trades'[1] = trades[1]
        BY <3>2, <3>5
      <4>. QED BY <3>3, <3>5, <4>1 DEF FirstOpens
    <3>. QED BY <3>4, <3>5
  <2>3. ASSUME NEW prices \in Maps(Symbols, Prices), MarkToMarket(Len(equity), prices)
        PROVE  FirstOpens'
    BY <2>3 DEF MarkToMarket, FirstOpens
  <2>. QED BY <2>1, <2>2, <2>3, StepIs DEF MetricsNext
<1>. QED BY <1>1, <1>2, MetricsAlways, PTL DEF MetricsSpec

\* The sum of some losses, and of none.
LEMMA LossIs ==
  ASSUME AccountInv, NEW S \in SUBSET (1..Len(trades)),
         \A n \in S : trades[n].realized_pnl[1] < 0
  PROVE  LET sum == Total(Chosen(TradePnls, S))
         IN  /\ IsDecimal(sum) /\ (Cardinality(S) = 0 => sum = Zero)
             /\ Cardinality(S) # 0 => sum[1] < 0
<1> DEFINE c == Cardinality(S)
           f == Chosen(TradePnls, S)
<1>1. c \in Nat /\ Len(f) = c
  BY ChosenPnls
<1>2. \A k \in 1..c : IsDecimal(f[k]) /\ f[k][1] < 0
  BY ChosenPnls
<1> HIDE DEF c, f
<1>3. /\ IsDecimal(SumOver(f, 1..c)) /\ (c = 0 => SumOver(f, 1..c) = Zero)
      /\ c > 0 => SumOver(f, 1..c)[1] < 0
  BY <1>1, <1>2, SumOfNegative
<1>4. Total(f) = SumOver(f, 1..c)
  BY <1>1 DEF Total
<1>. QED BY <1>1, <1>3, <1>4 DEF c, f

\* The sum of any chosen profits is a number.
LEMMA ChosenSum ==
  ASSUME AccountInv, NEW S \in SUBSET (1..Len(trades))
  PROVE  IsDecimal(Total(Chosen(TradePnls, S)))
<1> DEFINE c == Cardinality(S)
           f == Chosen(TradePnls, S)
<1>1. c \in Nat /\ Len(f) = c /\ \A k \in 1..c : IsDecimal(f[k])
  BY ChosenPnls
<1> HIDE DEF c, f
<1>2. IsFiniteSet(1..c)
  BY <1>1, PrefixFinite
<1>3. Total(f) = SumOver(f, 1..c)
  BY <1>1 DEF Total
<1>. QED BY <1>1, <1>2, <1>3, SumOverParts DEF f

\* Profit factor and payoff ratio of the same sums and counts.
LEMMA FactorAndPayoff ==
  ASSUME NEW gains, NEW losses, IsDecimal(gains), IsDecimal(losses), losses[1] < 0,
         NEW won \in Nat, NEW lost \in Nat, won > 0, lost > 0
  PROVE  /\ Negate[losses] # Zero
         /\ Negate[losses // Dec(lost)] # Zero
         /\ (gains // Negate[losses]) ** Dec(lost) =
              ((gains // Dec(won)) // Negate[losses // Dec(lost)]) ** Dec(won)
<1> DEFINE w == Dec(won)
           l == Dec(lost)
           u == Negate[losses]
           x == gains // w
           y == losses // l
           z == Negate[y]
<1>1. IsDecimal(w) /\ IsDecimal(l) /\ w[1] # 0 /\ l[1] # 0
  BY FractionOfInt DEF Dec
<1>2. IsDecimal(u) /\ u[1] # 0 /\ u # Zero
  <2>1. losses[1] \in Int /\ IsDecimal(u) /\ u = <<-losses[1], losses[2]>>
    BY NegateFraction, DecimalParts DEF Negate
  <2>2. u[1] # 0
    BY <2>1
  <2>. QED BY <2>1, <2>2, ZeroIs
<1>3. IsDecimal(x) /\ IsDecimal(y) /\ x ** w = gains /\ y ** l = losses
  BY <1>1, DecimalClosed, DecimalTimes
<1>4. IsDecimal(z)
  BY <1>3, NegateFraction
<1>5. z ** l = u
  <2>1. IsDecimal(Dec(-1)) /\ u = losses ** Dec(-1) /\ z = y ** Dec(-1)
    BY <1>3, FractionOfInt, DecimalTimes
  <2>2. IsDecimal(y ** l)
    BY <1>1, <1>3, DecimalClosed
  <2> HIDE DEF l, y, z, u, x, w
  <2>3. (y ** Dec(-1)) ** l = y ** (Dec(-1) ** l)
    BY <1>1, <1>3, <2>1, DecimalTimes
  <2>4. Dec(-1) ** l = l ** Dec(-1)
    BY <1>1, <2>1, DecimalTimes
  <2>5. (y ** l) ** Dec(-1) = y ** (l ** Dec(-1))
    BY <1>1, <1>3, <2>1, DecimalTimes
  <2>. QED BY <1>3, <2>1, <2>3, <2>4, <2>5
<1>6. z # Zero /\ z[1] # 0
  <2> SUFFICES z # Zero
    BY <1>4, ZeroIs
  <2> SUFFICES ASSUME z = Zero PROVE FALSE
    OBVIOUS
  <2>1. z ** l = l ** z /\ l ** Zero = Zero
    BY <1>1, <1>4, DecimalTimes
  <2>. QED BY <1>2, <1>5, <2>1
<1> DEFINE f == gains // u
           p == x // z
<1>7. IsDecimal(f) /\ IsDecimal(p) /\ f ** u = gains /\ p ** z = x
  <2> HIDE DEF u, x, z
  <2>. QED BY <1>2, <1>3, <1>4, <1>6, DecimalClosed, DecimalTimes
<1> HIDE DEF w, l, u, x, y, z, f, p
<1>8. (f ** l) ** z = gains
  <2>1. (f ** l) ** z = f ** (l ** z)
    BY <1>1, <1>4, <1>7, DecimalTimes
  <2>2. l ** z = z ** l
    BY <1>1, <1>4, DecimalTimes
  <2>. QED BY <1>5, <1>7, <2>1, <2>2
<1>9. (p ** w) ** z = gains
  <2>1. (p ** w) ** z = p ** (w ** z) /\ (p ** z) ** w = p ** (z ** w)
    BY <1>1, <1>4, <1>7, DecimalTimes
  <2>2. w ** z = z ** w
    BY <1>1, <1>4, DecimalTimes
  <2>. QED BY <1>3, <1>7, <2>1, <2>2
<1>10. IsDecimal(f ** l) /\ IsDecimal(p ** w)
  BY <1>1, <1>7, DecimalClosed
<1>11. f ** l = p ** w
  BY <1>4, <1>6, <1>8, <1>9, <1>10, TimesCancel
<1>. QED BY <1>2, <1>6, <1>11 DEF w, l, u, x, y, z, f, p

\* The statistics count the same trades, losses decide which have a value, and
\* the trade that opens the book keeps the win rate below one (trade_stats).
THEOREM StatisticsCorrectness == MetricsSpec => []TradeStatisticsAgree
<1>1. ASSUME AccountInv, FirstOpens PROVE TradeStatisticsAgree
  <2> SUFFICES ASSUME equity # <<>> PROVE TradeStatisticsAgree
    BY DEF TradeStatisticsAgree
  <2> DEFINE W == {n \in 1..Len(trades) : trades[n].realized_pnl[1] > 0}
             O == {n \in 1..Len(trades) : trades[n].realized_pnl[1] < 0}
             won == Cardinality(W)
             lost == Cardinality(O)
             gains == Total(Winners)
             losses == Total(Losers)
  <2>1. Len(trades) \in Nat /\ \A n \in 1..Len(trades) : IsDecimal(trades[n].realized_pnl)
    BY <1>1 DEF AccountInv, TradesInv
  <2>2. Winners = Chosen(TradePnls, W) /\ Losers = Chosen(TradePnls, O)
    <3>1. \A n \in 1..Len(trades) :
            /\ TradePnls[n] = trades[n].realized_pnl
            /\ (Signum(TradePnls[n][1]) > 0 <=> trades[n].realized_pnl[1] > 0)
            /\ (Signum(TradePnls[n][1]) < 0 <=> trades[n].realized_pnl[1] < 0)
      BY <2>1, DecimalParts, SignumIs DEF TradePnls
    <3>2. /\ {n \in 1..Len(trades) : Signum(TradePnls[n][1]) > 0} = W
          /\ {n \in 1..Len(trades) : Signum(TradePnls[n][1]) < 0} = O
      BY <3>1
    <3>. QED BY <3>2 DEF Winners, Losers
  <2>3. /\ W \in SUBSET (1..Len(trades)) /\ O \in SUBSET (1..Len(trades))
        /\ \A n \in O : trades[n].realized_pnl[1] < 0
    OBVIOUS
  <2>4. /\ won \in Nat /\ Len(Winners) = won /\ (Winners = <<>> <=> won = 0)
        /\ lost \in Nat /\ Len(Losers) = lost /\ (Losers = <<>> <=> lost = 0)
    <3> HIDE DEF W, O
    <3>. QED BY <1>1, <2>2, <2>3, ChosenPnls
  <2>5. IsDecimal(gains) /\ IsDecimal(losses) /\ (lost = 0 => losses = Zero)
        /\ (lost # 0 => losses[1] < 0)
    <3> HIDE DEF W, O
    <3>. QED BY <1>1, <2>2, <2>3, LossIs, ChosenSum
  <2>6. trades # <<>> => won < Len(trades)
    <3> SUFFICES ASSUME trades # <<>> PROVE won < Len(trades)
      OBVIOUS
    <3> DEFINE D == 1..Len(trades)
    <3>1. IsFiniteSet(D) /\ Cardinality(D) = Len(trades)
      BY <2>1, FS_Interval
    <3>2. trades[1].realized_pnl[1] = 0 /\ Len(trades) > 0
      <4>1. Len(trades) > 0
        BY <1>1, <2>1 DEF AccountInv, TradesInv
      <4>. QED BY <1>1, <4>1 DEF FirstOpens, Zero, Dec
    <3>3. 1 \in D /\ 1 \notin W
      BY <2>1, <3>2
    <3> HIDE DEF D, W
    <3>4. W \in SUBSET D
      BY <2>3 DEF D
    <3>5. Cardinality(W) <= Cardinality(D) /\ Cardinality(D) # Cardinality(W)
      BY <3>1, <3>3, <3>4, FS_Subset
    <3>. QED BY <2>1, <2>4, <3>1, <3>5
  <2> HIDE DEF W, O, gains, losses, won, lost
  <2>7. /\ MetricsSummary.win_rate = Ratio(Dec(Len(Winners)), Dec(Len(trades)))
        /\ MetricsSummary.profit_factor = Ratio(gains, Negate[losses])
        /\ MetricsSummary.payoff_ratio = PayoffRatio
    BY DEF MetricsSummary, gains, losses
  <2>8. \A k \in Nat : Dec(k) = Zero <=> k = 0
    BY DEF Dec, Zero
  <2>9. Negate[Zero] = Zero
    BY DEF Negate, Zero, Dec, Pairs
  <2>10. lost # 0 => Negate[losses] # Zero
    BY <2>4, <2>5, <2>9, FactorAndPayoff
  <2>11. IsSome(MetricsSummary.profit_factor) <=> lost > 0
    BY <2>4, <2>5, <2>7, <2>9, <2>10, OptionFacts DEF Ratio
  <2>12. won > 0 /\ lost > 0 =>
           PayoffRatio = Some((gains // Dec(won)) // Negate[losses // Dec(lost)])
    <3> SUFFICES ASSUME won > 0, lost > 0
                 PROVE  PayoffRatio = Some((gains // Dec(won)) // Negate[losses // Dec(lost)])
      OBVIOUS
    <3>1. Winners # <<>> /\ Losers # <<>>
      BY <2>4
    <3>2. Average(Winners) = Some(gains // Dec(won)) /\ Average(Losers) = Some(losses // Dec(lost))
      BY <2>4, <2>8 DEF Average, Ratio, gains, losses
    <3>3. Average(Winners)[1] = gains // Dec(won) /\ Average(Losers)[1] = losses // Dec(lost)
      BY <3>2, OptionFacts
    <3>4. Negate[losses // Dec(lost)] # Zero
      BY <2>4, <2>5, FactorAndPayoff
    <3>. QED BY <3>1, <3>3, <3>4 DEF PayoffRatio, Ratio
  <2>13. IsSome(MetricsSummary.payoff_ratio) <=> won > 0 /\ lost > 0
    <3>1. ~(won > 0 /\ lost > 0) => PayoffRatio = None
      BY <2>4 DEF PayoffRatio
    <3>. QED BY <2>7, <2>12, <3>1, OptionFacts
  <2>14. IsSome(MetricsSummary.payoff_ratio) =>
           MetricsSummary.profit_factor[1] ** Dec(lost) = MetricsSummary.payoff_ratio[1] ** Dec(won)
    <3> SUFFICES ASSUME won > 0, lost > 0
                 PROVE  MetricsSummary.profit_factor[1] ** Dec(lost)
                          = MetricsSummary.payoff_ratio[1] ** Dec(won)
      BY <2>13
    <3>1. MetricsSummary.profit_factor = Some(gains // Negate[losses])
      BY <2>7, <2>10 DEF Ratio
    <3>2. /\ MetricsSummary.profit_factor[1] = gains // Negate[losses]
          /\ MetricsSummary.payoff_ratio[1]
               = (gains // Dec(won)) // Negate[losses // Dec(lost)]
      BY <2>7, <2>12, <3>1, OptionFacts
    <3>. QED BY <2>4, <2>5, <3>2, FactorAndPayoff
  <2>15. IsSome(MetricsSummary.win_rate) => ~AtMost(Dec(1), MetricsSummary.win_rate[1])
    <3> SUFFICES ASSUME IsSome(MetricsSummary.win_rate)
                 PROVE  ~AtMost(Dec(1), MetricsSummary.win_rate[1])
      OBVIOUS
    <3>1. Dec(Len(trades)) # Zero
      BY <2>7, OptionFacts DEF Ratio
    <3>2. trades # <<>>
      BY <2>1, <2>8, <3>1 DEF AccountInv, TradesInv
    <3>3. MetricsSummary.win_rate[1] = Dec(won) // Dec(Len(trades))
      BY <2>4, <2>7, <3>1, OptionFacts DEF Ratio
    <3>. QED BY <2>1, <2>4, <2>6, <3>2, <3>3, RatioBelowOne
  <2>16. Count(LAMBDA pnl : pnl > 0) = won /\ Count(LAMBDA pnl : pnl < 0) = lost
    BY DEF Count, won, lost, W, O
  <2>. QED BY <2>11, <2>13, <2>14, <2>15, <2>16 DEF TradeStatisticsAgree
<1>. QED BY <1>1, MetricsAlways, FirstOpensAlways, PTL

\* The points of the curve are in the order of their times, those before every
\* trade are of the initial balance, and one after every trade has the balance.
PointsInv ==
  /\ \A k \in 1..Len(equity) :
       /\ equity[k].ts = k - 1
       /\ IsDecimal(equity[k].unrealized_pnl) /\ IsDecimal(equity[k].balance)
       /\ equity[k].equity = equity[k].balance ++ equity[k].unrealized_pnl
  /\ \A n \in 1..Len(trades) : trades[n].ts_trade \in 0..Len(equity)
  /\ trades = <<>> => balance = InitialBalance /\ DOMAIN positions = {}
  /\ equity # <<>> =>
       /\ (\A n \in 1..Len(trades) : trades[n].ts_trade > 0) => equity[1].equity = InitialBalance
       /\ (\A n \in 1..Len(trades) : trades[n].ts_trade < Len(equity)) =>
            equity[Len(equity)].balance = balance

LEMMA PointsFill ==
  ASSUME AccountInv, PointsInv, NEW s \in Symbols, NEW q \in Qtys, NEW p \in Prices,
         Fill([ts |-> Len(equity), symbol |-> s, target_qty |-> q], p)
  PROVE  PointsInv'
<1>1. PICK trade : trades' = Append(trades, trade) /\ trade.ts_trade = Len(equity)
  BY DEF Fill
<1>2. equity' = equity
  BY DEF Fill
<1>3. /\ Len(trades) \in Nat /\ Len(trades') = Len(trades) + 1
      /\ \A n \in 1..Len(trades) : trades'[n] = trades[n]
      /\ trades'[Len(trades) + 1] = trade
  <2>1. trades \in Seq(Elements(trades))
    BY DEF AccountInv, TradesInv
  <2>. QED BY <1>1, <2>1, AppendElement
<1>4. Len(equity) \in Nat
  BY DEF AccountInv, CurveInv
<1>5. ASSUME NEW n \in 1..Len(trades') PROVE trades'[n].ts_trade \in 0..Len(equity)
  <2>1. n \in 1..Len(trades) \/ n = Len(trades) + 1
    BY <1>3
  <2>. QED BY <1>1, <1>3, <1>4, <2>1 DEF PointsInv
<1>6. trades' # <<>>
  BY <1>3
<1>7. ASSUME equity # <<>>, \A n \in 1..Len(trades') : trades'[n].ts_trade > 0
      PROVE  equity[1].equity = InitialBalance
  <2>1. \A n \in 1..Len(trades) : trades[n].ts_trade > 0
    BY <1>3, <1>7
  <2>. QED BY <1>7, <2>1 DEF PointsInv
<1>8. ~\A n \in 1..Len(trades') : trades'[n].ts_trade < Len(equity)
  <2>1. Len(trades) + 1 \in 1..Len(trades') /\ ~(Len(equity) < Len(equity))
    BY <1>3, <1>4
  <2>. QED BY <1>1, <1>3, <2>1
<1>. QED BY <1>2, <1>5, <1>6, <1>7, <1>8 DEF PointsInv

LEMMA PointsMark ==
  ASSUME AccountInv, PointsInv, NEW prices \in Maps(Symbols, Prices),
         MarkToMarket(Len(equity), prices)
  PROVE  PointsInv'
<1>1. PICK point :
        /\ equity' = Append(equity, point)
        /\ point.ts = Len(equity) /\ point.balance = balance
        /\ point.unrealized_pnl = Unrealized(prices)
        /\ point.equity = balance ++ Unrealized(prices)
  BY DEF MarkToMarket
<1>2. UNCHANGED <<positions, balance, trades>>
  BY DEF MarkToMarket
<1>3. /\ Len(equity) \in Nat /\ Len(equity') = Len(equity) + 1
      /\ \A k \in 1..Len(equity) : equity'[k] = equity[k]
      /\ equity'[Len(equity) + 1] = point
  <2>1. equity \in Seq(Elements(equity))
    BY DEF AccountInv, CurveInv
  <2>. QED BY <1>1, <2>1, AppendElement
<1>4. IsDecimal(Unrealized(prices)) /\ IsDecimal(balance)
  BY MapsDecimals, UnrealizedIs DEF AccountInv, MoneyInv
<1>5. ASSUME NEW k \in 1..Len(equity')
      PROVE  /\ equity'[k].ts = k - 1
             /\ IsDecimal(equity'[k].unrealized_pnl) /\ IsDecimal(equity'[k].balance)
             /\ equity'[k].equity = equity'[k].balance ++ equity'[k].unrealized_pnl
  <2>1. CASE k \in 1..Len(equity)
    BY <1>3, <2>1 DEF PointsInv
  <2>2. CASE k = Len(equity) + 1
    BY <1>1, <1>3, <1>4, <2>2
  <2>. QED BY <1>3, <2>1, <2>2
<1>6. \A n \in 1..Len(trades) : trades[n].ts_trade \in 0..Len(equity')
  <2>1. \A x \in 0..Len(equity) : x \in 0..Len(equity')
    BY <1>3
  <2>. QED BY <2>1 DEF PointsInv
<1>7. ASSUME \A n \in 1..Len(trades) : trades[n].ts_trade > 0
      PROVE  equity'[1].equity = InitialBalance
  <2>1. CASE equity = <<>>
    <3>1. Len(equity) = 0 /\ equity'[1] = point
      BY <1>3, <2>1
    <3>2. 1..Len(trades) = {}
      <4>1. \A n \in 1..Len(trades) : trades[n].ts_trade \in 0..0 /\ trades[n].ts_trade > 0
        BY <1>7, <3>1 DEF PointsInv
      <4>. QED BY <4>1
    <3>3. trades = <<>>
      <4>1. trades \in Seq(Elements(trades))
        BY DEF AccountInv, TradesInv
      <4>2. Len(trades) \in Nat /\ (Len(trades) # 0 => 1 \in 1..Len(trades))
        BY <4>1
      <4>. QED BY <3>2, <4>1, <4>2
    <3>4. balance = InitialBalance /\ DOMAIN positions = {}
      BY <3>3 DEF PointsInv
    <3>5. Unrealized(prices) = Zero
      <4>1. Marked(prices) = {}
        BY <3>4 DEF Marked
      <4>2. \A f : SumOver(f, {}) = Zero
        BY SumOverParts, FS_EmptySet
      <4>. QED BY <4>1, <4>2 DEF Unrealized
    <3>6. InitialBalance ++ Zero = InitialBalance
      BY <1>4, <3>4, DecimalPlus
    <3>. QED BY <1>1, <3>1, <3>4, <3>5, <3>6
  <2>2. CASE equity # <<>>
    <3>1. 1 \in 1..Len(equity)
      <4>1. equity \in Seq(Elements(equity))
        BY DEF AccountInv, CurveInv
      <4>. QED BY <2>2, <4>1
    <3>. QED BY <1>3, <1>7, <2>2, <3>1 DEF PointsInv
  <2>. QED BY <2>1, <2>2
<1>8. equity'[Len(equity')].balance = balance
  BY <1>1, <1>3
<1>. QED BY <1>2, <1>5, <1>6, <1>7, <1>8 DEF PointsInv

LEMMA PointsAlways == MetricsSpec => []PointsInv
<1>1. Init => PointsInv
  BY DEF Init, PointsInv, EmptyMap
<1>2. AccountInv /\ PointsInv /\ [Next]_vars => PointsInv'
  <2>1. AccountInv /\ PointsInv /\ UNCHANGED vars => PointsInv'
    BY DEF vars, PointsInv
  <2>. QED BY <2>1, PointsFill, PointsMark, StepIs
<1>. QED BY <1>1, <1>2, AccountAlways, MetricsSteps, PTL DEF Spec
-----------------------------------------------------------------------------
\* What of the return of a run is whose.
LEMMA ReturnAlgebra ==
  ASSUME NEW initial, NEW last, NEW profit, NEW fees, NEW open,
         IsDecimal(initial), IsDecimal(profit), IsDecimal(fees), IsDecimal(open),
         initial # Zero,
         last = (initial ++ (profit -- fees)) ++ open
  PROVE  initial ** ((last // initial) -- Dec(1)) = (profit -- fees) ++ open
<1> DEFINE o == Dec(1)
           gain == (profit -- fees) ++ open
           x == last // initial
<1>1. IsDecimal(o) /\ IsDecimal(profit -- fees) /\ IsDecimal(gain) /\ IsDecimal(last)
      /\ initial[1] # 0
  BY FractionOfInt, DecimalClosed, ZeroIs
<1>2. last = initial ++ gain
  <2> HIDE DEF o
  <2>. QED BY <1>1, DecimalPlus
<1> HIDE DEF gain
<1>3. IsDecimal(x) /\ x ** initial = last
  BY <1>1, DecimalClosed, DecimalTimes
<1> HIDE DEF o, x
<1>4. x -- o = x ++ Negate[o] /\ IsDecimal(Negate[o])
  BY <1>1, <1>3, DecimalPlus, NegateFraction
<1>5. initial ** (x ++ Negate[o]) = (initial ** x) ++ (initial ** Negate[o])
  BY <1>3, <1>4, DecimalTimes
<1>6. initial ** x = last
  BY <1>3, DecimalTimes
<1>7. initial ** Negate[o] = Negate[initial]
  <2>1. Negate[o] = Dec(-1)
    BY DEF o, Negate, Dec, Pairs
  <2>2. IsDecimal(Dec(-1))
    BY FractionOfInt
  <2>. QED BY <2>1, <2>2, DecimalTimes
<1>8. (initial ++ gain) ++ Negate[initial] = gain
  <2> DEFINE n == Negate[initial]
  <2>1. IsDecimal(n) /\ initial ++ n = Zero
    BY NegateFraction, DecimalPlus
  <2> HIDE DEF n
  <2>2. initial ++ gain = gain ++ initial /\ (gain ++ initial) ++ n = gain ++ (initial ++ n)
    BY <1>1, <2>1, DecimalPlus
  <2>3. gain ++ Zero = gain
    BY <1>1, DecimalPlus
  <2>. QED BY <2>1, <2>2, <2>3 DEF n
<1>. QED BY <1>2, <1>4, <1>5, <1>6, <1>7, <1>8 DEF o, x, gain

\* The average profit times the number of trades is what they realized, and
\* the summary's fees are theirs.
LEMMA SummaryTotals ==
  ASSUME AccountInv, equity # <<>>
  PROVE  /\ UnwrapOr(MetricsSummary.avg_trade_pnl, Zero) ** Dec(MetricsSummary.trade_count)
              = TotalOf("realized_pnl")
         /\ MetricsSummary.fee_total = TotalOf("fee")
<1> DEFINE n == Len(trades)
           pnls == [k \in 1..n |-> trades[k].realized_pnl]
           fees == [k \in 1..n |-> trades[k].fee]
           total == SumOver(pnls, 1..n)
<1>1. n \in Nat /\ \A k \in 1..n : IsDecimal(trades[k].realized_pnl)
  BY DEF AccountInv, TradesInv
<1>2. /\ MetricsSummary.avg_trade_pnl = Average(TradePnls)
      /\ MetricsSummary.trade_count = n /\ MetricsSummary.fee_total = Total(fees)
  BY DEF MetricsSummary
<1>3. Len(TradePnls) = n /\ Len(fees) = n /\ TradePnls = pnls
  BY <1>1 DEF TradePnls
<1>4. \A k \in 1..n : pnls[k] = trades[k].realized_pnl
  OBVIOUS
<1>5. TotalOf("realized_pnl") = total /\ TotalOf("fee") = SumOver(fees, 1..n)
  BY DEF TotalOf
<1> HIDE DEF pnls, fees, n
<1>6. Total(TradePnls) = total /\ Total(fees) = SumOver(fees, 1..n)
  BY <1>3 DEF Total
<1>7. IsDecimal(total) /\ (n = 0 => total = Zero)
  <2>1. IsFiniteSet(1..n) /\ (n = 0 => 1..n = {}) /\ \A k \in 1..n : IsDecimal(pnls[k])
    BY <1>1, <1>4, PrefixFinite
  <2>. QED BY <2>1, SumOverParts
<1> HIDE DEF total
<1>8. Average(TradePnls) = IF Dec(n) = Zero THEN None ELSE Some(total // Dec(n))
  BY <1>3, <1>6 DEF Average, Ratio
<1>9. UnwrapOr(Average(TradePnls), Zero) ** Dec(n) = total
  <2>1. CASE n = 0
    <3>1. Average(TradePnls) = None
      BY <1>8, <2>1 DEF Zero
    <3>2. UnwrapOr(Average(TradePnls), Zero) = Zero
      BY <3>1 DEF UnwrapOr, IsSome
    <3>3. Zero ** Dec(n) = Zero
      BY <2>1, FractionOfInt, DecimalTimes DEF Zero
    <3>. QED BY <1>7, <2>1, <3>2, <3>3
  <2>2. CASE n # 0
    <3>1. Dec(n) # Zero /\ Dec(n)[1] # 0 /\ IsDecimal(Dec(n))
      BY <1>1, <2>2, FractionOfInt DEF Dec, Zero
    <3>2. UnwrapOr(Average(TradePnls), Zero) = total // Dec(n)
      BY <1>8, <3>1, OptionFacts DEF UnwrapOr
    <3>3. (total // Dec(n)) ** Dec(n) = total
      BY <1>7, <3>1, DecimalTimes
    <3>. QED BY <3>2, <3>3
  <2>. QED BY <2>1, <2>2
<1>. QED BY <1>2, <1>5, <1>6, <1>9

\* The trades account for the return of a run whose first point was taken
\* before any trade and whose last was after all of them (compute_metrics).
THEOREM ReturnCorrectness == MetricsSpec => []TradesExplainReturn
<1>1. ASSUME AccountInv, PointsInv, TradesExplainBook PROVE TradesExplainReturn
  <2> DEFINE n == Len(equity)
             profit == TotalOf("realized_pnl")
             fees == TotalOf("fee")
             open == equity[n].unrealized_pnl
  <2> SUFFICES ASSUME equity # <<>>, InitialBalance # Zero,
                      \A k \in 1..Len(trades) : /\ Head(equity).ts < trades[k].ts_trade
                                                /\ trades[k].ts_trade <= Last(equity).ts
               PROVE  InitialBalance ** MetricsSummary.total_return
                        = (profit -- fees) ++ Last(equity).unrealized_pnl
    BY <1>1, SummaryTotals DEF TradesExplainReturn
  <2>1. /\ n \in Nat /\ 1 \in 1..n /\ n \in 1..n
        /\ Head(Values) = Values[1] /\ Last(Values) = Values[n]
        /\ MetricsSummary.total_return = TotalReturn
    BY <1>1, EndsAre, ValuesAre
  <2>2. /\ Head(equity) = equity[1] /\ Last(equity) = equity[n]
    <3>1. equity \in Seq(Elements(equity))
      BY <1>1 DEF AccountInv, CurveInv
    <3>. QED BY <2>1, <3>1 DEF Last
  <2>3. equity[1].ts = 0 /\ equity[n].ts = n - 1
    BY <1>1, <2>1 DEF PointsInv
  <2>4. \A k \in 1..Len(trades) : trades[k].ts_trade > 0 /\ trades[k].ts_trade < n
    <3>1. \A k \in 1..Len(trades) : trades[k].ts_trade \in 0..n
      BY <1>1 DEF PointsInv
    <3>. QED BY <2>1, <2>2, <2>3, <3>1
  <2>5. equity[1].equity = InitialBalance /\ equity[n].balance = balance
    BY <1>1, <2>4 DEF PointsInv
  <2>6. Values[1] = InitialBalance /\ Values[n] = balance ++ open
    BY <1>1, <2>1, <2>5, ValuesAre DEF PointsInv
  <2>7. balance = InitialBalance ++ (profit -- fees)
    BY <1>1 DEF TradesExplainBook
  <2>8. TotalReturn = (Values[n] // InitialBalance) -- Dec(1)
    BY <2>1, <2>6 DEF TotalReturn
  <2>9. IsDecimal(InitialBalance) /\ IsDecimal(profit) /\ IsDecimal(fees) /\ IsDecimal(open)
    BY <1>1, <2>1, MoneyAssumption DEF AccountInv, MoneyInv, PointsInv, TradesExplainBook
  <2>10. Last(equity).unrealized_pnl = open
    BY <2>2
  <2> HIDE DEF n, profit, fees, open
  <2>. QED BY <2>1, <2>6, <2>7, <2>8, <2>9, <2>10, ReturnAlgebra
<1>. QED BY <1>1, AccountAlways, BookCorrectness, MetricsSteps, PointsAlways, PTL
=============================================================================
