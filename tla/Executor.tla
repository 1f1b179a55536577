------------------------------ MODULE Executor ------------------------------
(***************************************************************************)
(* TargetPositionExecutor of wt-execution over an ExecutionAdapter: a      *)
(* target position and the quantity the caller believes is held become at  *)
(* most one market order, rounded to the symbol's step and dropped when    *)
(* the exchange would not take it.                                         *)
(*                                                                         *)
(* The adapter is DryRunExecutionAdapter, which fills every order at once  *)
(* and keeps it, or one that may also refuse, as the trait allows.         *)
(* Quantities, steps, prices and notionals are integers in the smallest    *)
(* unit.                                                                   *)
(***************************************************************************)
EXTENDS Decimal, Option

CONSTANTS
  Symbols,
  Rules,       \* the SymbolExecutionRules in use
  Targets,     \* the target quantities asked for
  Prices,      \* the reference prices
  MaxStale,    \* how many of the latest orders a caller may not know of
  MayRefuse,   \* whether the adapter may return an error of its own
  MaxOrders    \* bound on the number of order ids drawn

ASSUME RulesAssumption ==
  Rules \subseteq [min_qty : Int, step_size : Int, min_notional : Int]
ASSUME TargetsAssumption == Targets \subseteq Int
ASSUME PricesAssumption == Prices \subseteq Nat
ASSUME MaxStaleAssumption == MaxStale \in Nat

VARIABLES
  default_rules, symbol_rules, order_seq,  \* TargetPositionExecutor
  submitted_orders,  \* the adapter's
  last,      \* the latest call and what it returned
  holdings   \* what the account held at first and after each order

vars == <<default_rules, symbol_rules, order_seq, submitted_orders, last, holdings>>

Permissive == [min_qty |-> 0, step_size |-> 0, min_notional |-> 0]

Init ==
  /\ default_rules \in Rules \cup {Permissive}
  /\ symbol_rules = EmptyMap
  /\ order_seq = 0
  /\ submitted_orders = <<>>
  /\ last = None
  /\ holdings = << [s \in Symbols |-> 0] >>
-----------------------------------------------------------------------------
\* Mutants: rounded down; rounded away from zero.
NormalizeQtyDown(rules, qty) ==
  IF rules.step_size <= 0 THEN qty ELSE (qty \div rules.step_size) * rules.step_size
NormalizeQtyUp(rules, qty) ==
  IF rules.step_size <= 0 THEN qty
  ELSE (IF qty < 0 THEN -1 ELSE 1) * (-((-Abs(qty)) \div rules.step_size) * rules.step_size)

\* Rounded towards zero to a multiple of the step.
NormalizeQty(rules, qty) ==
  IF rules.step_size <= 0 THEN qty
  ELSE (IF qty < 0 THEN -1 ELSE 1) * ((Abs(qty) \div rules.step_size) * rules.step_size)

\* Mutant: the notional is compared without the price.
IsTradeableUnpriced(rules, qty, price) ==
  Abs(qty) >= rules.min_qty /\ Abs(qty) >= rules.min_notional

IsTradeable(rules, qty, price) ==
  Abs(qty) >= rules.min_qty /\ Abs(qty) * price >= rules.min_notional

RulesFor(symbol) == UnwrapOr(Get(symbol_rules, symbol), default_rules)

OrderQty(request) ==
  NormalizeQty(RulesFor(request.symbol), request.target_qty - request.current_qty)

Wanted(request) ==
  /\ OrderQty(request) # 0
  /\ IsTradeable(RulesFor(request.symbol), OrderQty(request), request.reference_price)

NewOrder(request) ==
  [symbol |-> request.symbol,
   side |-> IF OrderQty(request) > 0 THEN "Buy" ELSE "Sell",
   price |-> request.reference_price,
   qty |-> Abs(OrderQty(request)),
   client_order_id |-> order_seq + 1,
   exchange_order_id |-> None]

Call(request, outcome) ==
  Some([request |-> request, rules |-> RulesFor(request.symbol), outcome |-> outcome])

\* Too little to trade: Ok(None).
Skip(request) ==
  /\ ~Wanted(request)
  /\ last' = Call(request, "skipped")
  /\ UNCHANGED <<default_rules, symbol_rules, order_seq, submitted_orders, holdings>>

SignedQty(order) == IF order.side = "Buy" THEN order.qty ELSE -order.qty

\* What the account holds of each symbol.
Held == holdings[Len(holdings)]

\* DryRunExecutionAdapter::submit_order
Fill(order) ==
  /\ order.qty > 0
  /\ submitted_orders' =
       Append(submitted_orders,
              [order EXCEPT !.exchange_order_id = Some(Len(submitted_orders) + 1)])
  /\ holdings' =
       Append(holdings, [Held EXCEPT ![order.symbol] = @ + SignedQty(order)])

\* An adapter's Err leaves no order behind.
Refuse(order) ==
  /\ MayRefuse \/ order.qty <= 0
  /\ UNCHANGED <<submitted_orders, holdings>>

\* Mutant: the order id is not advanced.
SubmitSameId(request) ==
  /\ Wanted(request)
  /\ \/ Fill(NewOrder(request)) /\ last' = Call(request, "filled")
     \/ Refuse(NewOrder(request)) /\ last' = Call(request, "refused")
  /\ UNCHANGED <<default_rules, symbol_rules, order_seq>>

\* The order id is drawn before the adapter is asked.
Submit(request) ==
  /\ Wanted(request)
  /\ order_seq' = order_seq + 1
  /\ \/ Fill(NewOrder(request)) /\ last' = Call(request, "filled")
     \/ Refuse(NewOrder(request)) /\ last' = Call(request, "refused")
  /\ UNCHANGED <<default_rules, symbol_rules>>

ExecuteTarget(request) == Skip(request) \/ Submit(request)

SetSymbolRules(symbol, rules) ==
  /\ symbol_rules' = Insert(symbol_rules, symbol, rules)
  /\ UNCHANGED <<default_rules, order_seq, submitted_orders, last, holdings>>
-----------------------------------------------------------------------------
\* A caller knows of all orders but at most the latest MaxStale ones.
BelievedQtys(symbol) ==
  {holdings[n][symbol] : n \in {n \in 1..Len(holdings) : n + MaxStale >= Len(holdings)}}

Next ==
  \/ /\ order_seq < MaxOrders
     /\ \E s \in Symbols, t \in Targets, p \in Prices :
          \E held \in BelievedQtys(s) :
            ExecuteTarget([symbol |-> s, target_qty |-> t, current_qty |-> held,
                           reference_price |-> p])
  \/ \E s \in Symbols, r \in Rules : SetSymbolRules(s, r)

Spec == Init /\ [][Next]_vars
-----------------------------------------------------------------------------
RulesType == [min_qty : Int, step_size : Int, min_notional : Int]

Orders ==
  [symbol : Symbols, side : {"Buy", "Sell"}, price : Int, qty : Nat \ {0},
   client_order_id : Nat, exchange_order_id : Option(Nat)]

\* Every variable holds the type the struct's field declares; an order's
\* quantity is positive, so the dry run's own check never refuses one.
TypeOK ==
  /\ default_rules \in RulesType
  /\ DOMAIN symbol_rules \subseteq Symbols
  /\ \A s \in DOMAIN symbol_rules : symbol_rules[s] \in RulesType
  /\ order_seq \in Nat
  /\ submitted_orders \in Seq(Orders)
  /\ holdings \in Seq([Symbols -> Int]) /\ Len(holdings) = Len(submitted_orders) + 1

\* Client order ids never repeat and grow with every order, also across
\* orders the adapter refused; they never run ahead of the counter.
ClientIdsIncrease ==
  /\ \A m, n \in 1..Len(submitted_orders) :
       m < n => submitted_orders[m].client_order_id < submitted_orders[n].client_order_id
  /\ \A n \in 1..Len(submitted_orders) : submitted_orders[n].client_order_id <= order_seq

\* The order of the latest call trades the symbol towards the target from what
\* the caller believes is held, never past it, and leaves less than one step:
\* execute_target rounds towards zero for buys and sells alike.
ApproachesTarget ==
  IsSome(last) /\ last[1].outcome = "filled" =>
    LET diff  == last[1].request.target_qty - last[1].request.current_qty
        order == submitted_orders[Len(submitted_orders)]
        moved == SignedQty(order)
        step  == last[1].rules.step_size
    IN  /\ submitted_orders # <<>>
        /\ order.symbol = last[1].request.symbol
        /\ Signum(moved) = Signum(diff)
        /\ Abs(moved) <= Abs(diff)
        /\ IF step > 0 THEN Abs(diff - moved) < step ELSE moved = diff

\* A target asked for again right after its order was filled makes no second
\* order, whatever the rounding left over, if both callers knew what was held.
NoRepeatOrder ==
  [][ \A s \in Symbols :
        IsSome(last) /\ last[1].outcome = "filled" /\ last[1].request.symbol = s
        /\ last'[1].request.symbol = s
        /\ last'[1].request.target_qty = last[1].request.target_qty
        /\ last[1].request.current_qty = holdings[Len(holdings) - 1][s]
        /\ last'[1].request.current_qty = Held[s]
        /\ last'[1].rules = last[1].rules
        => submitted_orders' = submitted_orders ]_vars

\* A call by a caller who knows what is held, and that the adapter did not
\* refuse, leaves nothing that could be traded: what is missing then, less one
\* step, is below the minimum quantity or worth less than the minimum notional.
\* Such a rest stays, however often its target is asked for.
RestIsUntradeable ==
  [][ \A s \in Symbols :
        /\ last' # last
        /\ last'[1].request.symbol = s
        /\ last'[1].request.current_qty = Held[s]
        /\ last'[1].outcome # "refused"
        => LET rules == last'[1].rules
               rest  == Abs(last'[1].request.target_qty - Held'[s])
               whole == IF rules.step_size > 0 THEN rest - rules.step_size ELSE rest
           IN  \/ rest = 0
               \/ whole < 0
               \/ whole < rules.min_qty
               \/ whole * last'[1].request.reference_price < rules.min_notional ]_vars
=============================================================================
