--------------------------- MODULE ExecutorProofs ---------------------------
(***************************************************************************)
(* For all rules, targets and prices, however stale the caller's beliefs   *)
(* are: orders are well-formed and numbered without repetition, and trade  *)
(* towards the target; callers who know what is held leave nothing that    *)
(* could be traded and repeat no order.                                    *)
(***************************************************************************)
EXTENDS Executor, SequenceTheorems, TLAPS

\* Rounding to a step keeps the sign, never grows and loses less than a step.
LEMMA RoundsTowardsZero ==
  ASSUME NEW rules \in RulesType, NEW qty \in Int
  PROVE  LET moved == NormalizeQty(rules, qty)
         IN  /\ moved \in Int
             /\ moved = 0 \/ Signum(moved) = Signum(qty)
             /\ Abs(moved) <= Abs(qty)
             /\ IF rules.step_size > 0 THEN Abs(qty - moved) < rules.step_size
                                       ELSE moved = qty
<1> DEFINE step == rules.step_size
           moved == NormalizeQty(rules, qty)
<1>1. step \in Int
  BY DEF RulesType
<1>2. CASE step <= 0
  <2>1. moved = qty
    BY <1>2 DEF NormalizeQty
  <2> HIDE DEF moved
  <2>2. Abs(qty) \in Int /\ ~(step > 0)
    BY <1>1, <1>2 DEF Abs
  <2>. QED BY <2>1, <2>2 DEF moved
<1>3. CASE step > 0
  <2> DEFINE a == Abs(qty)
             steps == a \div step
             r == a % step
  <2>1. a \in Nat /\ a = IF qty < 0 THEN -qty ELSE qty
    BY DEF Abs
  <2> HIDE DEF a
  <2>2. steps \in Nat /\ a = step * steps + r /\ 0 <= r /\ r < step /\ r \in Int
    BY <1>1, <1>3, <2>1
  <2> HIDE DEF r
  <2>3. steps * step = step * steps
    BY <1>1, <2>2
  <2>4. moved = (IF qty < 0 THEN -1 ELSE 1) * (steps * step)
    BY <1>1, <1>3 DEF NormalizeQty, a
  <2>5. steps * step \in Int /\ steps * step = a - r /\ steps * step >= 0
    BY <1>1, <1>3, <2>1, <2>2, <2>3
  <2> HIDE DEF steps
  <2>6. moved = IF qty < 0 THEN -(a - r) ELSE a - r
    BY <2>4, <2>5
  <2> HIDE DEF moved
  <2>7. moved \in Int /\ (moved = 0 \/ Signum(moved) = Signum(qty))
    BY <2>1, <2>2, <2>5, <2>6 DEF Signum
  <2>8. Abs(moved) <= Abs(qty) /\ Abs(qty - moved) < step
    BY <2>1, <2>2, <2>5, <2>6 DEF Abs
  <2>. QED BY <1>3, <2>7, <2>8 DEF moved
<1>. QED BY <1>1, <1>2, <1>3

LEMMA RulesAreRules ==
  ASSUME TypeOK, NEW s \in Symbols
  PROVE  RulesFor(s) \in RulesType
BY DEF TypeOK, RulesFor, UnwrapOr, Get, IsSome, Some, None

Requests ==
  [symbol : Symbols, target_qty : Int, current_qty : Int, reference_price : Nat]

\* What a caller believes is a quantity.
LEMMA BeliefsAreInts ==
  ASSUME TypeOK, NEW s \in Symbols, NEW held \in BelievedQtys(s)
  PROVE  held \in Int
<1>1. PICK n \in 1..Len(holdings) : held = holdings[n][s]
  BY DEF BelievedQtys
<1>2. holdings[n] \in [Symbols -> Int]
  BY ElementOfSeq DEF TypeOK
<1>. QED BY <1>1, <1>2

\* The order made of a request.
LEMMA OrderShape ==
  ASSUME TypeOK, NEW request \in Requests, Wanted(request)
  PROVE  LET order == NewOrder(request)
         IN  /\ order \in Orders
             /\ order.symbol = request.symbol
             /\ order.client_order_id = order_seq + 1
             /\ SignedQty(order) = OrderQty(request)
             /\ OrderQty(request) \in Int /\ OrderQty(request) # 0
<1> DEFINE qty == OrderQty(request)
           diff == request.target_qty - request.current_qty
<1>1. diff \in Int /\ RulesFor(request.symbol) \in RulesType
  BY RulesAreRules DEF Requests
<1>2. qty \in Int
  BY <1>1, RoundsTowardsZero DEF OrderQty
<1>3. qty # 0
  BY DEF Wanted
<1>4. Abs(qty) \in Nat \ {0} /\ qty = IF qty > 0 THEN Abs(qty) ELSE -Abs(qty)
  BY <1>2, <1>3 DEF Abs
<1> HIDE DEF qty
<1>5. order_seq + 1 \in Nat /\ None \in Option(Nat)
  BY DEF TypeOK, None, Option
<1>6. NewOrder(request) =
        [symbol |-> request.symbol, side |-> IF qty > 0 THEN "Buy" ELSE "Sell",
         price |-> request.reference_price, qty |-> Abs(qty),
         client_order_id |-> order_seq + 1, exchange_order_id |-> None]
  BY DEF NewOrder, qty
<1>. QED BY <1>2, <1>3, <1>4, <1>5, <1>6 DEF Orders, Requests, SignedQty, qty

\* What one call does: nothing but record itself, or draw an order id and
\* place the order or not.
LEMMA CallEffect ==
  ASSUME TypeOK, NEW request \in Requests, ExecuteTarget(request)
  PROVE  /\ UNCHANGED <<default_rules, symbol_rules>>
         /\ \/ /\ UNCHANGED <<submitted_orders, holdings>>
               /\ order_seq' \in {order_seq, order_seq + 1}
               /\ last'[1].outcome # "filled"
            \/ \E order \in Orders :
                 /\ submitted_orders' = Append(submitted_orders, order)
                 /\ holdings' = Append(holdings,
                      [Held EXCEPT ![request.symbol] = @ + OrderQty(request)])
                 /\ order_seq' = order_seq + 1
                 /\ order.client_order_id = order_seq + 1
                 /\ order.symbol = request.symbol
                 /\ SignedQty(order) = OrderQty(request)
                 /\ OrderQty(request) \in Int /\ OrderQty(request) # 0
                 /\ last'[1] = [request |-> request, rules |-> RulesFor(request.symbol),
                                outcome |-> "filled"]
<1>1. CASE Skip(request)
  BY <1>1 DEF Skip, Call, Some
<1>2. CASE Submit(request)
  <2>1. CASE Refuse(NewOrder(request)) /\ last' = Call(request, "refused")
    BY <1>2, <2>1 DEF Submit, Refuse, Call, Some
  <2>2. CASE Fill(NewOrder(request)) /\ last' = Call(request, "filled")
    <3> DEFINE new == NewOrder(request)
               id == Some(Len(submitted_orders) + 1)
               order == [new EXCEPT !.exchange_order_id = id]
    <3>1. /\ new \in Orders
          /\ new.symbol = request.symbol
          /\ new.client_order_id = order_seq + 1
          /\ SignedQty(new) = OrderQty(request)
          /\ OrderQty(request) \in Int /\ OrderQty(request) # 0
      BY <1>2, OrderShape DEF Submit
    <3>2. id \in Option(Nat)
      <4>1. Len(submitted_orders) + 1 \in Nat
        BY DEF TypeOK
      <4>. QED BY <4>1 DEF Some, Option
    <3>3. /\ submitted_orders' = Append(submitted_orders, order)
          /\ holdings' = Append(holdings, [Held EXCEPT ![new.symbol] = @ + SignedQty(new)])
      BY <2>2 DEF Fill
    <3>4. last'[1] = [request |-> request, rules |-> RulesFor(request.symbol),
                      outcome |-> "filled"]
      BY <2>2 DEF Call, Some
    <3> HIDE DEF new, id
    <3>5. /\ order \in Orders
          /\ order.client_order_id = new.client_order_id
          /\ order.symbol = new.symbol
          /\ SignedQty(order) = SignedQty(new)
      BY <3>1, <3>2 DEF Orders, SignedQty
    <3> HIDE DEF order
    <3>6. order_seq' = order_seq + 1 /\ UNCHANGED <<default_rules, symbol_rules>>
      BY <1>2 DEF Submit
    <3>. QED BY <3>1, <3>3, <3>4, <3>5, <3>6
  <2>. QED BY <1>2, <2>1, <2>2 DEF Submit
<1>. QED BY <1>1, <1>2 DEF ExecuteTarget

\* The callers' requests are well-formed.
LEMMA StepKinds ==
  ASSUME TypeOK, Next
  PROVE  \/ \E request \in Requests : ExecuteTarget(request)
         \/ \E s \in Symbols, r \in Rules : SetSymbolRules(s, r)
<1>1. ASSUME NEW s \in Symbols, NEW t \in Targets, NEW p \in Prices,
             NEW held \in BelievedQtys(s),
             ExecuteTarget([symbol |-> s, target_qty |-> t, current_qty |-> held,
                            reference_price |-> p])
      PROVE  \E request \in Requests : ExecuteTarget(request)
  <2>1. [symbol |-> s, target_qty |-> t, current_qty |-> held, reference_price |-> p]
          \in Requests
    BY BeliefsAreInts, TargetsAssumption, PricesAssumption DEF Requests
  <2>. QED BY <1>1, <2>1
<1>. QED BY <1>1 DEF Next

LEMMA IdsAreNats ==
  ASSUME TypeOK, NEW n \in 1..Len(submitted_orders)
  PROVE  submitted_orders[n].client_order_id \in Nat
<1>1. submitted_orders[n] \in Orders
  BY ElementOfSeq DEF TypeOK
<1>. QED BY <1>1 DEF Orders

\* The inductive invariant.
EInv == TypeOK /\ ClientIdsIncrease /\ ApproachesTarget

LEMMA InitHolds == Init => EInv
<1> SUFFICES ASSUME Init PROVE EInv
  OBVIOUS
<1>1. Permissive \in RulesType
  BY DEF Permissive, RulesType
<1>2. holdings \in Seq([Symbols -> Int]) /\ Len(holdings) = 1
  BY DEF Init
<1>3. TypeOK
  BY <1>1, <1>2, RulesAssumption DEF Init, TypeOK, RulesType, EmptyMap
<1>. QED BY <1>3 DEF Init, EInv, ClientIdsIncrease, ApproachesTarget, IsSome

LEMMA RequestStep ==
  ASSUME EInv, NEW request \in Requests, ExecuteTarget(request)
  PROVE  EInv'
<1> USE DEF EInv
<1>1. CASE /\ UNCHANGED <<submitted_orders, holdings>>
           /\ order_seq' \in {order_seq, order_seq + 1}
           /\ last'[1].outcome # "filled"
  <2>1. UNCHANGED <<default_rules, symbol_rules>>
    BY CallEffect
  <2>2. order_seq \in Nat /\ order_seq' \in Nat /\ order_seq' >= order_seq
    BY <1>1 DEF TypeOK
  <2>3. TypeOK'
    BY <1>1, <2>1, <2>2 DEF TypeOK
  <2>4. \A n \in 1..Len(submitted_orders) : submitted_orders[n].client_order_id \in Nat
    BY IdsAreNats
  <2>5. ClientIdsIncrease'
    BY <1>1, <2>2, <2>4 DEF ClientIdsIncrease
  <2>6. ApproachesTarget'
    BY <1>1 DEF ApproachesTarget
  <2>. QED BY <2>3, <2>5, <2>6
<1>2. ASSUME NEW order \in Orders,
             submitted_orders' = Append(submitted_orders, order),
             holdings' = Append(holdings,
               [Held EXCEPT ![request.symbol] = @ + OrderQty(request)]),
             order_seq' = order_seq + 1,
             order.client_order_id = order_seq + 1,
             order.symbol = request.symbol,
             SignedQty(order) = OrderQty(request),
             OrderQty(request) \in Int, OrderQty(request) # 0,
             last'[1] = [request |-> request, rules |-> RulesFor(request.symbol),
                         outcome |-> "filled"]
      PROVE  EInv'
  <2> DEFINE n == Len(submitted_orders)
             held == [Held EXCEPT ![request.symbol] = @ + OrderQty(request)]
  <2>1. /\ submitted_orders' \in Seq(Orders)
        /\ Len(submitted_orders') = n + 1
        /\ \A m \in 1..n : submitted_orders'[m] = submitted_orders[m]
        /\ submitted_orders'[n + 1] = order
        /\ n \in Nat
    BY <1>2, AppendProperties, LenProperties DEF TypeOK
  <2>2. held \in [Symbols -> Int]
    <3>1. Len(holdings) \in 1..Len(holdings)
      BY <2>1 DEF TypeOK
    <3>2. Held \in [Symbols -> Int]
      BY <3>1, ElementOfSeq DEF TypeOK, Held
    <3>. QED BY <1>2, <3>2 DEF Requests
  <2>3. holdings' \in Seq([Symbols -> Int]) /\ Len(holdings') = n + 2
    <3> HIDE DEF held
    <3>1. holdings' = Append(holdings, held)
      BY <1>2 DEF held
    <3>2. holdings' \in Seq([Symbols -> Int]) /\ Len(holdings') = Len(holdings) + 1
      BY <2>2, <3>1, AppendProperties DEF TypeOK
    <3>. QED BY <2>1, <3>2 DEF TypeOK
  <2> HIDE DEF n, held
  <2>4. TypeOK'
    <3>1. Len(holdings') = Len(submitted_orders') + 1
      BY <2>1, <2>3
    <3>2. UNCHANGED <<default_rules, symbol_rules>>
      BY CallEffect
    <3>3. order_seq' \in Nat
      BY <1>2 DEF TypeOK
    <3>. QED BY <2>1, <2>3, <3>1, <3>2, <3>3 DEF TypeOK
  <2>5. /\ order_seq \in Nat
        /\ \A m \in 1..n : /\ submitted_orders[m].client_order_id \in Nat
                           /\ submitted_orders[m].client_order_id <= order_seq
    BY IdsAreNats DEF TypeOK, ClientIdsIncrease, n
  <2>6. ClientIdsIncrease'
    <3>1. \A m \in 1..n + 1 : submitted_orders'[m].client_order_id <= order_seq'
      BY <1>2, <2>1, <2>5
    <3>2. ASSUME NEW k \in 1..n + 1, NEW m \in 1..n + 1, k < m
          PROVE  submitted_orders'[k].client_order_id < submitted_orders'[m].client_order_id
      <4>1. CASE m = n + 1
        BY <1>2, <2>1, <2>5, <3>2, <4>1
      <4>2. CASE m \in 1..n
        <5>1. k \in 1..n
          BY <2>1, <3>2, <4>2
        <5>. QED BY <2>1, <3>2, <4>2, <5>1 DEF ClientIdsIncrease, n
      <4>. QED BY <2>1, <4>1, <4>2
    <3>. QED BY <2>1, <3>1, <3>2 DEF ClientIdsIncrease
  <2>7. ApproachesTarget'
    <3> DEFINE diff == request.target_qty - request.current_qty
               rules == RulesFor(request.symbol)
    <3>1. diff \in Int /\ rules \in RulesType
      BY RulesAreRules DEF Requests
    <3>2. OrderQty(request) = NormalizeQty(rules, diff)
      BY DEF OrderQty
    <3>3. /\ Signum(OrderQty(request)) = Signum(diff)
          /\ Abs(OrderQty(request)) <= Abs(diff)
          /\ IF rules.step_size > 0 THEN Abs(diff - OrderQty(request)) < rules.step_size
                                    ELSE OrderQty(request) = diff
      BY <1>2, <3>1, <3>2, RoundsTowardsZero
    <3>4. submitted_orders'[Len(submitted_orders')] = order /\ submitted_orders' # <<>>
      <4>1. Len(submitted_orders') # 0
        BY <2>1
      <4>. QED BY <2>1, <4>1
    <3> HIDE DEF rules
    <3>. QED BY <1>2, <3>3, <3>4 DEF ApproachesTarget, rules
  <2>. QED BY <2>4, <2>6, <2>7
<1>. QED BY <1>1, <1>2, CallEffect

LEMMA StepHolds ==
  ASSUME EInv, [Next]_vars
  PROVE  EInv'
<1>1. ASSUME NEW s \in Symbols, NEW r \in Rules, SetSymbolRules(s, r)
      PROVE  EInv'
  <2>1. TypeOK'
    BY <1>1, RulesAssumption DEF EInv, TypeOK, SetSymbolRules, Insert, RulesType
  <2>. QED BY <1>1, <2>1 DEF EInv, SetSymbolRules, ClientIdsIncrease, ApproachesTarget
<1>2. CASE UNCHANGED vars
  BY <1>2 DEF vars, EInv, TypeOK, ClientIdsIncrease, ApproachesTarget
<1>. QED BY <1>1, <1>2, StepKinds, RequestStep DEF EInv

THEOREM Invariance == Spec => []EInv
<1>. QED BY InitHolds, StepHolds, PTL DEF Spec

\* Every order is well-formed, its quantity positive.
THEOREM TypeCorrectness == Spec => []TypeOK
<1>1. EInv => TypeOK
  BY DEF EInv
<1>. QED BY <1>1, Invariance, PTL

\* No client order id is used twice, also when the adapter refuses orders.
THEOREM ClientIdCorrectness == Spec => []ClientIdsIncrease
<1>1. EInv => ClientIdsIncrease
  BY DEF EInv
<1>. QED BY <1>1, Invariance, PTL

\* Every order trades towards its target and stops less than a step short.
THEOREM ApproachCorrectness == Spec => []ApproachesTarget
<1>1. EInv => ApproachesTarget
  BY DEF EInv
<1>. QED BY <1>1, Invariance, PTL
-----------------------------------------------------------------------------
\* What an order leaves between the account and its target: what its caller
\* did not know of, and less than a step.
LEMMA StepMisses ==
  ASSUME TypeOK, [Next]_vars, NEW s \in Symbols,
         submitted_orders' # submitted_orders, last'[1].request.symbol = s
  PROVE  LET request == last'[1].request
             unknown == Held[s] - request.current_qty
             missed  == Held'[s] - request.target_qty
             step    == last'[1].rules.step_size
         IN  IF step > 0 THEN Abs(missed - unknown) < step ELSE missed = unknown
<1>1. PICK request \in Requests : ExecuteTarget(request)
  BY StepKinds DEF SetSymbolRules, vars
<1> DEFINE diff == request.target_qty - request.current_qty
           rules == RulesFor(request.symbol)
           moved == OrderQty(request)
           held == [Held EXCEPT ![request.symbol] = @ + moved]
<1>2. /\ holdings' = Append(holdings, held)
      /\ moved \in Int
      /\ last'[1].request = request /\ last'[1].rules = rules
  <2>1. \E order \in Orders :
          /\ holdings' = Append(holdings,
               [Held EXCEPT ![request.symbol] = @ + OrderQty(request)])
          /\ OrderQty(request) \in Int
          /\ last'[1] = [request |-> request, rules |-> RulesFor(request.symbol),
                         outcome |-> "filled"]
    BY <1>1, CallEffect
  <2>. QED BY <2>1
<1>3. /\ diff \in Int /\ rules \in RulesType /\ rules.step_size \in Int
      /\ request.target_qty \in Int /\ request.current_qty \in Int
  BY RulesAreRules DEF Requests, RulesType
<1>4. IF rules.step_size > 0 THEN Abs(diff - moved) < rules.step_size ELSE moved = diff
  BY <1>3, RoundsTowardsZero DEF OrderQty
<1>5. Held \in [Symbols -> Int] /\ s = request.symbol
  <2>1. Len(holdings) \in 1..Len(holdings)
    BY DEF TypeOK
  <2>. QED BY <1>2, <2>1, ElementOfSeq DEF TypeOK, Held
<1>6. held[s] = Held[s] + moved /\ Held[s] \in Int
  BY <1>5
<1> HIDE DEF moved, rules, held
<1>7. Held' = held
  BY <1>2, AppendProperties DEF TypeOK, Held
<1> DEFINE unknown == Held[s] - request.current_qty
           missed == Held'[s] - request.target_qty
<1>8. missed - unknown = -(diff - moved)
  BY <1>2, <1>3, <1>6, <1>7
<1>9. missed - unknown \in Int /\ missed \in Int /\ unknown \in Int /\ diff - moved \in Int
  <2>1. Held'[s] \in Int
    <3>1. Held[s] + moved \in Int
      BY <1>2, <1>6
    <3>. QED BY <1>6, <1>7, <3>1
  <2>2. diff - moved \in Int
    BY <1>2, <1>3
  <2>. QED BY <1>3, <1>6, <2>1, <2>2
<1> HIDE DEF missed, unknown, diff
<1>10. /\ Abs(missed - unknown) = Abs(diff - moved)
       /\ moved = diff => missed = unknown
  BY <1>2, <1>8, <1>9, <1>3 DEF Abs
<1> USE DEF missed, unknown, diff
<1>. QED BY <1>2, <1>4, <1>10

LEMMA SmallerIsWorthLess ==
  ASSUME NEW a \in Int, NEW b \in Int, a <= b, NEW price \in Nat
  PROVE  a * price <= b * price
<1>1. PICK c \in Nat : b = a + c
  <2>1. b - a \in Nat /\ b = a + (b - a)
    OBVIOUS
  <2>. QED BY <2>1
<1>2. c * price >= 0
  BY <1>1
<1>3. b * price = a * price + c * price /\ c * price \in Int /\ a * price \in Int
  BY <1>1
<1>. QED BY <1>2, <1>3

\* What is left of a difference once it has been rounded: less than a step
\* more than what the rounding kept.
LEMMA RestOfRounding ==
  ASSUME NEW rules \in RulesType, NEW diff \in Int, NEW price \in Nat,
         LET moved == NormalizeQty(rules, diff)
         IN  moved = 0 \/ ~IsTradeable(rules, moved, price)
  PROVE  LET whole == IF rules.step_size > 0 THEN Abs(diff) - rules.step_size ELSE Abs(diff)
         IN  \/ Abs(diff) = 0
             \/ whole < 0
             \/ whole < rules.min_qty
             \/ whole * price < rules.min_notional
<1> DEFINE moved == NormalizeQty(rules, diff)
           step == rules.step_size
           whole == IF step > 0 THEN Abs(diff) - step ELSE Abs(diff)
<1>1. /\ moved \in Int /\ (moved = 0 \/ Signum(moved) = Signum(diff))
      /\ Abs(moved) <= Abs(diff)
      /\ IF step > 0 THEN Abs(diff - moved) < step ELSE moved = diff
  BY RoundsTowardsZero
<1>2. step \in Int /\ rules.min_qty \in Int /\ rules.min_notional \in Int
  BY DEF RulesType
<1>3. moved = 0 \/ Abs(moved) < rules.min_qty \/ Abs(moved) * price < rules.min_notional
  <2>1. moved = 0 \/ ~(Abs(moved) >= rules.min_qty /\ Abs(moved) * price >= rules.min_notional)
    BY DEF IsTradeable
  <2> HIDE DEF moved
  <2>2. Abs(moved) \in Int
    BY <1>1 DEF Abs
  <2>3. Abs(moved) * price \in Int
    BY <2>2
  <2>. QED BY <1>2, <2>1, <2>2, <2>3
<1> HIDE DEF moved, step
<1>4. whole \in Int /\ Abs(moved) \in Int /\ Abs(diff) \in Int
  BY <1>1, <1>2 DEF Abs, step
<1>5. whole <= Abs(moved)
  BY <1>1, <1>2 DEF Abs, Signum, step
<1>6. moved = 0 => whole < 0 \/ Abs(diff) = 0
  BY <1>1, <1>2 DEF Abs, step
<1>7. Abs(moved) < rules.min_qty => whole < rules.min_qty
  BY <1>2, <1>4, <1>5
<1>8. Abs(moved) * price < rules.min_notional => whole * price < rules.min_notional
  <2> HIDE DEF whole
  <2>1. whole * price <= Abs(moved) * price
    BY <1>4, <1>5, SmallerIsWorthLess
  <2>2. whole * price \in Int /\ Abs(moved) * price \in Int
    BY <1>4
  <2>. QED BY <1>2, <2>1, <2>2
<1>. QED BY <1>3, <1>6, <1>7, <1>8 DEF step

\* Both kinds of calls leave a rest that is too small.
LEMMA StepRests ==
  ASSUME TypeOK, [Next]_vars, NEW s \in Symbols,
         last' # last, last'[1].request.symbol = s,
         last'[1].request.current_qty = Held[s], last'[1].outcome # "refused"
  PROVE  LET rules == last'[1].rules
             rest  == Abs(last'[1].request.target_qty - Held'[s])
             whole == IF rules.step_size > 0 THEN rest - rules.step_size ELSE rest
         IN  \/ rest = 0
             \/ whole < 0
             \/ whole < rules.min_qty
             \/ whole * last'[1].request.reference_price < rules.min_notional
<1>1. PICK request \in Requests : ExecuteTarget(request)
  BY StepKinds DEF SetSymbolRules, vars
<1> DEFINE diff == request.target_qty - request.current_qty
           rules == RulesFor(request.symbol)
           moved == OrderQty(request)
<1>2. /\ diff \in Int /\ rules \in RulesType /\ request.reference_price \in Nat
      /\ request.target_qty \in Int /\ request.current_qty \in Int
  BY RulesAreRules DEF Requests
<1>3. last'[1].request = request /\ last'[1].rules = rules
  BY <1>1 DEF ExecuteTarget, Skip, Submit, Call, Some
<1>4. CASE Skip(request)
  <2>1. Held' = Held /\ ~Wanted(request)
    BY <1>4 DEF Skip, Held
  <2>2. moved = NormalizeQty(rules, diff)
    BY DEF OrderQty
  <2>3. moved = 0 \/ ~IsTradeable(rules, moved, request.reference_price)
    BY <2>1 DEF Wanted
  <2>4. request.target_qty - Held'[s] = diff
    BY <1>3, <2>1
  <2> HIDE DEF diff, rules, moved
  <2>. QED BY <1>2, <1>3, <2>2, <2>3, <2>4, RestOfRounding
<1>5. CASE Submit(request)
  <2>1. last' = Call(request, "filled") /\ Wanted(request)
    BY <1>3, <1>5 DEF Submit, Call, Some
  <2>2. submitted_orders' # submitted_orders
    <3>1. Fill(NewOrder(request))
      BY <1>3, <1>5 DEF Submit, Call, Some
    <3>2. submitted_orders \in Seq(Orders)
      BY DEF TypeOK
    <3>. QED BY <3>1, <3>2 DEF Fill
  <2>3. LET missed == Held'[s] - request.target_qty
            unknown == Held[s] - request.current_qty
        IN  IF rules.step_size > 0 THEN Abs(missed - unknown) < rules.step_size
                                   ELSE missed = unknown
    BY <1>3, <2>2, StepMisses
  <2>4. Held'[s] \in Int /\ Held[s] = request.current_qty
    <3>1. PICK order \in Orders :
            /\ holdings' = Append(holdings, [Held EXCEPT ![request.symbol] = @ + moved])
            /\ moved \in Int
      BY <1>1, <2>2, CallEffect
    <3>2. Held \in [Symbols -> Int] /\ s = request.symbol
      <4>1. Len(holdings) \in 1..Len(holdings)
        BY DEF TypeOK
      <4>. QED BY <1>3, <4>1, ElementOfSeq DEF TypeOK, Held
    <3> HIDE DEF moved
    <3>3. [Held EXCEPT ![request.symbol] = @ + moved][s] \in Int
      BY <3>1, <3>2
    <3>4. Held' = [Held EXCEPT ![request.symbol] = @ + moved]
      BY <3>1, AppendProperties DEF TypeOK, Held
    <3>. QED BY <1>3, <3>3, <3>4
  <2>5. rules.step_size \in Int
    BY <1>2 DEF RulesType
  <2> DEFINE now == Held'[s]
             target == request.target_qty
             step == rules.step_size
  <2>6. IF step > 0 THEN Abs((now - target) - 0) < step ELSE now - target = 0
    <3>1. Held[s] - request.current_qty = 0
      BY <1>2, <2>4
    <3>. QED BY <2>3, <3>1
  <2>7. now \in Int /\ target \in Int /\ step \in Int
    BY <1>2, <2>4, <2>5
  <2> HIDE DEF now, target, step
  <2>8. IF step > 0 THEN Abs(target - now) - step < 0 ELSE Abs(target - now) = 0
    BY <2>6, <2>7 DEF Abs
  <2> HIDE DEF rules
  <2>. QED BY <1>3, <2>8 DEF now, target, step
<1>. QED BY <1>1, <1>4, <1>5 DEF ExecuteTarget

\* A call by a caller who knows what is held leaves nothing tradeable, for all
\* rules: the rest less a step is below the minimum quantity or notional.
THEOREM RestCorrectness == Spec => RestIsUntradeable
<1>1. TypeOK /\ [Next]_vars =>
        [ \A s \in Symbols :
            /\ last' # last
            /\ last'[1].request.symbol = s
            /\ last'[1].request.current_qty = Held[s]
            /\ last'[1].outcome # "refused"
            => LET rules == last'[1].rules
                   rest  == Abs(last'[1].request.target_qty - Held'[s])
                   whole == IF rules.step_size > 0 THEN rest - rules.step_size ELSE rest
               IN  \/ rest = 0
                   \/ whole < 0
                   \/ whole < rules.min_qty
                   \/ whole * last'[1].request.reference_price < rules.min_notional ]_vars
  BY StepRests
<1>. QED BY <1>1, TypeCorrectness, PTL DEF Spec, RestIsUntradeable
-----------------------------------------------------------------------------
\* What an order brought about; it is kept until the next call.
LastFill ==
  IsSome(last) /\ last[1].outcome = "filled" =>
    LET request == last[1].request
        n == Len(holdings)
    IN  /\ request \in Requests
        /\ last[1].rules \in RulesType
        /\ n - 1 \in 1..n
        /\ holdings[n][request.symbol] =
             holdings[n - 1][request.symbol]
               + NormalizeQty(last[1].rules, request.target_qty - request.current_qty)

LEMMA InitFill == Init => LastFill
BY DEF Init, LastFill, IsSome

LEMMA FillStep ==
  ASSUME TypeOK, LastFill, [Next]_vars
  PROVE  LastFill'
<1>1. ASSUME NEW request \in Requests, ExecuteTarget(request) PROVE LastFill'
  <2> DEFINE rules == RulesFor(request.symbol)
             moved == OrderQty(request)
             held == [Held EXCEPT ![request.symbol] = @ + moved]
  <2>1. CASE last'[1].outcome # "filled"
    BY <2>1 DEF LastFill
  <2>2. CASE last'[1].outcome = "filled"
    <3>1. /\ holdings' = Append(holdings, held) /\ moved \in Int
          /\ last'[1].request = request /\ last'[1].rules = rules
      <4>1. \E order \in Orders :
              /\ holdings' = Append(holdings,
                   [Held EXCEPT ![request.symbol] = @ + OrderQty(request)])
              /\ OrderQty(request) \in Int
              /\ last'[1] = [request |-> request, rules |-> RulesFor(request.symbol),
                             outcome |-> "filled"]
        BY <1>1, <2>2, CallEffect
      <4>. QED BY <4>1
    <3>2. rules \in RulesType
      BY RulesAreRules DEF Requests
    <3>3. moved = NormalizeQty(rules, request.target_qty - request.current_qty)
      BY DEF OrderQty
    <3>4. Len(holdings) \in Nat \ {0} /\ Held \in [Symbols -> Int] /\ request.symbol \in Symbols
      <4>1. Len(holdings) \in 1..Len(holdings) /\ Len(holdings) \in Nat \ {0}
        BY DEF TypeOK
      <4>. QED BY <4>1, ElementOfSeq DEF TypeOK, Held, Requests
    <3>5. held[request.symbol] = Held[request.symbol] + moved
      BY <3>4
    <3> HIDE DEF held, moved, rules
    <3>6. /\ Len(holdings') = Len(holdings) + 1
          /\ holdings'[Len(holdings)] = Held
          /\ holdings'[Len(holdings) + 1] = held
      <4>1. held \in [Symbols -> Int]
        BY <3>1, <3>4 DEF held
      <4>2. holdings \in Seq([Symbols -> Int])
        BY DEF TypeOK
      <4>. QED BY <3>1, <3>4, <4>1, <4>2, AppendProperties DEF Held
    <3>7. Len(holdings') - 1 = Len(holdings) /\ Len(holdings) \in 1..Len(holdings')
      BY <3>4, <3>6
    <3>. QED BY <3>1, <3>2, <3>3, <3>5, <3>6, <3>7 DEF LastFill
  <2>. QED BY <2>1, <2>2
<1>2. ASSUME NEW s \in Symbols, NEW r \in Rules, SetSymbolRules(s, r) PROVE LastFill'
  BY <1>2 DEF SetSymbolRules, LastFill
<1>3. CASE UNCHANGED vars
  BY <1>3 DEF vars, LastFill
<1>. QED BY <1>1, <1>2, <1>3, StepKinds

\* Less than a step rounds to nothing.
LEMMA SmallRoundsToZero ==
  ASSUME NEW rules \in RulesType, NEW qty \in Int,
         IF rules.step_size > 0 THEN Abs(qty) < rules.step_size ELSE qty = 0
  PROVE  NormalizeQty(rules, qty) = 0
<1> DEFINE step == rules.step_size
           a == Abs(qty)
<1>1. step \in Int /\ a \in Nat
  BY DEF RulesType, Abs
<1>2. CASE step <= 0
  BY <1>1, <1>2 DEF NormalizeQty
<1>3. CASE step > 0
  <2> HIDE DEF a
  <2>1. a < step
    BY <1>1, <1>3 DEF a
  <2>2. a \div step = 0
    BY <1>1, <1>3, <2>1
  <2>3. NormalizeQty(rules, qty) = (IF qty < 0 THEN -1 ELSE 1) * ((a \div step) * step)
    BY <1>1, <1>3 DEF NormalizeQty, a
  <2>. QED BY <1>1, <2>2, <2>3
<1>. QED BY <1>1, <1>2, <1>3

LEMMA StepRepeatsNone ==
  ASSUME TypeOK, LastFill, [Next]_vars, NEW s \in Symbols,
         IsSome(last), last[1].outcome = "filled", last[1].request.symbol = s,
         last'[1].request.symbol = s,
         last'[1].request.target_qty = last[1].request.target_qty,
         last[1].request.current_qty = holdings[Len(holdings) - 1][s],
         last'[1].request.current_qty = Held[s],
         last'[1].rules = last[1].rules
  PROVE  submitted_orders' = submitted_orders
<1>1. SUFFICES ASSUME NEW request \in Requests, ExecuteTarget(request)
               PROVE  submitted_orders' = submitted_orders
  BY StepKinds DEF SetSymbolRules, vars
<1> DEFINE old == last[1].request
           rules == last[1].rules
           diff == old.target_qty - old.current_qty
           moved == NormalizeQty(rules, diff)
<1>2. last'[1].request = request /\ last'[1].rules = RulesFor(request.symbol)
  BY <1>1 DEF ExecuteTarget, Skip, Submit, Call, Some
<1>3. old \in Requests /\ rules \in RulesType /\ Held[s] = old.current_qty + moved
  BY DEF LastFill, Held
<1>4. diff \in Int /\ old.target_qty \in Int /\ old.current_qty \in Int
  BY <1>3 DEF Requests
<1> HIDE DEF diff
<1>5. moved \in Int /\ IF rules.step_size > 0 THEN Abs(diff - moved) < rules.step_size
                                              ELSE moved = diff
  BY <1>3, <1>4, RoundsTowardsZero
<1>6. request.target_qty - request.current_qty = diff - moved /\ diff - moved \in Int
  <2>1. request.target_qty = old.target_qty /\ request.current_qty = old.current_qty + moved
    BY <1>2, <1>3
  <2> HIDE DEF moved, old
  <2>2. diff = old.target_qty - old.current_qty
    BY DEF diff, old
  <2>. QED BY <1>4, <1>5, <2>1, <2>2
<1> HIDE DEF moved
<1>7. IF rules.step_size > 0 THEN Abs(diff - moved) < rules.step_size ELSE diff - moved = 0
  BY <1>4, <1>5
<1>8. OrderQty(request) = 0
  BY <1>2, <1>3, <1>6, <1>7, SmallRoundsToZero DEF OrderQty
<1>. QED BY <1>1, <1>8 DEF ExecuteTarget, Skip, Submit, Wanted

\* A target asked for again by callers who know what is held makes no second
\* order, for all rules.
THEOREM RepeatCorrectness == Spec => NoRepeatOrder
<1>1. TypeOK /\ LastFill /\ [Next]_vars =>
        [ \A s \in Symbols :
            IsSome(last) /\ last[1].outcome = "filled" /\ last[1].request.symbol = s
            /\ last'[1].request.symbol = s
            /\ last'[1].request.target_qty = last[1].request.target_qty
            /\ last[1].request.current_qty = holdings[Len(holdings) - 1][s]
            /\ last'[1].request.current_qty = Held[s]
            /\ last'[1].rules = last[1].rules
            => submitted_orders' = submitted_orders ]_vars
  BY StepRepeatsNone
<1>2. TypeOK /\ LastFill /\ [Next]_vars => LastFill'
  BY FillStep
<1>. QED BY <1>1, <1>2, InitFill, TypeCorrectness, PTL DEF Spec, NoRepeatOrder
=============================================================================
