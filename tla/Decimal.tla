------------------------------ MODULE Decimal ------------------------------
(***************************************************************************)
(* The arithmetic of rust_decimal::Decimal as the accounting code uses it: *)
(* signed numbers with +, -, *, / and comparison.  A Decimal is an exact   *)
(* fraction <<numerator, denominator>> in lowest terms with a positive     *)
(* denominator, so that equal numbers are equal values.  The 96-bit        *)
(* mantissa of the library, and the rounding of a quotient to 28 digits,   *)
(* are abstracted away.                                                    *)
(*                                                                         *)
(* The operations are functions, which TLC evaluates argument first, so    *)
(* that a long expression costs no more than its length.                   *)
(***************************************************************************)
EXTENDS Integers, Functions

Abs(n) == IF n < 0 THEN -n ELSE n

\* Decimal::signum, -1, 0 or 1.
Signum(n) == IF n = 0 THEN 0 ELSE IF n < 0 THEN -1 ELSE 1

Gcd[p \in Nat \X Nat] == IF p[2] = 0 THEN p[1] ELSE Gcd[<<p[2], p[1] % p[2]>>]

Reduce(n, d, g) == <<(Signum(d) * n) \div g, Abs(d) \div g>>

Pairs == Int \X Int

FractionOf == [p \in Pairs |-> Reduce(p[1], p[2], Gcd[<<Abs(p[1]), Abs(p[2])>>])]

Fraction(n, d) == FractionOf[<<n, d>>]

Dec(n) == <<n, 1>>

Zero == Dec(0)

Plus ==
  [p \in Pairs \X Pairs |->
     LET a == p[1]  b == p[2] IN Fraction(a[1] * b[2] + b[1] * a[2], a[2] * b[2])]
Times ==
  [p \in Pairs \X Pairs |-> LET a == p[1]  b == p[2] IN Fraction(a[1] * b[1], a[2] * b[2])]
Over ==
  [p \in Pairs \X Pairs |-> LET a == p[1]  b == p[2] IN Fraction(a[1] * b[2], a[2] * b[1])]
Negate == [a \in Pairs |-> <<-a[1], a[2]>>]

a ++ b == Plus[<<a, b>>]
a -- b == Plus[<<a, Negate[b]>>]
a ** b == Times[<<a, b>>]
a // b == Over[<<a, b>>]

SumOver(f, S) == FoldFunctionOnSet(++, Zero, f, S)

AtMost(a, b) == a[1] * b[2] <= b[1] * a[2]

IsDecimal(a) ==
  /\ a \in Pairs
  /\ a[2] > 0
  /\ Gcd[<<Abs(a[1]), a[2]>>] = 1
=============================================================================
