--------------------------------- MODULE Ratios ---------------------------------
(***************************************************************************)
(* Fractions in lowest terms, so that equal ones are the same record.  NA  *)
(* is a value the code does not have (NaN, None): an operation on it, and  *)
(* a division by zero, give NA.                                            *)
(***************************************************************************)
EXTENDS Integers, FiniteSets, FiniteSetsExt

CONSTANT NA

Abs(k) == IF k < 0 THEN -k ELSE k

Gcd(a, b) ==
  LET g[p \in Nat \X Nat] == IF p[2] = 0 THEN p[1] ELSE g[<<p[2], p[1] % p[2]>>]
  IN g[<<Abs(a), Abs(b)>>]

Ratio(n, d) ==
  IF d = 0 THEN NA
  ELSE LET g == Gcd(n, d) IN IF d > 0 THEN [n |-> n \div g, d |-> d \div g]
                             ELSE [n |-> (-n) \div g, d |-> (-d) \div g]

Whole(k) == [n |-> k, d |-> 1]
One == Whole(1)
Zero == Whole(0)

Plus(x, y) == IF NA \in {x, y} THEN NA ELSE Ratio(x.n * y.d + y.n * x.d, x.d * y.d)
Times(x, y) == IF NA \in {x, y} THEN NA ELSE Ratio(x.n * y.n, x.d * y.d)
Negated(x) == IF x = NA THEN NA ELSE [n |-> -x.n, d |-> x.d]
Minus(x, y) == Plus(x, Negated(y))
Over(x, y) == IF NA \in {x, y} THEN NA ELSE Ratio(x.n * y.d, x.d * y.n)
Inverted(x) == Over(One, x)

Below(x, y) == x.n * y.d < y.n * x.d
AtMost(x, y) == x.n * y.d <= y.n * x.d

SumOf(f(_), S) == FoldSet(LAMBDA i, x : Plus(f(i), x), Zero, S)

\* A level against an earlier one, both whole numbers or NA.
Relative(to, from) == IF NA \in {to, from} THEN NA ELSE Ratio(to, from)
=================================================================================
