-------------------------------- MODULE Formulae --------------------------------
(***************************************************************************)
(* The formulae that compare two periods: pricelab/engine/bilateral.py,    *)
(* pricelab/engine/elementary.py and the price-only ones of index.py.      *)
(*                                                                         *)
(* Prices, quantities and weights map items to small whole numbers, NA     *)
(* where there is none.  A value is a fraction, NA where the code returns  *)
(* NaN.  Roots are not taken: an index that is a square root is given by   *)
(* its square.  Prices are powers of two, so that a logarithm is a whole   *)
(* number, and a geometric index is given by its logarithm.                *)
(***************************************************************************)
EXTENDS Ratios

CONSTANT Refused    \* the call raises

Sum(f(_), S) == MapThenSumSet(f, S)

Dot(p, q, S) == Sum(LAMBDA i : p[i] * q[i], S)

Log(price) == CASE price = 1 -> 0 [] price = 2 -> 1 [] price = 4 -> 2
Root(product) == CHOOSE r \in 0..product : r * r = product

Known(p) == {i \in DOMAIN p : p[i] # NA}

\* Items priced in both periods, with every quantity the formula needs.
Aligned(p0, pt, quantities) ==
  {i \in Known(p0) \cap Known(pt) : \A q \in quantities : i \in Known(q)}

-----------------------------------------------------------------------------
\* bilateral.py

\* Mutant: aligns on prices alone, an unknown quantity counting as none.
Basket_Unaligned(p0, pt, q) ==
  LET S == Known(p0) \cap Known(pt)
      z == [i \in DOMAIN q |-> IF q[i] = NA THEN 1 ELSE q[i]]
  IN IF S = {} \/ Dot(p0, z, S) <= 0 THEN NA ELSE Ratio(Dot(pt, z, S), Dot(p0, z, S))

\* A basket priced at both periods: Laspeyres, Paasche and Lowe.
Basket(p0, pt, q) ==
  LET S == Aligned(p0, pt, {q})
  IN IF S = {} \/ Dot(p0, q, S) <= 0 THEN NA ELSE Ratio(Dot(pt, q, S), Dot(p0, q, S))

Laspeyres(p0, pt, q0) == Basket(p0, pt, q0)
Paasche(p0, pt, qt) == Basket(p0, pt, qt)
Lowe(p0, pt, qb) == Basket(p0, pt, qb)

\* A mean of relatives; the product of the base prices is the denominator.
MeanRelative(p0, pt, s, S) ==
  LET all == FoldSet(LAMBDA i, x : p0[i] * x, 1, S)
  IN Ratio(Sum(LAMBDA i : s[i] * pt[i] * (all \div p0[i]), S), all * Sum(LAMBDA i : s[i], S))

Young(p0, pt, shares) ==
  LET S == Aligned(p0, pt, {shares})
  IN IF S = {} \/ Sum(LAMBDA i : shares[i], S) <= 0 THEN NA ELSE MeanRelative(p0, pt, shares, S)

FisherSquared(p0, pt, q0, qt) == Times(Laspeyres(p0, pt, q0), Paasche(p0, pt, qt))

\* A basket made of both periods' quantities.
MixedBasket(p0, pt, q) ==
  LET S == DOMAIN q
  IN IF S = {} \/ Dot(p0, q, S) <= 0 THEN NA ELSE Ratio(Dot(pt, q, S), Dot(p0, q, S))

Walsh(p0, pt, q0, qt) ==
  MixedBasket(p0, pt, [i \in Aligned(p0, pt, {q0, qt}) |-> Root(q0[i] * qt[i])])
MarshallEdgeworth(p0, pt, q0, qt) ==
  MixedBasket(p0, pt, [i \in Aligned(p0, pt, {q0, qt}) |-> q0[i] + qt[i]])

\* Logarithms of the geometric indices, weighted by shares of expenditure.
GeometricMean(p0, pt, p, q, S) ==
  IF S = {} \/ Dot(p, q, S) <= 0 THEN NA
  ELSE Ratio(Sum(LAMBDA i : p[i] * q[i] * (Log(pt[i]) - Log(p0[i])), S), Dot(p, q, S))

GeometricLaspeyres(p0, pt, q0) == GeometricMean(p0, pt, p0, q0, Aligned(p0, pt, {q0}))
GeometricPaasche(p0, pt, qt) == GeometricMean(p0, pt, pt, qt, Aligned(p0, pt, {qt}))

Tornqvist(p0, pt, q0, qt) ==
  LET S == Aligned(p0, pt, {q0, qt})
      from == GeometricMean(p0, pt, p0, q0, S)
      to == GeometricMean(p0, pt, pt, qt, S)
  IN Over(Plus(from, to), Whole(2))

FisherQuantitySquared(p0, pt, q0, qt) ==
  LET S == Aligned(p0, pt, {q0, qt})
  IN IF S = {} \/ Dot(q0, p0, S) <= 0 \/ Dot(q0, pt, S) <= 0 THEN NA
     ELSE Ratio(Dot(qt, p0, S) * Dot(qt, pt, S), Dot(q0, p0, S) * Dot(q0, pt, S))

ValueRatio(p0, pt, q0, qt) ==
  LET S == Aligned(p0, pt, {q0, qt})
  IN IF S = {} \/ Dot(p0, q0, S) <= 0 THEN NA ELSE Ratio(Dot(pt, qt, S), Dot(p0, q0, S))

\* Expenditure shares carried to period 0: over a common denominator, NA where
\* an item has no price in one of the two periods.
PriceUpdateShares(sb, pb, p0) ==
  LET both == {i \in DOMAIN sb : sb[i] # NA /\ pb[i] # NA /\ p0[i] # NA}
      all == FoldSet(LAMBDA i, x : pb[i] * x, 1, both)
      updated == [i \in DOMAIN sb |-> IF i \in both THEN sb[i] * p0[i] * (all \div pb[i]) ELSE NA]
  IN IF Sum(LAMBDA i : updated[i], both) <= 0 THEN Refused ELSE updated

PriceUpdatingEffect(p0, pt, pb, sb) ==
  LET updated == PriceUpdateShares(sb, pb, p0)
  IN IF updated = Refused THEN Refused
     ELSE [lowe |-> Young(p0, pt, updated), young |-> Young(p0, pt, sb)]

\* Of a panel only items with a price in all three periods and a weight enter,
\* and at least two of them; otherwise the row says nothing.
PriceUpdatingFromPanel(p0, pt, pb, weight) ==
  LET usable == {i \in DOMAIN weight : NA \notin {p0[i], pt[i], pb[i], weight[i]} /\ weight[i] > 0}
      of(f) == [i \in usable |-> f[i]]
  IN IF Cardinality(usable) < 2 THEN [lowe |-> NA, young |-> NA]
     ELSE PriceUpdatingEffect(of(p0), of(pt), of(pb), of(weight))

-----------------------------------------------------------------------------
\* elementary.py and index.py

Ones(p0) == [i \in DOMAIN p0 |-> 1]

\* The n-th power of Jevons, n the number of items matched.
JevonsPower(a, b) ==
  LET S == Aligned(a, b, {})
  IN IF S = {} THEN NA
     ELSE Ratio(FoldSet(LAMBDA i, x : b[i] * x, 1, S), FoldSet(LAMBDA i, x : a[i] * x, 1, S))

Dutot(a, b) == Basket(a, b, Ones(a))
Carli(a, b) == Young(a, b, Ones(a))
HarmonicMean(a, b) == Inverted(Carli(b, a))
CswdSquared(a, b) == Times(Carli(a, b), HarmonicMean(a, b))

\* index.laspeyres: the weighted mean of relatives, Jevons without weights.
WeightedRelatives(a, b, w) ==
  LET S == Aligned(a, b, {})
      z == [i \in DOMAIN w |-> IF w[i] = NA THEN 0 ELSE w[i]]
  IN IF S = {} THEN NA
     ELSE IF Sum(LAMBDA i : z[i], S) = 0 THEN JevonsPower(a, b)
     ELSE MeanRelative(a, b, z, S)

\* Homogeneity has to be asserted, and the assertion explained.
UnitValue(a, b, qa, qb, homogeneous, justified) ==
  LET S == Aligned(a, b, {})
      bought(q) == S \cap Known(q)
      units(q) == Sum(LAMBDA i : q[i], bought(q))
      paid == Dot(a, qa, bought(qa))
  IN IF ~homogeneous \/ ~justified THEN Refused
     ELSE IF S = {} \/ units(qa) <= 0 \/ units(qb) <= 0 \/ paid <= 0 THEN NA
     ELSE Ratio(Dot(b, qb, bought(qb)) * units(qa), units(qb) * paid)

-----------------------------------------------------------------------------
\* What the docstrings claim of the formulae, with prices and quantities missing
\* anywhere.  Turning time round inverts the symmetric ones and exchanges
\* Laspeyres and Paasche, and Carli and the harmonic mean; the weighted mean of
\* relatives is Laspeyres when the weights are what was spent; the elementary
\* ones are ranked; Fisher's price and quantity index make up the change in value
\* where both quantities are known for the same items (and there only, because
\* its two legs are aligned separately).
FormulaeReverse(p0, pt, q0, qt) ==
  LET Reverses(there, back) == there # NA /\ back # NA => Times(there, back) = One
      Opposite(there, back) == there # NA /\ back # NA => there = Negated(back)
      n == Cardinality(Aligned(p0, pt, {}))
      power(x) == IF n = 2 THEN Times(x, x) ELSE x
      spent == [i \in DOMAIN q0 |-> IF NA \in {p0[i], q0[i]} THEN NA ELSE p0[i] * q0[i]]
      sameItems == Aligned(p0, pt, {q0}) = Aligned(p0, pt, {qt})
      fisher == FisherSquared(p0, pt, q0, qt)
      volume == FisherQuantitySquared(p0, pt, q0, qt)
      value == ValueRatio(p0, pt, q0, qt)
  IN /\ Reverses(fisher, FisherSquared(pt, p0, qt, q0))
     /\ Reverses(Walsh(p0, pt, q0, qt), Walsh(pt, p0, qt, q0))
     /\ Reverses(MarshallEdgeworth(p0, pt, q0, qt), MarshallEdgeworth(pt, p0, qt, q0))
     /\ Reverses(Laspeyres(p0, pt, q0), Paasche(pt, p0, q0))
     /\ Reverses(CswdSquared(p0, pt), CswdSquared(pt, p0))
     /\ Reverses(Dutot(p0, pt), Dutot(pt, p0))
     /\ Laspeyres(p0, pt, q0) # NA =>
          WeightedRelatives(p0, pt, spent) = Laspeyres(p0, pt, q0)
     /\ Opposite(Tornqvist(p0, pt, q0, qt), Tornqvist(pt, p0, qt, q0))
     /\ Opposite(GeometricLaspeyres(p0, pt, q0), GeometricPaasche(pt, p0, q0))
     /\ n \in 1..2 => /\ AtMost(JevonsPower(p0, pt), power(Carli(p0, pt)))
                      /\ AtMost(power(HarmonicMean(p0, pt)), JevonsPower(p0, pt))
     /\ sameItems /\ NA \notin {fisher, volume, value} =>
          Times(fisher, volume) = Times(value, value)

\* Lowe is Young with price-updated shares ("the two formulae are otherwise the
\* same weighted mean over the same relatives"): of a panel they coincide when
\* no price moved between the two references.  Called on raw columns they need
\* not: an item without a price in the weight reference period is in one mean
\* and not in the other.  And a unit value index of unchanged prices moves
\* exactly when what is bought of dear and cheap items does.
UpdatingIsTheDifference(p0, pt, pb, sb) ==
  LET panel == PriceUpdatingFromPanel(p0, pt, pb, sb)
      effect == PriceUpdatingEffect(p0, pt, pb, sb)
      value == [i \in DOMAIN sb |-> IF NA \in {sb[i], pb[i]} THEN NA ELSE sb[i] * pb[i]]
      still == \A i \in DOMAIN pb : NA \in {pb[i], p0[i]} \/ pb[i] = p0[i]
      carried == PriceUpdatingEffect(p0, pt, pb, value)
      mix == UnitValue(p0, p0, sb, pb, TRUE, TRUE)
      S == Known(p0)
  IN /\ still /\ panel.lowe # NA => panel.lowe = panel.young
     /\ carried # Refused /\ carried.lowe # NA =>
          carried.lowe = Lowe(p0, pt, [i \in DOMAIN sb |-> IF value[i] = NA THEN NA ELSE sb[i]])
     /\ still /\ effect # Refused /\ NA \notin {effect.lowe, effect.young}
          /\ effect.lowe # effect.young =>
          \E i \in Aligned(p0, pt, {sb}) : pb[i] = NA
     /\ S = Known(sb) /\ S = Known(pb) /\ mix # NA =>
          ((mix = One) <=> Dot(p0, pb, S) * Sum(LAMBDA i : sb[i], S)
                                 = Dot(p0, sb, S) * Sum(LAMBDA i : pb[i], S))
=================================================================================
