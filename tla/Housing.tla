--------------------------------- MODULE Housing ---------------------------------
(***************************************************************************)
(* Rents and owner-occupied housing (pricelab/engine/housing.py), and      *)
(* property price indices from sales (pricelab/engine/asset.py).           *)
(*                                                                         *)
(* Rents, prices and appraisals are powers of two, given by their          *)
(* exponents, so that medians and means of prices are fractions and        *)
(* changes whole numbers; exponents of rents are even, so that the mean    *)
(* change of two dwellings is whole.  Rates are in percent.                *)
(*                                                                         *)
(* Periods of rents are consecutive and the first one is the base; an      *)
(* index is 1 there.  Transactions are a sequence, the order of the file,  *)
(* of records [id, period, price, cell, appraisal, isNew]; their periods   *)
(* are months, and a repeat-sales index is kept in logarithms to the base  *)
(* 2.  The hedonic regression is left out.                                 *)
(***************************************************************************)
EXTENDS Integers, Sequences, FiniteSets, SequencesExt, FiniteSetsExt

CONSTANTS NA, Refused,
          Threshold     \* suppression_min_count

Fr == INSTANCE Ratios
Dis == INSTANCE Disclosure

\* 2 to any whole power.
Power(e) == IF e = NA THEN NA ELSE IF e >= 0 THEN Fr!Whole(2 ^ e) ELSE Fr!Ratio(1, 2 ^ (-e))

-----------------------------------------------------------------------------
(* Rents.  rents[dwelling][period] is NA where the dwelling has no rent; every
   period has one. *)

\* The strata with a rent, and their dwellings.
Strata(rents, strata) == {strata[d] : d \in {d \in DOMAIN rents : \E t \in DOMAIN rents[d] : rents[d][t] # NA}}

Matched(rents, S, t) == {d \in S : NA \notin {rents[d][t - 1], rents[d][t]}}

\* The level of a stratum, chained on the dwellings with a rent in both periods.  Once
\* there is none the level is lost, for that period and for every later one.
StratumLevel(rents, S, T) ==
  LET level[t \in 1..T] ==
        IF t = 1 THEN 0
        ELSE LET both == Matched(rents, S, t)
                 change == FoldSet(LAMBDA d, x : rents[d][t] - rents[d][t - 1] + x, 0, both)
             IN IF both = {} \/ level[t - 1] = NA THEN NA
                ELSE level[t - 1] + change \div Cardinality(both)
  IN level

\* A stratum weighs what its dwellings paid in the base period, unless weights are
\* given; it keeps its weight in the denominator when its level is lost.
StratumWeight(rents, S, weights, s) ==
  IF weights # NA THEN Fr!Whole(weights[s])
  ELSE Fr!SumOf(LAMBDA d : Power(rents[d][1]), {d \in S : rents[d][1] # NA})

RentIndex(rents, strata, weights, T) ==
  LET in(s) == {d \in DOMAIN rents : strata[d] = s}
      names == Strata(rents, strata)
      weight == [s \in names |-> StratumWeight(rents, in(s), weights, s)]
      level == [s \in names |-> StratumLevel(rents, in(s), T)]
      held(t) == {s \in names : level[s][t] # NA}
  IN [t \in 1..T |->
        IF held(t) = {} THEN NA
        ELSE Fr!Over(Fr!SumOf(LAMBDA s : Fr!Times(weight[s], Power(level[s][t])), held(t)),
                     Fr!SumOf(LAMBDA s : weight[s], names))]

-----------------------------------------------------------------------------
(* Owner-occupied housing.  A series is a sequence of fractions or NA. *)

\* Periods without a value are dropped, and the first left is the base.
Rebase(series) ==
  LET there == {t \in DOMAIN series : series[t] # NA}
  IN IF there = {} THEN Refused
     ELSE IF series[Min(there)] = Fr!Zero THEN Refused
     ELSE [t \in there |-> Fr!Over(series[t], series[Min(there)])]

RentalEquivalence(index) == Rebase(index)

NetAcquisitions(prices, landShare, land) ==
  LET p == Rebase(prices)
      l == Rebase(land)
      at(t) == IF t \in DOMAIN l THEN l[t] ELSE NA
  IN IF p = Refused THEN Refused
     ELSE IF landShare = Fr!Zero THEN p
     ELSE IF ~(0 < landShare.n /\ landShare.n < landShare.d) \/ l = Refused THEN Refused
     ELSE [t \in DOMAIN p |-> Fr!Over(Fr!Minus(p[t], Fr!Times(landShare, at(t))),
                                      Fr!Minus(Fr!One, landShare))]

\* The annual gain realised at t, and the one expected: the mean over the years of
\* expectation (which divide the change), over the whole history where that is shorter, none in the first year.
Realised(prices, t, perYear) ==
  IF t <= perYear THEN NA
  ELSE Fr!Minus(Power(prices[t] - prices[t - perYear]), Fr!One)
Expected(prices, t, years, perYear) ==
  LET back == years * perYear
      past == {s \in 1..t : Realised(prices, s, perYear) # NA}
  IN IF t > back THEN Fr!Minus(Power((prices[t] - prices[t - back]) \div years), Fr!One)
     ELSE IF past = {} THEN Fr!Zero
     ELSE Fr!Over(Fr!SumOf(LAMBDA s : Realised(prices, s, perYear), past), Fr!Whole(Cardinality(past)))

\* Prices without gaps, given by their exponents, and a rate in percent for each period.
UserCost(prices, rate, fixed, years, perYear) ==
  LET level(t) == Power(prices[t] - prices[1])
      percent(x) == Fr!Times(Fr!Whole(100), IF x = NA THEN Fr!Zero ELSE x)
      cost(t, gain) == Fr!Times(level(t), Fr!Minus(Fr!Whole(rate[t] + fixed), percent(gain)))
      expected == [t \in DOMAIN prices |-> cost(t, Expected(prices, t, years, perYear))]
  IN IF \E t \in DOMAIN prices : rate[t] = NA THEN Refused
     ELSE IF expected[1] = Fr!Zero THEN Refused
     ELSE [cost |-> expected,
           realised |-> [t \in DOMAIN prices |-> cost(t, Realised(prices, t, perYear))],
           index |-> [t \in DOMAIN prices |-> Fr!Over(expected[t], expected[1])]]

\* Repayments of capital are refused; a period with an outlay missing is dropped.
Payments(outlays, capital) ==
  LET kinds == DOMAIN outlays
      periods == DOMAIN outlays[CHOOSE k \in kinds : TRUE]
  IN IF kinds \cap capital # {} THEN Refused
     ELSE Rebase([t \in periods |-> Fr!SumOf(LAMBDA k : outlays[k][t], kinds)])

-----------------------------------------------------------------------------
\* Where all rents move alike the index follows them for as long as every stratum's
\* chain holds; from the period in which a stratum has no dwelling rented twice
\* running, it falls short by exactly that stratum's weight, and for good.
RentsFollowTheMarket(rents, strata, weights, level) ==
  LET T == Len(level)
      index == RentIndex(rents, strata, weights, T)
      in(s) == {d \in DOMAIN rents : strata[d] = s}
      names == Strata(rents, strata)
      unbroken(t) == {s \in names : \A u \in 2..t : Matched(rents, in(s), u) # {}}
      weigh(S) == Fr!SumOf(LAMBDA s : StratumWeight(rents, in(s), weights, s), S)
  IN \A t \in 1..T :
       index[t] = IF unbroken(t) = {} THEN NA
                  ELSE Fr!Times(Power(level[t] - level[1]), Fr!Over(weigh(unbroken(t)), weigh(names)))

\* A structure and its land make up the price of the dwelling; where prices grow at
\* one rate the gains expected are the gains realised, in the first year, in the
\* years too few for the expectation and after; and the payments index is the mean
\* of those of the outlays, weighted by what each was in the base period.
OwnershipHoldsTogether(prices, rate, share, land, years, perYear) ==
  LET p == [t \in DOMAIN prices |-> Power(prices[t])]
      l == [t \in DOMAIN land |-> Power(land[t])]
      structure == NetAcquisitions(p, share, l)
      cost == UserCost(prices, rate, 3, years, perYear)
      outlays == [price |-> p, land |-> l]
      base(k) == Fr!Over(outlays[k][1], Fr!Plus(p[1], l[1]))
      paid == Payments(outlays, {"capital"})
  IN /\ structure # Refused =>
          \A t \in DOMAIN structure :
            Fr!Plus(Fr!Times(share, Fr!Over(l[t], l[1])), Fr!Times(Fr!Minus(Fr!One, share), structure[t]))
              = Fr!Over(p[t], p[1])
     /\ cost # Refused /\ (\A t \in DOMAIN prices : prices[t] - prices[1] = (t - 1) * (prices[2] - prices[1]))
          => cost.cost = cost.realised
     /\ \A t \in DOMAIN paid :
          paid[t] = Fr!SumOf(LAMBDA k : Fr!Times(base(k), Fr!Over(outlays[k][t], outlays[k][1])), DOMAIN outlays)

-----------------------------------------------------------------------------
(* Sales *)

Price(exponent) == Fr!Whole(2 ^ exponent)

\* Rows without an id stay: only a repeat sale needs one.
Prepare(tx) == SelectSeq(tx, LAMBDA s : s.price # NA /\ s.period # NA)
PeriodsOf(tx) == {tx[k].period : k \in DOMAIN tx}

\* The first period with a sale, unless one is named; it must have one.
Base(tx, base) ==
  LET chosen == IF base = NA /\ tx # <<>> THEN Min(PeriodsOf(tx)) ELSE base
  IN IF chosen \in PeriodsOf(tx) THEN chosen ELSE Refused

Listed(S) == FoldSet(LAMBDA x, list : Append(list, x), <<>>, S)

-----------------------------------------------------------------------------
(* Stratified median, mix-adjusted mean *)

SalesIn(tx, cell, t) == SelectSeq(tx, LAMBDA s : s.cell = cell /\ s.period = t)
Value(sales) == Fr!SumOf(LAMBDA k : Price(sales[k].price), DOMAIN sales)
MeanPrice(sales) == Fr!Over(Value(sales), Fr!Whole(Len(sales)))
MedianPrice(sales) ==
  LET sorted == SortSeq(sales, LAMBDA a, b : a.price < b.price)
      n == Len(sorted)
  IN IF n = 0 THEN NA
     ELSE MeanPrice(<<sorted[(n + 1) \div 2], sorted[(n + 2) \div 2]>>)

\* Relatives to the base over the cells that sold, weighted by what each sold for
\* in the base period.  Mutant: a cell keeps its weight where it did not sell.
FixedMixIndex_KeepsWeight(level, weight, t, base) ==
  LET usable == {c \in DOMAIN level : level[c][base] # NA /\ weight[c].n > 0}
      present == {c \in usable : level[c][t] # NA}
  IN IF present = {} THEN NA
     ELSE Fr!Over(Fr!SumOf(LAMBDA c : Fr!Times(weight[c], Fr!Over(level[c][t], level[c][base])), present),
                  Fr!SumOf(LAMBDA c : weight[c], usable))
FixedMixIndex(level, weight, t, base) ==
  LET present == {c \in DOMAIN level : level[c][base] # NA /\ weight[c].n > 0 /\ level[c][t] # NA}
  IN IF present = {} THEN NA
     ELSE Fr!Over(Fr!SumOf(LAMBDA c : Fr!Times(weight[c], Fr!Over(level[c][t], level[c][base])), present),
                  Fr!SumOf(LAMBDA c : weight[c], present))

FixedMix(tx, base, average(_)) ==
  LET sales == Prepare(tx)
      b == Base(sales, base)
      level == [c \in {sales[k].cell : k \in DOMAIN sales} |->
                  [t \in PeriodsOf(sales) |-> average(SalesIn(sales, c, t))]]
      weight == [c \in DOMAIN level |-> Value(SalesIn(sales, c, b))]
  IN IF b = Refused THEN Refused
     ELSE [t \in PeriodsOf(sales) |-> FixedMixIndex(level, weight, t, b)]
StratifiedMedian(tx, base) == FixedMix(tx, base, MedianPrice)
MixAdjustedMean(tx, base) == FixedMix(tx, base, MeanPrice)

-----------------------------------------------------------------------------
(* Repeat sales *)

\* Each sale with the one before it of the same property, in the order of the
\* periods and, within one, of the file; the two must differ in period.
Consecutive(tx) ==
  LET sales == SelectSeq(Prepare(tx), LAMBDA s : s.id # NA)
      before(j, k) == /\ sales[j].id = sales[k].id
                      /\ \/ sales[j].period < sales[k].period
                         \/ sales[j].period = sales[k].period /\ j < k
      adjacent(j, k) == before(j, k) /\ \A i \in DOMAIN sales : ~(before(j, i) /\ before(i, k))
  IN {[id |-> sales[e[1]].id, first |-> sales[e[1]].period, second |-> sales[e[2]].period,
       change |-> sales[e[2]].price - sales[e[1]].price, isNew |-> sales[e[1]].isNew] :
        e \in {e \in (DOMAIN sales) \X (DOMAIN sales) :
                 adjacent(e[1], e[2]) /\ sales[e[1]].period # sales[e[2]].period}}

\* The rules in the order they are applied; maxChange is an exponent.
Close(pair, rules) == pair.second - pair.first < rules.minMonths
NewBuild(pair, rules) == rules.excludeNew /\ pair.isNew
Wild(pair, rules) == rules.maxChange # NA /\ Fr!Abs(pair.change) > rules.maxChange
RepeatSalesPairs(tx, rules) ==
  LET all == Consecutive(tx)
      close == {p \in all : Close(p, rules)}
      new == {p \in all \ close : NewBuild(p, rules)}
      wild == {p \in all \ (close \cup new) : Wild(p, rules)}
  IN [kept |-> all \ (close \cup new \cup wild),
      excluded |-> <<Cardinality(close), Cardinality(new), Cardinality(wild)>>]

\* The rank of the design is full exactly when chains of pairs join every period
\* to the base.
Reached(pairs, base) ==
  LET grown(S) == S \cup {p.first : p \in {q \in pairs : q.second \in S}}
                    \cup {p.second : p \in {q \in pairs : q.first \in S}}
      steps[n \in Nat] == IF n = 0 THEN {base} ELSE grown(steps[n - 1])
  IN steps[4]

Determinant(m, n) ==
  CASE n = 0 -> 1
    [] n = 1 -> m[1][1]
    [] n = 2 -> m[1][1] * m[2][2] - m[1][2] * m[2][1]
    [] n = 3 -> m[1][1] * (m[2][2] * m[3][3] - m[2][3] * m[3][2])
                - m[1][2] * (m[2][1] * m[3][3] - m[2][3] * m[3][1])
                + m[1][3] * (m[2][1] * m[3][2] - m[2][2] * m[3][1])

\* Least squares on the pairs, one unknown for each period but the base, by the
\* normal equations.  A pair weighs by the months between its sales: equally, or
\* by the variance fitted in the second stage, which is left open.
Solve(pairs, unknowns, weight) ==
  LET order == Listed(unknowns)
      sum(S, value(_)) == FoldSet(LAMBDA p, x : weight[p.second - p.first] * value(p) + x, 0, S)
      one(p) == 1
      into(u, p) == IF p.second = u THEN p.change ELSE -p.change
      touching(u) == {p \in pairs : u \in {p.first, p.second}}
      row(u) == [k \in DOMAIN order |->
                   IF order[k] = u THEN sum(touching(u), one)
                   ELSE -sum(touching(u) \cap touching(order[k]), one)]
      matrix == <<>> \o [j \in DOMAIN order |-> row(order[j])]
      right == <<>> \o [j \in DOMAIN order |-> sum(touching(order[j]), LAMBDA p : into(order[j], p))]
      replaced(k) == [j \in DOMAIN order |-> [matrix[j] EXCEPT ![k] = right[j]]]
      n == Len(order)
  IN [u \in unknowns |-> Fr!Ratio(Determinant(replaced(CHOOSE k \in 1..n : order[k] = u), n),
                                  Determinant(matrix, n))]

RepeatSales(tx, base, rules, weight) ==
  LET pairs == RepeatSalesPairs(tx, rules).kept
      b == Base(Prepare(tx), base)
      periods == UNION {{p.first, p.second} : p \in pairs} \cup {b}
  IN IF pairs = {} \/ b = Refused \/ ~(periods \subseteq Reached(pairs, b)) THEN Refused
     ELSE LET beta == Solve(pairs, periods \ {b}, weight)
          IN [t \in periods |-> IF t = b THEN Fr!Zero ELSE beta[t]]

\* One index for the sales up to each period from the third on; one that cannot
\* be estimated is left out.
RepeatSalesVintages(tx, rules, weight) ==
  LET periods == PeriodsOf(Prepare(tx))
      ends == {t \in periods : Cardinality({s \in periods : s <= t}) >= IF Cardinality(periods) > 2 THEN 3
                                                                       ELSE Cardinality(periods)}
      index(end) == RepeatSales(SelectSeq(Prepare(tx), LAMBDA s : s.period <= end), NA, rules, weight)
  IN [end \in {e \in ends : index(e) # Refused} |-> index(end)]

-----------------------------------------------------------------------------
(* Appraisals, coverage, disclosure *)

SalePriceAppraisalRatio(tx, base) ==
  LET sales == SelectSeq(Prepare(tx), LAMBDA s : s.appraisal # NA)
      b == Base(sales, base)
      at(t) == SelectSeq(sales, LAMBDA s : s.period = t)
      ratio(t) == Fr!Over(Value(at(t)), Fr!SumOf(LAMBDA k : Price(at(t)[k].appraisal), DOMAIN at(t)))
  IN IF b = Refused THEN Refused
     ELSE [t \in PeriodsOf(sales) |-> Fr!Over(ratio(t), ratio(b))]

TransactionCounts(tx) ==
  LET sales == Prepare(tx)
  IN [t \in PeriodsOf(sales) |->
        [c \in {sales[k].cell : k \in DOMAIN sales} |-> Len(SalesIn(sales, c, t))]]

\* How many sales each method uses.
MarketCoverage(tx, rules) ==
  LET sales == Prepare(tx)
  IN [fixedMix |-> Len(sales), repeatSales |-> Cardinality(Consecutive(sales)),
      spar |-> Len(SelectSeq(sales, LAMBDA s : s.appraisal # NA))]

\* The table of strata as disclosure control sees it: every stratum in every
\* period, those without a sale with a count of zero and no value.
SuppressStrata(tx, base) ==
  LET counts == TransactionCounts(tx)
      b == Base(Prepare(tx), base)
      cells == DOMAIN counts[b]
      level(c, t) == MedianPrice(SalesIn(Prepare(tx), c, t))
      order == Listed((DOMAIN counts) \X cells)
      relative(k) == Fr!Over(level(order[k][2], order[k][1]), level(order[k][2], b))
  IN Dis!Suppress([k \in DOMAIN order |->
       [group |-> order[k][1], count |-> counts[order[k][1]][order[k][2]],
        value |-> IF relative(k) = NA THEN NA ELSE (4 * relative(k).n) \div relative(k).d]], 1)

-----------------------------------------------------------------------------
\* In a market where nothing but the level moves, every sale being its property's
\* quality times the level of its period, and cells of one quality, each method
\* that computes an index recovers the level, whatever sold when, however repeat
\* sales are weighted, and from which appraisals of that quality.
LevelIsRecovered(tx, base, level, rules, weight) ==
  LET b == Base(Prepare(tx), base)
      appraised == SelectSeq(tx, LAMBDA s : s.appraisal # NA)
      right(index, from) == index # Refused =>
        \A t \in DOMAIN index : index[t] \in {NA, Fr!Over(Price(level[t]), Price(level[from]))}
      repeat == RepeatSales(tx, base, rules, weight)
  IN /\ right(StratifiedMedian(tx, base), b)
     /\ right(MixAdjustedMean(tx, base), b)
     /\ right(SalePriceAppraisalRatio(tx, base), Base(appraised, base))
     /\ repeat # Refused =>
          \A t \in DOMAIN repeat : repeat[t] = Fr!Whole(level[t] - level[b])

\* Every pair of consecutive sales is used or excluded for one reason, and the order
\* of the file matters only to a property that sold twice in a period
\* (repeat_sales_pairs).
PairsAreAccounted(tx, rules) ==
  LET pairs == RepeatSalesPairs(tx, rules)
      twice == \E j, k \in DOMAIN tx : j < k /\ tx[j].id = tx[k].id /\ tx[j].period = tx[k].period
  IN /\ Cardinality(pairs.kept) + FoldLeft(LAMBDA x, n : x + n, 0, pairs.excluded)
          = Cardinality(Consecutive(tx))
     /\ ~twice => RepeatSalesPairs(Reverse(tx), rules) = pairs

\* A further period revises a repeat-sales history only through properties whose
\* last sale before it was in different periods: if all its pairs begin in one
\* period, or none ends in it, what was published stands (repeat_sales_vintages).
RevisedOnlyThroughLoops(tx, rules, weight) ==
  LET vintages == RepeatSalesVintages(tx, rules, weight)
      pairs == RepeatSalesPairs(tx, rules).kept
      into(end) == {p.first : p \in {q \in pairs : q.second = end}}
  IN \A e, f \in DOMAIN vintages :
       /\ e < f
       /\ ~\E g \in DOMAIN vintages : e < g /\ g < f
       /\ \A g \in PeriodsOf(Prepare(tx)) : e < g /\ g <= f => Cardinality(into(g)) <= 1
       => \A t \in DOMAIN vintages[e] : vintages[f][t] = vintages[e][t]

\* No median of fewer than Threshold sales is published (suppress_strata).
ThinStrataHidden(tx, base) ==
  LET table == SuppressStrata(tx, base)
      counts == TransactionCounts(tx)
      order == Listed((DOMAIN counts) \X (DOMAIN counts[Base(Prepare(tx), base)]))
  IN table # Refused =>
       \A k \in DOMAIN order :
         counts[order[k][1]][order[k][2]] < Threshold => table[k].suppressed
=================================================================================
