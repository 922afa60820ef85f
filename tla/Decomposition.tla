----------------------------- MODULE Decomposition -----------------------------
(***************************************************************************)
(* What a change of an aggregate is made of, and the measures of its       *)
(* middle: pricelab/engine/decomposition.py.                               *)
(*                                                                         *)
(* Levels and weights are small whole numbers, NA where there is none;     *)
(* shares and changes are exact fractions.  Square roots (the dispersion)  *)
(* and powers (annualised rates) are not taken.                            *)
(***************************************************************************)
EXTENDS Ratios, Sequences

CONSTANTS Refused,    \* the call raises
          Nodes, Parent

Agg == INSTANCE Aggregation

Change(to, from) == Minus(Relative(to, from), One)

-----------------------------------------------------------------------------
\* tree_contributions: a node of the rolled tree has a weight w and v, its
\* weight times its level.

Kids(tree, n) == {k \in Nodes : Parent[k] = n /\ tree[k].has /\ tree[k].w # NA}

ChangeOf(from, to, n) == Minus(Relative(to[n].v, from[n].v), One)

\* A child's share in the change of its parent, on the base its siblings make
\* together, rescaled to the headline.
ToHeadline(from, to, root, k) ==
  LET kids == Kids(from, Parent[k])
      base == IF \E j \in kids : from[j].v = NA THEN NA
              ELSE MapThenSumSet(LAMBDA j : from[j].v, kids)
      gained == IF NA \in {to[k].v, from[k].v, base} THEN NA ELSE to[k].v - from[k].v
  IN IF k = root THEN ChangeOf(from, to, root)
     ELSE Times(Relative(gained, base), Relative(from[Parent[k]].v, from[root].v))

\* NaN is left out of a sum, and a gap that is NaN is not larger than zero.
TreeContributions(start, end) ==
  LET from == Agg!AggregateTree(start, Parent)
      to == Agg!AggregateTree(end, Parent)
      roots == {n \in Nodes : Parent[n] = NA /\ from[n].has}
      root == CHOOSE n \in roots : TRUE
      share == [n \in {m \in Nodes : from[m].has /\ from[m].w # NA} |->
                  ToHeadline(from, to, root, n)]
      stated(n) == {k \in Kids(from, n) : share[k] # NA}
      gap(n) == Minus(SumOf(LAMBDA k : share[k], stated(n)), share[n])
  IN IF Refused \in {from, to} \/ Cardinality(roots) # 1 THEN Refused
     ELSE [root |-> root, share |-> share,
           reconciles |-> \A n \in DOMAIN share : Kids(from, n) # {} => gap(n) \in {NA, Zero}]

-----------------------------------------------------------------------------
\* Annual chain links.  A period is a position; `perYear` periods make a year,
\* the last of each is its link.  Weights hold for one year each.

YearAt(t, perYear) == (t - 1) \div perYear
LinkBefore(t, perYear) == YearAt(t, perYear) * perYear

\* The weighted mean of the relatives to the link, on the weights of the year.
SinceLink(levels, weight, t, link) ==
  LET usable == {c \in DOMAIN levels : weight[c] # NA}
      total == MapThenSumSet(LAMBDA c : weight[c], usable)
  IN SumOf(LAMBDA c : Times(Ratio(weight[c], total), Ratio(levels[c][t], levels[c][link])), usable)

ChainLinked(levels, weights, perYear, last) ==
  LET level[t \in perYear..last] ==
        IF t = perYear THEN One
        ELSE LET link == LinkBefore(t, perYear)
             IN Times(level[link], SinceLink(levels, weights[YearAt(t, perYear)], t, link))
  IN level

\* From this period last year up to the link, on last year's weights.
BeforeLink(levels, weight, c, then, link, earlier) ==
  Times(weight, Ratio(levels[c][link] - levels[c][then], levels[c][earlier]))

\* Contributions to the annual rate across the link.  The components are those
\* that have a weight this year.
RibeContributions(levels, weights, total, perYear, t) ==
  LET link == IF t % perYear = 0 THEN t - perYear ELSE LinkBefore(t, perYear)
      earlier == link - perYear
      then == t - perYear
      share(year, c) ==
        LET usable == {k \in DOMAIN levels : weights[year][k] # NA}
        IN IF weights[year][c] = NA THEN Zero
           ELSE Ratio(weights[year][c], MapThenSumSet(LAMBDA k : weights[year][k], usable))
      now(c) == Times(Over(total[link], total[then]),
                      Times(share(link \div perYear, c),
                            Ratio(levels[c][t] - levels[c][link], levels[c][link])))
      before(c) == Times(Over(total[earlier], total[then]),
                         BeforeLink(levels, share(earlier \div perYear, c), c, then, link, earlier))
  IN [c \in {k \in DOMAIN levels : weights[link \div perYear][k] # NA} |-> Plus(now(c), before(c))]

-----------------------------------------------------------------------------
\* Measures of the middle.  A component moved from one level to another; what it
\* weighs is its weight times its earlier level.

Moved(from, to, weight) ==
  {c \in DOMAIN from : NA \notin {from[c], to[c], weight[c]} /\ weight[c] > 0}

Effective(from, weight, S) == [c \in S |-> weight[c] * from[c]]

\* By change, equal ones in the order they stand.
Precedes(x, a, b) == Below(x[a], x[b]) \/ (x[a] = x[b] /\ a < b)

Cumulative(x, w, c) ==
  MapThenSumSet(LAMBDA k : w[k], {k \in DOMAIN x : k = c \/ Precedes(x, k, c)})

\* `cut` is what is cut from each tail, in quarters of a unit of weight.
TrimRow(x, w, cut) ==
  LET all == 4 * MapThenSumSet(LAMBDA c : w[c], DOMAIN x)
      upper(c) == 4 * Cumulative(x, w, c)
      kept(c) == Max({0, Min({upper(c), all - cut}) - Max({upper(c) - 4 * w[c], cut})})
  IN IF DOMAIN x = {} THEN NA
     ELSE Over(SumOf(LAMBDA c : Times(Whole(kept(c)), x[c]), DOMAIN x),
               Whole(MapThenSumSet(kept, DOMAIN x)))

\* Mutant: takes the lower of the two at a boundary.
MedianRow_Lower(x, w) ==
  LET all == MapThenSumSet(LAMBDA c : w[c], DOMAIN x)
      reached == {c \in DOMAIN x : 2 * Cumulative(x, w, c) >= all}
  IN IF DOMAIN x = {} THEN NA
     ELSE x[CHOOSE c \in reached : \A k \in reached \ {c} : Precedes(x, c, k)]

\* Where the cumulative weight first reaches one half; the average of the two
\* where it lands on it exactly.
MedianRow(x, w) ==
  LET all == MapThenSumSet(LAMBDA c : w[c], DOMAIN x)
      reached == {c \in DOMAIN x : 2 * Cumulative(x, w, c) >= all}
      first(S) == CHOOSE c \in S : \A k \in S \ {c} : Precedes(x, c, k)
      k == first(reached)
  IN IF DOMAIN x = {} THEN NA
     ELSE IF 2 * Cumulative(x, w, k) = all /\ reached # {k}
     THEN Over(Plus(x[k], x[first(reached \ {k})]), Whole(2))
     ELSE x[k]

\* Rising counts one, unchanged one half.
DiffusionIndex(x) ==
  LET rising == {c \in DOMAIN x : Below(Zero, x[c])}
      unchanged == {c \in DOMAIN x : x[c] = Zero}
  IN Ratio(2 * Cardinality(rising) + Cardinality(unchanged), 2 * Cardinality(DOMAIN x))

\* An exclusion names a component, or a node of the tree with components beneath.
LeavesUnder(n) == {m \in Nodes : m = n \/ n \in Agg!Ancestors(Parent, m)}

Excluded(components, exclude) ==
  UNION {IF e \in components THEN {e} ELSE LeavesUnder(e) \cap components : e \in exclude}

\* A component whose items were never seen in two consecutive periods has no
\* frequency of price change, and is sticky.
PriceChanges(panel, items) ==
  LET consecutive == {x \in items \X (2..Len(panel)) :
                        panel[x[2]][x[1]] # NA /\ panel[x[2] - 1][x[1]] # NA}
  IN [comparisons |-> Cardinality(consecutive),
      changes |-> Cardinality({x \in consecutive : panel[x[2]][x[1]] # panel[x[2] - 1][x[1]]})]

Sticky(panel, items) ==
  LET seen == PriceChanges(panel, items)
  IN seen.changes = 0 \/ seen.comparisons * 10 > 43 * seen.changes

\* What a measure comes to: Refused, "nothing" in every period, or "values".
Computed(measure, weight, data) ==
  LET components == DOMAIN weight
      usable == {c \in components : weight[c] # NA /\ weight[c] > 0}
      unknown == {e \in data.exclude : e \notin components /\ LeavesUnder(e) \cap components = {}}
      kept == usable \ Excluded(components, data.exclude)
      refused ==
        \/ usable = {}
        \/ measure = "exclusion" /\ (unknown # {} \/ data.exclude = {} \/ kept = {})
        \/ measure \in {"trimmed_mean", "weighted_median"} /\ Cardinality(usable) < 3
        \/ measure = "variance_weighted" /\ (Cardinality(usable) < 2 \/ data.window < 6)
        \/ measure = "sticky_price" /\ (data.prices = NA \/ ~\E c \in usable : Sticky(data.prices, {c}))
  IN IF refused THEN Refused
     ELSE IF \/ measure = "variance_weighted" /\ data.periods - data.horizon <= data.window
             \/ data.periods <= data.horizon THEN "nothing"
     ELSE "values"

\* Which measures are offered.
Offered(measure, weight, data) ==
  LET weighted == {c \in DOMAIN weight : weight[c] # NA}
  IN /\ weighted # {}
     /\ measure = "exclusion" => data.exclude # {} /\ weighted \ data.exclude # {}
     /\ measure \in {"trimmed_mean", "weighted_median"} => Cardinality(weighted) >= 3
     /\ measure = "variance_weighted" =>
          Cardinality(weighted) >= 2 /\ data.periods - data.horizon > data.window
     /\ measure = "sticky_price" => data.prices # NA

CoreMeasures == {"exclusion", "trimmed_mean", "weighted_median", "variance_weighted", "sticky_price"}

-----------------------------------------------------------------------------
\* base_effects, as numerators over the levels a year, and a year and a period, ago.
BaseEffects(s, perYear, offset, t) ==
  LET ago == s[t - perYear]
      before == s[t - perYear - 1]
      december == s[t - (((t - 1 + offset) % perYear) + 1)]
  IN [yoy |-> Change(s[t], ago), carry |-> Ratio(december - ago, ago),
      impulse |-> Ratio(s[t] - december, ago),
      change |-> Minus(Ratio(s[t], ago), Ratio(s[t - 1], before)),
      this |-> Ratio(s[t] - s[t - 1], ago),
      base |-> Ratio(s[t - 1] * (ago - before), ago * before)]

-----------------------------------------------------------------------------
\* Contributions nest at every level at once: where every column has both levels
\* and no parent an index of its own the table reconciles, and a table that
\* reconciles and states every contribution adds up to the headline.  A missing
\* level shows as a gap at its parent -- unless the parent did not move, or has
\* no contribution itself: a gap that is NaN is not a gap.
ContributionsNest(start, end) ==
  LET out == TreeContributions(start, end)
      from == Agg!AggregateTree(start, Parent)
      leaves == {n \in DOMAIN out.share : Kids(from, n) = {}}
      whole == \A n \in DOMAIN start : NA \notin {start[n].level, end[n].level}
      own == \E n \in DOMAIN start : Kids(from, n) # {}
      headline == out.share[out.root]
  IN out # Refused /\ from[out.root].w # NA =>
       /\ out.reconciles /\ (\A n \in DOMAIN out.share : out.share[n] # NA) =>
            SumOf(LAMBDA n : out.share[n], leaves) = headline
       /\ whole /\ ~own => out.reconciles /\ \A n \in DOMAIN out.share : out.share[n] # NA
       /\ \A n \in DOMAIN start \cap leaves :
            NA \in {start[n].level, end[n].level} /\ out.share[Parent[n]] \notin {NA, Zero} /\ ~own =>
              ~out.reconciles

\* Across a re-weighting the contributions add up to the annual rate "exactly":
\* with the aggregate the components themselves produce, and unless a component
\* that had a weight last year has none this year and moved before the link.  And
\* carry-over and impulse make the annual rate, this period and the base effect
\* its change, wherever in the year the series begins.
AnnualRateIsExplained(levels, weights, perYear, t, offset) ==
  LET total == ChainLinked(levels, weights, perYear, t)
      shares == RibeContributions(levels, weights, total, perYear, t)
      link == IF t % perYear = 0 THEN t - perYear ELSE LinkBefore(t, perYear)
      left == {c \in DOMAIN levels : weights[link \div perYear][c] = NA
                                     /\ weights[(link \div perYear) - 1][c] # NA
                                     /\ weights[(link \div perYear) - 1][c] # 0
                                     /\ levels[c][link] # levels[c][t - perYear]}
      c == CHOOSE k \in DOMAIN levels : TRUE
      e == BaseEffects(levels[c], perYear, offset, t)
  IN /\ left = {} => SumOf(LAMBDA k : shares[k], DOMAIN shares)
                       = Minus(Over(total[t], total[t - perYear]), One)
     /\ Plus(e.carry, e.impulse) = e.yoy
     /\ Minus(e.this, e.base) = e.change

\* The middle of a distribution is a middle: with nothing cut the trimmed mean is
\* the change of the aggregate, with nearly everything cut the weighted median
\* ("50 is the weighted median"); turning the changes round turns all three; and
\* what happens beyond the cut does not matter, however far it goes.
MiddleIsStable(from, to, weight, cut) ==
  LET S == Moved(from, to, weight)
      w == Effective(from, weight, S)
      x == [c \in S |-> Change(to[c], from[c])]
      mirrored == [c \in S |-> Negated(x[c])]
      all == 4 * MapThenSumSet(LAMBDA c : w[c], S)
      top == {c \in S : \A k \in S : x[k] = x[c] \/ Below(x[k], x[c])}
      pushed == [c \in S |-> IF c \in top THEN Plus(x[c], Whole(9)) ELSE x[c]]
      heavy == 4 * MapThenSumSet(LAMBDA c : w[c], top)
  IN S # {} =>
       /\ TrimRow(x, w, 0) = Change(MapThenSumSet(LAMBDA c : weight[c] * to[c], S),
                                    MapThenSumSet(LAMBDA c : weight[c] * from[c], S))
       /\ MedianRow(x, w) = TrimRow(x, w, (all \div 2) - 1)
       /\ MedianRow(mirrored, w) = Negated(MedianRow(x, w))
       /\ 2 * cut < all => TrimRow(mirrored, w, cut) = Negated(TrimRow(x, w, cut))
       /\ heavy <= cut /\ 2 * cut < all => TrimRow(pushed, w, cut) = TrimRow(x, w, cut)
       /\ Plus(DiffusionIndex(x), DiffusionIndex(mirrored)) = One

\* A measure is offered if it can be computed ("a measure is offered only when the
\* data supports it"): nothing with values is hidden, and where every weight is
\* positive and exclusions name components what is offered has values -- but for
\* the sticky prices where every price changed too often, and a collection no
\* longer than the horizon.
OfferedIsComputable(weight, data) ==
  \A m \in CoreMeasures :
    /\ Computed(m, weight, data) = "values" => Offered(m, weight, data)
    /\ Offered(m, weight, data) /\ data.window >= 6
         /\ (m = "sticky_price" =>
               \E c \in DOMAIN weight : weight[c] # NA /\ PriceChanges(data.prices, {c}).changes = 0)
         /\ data.periods > data.horizon /\ data.exclude \subseteq DOMAIN weight
         /\ (\A c \in DOMAIN weight : weight[c] # NA => weight[c] > 0) =>
         Computed(m, weight, data) = "values"
===============================================================================
