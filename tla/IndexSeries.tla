------------------------------ MODULE IndexSeries ------------------------------
(***************************************************************************)
(* From quotes to the series of one category: the gap-filling methods of   *)
(* pricelab/engine/imputation.py, and build_index of                       *)
(* pricelab/engine/index.py with the Jevons formula, chained and           *)
(* fixed-base, with its rebasing.                                          *)
(*                                                                         *)
(* A panel maps an item to its price in each period.  Prices and levels    *)
(* are logarithms: a method multiplies a price by the exponential of a     *)
(* mean log change, which is an addition here; a link is added, rebasing   *)
(* subtracts.  They are multiples of a unit that makes every mean whole.   *)
(***************************************************************************)
EXTENDS Integers, FiniteSets, FiniteSetsExt

CONSTANTS Periods,    \* last period; the panel's periods are 1..Periods
          NA,         \* no price
          Base,       \* log of base_value
          Refused     \* the call raises

T == 1..Periods

Priced(p, i, t) == p[i][t] # NA

\* Items of S priced at both ends of a link.
Matched(p, S, from, to) == {i \in S : Priced(p, i, from) /\ Priced(p, i, to)}

\* The mean log change of the matched items, NA when nothing matches.
MeanChange(p, S, from, to) ==
  LET M == Matched(p, S, from, to)
  IN IF M = {} THEN NA
     ELSE MapThenSumSet(LAMBDA i : p[i][to] - p[i][from], M) \div Cardinality(M)

\* The last period up to t in which i was observed, 0 when there is none.
LastObserved(p, i, t) == Max({0} \cup {u \in 1..t : Priced(p, i, u)})

Gap(p, i, t) == ~Priced(p, i, t)

\* A filled panel S: prices, and the method each imputed quote is flagged with.
Result(p, S, price, flagged, method) ==
  [i \in S |-> [t \in T |->
    [price |-> price[i][t], flag |-> IF flagged[i][t] THEN method ELSE ""]]]

None(p, S) == Result(p, S, p, [i \in S |-> [t \in T |-> FALSE]], "none")

SeasonalHold(p, S) ==
  Result(p, S, p, [i \in S |-> [t \in T |-> Gap(p, i, t)]], "seasonal_hold")

CarryForward(p, S) ==
  LET price == [i \in S |-> [t \in T |->
                  LET u == LastObserved(p, i, t) IN IF u = 0 THEN NA ELSE p[i][u]]]
  IN Result(p, S, price,
            [i \in S |-> [t \in T |-> Gap(p, i, t) /\ price[i][t] # NA]], "carry_forward")

\* Period by period: a fill is an input to the next period's fill, the factor
\* is not; it is measured on observed prices.
Cascade(p, S) ==
  LET filled[t \in T] ==
        [i \in S |->
           IF Priced(p, i, t) \/ t = 1 THEN p[i][t]
           ELSE LET factor == MeanChange(p, S, t - 1, t)
                    before == filled[t - 1][i]
                IN IF factor = NA \/ before = NA THEN NA ELSE before + factor]
  IN filled

\* Mutant: flags every gap, filled or not.
ClassMean_FlagsGaps(p, S) ==
  LET filled == Cascade(p, S)
  IN Result(p, S, [i \in S |-> [t \in T |-> filled[t][i]]],
            [i \in S |-> [t \in T |-> Gap(p, i, t)]], "class_mean")

ClassMean(p, S) ==
  LET filled == Cascade(p, S)
      price == [i \in S |-> [t \in T |-> filled[t][i]]]
  IN Result(p, S, price,
            [i \in S |-> [t \in T |-> Gap(p, i, t) /\ price[i][t] # NA]], "class_mean")

\* Periods in which the cell has a price: pivot_table has no row for others.
Rows(p, S) == {t \in T : \E i \in S : Priced(p, i, t)}

\* The matched level of a cell, in the rows there are: each link starts at the
\* previous row, and a link in which nothing matches holds the level.
CellLevel(p, S) ==
  LET level[t \in Rows(p, S)] ==
        LET earlier == {u \in Rows(p, S) : u < t}
        IN IF earlier = {} THEN 0
           ELSE LET change == MeanChange(p, S, Max(earlier), t)
                IN level[Max(earlier)] + (IF change = NA THEN 0 ELSE change)
  IN level

\* Anchored at the last observed price, moved along the level of the cell.
FromCellLevel(p, S, cell, method) ==
  LET level == CellLevel(p, cell)
      fillable(i, t) == Gap(p, i, t) /\ LastObserved(p, i, t) # 0 /\ t \in Rows(p, cell)
      price == [i \in S |-> [t \in T |->
                  IF fillable(i, t)
                  THEN LET u == LastObserved(p, i, t) IN p[i][u] + level[t] - level[u]
                  ELSE p[i][t]]]
  IN Result(p, S, price, [i \in S |-> [t \in T |-> fillable(i, t)]], method)

TargetedMean(p, S) == FromCellLevel(p, S, S, "targeted_mean")

\* The cell is the whole collection, whichever rows are kept of the result.
OverallMean(p, S) == FromCellLevel(p, S, DOMAIN p, "overall_mean")

Methods == {"none", "carry_forward", "class_mean", "seasonal_hold",
            "targeted_mean", "overall_mean"}

\* A class of one item has no peer to move with.
Applied(method, S) ==
  IF method = "class_mean" /\ Cardinality(S) <= 1 THEN "carry_forward" ELSE method

Impute(p, S, method) ==
  CASE Applied(method, S) = "none" -> None(p, S)
    [] Applied(method, S) = "carry_forward" -> CarryForward(p, S)
    [] Applied(method, S) = "class_mean" -> ClassMean(p, S)
    [] Applied(method, S) = "seasonal_hold" -> SeasonalHold(p, S)
    [] Applied(method, S) = "targeted_mean" -> TargetedMean(p, S)
    [] Applied(method, S) = "overall_mean" -> OverallMean(p, S)

\* run_imputation: each category by its own method.
RunImputation(p, category, methodFor) ==
  [i \in DOMAIN p |->
     Impute(p, {j \in DOMAIN p : category[j] = category[i]}, methodFor[category[i]])[i]]

Prices(r) == [i \in DOMAIN r |-> [t \in T |-> r[i][t].price]]

-----------------------------------------------------------------------------
\* The flag says a value was imputed exactly where one was: no flag on an
\* observed quote, none on a gap left open, and none missing on a fill, whatever
\* the methods of the categories.  seasonal_hold flags its gaps and fills none
\* (run_imputation: "the audit trail never claims a fill that didn't happen").
FillsFlagged(p, category, methodFor) ==
  LET r == RunImputation(p, category, methodFor)
  IN \A i \in DOMAIN p, t \in T :
       /\ Priced(p, i, t) => r[i][t] = [price |-> p[i][t], flag |-> ""]
       /\ Gap(p, i, t) /\ methodFor[category[i]] # "seasonal_hold" =>
            (r[i][t].flag # "") = (r[i][t].price # NA)

\* class_mean compounds nothing: where every link since an item's last quote
\* has a matched pair, the period-by-period cascade ends where targeted_mean
\* ends, which starts from the last observed price.
CascadeIsAnchored(p, S) ==
  \A i \in S, t \in T :
    LET u == LastObserved(p, i, t)
    IN u # 0 /\ u < t /\ (\A v \in (u + 1)..t : MeanChange(p, S, v - 1, v) # NA) =>
         ClassMean(p, S)[i][t].price = TargetedMean(p, S)[i][t].price

-----------------------------------------------------------------------------
(* The index *)

\* Periods and references: a configuration names a period or leaves it open,
\* 0 stands for "not set"; a period beyond the data can be named too.
Config == [chained : BOOLEAN, minMatched : 1..3,
           priceRef : 0..(Periods + 1), indexRef : 0..(Periods + 1)]

Set(setting, default) == IF setting = 0 THEN default ELSE setting

PriceRef(cfg) == Set(cfg.priceRef, 1)

\* resolve_index_reference_period
IndexRef(cfg) == Set(cfg.indexRef, PriceRef(cfg))

\* A link or relative with too few matched items counts for nothing.
Link(p, cfg, from, to) ==
  IF Cardinality(Matched(p, DOMAIN p, from, to)) < cfg.minMatched THEN NA
  ELSE MeanChange(p, DOMAIN p, from, to)

\* A chained series starts at Base and holds its level over a missing link.
Chained(p, cfg) ==
  LET level[t \in T] ==
        IF t = 1 THEN Base
        ELSE LET rel == Link(p, cfg, t - 1, t)
             IN level[t - 1] + (IF rel = NA THEN 0 ELSE rel)
  IN level

\* A fixed-base series compares each period with the price reference.
FixedBase(p, cfg) ==
  [t \in T |-> IF t = PriceRef(cfg) THEN Base
               ELSE LET rel == Link(p, cfg, PriceRef(cfg), t)
                    IN IF rel = NA THEN NA ELSE Base + rel]

Compiled(p, cfg) == IF cfg.chained THEN Chained(p, cfg) ELSE FixedBase(p, cfg)

\* Rescaled to read Base at the index reference; without a level there, no
\* level is publishable.
Rebase(series, ref) ==
  IF series[ref] = NA THEN [t \in T |-> NA]
  ELSE [t \in T |-> IF series[t] = NA THEN NA ELSE series[t] - series[ref] + Base]

\* Naming a period the data does not have is an error.
BuildIndex(p, cfg) ==
  IF PriceRef(cfg) \notin T \/ IndexRef(cfg) \notin T THEN Refused
  ELSE Rebase(Compiled(p, cfg), IndexRef(cfg))

-----------------------------------------------------------------------------
Complete(p) == \A i \in DOMAIN p, t \in T : Priced(p, i, t)

\* Jevons is transitive: on a panel without gaps the chained and the fixed-base
\* index are the same series, whatever the two references are.
ChainingDoesNotDrift(p, cfg) ==
  Complete(p) /\ cfg.minMatched <= Cardinality(DOMAIN p) =>
    BuildIndex(p, [cfg EXCEPT !.chained = TRUE]) = BuildIndex(p, [cfg EXCEPT !.chained = FALSE])

\* What is published reads Base at the period its labels name, and otherwise
\* nothing is published; between two published levels the movement is the one
\* that was compiled.
ReadsBaseAtReference(p, cfg) ==
  LET out == BuildIndex(p, cfg)
      raw == Compiled(p, cfg)
  IN out # Refused =>
       /\ out[IndexRef(cfg)] = Base \/ \A t \in T : out[t] = NA
       /\ \A t, u \in T : out[t] # NA /\ out[u] # NA => out[t] - out[u] = raw[t] - raw[u]

\* Items come, go and come back at the price they always had: with any
\* imputation method in front of it, the index of their category stays flat.
TurnoverIsNotInflation(p, category, methodFor, cfg) ==
  (\A i \in DOMAIN p, t, u \in T : Priced(p, i, t) /\ Priced(p, i, u) => p[i][t] = p[i][u]) =>
    \A c \in {category[i] : i \in DOMAIN p} :
      LET q == Prices(RunImputation(p, category, methodFor))
          out == BuildIndex([i \in {j \in DOMAIN p : category[j] = c} |-> q[i]], cfg)
      IN out = Refused \/ \A t \in T : out[t] \in {Base, NA}
=================================================================================
