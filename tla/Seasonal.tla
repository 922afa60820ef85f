-------------------------------- MODULE Seasonal --------------------------------
(***************************************************************************)
(* Strictly seasonal items, the two treatments of their weight, the        *)
(* estimation of off-season prices, the Rothwell index and the choice of   *)
(* the adjustment engine: pricelab/engine/seasonal.py.                     *)
(*                                                                         *)
(* Prices are logarithms to the base 2 as in IndexSeries, so that the      *)
(* relative of a category is a power of two.  A headline is the sequence   *)
(* of its movements: two headlines are the same series exactly when every  *)
(* movement is.  What STL and X-13 compute is not modelled.                *)
(***************************************************************************)
EXTENDS IndexSeries

CONSTANT PeriodsPerYear

SeasonOf(t) == ((t - 1) % PeriodsPerYear) + 1
YearOf(t) == ((t - 1) \div PeriodsPerYear) + 1
Seasons == {SeasonOf(t) : t \in T}

Add(f(_), S) == MapThenSumSet(f, S)
Power(k) == [n |-> 2 ^ Max({k, 0}), d |-> 2 ^ Max({-k, 0})]
Same(x, y) == x = y \/ (NA \notin {x, y} /\ x.n * y.d = y.n * x.d)
One == Power(0)

InSeason(p, i) == {SeasonOf(t) : t \in {u \in T : Priced(p, i, u)}}

\* Priced in some seasons and never in others, over years enough to repeat.
Qualifies(p, i, cfg) ==
  /\ Cardinality({YearOf(t) : t \in {u \in T : Priced(p, i, u)}}) >= cfg.minYears
  /\ InSeason(p, i) # Seasons
  /\ Cardinality(InSeason(p, i)) * 10 <= cfg.maxInSeasonTenths * Cardinality(Seasons)

\* The seasons each strictly seasonal item is off.
StrictlySeasonalItems(p, cfg) ==
  [i \in {j \in DOMAIN p : Qualifies(p, j, cfg)} |-> Seasons \ InSeason(p, i)]

-----------------------------------------------------------------------------
\* Treatments.  An item without a weight counts for nothing, and for one unit
\* when no item has any.
ItemWeight(weight, i) ==
  IF \A j \in DOMAIN weight : weight[j] = NA THEN 1 ELSE IF weight[i] = NA THEN 0 ELSE weight[i]

Members(category, c) == {i \in DOMAIN category : category[i] = c}

\* Mutant: an item without a price is off season, whatever its seasons are.
InSeasonWeight_Missing(p, category, weight, seasonal, c, t) ==
  LET off == {i \in Members(category, c) : seasonal # <<>> /\ ~Priced(p, i, t)}
  IN Max({0, Add(LAMBDA i : ItemWeight(weight, i), Members(category, c))
               - Add(LAMBDA i : ItemWeight(weight, i), off)})

\* By subtraction: the whole weight of the class less what is off season.
InSeasonWeight(p, category, weight, seasonal, c, t) ==
  LET off == {i \in Members(category, c) \cap DOMAIN seasonal : SeasonOf(t) \in seasonal[i]}
  IN Max({0, Add(LAMBDA i : ItemWeight(weight, i), Members(category, c))
               - Add(LAMBDA i : ItemWeight(weight, i), off)})

CategoryIndices(p, category, indexCfg) ==
  [c \in {category[i] : i \in DOMAIN p} |->
     BuildIndex([i \in Members(category, c) |-> p[i]], indexCfg)]

\* The weighted mean of the relatives; nothing to average holds the level.
ChainedMovement(levels, weight, t) ==
  LET usable == {c \in DOMAIN levels : NA \notin {levels[c][t], levels[c][t - 1]} /\ weight[c] > 0}
      down == Periods
      rel(c) == 2 ^ (levels[c][t] - levels[c][t - 1] + down)
  IN IF usable = {} THEN One
     ELSE [n |-> Add(LAMBDA c : weight[c] * rel(c), usable),
           d |-> 2 ^ down * Add(LAMBDA c : weight[c], usable)]

\* A single category is its own headline.
Headline(p, category, weight, seasonal, indexCfg) ==
  LET levels == CategoryIndices(p, category, indexCfg)
      only == CHOOSE c \in DOMAIN levels : TRUE
      weights(t) == [c \in DOMAIN levels |-> InSeasonWeight(p, category, weight, seasonal, c, t)]
  IN IF \E c \in DOMAIN levels : levels[c] = Refused THEN Refused
     ELSE [t \in 2..Periods |->
             IF Cardinality(DOMAIN levels) > 1 THEN ChainedMovement(levels, weights(t), t)
             ELSE IF NA \in {levels[only][t], levels[only][t - 1]} THEN NA
             ELSE Power(levels[only][t] - levels[only][t - 1])]

\* The season does nothing to the weights, or takes its items out of them.
ClassConfinement(p, category, weight, indexCfg, cfg) ==
  Headline(p, category, weight, <<>>, indexCfg)

WeightUpdate(p, category, weight, indexCfg, cfg) ==
  Headline(p, category, weight, StrictlySeasonalItems(p, cfg), indexCfg)

CompareTreatments(p, category, weight, indexCfg, cfg) ==
  LET confined == ClassConfinement(p, category, weight, indexCfg, cfg)
      updated == WeightUpdate(p, category, weight, indexCfg, cfg)
  IN IF confined = Refused THEN Refused
     ELSE [class_confinement |-> confined, weight_update |-> updated,
           identical |-> \A t \in DOMAIN confined : Same(confined[t], updated[t])]

-----------------------------------------------------------------------------
\* Counter-seasonal estimates: the last price, moved with the category; a period
\* in which nothing of the category moved is left open.
CounterSeasonalEstimate(p, category, cfg) ==
  LET seasonal == StrictlySeasonalItems(p, cfg)
      step(i, t) == MeanChange(p, Members(category, category[i]), t - 1, t)
      last == [i \in DOMAIN seasonal |->
                 LET at[t \in T] ==
                       IF Priced(p, i, t) THEN p[i][t]
                       ELSE IF t = 1 THEN NA
                       ELSE IF at[t - 1] = NA \/ step(i, t) = NA THEN at[t - 1]
                       ELSE at[t - 1] + step(i, t)
                 IN at]
      estimated(i, t) == /\ i \in DOMAIN seasonal /\ Gap(p, i, t) /\ t > 1
                         /\ last[i][t - 1] # NA /\ step(i, t) # NA
  IN [i \in DOMAIN p |-> [t \in T |->
        [price |-> IF estimated(i, t) THEN last[i][t] ELSE p[i][t],
         flag |-> IF estimated(i, t) THEN "counter_seasonal" ELSE ""]]]

\* What is on sale against what it cost on average in the base year; an item
\* without a quantity counts once.
Rothwell(p, quantity, baseYear) ==
  LET within(i) == {t \in T : YearOf(t) = baseYear /\ Priced(p, i, t)}
      based == {i \in DOMAIN p : within(i) # {}}
      q(i) == IF quantity[i] = NA \/ quantity[i] <= 0 THEN 1 ELSE quantity[i]
      most == PeriodsPerYear
      average(i) == Add(LAMBDA t : 2 ^ p[i][t] * most, within(i)) \div Cardinality(within(i))
      matched(t) == {i \in based : Priced(p, i, t)}
  IN IF based = {} THEN Refused
     ELSE [t \in {u \in T : matched(u) # {}} |->
             [n |-> most * Add(LAMBDA i : q(i) * 2 ^ p[i][t], matched(t)),
              d |-> Add(LAMBDA i : q(i) * average(i), matched(t))]]

\* The stage.  "both" is computed under a guard, a single treatment is not; what
\* is asked for and cannot be computed is left out with a note.
RunSeasonal(p, category, weight, indexCfg, cfg) ==
  LET compared == IF cfg.treatment = "both" THEN CompareTreatments(p, category, weight, indexCfg, cfg)
                  ELSE IF cfg.treatment = "class_confinement"
                  THEN ClassConfinement(p, category, weight, indexCfg, cfg)
                  ELSE WeightUpdate(p, category, weight, indexCfg, cfg)
      based == Rothwell(p, weight, 1)
  IN IF compared = Refused /\ cfg.treatment # "both" THEN Refused
     ELSE [comparison |-> IF compared = Refused THEN NA ELSE compared,
           rothwell |-> IF ~cfg.rothwell \/ based = Refused THEN NA ELSE based,
           counter |-> IF cfg.counterSeasonal THEN CounterSeasonalEstimate(p, category, cfg) ELSE NA,
           notes |-> {"comparison" : x \in {y \in {1} : compared = Refused}}
                       \cup {"rothwell" : x \in {y \in {1} : cfg.rothwell /\ based = Refused}}]

-----------------------------------------------------------------------------
\* The engine that adjusts.  `where` says, for X13PATH, X12PATH and PATH, whether
\* it is unset, names a place without the program, or has it.
X13Available(where) ==
  LET first == IF where.x13path # "unset" THEN where.x13path
               ELSE IF where.x12path # "unset" THEN where.x12path
               ELSE where.path
  IN first = "has"

\* X-13 knows monthly and quarterly data.
RunX13(perYear, where) == perYear \in {4, 12} /\ where.works

\* Demanding X-13 raises where it cannot run, "auto" says why it did not.
Adjust(length, requested, perYear, where) ==
  LET available == where.permitted /\ X13Available(where)
      ran == available /\ RunX13(perYear, where)
      reason == IF ~where.permitted THEN "disabled" ELSE IF ~available THEN "absent" ELSE "failed"
  IN IF length < 2 * perYear \/ (requested = "x13" /\ ~ran) THEN Refused
     ELSE IF requested # "stl" /\ ran THEN [engine |-> "x13", fallback |-> ""]
     ELSE [engine |-> "stl", fallback |-> IF requested = "stl" THEN "" ELSE reason]

-----------------------------------------------------------------------------
\* The choice between the treatments is about the season and nothing else
\* (_in_season_weights: items an enumerator missed, or not introduced yet, must
\* not separate them): in a period in which no strictly seasonal item is off the
\* two headlines move alike, and without such an item they are the same series.
\* And weights that leave and return move nothing by themselves: where no item
\* ever changes its price, both headlines and the Rothwell index stand still.
GapIsTheSeason(p, category, weight, indexCfg, cfg) ==
  LET both == CompareTreatments(p, category, weight, indexCfg, cfg)
      seasonal == StrictlySeasonalItems(p, cfg)
      off(t) == {i \in DOMAIN seasonal : SeasonOf(t) \in seasonal[i]}
      flat == \A i \in DOMAIN p, t, u \in T : Priced(p, i, t) /\ Priced(p, i, u) => p[i][t] = p[i][u]
      based == Rothwell(p, weight, 1)
  IN both # Refused =>
       /\ seasonal = <<>> => both.identical
       /\ \A t \in 2..Periods :
            /\ off(t) = {} => Same(both.class_confinement[t], both.weight_update[t])
            /\ flat => \A x \in {both.class_confinement[t], both.weight_update[t]} :
                         x = NA \/ Same(x, One)
       /\ flat /\ based # Refused => \A t \in DOMAIN based : Same(based[t], One)

\* An estimated price is flagged, an observed one is left alone, and only
\* strictly seasonal items get one; where the items of a category move together,
\* the item "reappears in line": its estimates are the prices it would have had,
\* provided that every period of its absence had a pair of quotes to move with.
ReappearsInLine(p, category, cfg, path) ==
  LET out == CounterSeasonalEstimate(p, category, cfg)
      together == \A i \in DOMAIN p, t, u \in T :
                    Priced(p, i, t) /\ Priced(p, i, u) => p[i][t] - p[i][u] = path[t] - path[u]
      moved(i, from, to) ==
        \A v \in (from + 1)..to : MeanChange(p, Members(category, category[i]), v - 1, v) # NA
  IN \A i \in DOMAIN p, t \in T :
       /\ Priced(p, i, t) => out[i][t] = [price |-> p[i][t], flag |-> ""]
       /\ (out[i][t].flag # "") = (Gap(p, i, t) /\ out[i][t].price # NA)
       /\ out[i][t].flag # "" => Qualifies(p, i, cfg)
       /\ together /\ out[i][t].flag # "" =>
            LET u == LastObserved(p, i, t)
            IN moved(i, u, t) => out[i][t].price - p[i][u] = path[t] - path[u]

\* "auto" states a reason for not using X-13 exactly where demanding X-13 raises,
\* and no series is refused by "auto" that STL would adjust.
EngineIsNamed(length, perYear, where) ==
  LET out(requested) == Adjust(length, requested, perYear, where)
  IN /\ out("auto") = Refused <=> out("stl") = Refused
     /\ out("auto") # Refused =>
          /\ out("x13") = Refused <=> out("auto").fallback # ""
          /\ out("x13") # Refused => out("x13") = out("auto") /\ out("x13").engine = "x13"
          /\ out("auto").engine = "x13" => where.permitted /\ X13Available(where)
=================================================================================
