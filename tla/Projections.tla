------------------------------- MODULE Projections -------------------------------
(***************************************************************************)
(* Forecasts and scenarios of a headline (pricelab/engine/forecasting.py,  *)
(* scenarios.py, projection.py; pricelab/reporting/projections.py).        *)
(*                                                                         *)
(* A series is a sequence of logarithms of index levels, months apart, in  *)
(* whole units that Season divides.  Sizes of shocks are changes of the    *)
(* driver in logarithms.  Whether a series is seasonal (by STL) is an      *)
(* input.  The statistical models are external: a stand-in extrapolates    *)
(* the last level, the last change or the last change of the driver, and   *)
(* the critical values of the tests are rounded.                           *)
(***************************************************************************)
EXTENDS Integers, Sequences, FiniteSets, SequencesExt, FiniteSetsExt

CONSTANTS NA, Refused,
          Season,     \* months of a seasonal pattern
          Least       \* months a forecast needs before its first origin

Fr == INSTANCE Ratios

Total(f(_), S) == FoldSet(LAMBDA i, x : f(i) + x, 0, S)

\* _monthly: values are dropped where there are none; what is left has no gap.
Monthly(series) ==
  LET there == {t \in DOMAIN series : series[t] # NA}
  IN IF there = {} \/ there # Min(there)..Max(there) THEN Refused
     ELSE SubSeq(series, Min(there), Max(there))

Years(h) == (h + Season - 1) \div Season

\* The rule a scenario starts from: last year's pattern and growth again.
Baseline(train, horizon, seasonal) ==
  LET n == Len(train)
      growth == train[n] - train[n - Season]
  IN [h \in 1..horizon |-> IF seasonal THEN train[n - Season * Years(h) + h] + Years(h) * growth
                           ELSE train[n] + (growth * h) \div Season]

\* The benchmark: the same month of the last year, or the last value.
Benchmark(train, horizon, seasonal) ==
  LET n == Len(train)
  IN [h \in 1..horizon |-> IF seasonal THEN train[n - Season * Years(h) + h] ELSE train[n]]

-----------------------------------------------------------------------------
(* Backtest and benchmark comparison *)

\* One row for each origin and horizon; project maps what was known at an origin to
\* a path.
Rows(y, first, horizon, seasonal, project(_)) ==
  LET row(origin, h) ==
        LET train == SubSeq(y, 1, origin)
        IN [origin |-> origin, h |-> h, actual |-> y[origin + h], method |-> project(train)[h],
            benchmark |-> Benchmark(train, horizon, seasonal)[h]]
  IN <<>> \o [k \in 1..((Len(y) - horizon - first + 1) * horizon) |->
                row(first + (k - 1) \div horizon, ((k - 1) % horizon) + 1)]

Origins(rows) == {rows[k].origin : k \in DOMAIN rows}
Horizon(rows) == Max({rows[k].h : k \in DOMAIN rows})
AtHorizon(rows, h) == {k \in DOMAIN rows : rows[k].h = h}
AtOrigin(rows, o) == {k \in DOMAIN rows : rows[k].origin = o}

\* Sums of squared errors; every horizon has as many rows as every other.
Loss(rows, S, who) == Total(LAMBDA k : (rows[k].actual - rows[k][who]) ^ 2, S)
Better(rows, S) == Loss(rows, S, "method") < Loss(rows, S, "benchmark")

\* By how much the benchmark lost more at each origin, and Bartlett's estimate of
\* the long-run variance of that, in units that keep it whole.
LongRunVariance(d, lags) ==
  LET n == Len(d)
      sum == FoldSeq(LAMBDA x, s : x + s, 0, d)
      centred == <<>> \o [i \in DOMAIN d |-> n * d[i] - sum]
      autocovariance(k) == Total(LAMBDA i : centred[i] * centred[i + k], 1..(n - k))
  IN (lags + 1) * autocovariance(0)
     + 2 * Total(LAMBDA k : (lags + 1 - k) * autocovariance(k), 1..lags)

\* The test is one-sided, with Harvey, Leybourne and Newbold's correction; 2 stands
\* for the 5% point of Student's distribution.  With fewer than three origins
\* nothing is distinguishable from chance; differences that are all alike are.
DieboldMariano(d, horizon) ==
  LET n == Len(d)
      lags == IF horizon - 1 < n - 2 THEN horizon - 1 ELSE n - 2
      sum == FoldSeq(LAMBDA x, s : x + s, 0, d)
      variance == LongRunVariance(d, lags)
      corrected == IF n + 1 - 2 * horizon > 0 THEN (n - horizon) * (n - horizon + 1) ELSE n * n
  IN IF n < 3 THEN FALSE
     ELSE IF variance <= 0 THEN sum > 0
     ELSE sum > 0 /\ sum * sum * (lags + 1) * corrected > 4 * variance

Differences(rows) ==
  LET lowest == Min(Origins(rows))
      lost(o, who) == Loss(rows, AtOrigin(rows, o), who)
  IN <<>> \o [k \in 1..Cardinality(Origins(rows)) |->
                lost(lowest + k - 1, "benchmark") - lost(lowest + k - 1, "method")]
Comparison(rows) ==
  LET d == Differences(rows)
  IN [lower |-> Better(rows, DOMAIN rows),
      significant |-> DieboldMariano(d, Horizon(rows)),
      horizonsBetter |-> Cardinality({h \in 1..Horizon(rows) : Better(rows, AtHorizon(rows, h))})]
Beats(comparison) == comparison.lower /\ comparison.significant

\* Horizons at which the errors imply a wider interval than the model claims: twice
\* the root mean square against the half-width.  A fan made of the errors claims
\* nothing they could refute.
Understated(rows, halfwidth) ==
  IF halfwidth = NA THEN {}
  ELSE {h \in 1..Horizon(rows) :
          4 * Loss(rows, AtHorizon(rows, h), "method")
            > Cardinality(Origins(rows)) * halfwidth * halfwidth}

-----------------------------------------------------------------------------
(* Shocks and scenarios *)

Drivers == {"energy prices", "exchange rate", "wages", "administered prices"}
ValidShock(s) == s.driver \in Drivers /\ s.phase >= 1 /\ (s.start # NA => s.start >= 1)

\* The part of a shock that has passed into the headline by each month.
Contribution(s, horizon) ==
  [h \in 1..horizon |->
     IF NA \in {s.size, s.start, s.coefficient} THEN 0
     ELSE LET months == h - s.start + 1
              built == IF months < 0 THEN 0 ELSE IF months > s.phase THEN s.phase ELSE months
          IN (s.size * s.coefficient * built) \div s.phase]

\* What a shock assumes and whether it is stated: a value and where it comes from.
ShockAssumptions(s) ==
  {[name |-> <<s.driver, "size">>, stated |-> s.size # NA],
   [name |-> <<s.driver, "timing">>, stated |-> s.start # NA],
   [name |-> <<s.driver, "coefficient">>, stated |-> s.coefficient # NA /\ s.sourced]}

\* The direct effect: the weight of the chosen columns in the aggregate.  A node the
\* tree added is a column without a weight of its own.
CoefficientFromWeights(columns, weights, chosen) ==
  LET of(c) == IF c \in DOMAIN weights THEN weights[c] ELSE 0
  IN IF chosen = {} \/ ~(chosen \subseteq columns) THEN Refused
     ELSE IF weights = NA THEN Fr!Ratio(Cardinality(chosen), Cardinality(columns))
     ELSE Fr!Ratio(Total(of, chosen), Total(of, columns))

\* A quantile in fortieths of the errors at a horizon, times forty (numpy's linear
\* interpolation).
Quantile(errors, fortieths) ==
  LET sorted == SortSeq(errors, LAMBDA a, b : a < b)
      position == (Len(sorted) - 1) * fortieths
      k == position \div 40 + 1
      next == IF k < Len(sorted) THEN sorted[k + 1] ELSE sorted[k]
  IN 40 * sorted[k] + (next - sorted[k]) * (position % 40)
Fans == [lower |-> 1, lower80 |-> 4, lower50 |-> 10, upper50 |-> 30, upper80 |-> 36, upper |-> 39]
Errors(rows, h) ==
  LET at == SelectSeq(rows, LAMBDA r : r.h = h)
  IN [k \in DOMAIN at |-> at[k].actual - at[k].method]

\* Contributions are kept under the name of their driver: of two shocks to one
\* driver the later in the list counts.
Counted(shocks) ==
  {k \in DOMAIN shocks : \A j \in DOMAIN shocks : j > k => shocks[j].driver # shocks[k].driver}
Shocked(shocks) == {shocks[k].driver : k \in DOMAIN shocks}

BuildScenario(series, shocks, spec, seasonal) ==
  LET y == Monthly(series)
      H == spec.horizon
      first == Len(y) - H - spec.origins + 1
      rule(train) == Baseline(train, H, seasonal)
      rows == Rows(y, first, H, seasonal, rule)
      base == Baseline(y, H, seasonal)
      point == [h \in 1..H |-> base[h] + Total(LAMBDA k : Contribution(shocks[k], H)[h], Counted(shocks))]
  IN IF y = Refused \/ \E k \in DOMAIN shocks : ~ValidShock(shocks[k]) THEN Refused
     ELSE IF first < 2 * Season + 1 THEN Refused
     ELSE [kind |-> "scenario", history |-> y, shocks |-> shocks, horizon |-> H,
           path |-> [h \in 1..H |->
                       [c \in {"point", "baseline"} \cup DOMAIN Fans \cup Shocked(shocks) |->
                          CASE c = "point" -> 40 * point[h]
                            [] c = "baseline" -> 40 * base[h]
                            [] c \in DOMAIN Fans -> 40 * point[h] + Quantile(Errors(rows, h), Fans[c])
                            [] OTHER -> LET k == CHOOSE k \in Counted(shocks) : shocks[k].driver = c
                                        IN 40 * Contribution(shocks[k], H)[h]]],
           rows |-> rows, comparison |-> Comparison(rows), halfwidth |-> NA,
           assumptions |-> UNION {ShockAssumptions(shocks[k]) : k \in DOMAIN shocks}
             \cup {[name |-> <<a>>, stated |-> TRUE] : a \in {"baseline", "start", "fan", "passing"}}]

\* What the registry stores of a scenario, and the scenario made from that.
SpecJson(scenario) ==
  [horizon |-> Cardinality(DOMAIN scenario.path), origins |-> Cardinality(Origins(scenario.rows)),
   shocks |-> scenario.shocks]
ScenarioFromSpec(series, json, seasonal) ==
  BuildScenario(series, json.shocks, [horizon |-> json.horizon, origins |-> json.origins], seasonal)

-----------------------------------------------------------------------------
(* Forecasts *)

NeedsDriver == {"pass_through", "phillips"}
TakesDriver == NeedsDriver \cup {"sarimax"}

\* External.  What the order search returns for the data before the backtest window,
\* and the path such a model gives.
Specification(selection) == IF selection[Len(selection)] > selection[1] THEN "trend" ELSE "level"
ModelPath(specification, train, known, horizon) ==
  LET n == Len(train)
      step == CASE specification = "level" -> 0
                [] specification = "trend" -> train[n] - train[n - 1]
                [] specification = "driver" -> known[n] - known[n - 1]
  IN [h \in 1..horizon |-> train[n] + h * step]

\* The driver over the months of the headline, or refused where one is missing.
Aligned(driver, y) == IF \E t \in DOMAIN y : t \notin DOMAIN driver \/ driver[t] = NA THEN Refused
                      ELSE SubSeq(driver, 1, Len(y))

FitForecast_OnAll(y, first) == Specification(y)   \* mutant: the order is chosen on all the data
FitForecast(y, first) == Specification(SubSeq(y, 1, first))

\* The interval the backtest errors imply is a column whose values are left out.
Forecast(series, spec, driver, seasonal) ==
  LET y == Monthly(series)
      H == spec.horizon
      first == Len(y) - H - spec.origins + 1
      x == IF driver = NA \/ spec.method \notin TakesDriver THEN NA ELSE Aligned(driver, y)
      model == IF spec.method \in NeedsDriver THEN "driver" ELSE FitForecast(y, first)
      fitted(train) == ModelPath(model, train, IF x = NA THEN NA ELSE SubSeq(x, 1, Len(train)), H)
      rows == Rows(y, first, H, seasonal, fitted)
  IN IF y = Refused THEN Refused
     ELSE IF first < Max({3 * Season, Least}) THEN Refused
     ELSE IF spec.method \in NeedsDriver /\ driver = NA THEN Refused
     ELSE IF x = Refused THEN Refused
     ELSE [kind |-> "forecast", history |-> y, model |-> model, rows |-> rows,
           path |-> [h \in 1..H |-> [point |-> fitted(y)[h], lower |-> fitted(y)[h] - spec.halfwidth,
                                     upper |-> fitted(y)[h] + spec.halfwidth,
                                     measured_lower |-> NA, measured_upper |-> NA]],
           comparison |-> Comparison(rows), halfwidth |-> spec.halfwidth,
           assumptions |-> {[name |-> <<a>>, stated |-> TRUE] :
                              a \in {"method", "sample", "logs", "benchmark", "interval", "backtest"}}
             \cup (IF x = NA THEN {}
                   ELSE {[name |-> <<"driver">>, stated |-> spec.named /\ spec.sourced],
                         [name |-> <<"driver path">>, stated |-> TRUE]})]

-----------------------------------------------------------------------------
(* Release *)

MissingParts(p) ==
  (IF p.path = <<>> \/ ~\A h \in DOMAIN p.path : {"point", "lower", "upper"} \subseteq DOMAIN p.path[h]
   THEN {"interval"} ELSE {})
  \cup (IF p.rows = <<>> THEN {"backtest"} ELSE {})
  \cup (IF p.comparison = NA THEN {"benchmark"} ELSE {})
  \cup (IF p.assumptions = {} \/ \E a \in p.assumptions : ~a.stated THEN {"assumptions"} ELSE {})
  \cup (IF p.kind \notin {"forecast", "scenario"} THEN {"kind"} ELSE {})
Release(p) == IF MissingParts(p) = {} THEN p ELSE Refused

\* The columns of a path, each with the kind its new name says it is: a column the
\* table of names does not know keeps its own and says nothing.
PathTable(p) ==
  LET named == IF p.kind = "forecast" THEN {"point", "lower", "upper", "measured_lower", "measured_upper"}
               ELSE {"point", "baseline"} \cup DOMAIN Fans \cup Drivers
  IN {[column |-> c, of |-> p.kind, says |-> IF c \in named THEN p.kind ELSE NA] : c \in DOMAIN p.path[1]}
CheckProjectionColumns(table) ==
  IF Cardinality({c.of : c \in table}) > 1 /\ \E c \in table : c.says # c.of THEN Refused ELSE table
SideBySide(forecast, scenario) ==
  IF Refused \in {Release(forecast), Release(scenario)} THEN Refused
  ELSE CheckProjectionColumns(PathTable(forecast) \cup PathTable(scenario))

-----------------------------------------------------------------------------
\* Shocks add up whatever their order, one that passes through over several months
\* is so many smaller ones a month apart, and the scenario the registry rebuilds from
\* its specification is the one that was registered.  A scenario leaves the system
\* exactly when every shock is stated.  (Shocks of different drivers; of two of one
\* driver the first is lost.)
ShocksAddUp(series, shocks, spec, seasonal) ==
  LET with(list) == BuildScenario(series, list, spec, seasonal)
      size(s) == [j \in 1..s.phase |-> [s EXCEPT !.size = @ \div s.phase, !.start = @ + j - 1, !.phase = 1]]
  IN with(shocks) # Refused =>
       /\ \A h \in 1..spec.horizon :
            /\ with(shocks).path[h].point - with(<<>>).path[h].point
                 = Total(LAMBDA k : with(<<shocks[k]>>).path[h].point - with(<<>>).path[h].point, DOMAIN shocks)
            /\ \A k \in DOMAIN shocks :
                 NA \notin {shocks[k].size, shocks[k].start} =>
                   Contribution(shocks[k], spec.horizon)[h]
                     = Total(LAMBDA j : Contribution(size(shocks[k])[j], spec.horizon)[h], 1..shocks[k].phase)
       /\ ScenarioFromSpec(series, SpecJson(with(shocks)), seasonal) = with(shocks)
       /\ Release(with(shocks)) # Refused <=>
            \A k \in DOMAIN shocks : NA \notin {shocks[k].size, shocks[k].start, shocks[k].coefficient} /\ shocks[k].sourced

\* A headline that repeats its pattern and its growth is projected exactly, with a
\* fan of no width; a rule applied for a year and then again gives what it gives for
\* two; and the fans nest, the wider around the narrower.
BaselineRepeats(y, spec, seasonal, steady) ==
  LET scenario == BuildScenario(y, <<>>, spec, seasonal)
      year == Baseline(y, Season, seasonal)
  IN scenario # Refused =>
       /\ steady => \A h \in 1..spec.horizon :
            LET p == scenario.path[h]
            IN p.lower = p.point /\ p.upper = p.point
               /\ p.point - 40 * year[((h - 1) % Season) + 1]
                    = 40 * (Years(h) - 1) * (y[Len(y)] - y[Len(y) - Season])
       /\ Baseline(y \o year, Season, seasonal)
            = [h \in 1..Season |-> Baseline(y, 2 * Season, seasonal)[Season + h]]
       /\ \A h \in 1..spec.horizon :
            LET p == scenario.path[h]
            IN p.lower <= p.lower80 /\ p.lower80 <= p.lower50 /\ p.lower50 <= p.upper50
               /\ p.upper50 <= p.upper80 /\ p.upper80 <= p.upper

\* No origin of a backtest sees what came after it, and the specification was chosen
\* before the first: two histories alike up to an origin, and both judged seasonal or
\* both not, give the same projections there.
OriginsSeeOnlyThePast(y, z, spec, driver, seasonal) ==
  LET of(s) == Forecast(s, spec, driver, seasonal)
      scenario(s) == BuildScenario(s, <<>>, spec, seasonal)
      first == Len(y) - spec.horizon - spec.origins + 1
      alike(o) == SubSeq(y, 1, o) = SubSeq(z, 1, o)
      same(a, b) == \A k \in DOMAIN a.rows : alike(a.rows[k].origin) =>
                      a.rows[k].method = b.rows[k].method /\ a.rows[k].benchmark = b.rows[k].benchmark
  IN /\ Refused \notin {of(y), of(z)} =>
          same(of(y), of(z)) /\ (alike(first) => of(y).model = of(z).model)
     /\ Refused \notin {scenario(y), scenario(z)} => same(scenario(y), scenario(z))

\* The verdict on a method follows its errors: it beats the benchmark only with the
\* lower error overall and so at some horizon, the long-run variance
\* is no negative number and nil only where all origins agree, and a method better at
\* every horizon is better.
VerdictFollowsErrors(y, spec, driver, seasonal) ==
  LET p == Forecast(y, spec, driver, seasonal)
  IN p # Refused =>
       LET c == p.comparison
           d == Differences(p.rows)
       IN /\ c.significant => c.lower /\ c.horizonsBetter > 0
          /\ c.horizonsBetter = spec.horizon => c.lower
          /\ c.horizonsBetter = 0 => ~Beats(c)
          /\ \A lags \in 0..(Len(d) - 2) :
               /\ LongRunVariance(d, lags) >= 0
               /\ LongRunVariance(d, lags) = 0 <=> \A j, k \in DOMAIN d : d[j] = d[k]
          /\ \A w \in 0..spec.halfwidth : Understated(p.rows, spec.halfwidth) \subseteq Understated(p.rows, w)

\* The direct effects of the categories of a run add up to one, and beside each other
\* every column of a forecast and a scenario says which it is.
DirectEffectsAddUp(columns, weights) ==
  LET share(c) == CoefficientFromWeights(columns, weights, {c})
  IN share(CHOOSE c \in columns : TRUE) # NA => Fr!SumOf(share, columns) = Fr!One
ColumnsSayTheirKind(y, spec, driver, shocks, seasonal) ==
  LET f == Forecast(y, spec, driver, seasonal)
      s == BuildScenario(y, shocks, spec, seasonal)
  IN Refused \notin {f, s} =>
       (SideBySide(f, s) = Refused <=> Refused \in {Release(f), Release(s)})
===================================================================================
