--------------------------------- MODULE Quality ---------------------------------
(***************************************************************************)
(* Cleaning a collection before anything is computed from it               *)
(* (pricelab/engine/quality.py), the findings about it that block nothing  *)
(* (pricelab/data/validation.py), which quotes the screens ask a person    *)
(* about, and what the decisions do to the collection                      *)
(* (pricelab/engine/outliers.py and its page).                             *)
(*                                                                         *)
(* The screens see logarithms to the base 2, so that a price relative is a *)
(* difference; their statistics are exact fractions.  The cleaning sees    *)
(* the quotes of an item as a sequence of prices, whole numbers or NA, in  *)
(* the order of the periods, which are months counted from a January;      *)
(* thresholds on log10 of a ratio are the ratios they stand for.           *)
(***************************************************************************)
EXTENDS Integers, Sequences, FiniteSets, FiniteSetsExt

CONSTANT NA

Fr == INSTANCE Ratios
Power(k) == Fr!Ratio(2 ^ Max({k, 0}), 2 ^ Max({-k, 0}))

\* A quote against the item's previous observed one, however long ago.
Relatives(p) ==
  {r \in [item : DOMAIN p, period : UNION {DOMAIN p[i] : i \in DOMAIN p},
          price : UNION {{p[i][t] : t \in DOMAIN p[i]} : i \in DOMAIN p} \ {NA},
          previous : UNION {{p[i][t] : t \in DOMAIN p[i]} : i \in DOMAIN p} \ {NA}] :
     LET seen == {s \in DOMAIN p[r.item] : s < r.period /\ p[r.item][s] # NA}
     IN /\ p[r.item][r.period] = r.price
        /\ seen # {} /\ p[r.item][Max(seen)] = r.previous}

LogRatio(r) == r.price - r.previous

-----------------------------------------------------------------------------
\* The values of f in ascending order, and their percentiles in quarters,
\* interpolated.
Ordered(f(_), S) ==
  FoldSet(LAMBDA r, seq : LET x == f(r)
                          IN SelectSeq(seq, LAMBDA y : Fr!AtMost(y, x)) \o <<x>>
                               \o SelectSeq(seq, LAMBDA y : Fr!Below(x, y)), <<>>, S)

Percentile(ordered, quarters) ==
  LET rank == (Len(ordered) - 1) * quarters
      low == ordered[rank \div 4 + 1]
      high == ordered[Min({rank \div 4 + 2, Len(ordered)})]
  IN Fr!Plus(low, Fr!Times(Fr!Ratio(rank % 4, 4), Fr!Minus(high, low)))

\* Outside [low, high], where NA stands for no fence.
Outside(x, low, high) == \/ low # NA /\ Fr!Below(x, low)
                         \/ high # NA /\ Fr!Below(high, x)

\* Farther than the deadband from the centre; both are squared, since the median
\* of an even number of logarithms may be a half.
Far(squared, cfg) == LET band == Fr!Times(cfg.band, cfg.band)
                     IN Outside(squared, Fr!Inverted(band), band)
FarFromMedian(r, median, cfg) ==
  LET twice == Fr!Times(Fr!Whole(2), Fr!Minus(Fr!Whole(LogRatio(r)), median))
  IN Far(Power(twice.n), cfg)

\* Mutant: fences on the ratios instead of their logarithms.
TukeyFences_Raw(cell, cfg) ==
  LET value(r) == Power(LogRatio(r))
      ordered == Ordered(value, cell)
      q1 == Percentile(ordered, 1)
      q3 == Percentile(ordered, 3)
      reach == Fr!Times(cfg.tukeyK, Fr!Minus(q3, q1))
      logs == Ordered(LAMBDA r : Fr!Whole(LogRatio(r)), cell)
  IN IF Cardinality(cell) < cfg.minCell \/ q3 = q1 THEN {}
     ELSE {r \in cell : /\ FarFromMedian(r, Percentile(logs, 2), cfg)
                        /\ Outside(value(r), Fr!Minus(q1, reach), Fr!Plus(q3, reach))}

TukeyFences(cell, cfg) ==
  LET value(r) == Fr!Whole(LogRatio(r))
      ordered == Ordered(value, cell)
      q1 == Percentile(ordered, 1)
      q3 == Percentile(ordered, 3)
      reach == Fr!Times(cfg.tukeyK, Fr!Minus(q3, q1))
  IN IF Cardinality(cell) < cfg.minCell \/ q3 = q1 THEN {}
     ELSE {r \in cell : /\ FarFromMedian(r, Percentile(ordered, 2), cfg)
                        /\ Outside(value(r), Fr!Minus(q1, reach), Fr!Plus(q3, reach))}

\* Each side is scaled by its own half; a half without width has no fence.
QuartileMethod(cell, cfg) ==
  LET value(r) == Fr!Whole(LogRatio(r))
      ordered == Ordered(value, cell)
      median == Percentile(ordered, 2)
      below == Fr!Minus(median, Percentile(ordered, 1))
      above == Fr!Minus(Percentile(ordered, 3), median)
      low == IF below = Fr!Zero THEN NA ELSE Fr!Minus(median, Fr!Times(cfg.quartileRatio, below))
      high == IF above = Fr!Zero THEN NA ELSE Fr!Plus(median, Fr!Times(cfg.quartileRatio, above))
  IN IF Cardinality(cell) < cfg.minCell THEN {}
     ELSE {r \in cell : FarFromMedian(r, median, cfg) /\ Outside(value(r), low, high)}

\* The distance from the median ratio, weighted by the larger price.
Effect(r, median, u) ==
  LET ratio == Power(LogRatio(r))
      s == IF Fr!Below(ratio, median) THEN Fr!Minus(Fr!Over(median, ratio), Fr!One)
           ELSE Fr!Minus(Fr!Over(ratio, median), Fr!One)
  IN Fr!Times(s, Power(u * Max({r.price, r.previous})))

HidiroglouBerthelot(cell, cfg) ==
  LET ratio(r) == Power(LogRatio(r))
      median == Percentile(Ordered(ratio, cell), 2)
      effect(r) == Effect(r, median, cfg.hbU)
      effects == Ordered(effect, cell)
      middle == Percentile(effects, 2)
      floor == Fr!Times(Fr!Ratio(1, 20), middle)
      larger(x, y) == IF Fr!Below(x, y) THEN y ELSE x
      below == larger(Fr!Minus(middle, Percentile(effects, 1)), floor)
      above == larger(Fr!Minus(Percentile(effects, 3), middle), floor)
      toMedian(r) == Fr!Over(ratio(r), median)
  IN IF Cardinality(cell) < cfg.minCell \/ (below = Fr!Zero /\ above = Fr!Zero) THEN {}
     ELSE {r \in cell : /\ Far(Fr!Times(toMedian(r), toMedian(r)), cfg)
                        /\ Outside(effect(r), Fr!Minus(middle, Fr!Times(cfg.hbC, below)),
                                   Fr!Plus(middle, Fr!Times(cfg.hbC, above)))}

\* A fixed band: neither a cell size nor the deadband.
RatioScreen(cell, cfg) == {r \in cell : Outside(Power(LogRatio(r)), cfg.low, cfg.high)}

Methods == {"tukey", "quartile", "hidiroglou_berthelot", "ratio"}

Screen(method, cell, cfg) ==
  CASE method = "tukey" -> TukeyFences(cell, cfg)
    [] method = "quartile" -> QuartileMethod(cell, cfg)
    [] method = "hidiroglou_berthelot" -> HidiroglouBerthelot(cell, cfg)
    [] method = "ratio" -> RatioScreen(cell, cfg)

\* The review queue: a quote and the screens that flagged it.
Detect(p, category, cfg) ==
  LET relatives == Relatives(p)
      cell(r) == {x \in relatives : x.period = r.period /\ category[x.item] = category[r.item]}
      methods(r) == {m \in Methods : r \in Screen(m, cell(r), cfg)}
  IN {[item |-> r.item, period |-> r.period, methods |-> methods(r)] :
        r \in {x \in relatives : methods(x) # {}}}

Pending(queue, entries) ==
  {q \in queue : ~\E k \in DOMAIN entries : entries[k].item = q.item /\ entries[k].period = q.period}

\* A rejected quote is marked and loses its price; a later entry on the same quote
\* replaces the decision and never the exclusion.
ApplyDecisions(p, entries) ==
  LET on(i, t) == {k \in DOMAIN entries : entries[k].item = i /\ entries[k].period = t}
      rejected(i, t) == \E k \in on(i, t) : entries[k].decision = "reject"
  IN [i \in DOMAIN p |-> [t \in DOMAIN p[i] |->
        [price |-> IF rejected(i, t) THEN NA ELSE p[i][t],
         excluded |-> rejected(i, t),
         decision |-> IF on(i, t) = {} THEN "" ELSE entries[Max(on(i, t))].decision]]]

Prices(out) == [i \in DOMAIN out |-> [t \in DOMAIN out[i] |-> out[i][t].price]]

-----------------------------------------------------------------------------
\* A screen has no direction, no currency and no opinion on a movement all quotes
\* share: exchanging price and previous price flags the same quotes (the median of
\* the Hidiroglou-Berthelot ratios only where it is one of them, the ratio screen
\* where its band is symmetric), so does pricing them in another unit, and so do
\* prices that all doubled for the screens that compare quotes with each other.
ScreensAreFair(cell, cfg) ==
  LET quotes(method, change(_)) == {r.item : r \in Screen(method, {change(x) : x \in cell}, cfg)}
      same(r) == r
      mirrored(r) == [r EXCEPT !.price = r.previous, !.previous = r.price]
      rescaled(r) == [r EXCEPT !.price = @ + 1, !.previous = @ + 1]
      doubled(r) == [r EXCEPT !.price = @ + 1]
      undirected == {"tukey", "quartile"}
                      \cup (IF Cardinality(cell) % 2 = 1 THEN {"hidiroglou_berthelot"} ELSE {})
                      \cup (IF cfg.low = Fr!Inverted(cfg.high) THEN {"ratio"} ELSE {})
      relative == {"tukey", "quartile"} \cup (IF cfg.hbU = 0 THEN {"hidiroglou_berthelot"} ELSE {})
  IN \A method \in Methods :
       /\ quotes(method, rescaled) = quotes(method, same)
       /\ method \in undirected => quotes(method, mirrored) = quotes(method, same)
       /\ method \in relative => quotes(method, doubled) = quotes(method, same)

\* A decision reaches no farther than its quote: the screens of the next
\* compilation differ in the quote's own period and in that of the item's next
\* quote and nowhere else, the quote is not asked about again, and an order of
\* decisions matters only where two of them are on one quote.
DecisionIsLocal(p, category, cfg, entries) ==
  LET out == ApplyDecisions(p, entries)
      before == Detect(p, category, cfg)
      after == Detect(Prices(out), category, cfg)
      rejects == {entries[k] : k \in {j \in DOMAIN entries : entries[j].decision = "reject"}}
      next(e) == {t \in DOMAIN p[e.item] : t > e.period /\ out[e.item][t].price # NA}
      touched == UNION {{e.period} \cup (IF next(e) = {} THEN {} ELSE {Min(next(e))}) : e \in rejects}
      elsewhere(queue) == {q \in queue : q.period \notin touched}
  IN /\ elsewhere(after) = elsewhere(before)
     /\ \A e \in rejects : ~\E q \in after : q.item = e.item /\ q.period = e.period
     /\ Pending(after, entries) \subseteq after
     /\ (\A j, k \in DOMAIN entries : j # k => <<entries[j].item, entries[j].period>>
                                                # <<entries[k].item, entries[k].period>>) =>
          ApplyDecisions(p, [k \in DOMAIN entries |-> entries[Len(entries) + 1 - k]]) = out

-----------------------------------------------------------------------------
(* Cleaning *)

\* The middle value, or the mean of the two in the middle.
Median(prices, S) ==
  IF S = {} THEN NA ELSE Percentile(Ordered(LAMBDA k : prices[k], S), 2)

\* codes are prices that mean "not collected".
RecodeMissing(reported, codes) ==
  <<>> \o [k \in DOMAIN reported |->
             IF reported[k] = NA \/ reported[k] \in codes THEN NA ELSE Fr!Whole(reported[k])]

-----------------------------------------------------------------------------
(* Scale errors *)

Observed(prices) == {k \in DOMAIN prices : prices[k] # NA}
Window(k, width) == (k - width \div 2)..(k + (width - 1) \div 2)

\* The level of an item around a quote: the median of the quotes in a window, of
\* all its quotes where the window has too few.
LocalReference(prices, cfg) ==
  <<>> \o [k \in DOMAIN prices |->
             LET near == Observed(prices) \cap Window(k, cfg.window)
             IN Median(prices, IF Cardinality(near) >= cfg.minPeriods THEN near ELSE Observed(prices))]

Within(ratio, low, high) == ratio # NA /\ Fr!AtMost(low, ratio) /\ Fr!AtMost(ratio, high)

\* A quote about a hundred times, or a hundredth of, its local level.
DetectScaleErrors(prices, cfg) ==
  LET reference == LocalReference(prices, cfg)
  IN <<>> \o [k \in DOMAIN prices |->
       LET ratio == Fr!Over(prices[k], reference[k])
       IN CASE prices[k] = NA -> "missing"
            [] Within(ratio, cfg.low, cfg.high) -> "too high"
            [] ratio # NA /\ Within(Fr!Inverted(ratio), cfg.low, cfg.high) -> "too low"
            [] OTHER -> "none"]

Repair(prices, flag, cfg) ==
  <<>> \o [k \in DOMAIN prices |->
       CASE flag[k] \notin {"too high", "too low"} -> prices[k]
         [] ~cfg.repair -> NA
         [] flag[k] = "too high" -> Fr!Over(prices[k], Fr!Whole(100))
         [] OTHER -> Fr!Times(prices[k], Fr!Whole(100))]

\* What is still far from its local level after the repair.
ResidualCheck(clean, cfg) ==
  LET reference == LocalReference(clean, cfg)
      ratio(k) == Fr!Over(clean[k], reference[k])
  IN {k \in Observed(clean) : ratio(k) # NA /\ ~Within(ratio(k), Fr!Inverted(cfg.tolerance), cfg.tolerance)}

RunQuality(reported, cfg) ==
  LET prices == RecodeMissing(reported, cfg.codes)
      flag == DetectScaleErrors(prices, cfg)
      clean == Repair(prices, flag, cfg)
  IN [flag |-> flag, clean |-> clean, residuals |-> ResidualCheck(clean, cfg)]

-----------------------------------------------------------------------------
(* Missing prices *)

Month(t) == t % 12
Year(t) == t \div 12

\* The periods in which at least four fifths of a category's quotes are missing;
\* rows and missing are sets of <<item, period>>.
Systemic(rows, missing) ==
  {t \in {g[2] : g \in missing} :
     10 * Cardinality({g \in missing : g[2] = t}) >= 8 * Cardinality({r \in rows : r[2] = t})}

\* What the gaps of a category are read as, how many of them the reading is about
\* and how many are left over.
ClassifyMissing(rows, missing) ==
  LET block == {g \in missing : g[2] \in Systemic(rows, missing)}
      hit == {g[2] : g \in block}
      years == Cardinality({Year(r[2]) : r \in rows})
      recurs == /\ IF years < 2 THEN hit # {}
                   ELSE 10 * Cardinality({Year(t) : t \in hit}) >= Max({20, 6 * years})
                /\ Cardinality({Month(t) : t \in hit}) <= 8
      mechanism == CASE block = {} -> "sporadic" [] recurs -> "seasonal" [] OTHER -> "collection"
      evidence == IF block = {} THEN missing ELSE block
  IN IF missing = {} THEN NA
     ELSE [mechanism |-> mechanism, gaps |-> Cardinality(evidence),
           residual |-> Cardinality(missing) - Cardinality(evidence)]

-----------------------------------------------------------------------------
(* Findings that block nothing *)

About(column, holds, dimension, severity, count) ==
  IF holds THEN {[dimension |-> dimension, severity |-> severity, count |-> count, column |-> column]}
  ELSE {}
When(holds, dimension, severity, count) == About(NA, holds, dimension, severity, count)

\* A required column of which some of the n rows are null.
Completeness(null, n) ==
  When(null > 0, "completeness", IF 2 * null > n THEN "critical" ELSE "high", null)

\* The last period against a reference day, in median steps between the periods.
Timeliness(days, reference, staleAfter) ==
  LET next(d) == Min({e \in days : e > d})
      step == Median([d \in days \ {Max(days)} |-> Fr!Whole(next(d) - d)], days \ {Max(days)})
      behind == Fr!Over(Fr!Whole(reference - Max(days)), step)
  IN When(Cardinality(days) > 1 /\ Fr!Below(Fr!Whole(staleAfter), behind), "timeliness", "medium", 0)

Conformity(used, codes) ==
  When(codes # NA /\ ~(used \subseteq codes), "conformity", "high", Cardinality(used \ codes))

\* The gaps that are read as systemic, and quotes a thousand times off; the codes
\* for a missing price are those of the default configuration.
Implausible(prices) ==
  LET ratio(k) == Fr!Over(prices[k], Median(prices, Observed(prices)))
  IN {k \in Observed(prices) : /\ ratio(k) # NA
                               /\ ~Within(ratio(k), Fr!Ratio(1, 1000), Fr!Whole(1000))}
DefaultCodes == {0}
Plausibility(reported) ==
  LET prices(i) == RecodeMissing(reported[i], DefaultCodes)
      rows == UNION {{i} \X DOMAIN reported[i] : i \in DOMAIN reported}
      gaps == ClassifyMissing(rows, {r \in rows : prices(r[1])[r[2]] = NA})
      wild == UNION {{i} \X Implausible(prices(i)) : i \in DOMAIN reported}
  IN When(gaps # NA /\ gaps.mechanism = "seasonal", "plausibility", "low", gaps.gaps)
     \cup When(gaps # NA /\ gaps.mechanism = "collection", "plausibility", "medium", gaps.gaps)
     \cup When(wild # {}, "plausibility", "high", Cardinality(wild))

\* Rows of [price, quantity, expenditure], fractions or NA, where the stated
\* expenditure is farther than a tolerance from price times quantity.
ExpenditureInconsistencies(rows, tolerance) ==
  {k \in DOMAIN rows :
     LET r == rows[k]
         gap == Fr!Minus(r.expenditure, Fr!Times(r.price, r.quantity))
     IN /\ gap # NA
        /\ IF r.expenditure.n = 0 THEN gap.n # 0
           ELSE ~Within(Fr!Over(gap, r.expenditure), Fr!Negated(tolerance), tolerance)}

\* Columns that are absent are NA in every row.
Column(rows, field) == {k \in DOMAIN rows : rows[k][field] # NA}
Quantities(rows, has, tolerance) ==
  UNION {About(c, Column(rows, c) # DOMAIN rows, "completeness", "medium", Len(rows) - Cardinality(Column(rows, c)))
         \cup About(c, \E k \in Column(rows, c) : rows[k][c].n = 0, "validity", "low",
                    Cardinality({k \in Column(rows, c) : rows[k][c].n = 0})) : c \in has}
  \cup When(Cardinality(has) = 2 /\ ExpenditureInconsistencies(rows, tolerance) # {}, "consistency", "high",
            Cardinality(ExpenditureInconsistencies(rows, tolerance)))
  \cup When(has = {"expenditure"}, "conformity", "low", Len(rows))

\* Quantities as given where any is, derived from the expenditures otherwise.
QuantitySeries(rows) ==
  IF Column(rows, "quantity") # {} THEN rows
  ELSE [k \in DOMAIN rows |->
          [rows[k] EXCEPT !.quantity = Fr!Over(rows[k].expenditure, rows[k].price)]]

\* A table of characteristics, rows of [id, values], a value being "number", "text"
\* or NA; priced are the items with prices.
AssessCharacteristics(chars, columns, priced) ==
  LET ids == {chars[k].id : k \in DOMAIN chars}
      missing(c) == {k \in DOMAIN chars : chars[k].values[c] = NA}
      text(c) == {k \in DOMAIN chars : chars[k].values[c] = "text"}
      numbers(c) == DOMAIN chars \ (missing(c) \cup text(c))
      slip(c) == text(c) # {} /\ numbers(c) # {} /\ Cardinality(numbers(c)) >= 3 * Cardinality(text(c))
  IN When(Cardinality(ids) < Len(chars), "uniqueness", "critical", Len(chars) - Cardinality(ids))
     \cup When(columns = {}, "completeness", "critical", 1)
     \cup UNION {About(c, missing(c) # {}, "completeness",
                       IF missing(c) = DOMAIN chars THEN "high" ELSE "medium", Cardinality(missing(c)))
                 \cup About(c, slip(c), "validity", "high", Cardinality(text(c))) : c \in columns}
     \cup When(~(ids \subseteq priced), "conformity", "medium", Cardinality(ids \ priced))
     \cup When(~(priced \subseteq ids), "conformity", "low", Cardinality(priced \ ids))

-----------------------------------------------------------------------------
\* In an item whose price stays within a factor of three, a quote that slipped by a factor of a hundred is found and undone exactly, and no
\* other quote is touched, wherever most of what its level is read from did not slip;
\* and if that is so everywhere the residual check is empty (run_quality).  slip is 1
\* or -1 where true[k] was multiplied or divided by a hundred.
SlipsAreUndone(true, slip, cfg) ==
  LET reported == [k \in DOMAIN true |->
                     IF true[k] = NA THEN NA
                     ELSE CASE slip[k] = 1 -> true[k] * 100 [] slip[k] = -1 -> true[k] \div 100
                            [] OTHER -> true[k]]
      run == RunQuality(reported, cfg)
      seen == {k \in DOMAIN true : reported[k] # NA /\ reported[k] \notin cfg.codes}
      near(k) == LET w == seen \cap Window(k, cfg.window)
                 IN IF Cardinality(w) >= cfg.minPeriods THEN w ELSE seen
      steady == \A j, k \in seen : true[j] <= 3 * true[k]
      sound == {k \in seen : 2 * Cardinality({j \in near(k) : slip[j] # 0}) < Cardinality(near(k))}
  IN /\ steady => \A k \in sound : /\ (run.flag[k] = "none") = (slip[k] = 0)
                                   /\ cfg.repair \/ slip[k] = 0 => run.clean[k] = Fr!Whole(true[k])
     /\ \A k \in DOMAIN true \ seen : run.clean[k] = NA
     /\ steady /\ sound = seen => run.residuals = {}

\* Scattered gaps are noise: filling them leaves the reading of a category's systemic
\* gaps as it was; and an outage within one year of several is never taken for a
\* season (classify_missing).
ReadingIsOfTheBlock(rows, missing) ==
  LET systemic == Systemic(rows, missing)
      block == {g \in missing : g[2] \in systemic}
      reading == ClassifyMissing(rows, missing)
  IN block # {} =>
       /\ ClassifyMissing(rows, block) = [reading EXCEPT !.residual = 0]
       /\ Cardinality({Year(r[2]) : r \in rows}) > 1 /\ Cardinality({Year(t) : t \in systemic}) = 1
            => reading.mechanism = "collection"

\* Quantities derived from expenditures agree with them, so a collection without
\* quantities raises no inconsistency later (quantity_series).
DerivedQuantitiesAgree(rows, tolerance) ==
  Column(rows, "quantity") = {} => ExpenditureInconsistencies(QuantitySeries(rows), tolerance) = {}

\* The priced items that cannot be valued from the table are no more than the
\* findings count, unless one of them is critical (assess_characteristics).
EveryItemIsExplained(chars, columns, priced) ==
  LET findings == AssessCharacteristics(chars, columns, priced)
      complete(i) == \E k \in DOMAIN chars :
                       chars[k].id = i /\ \A c \in columns : chars[k].values[c] # NA
      counted == {f \in findings : f.dimension = "completeness" \/ f.severity = "low"}
  IN (~\E f \in findings : f.severity = "critical") =>
       Cardinality({i \in priced : ~complete(i)}) <= MapThenSumSet(LAMBDA f : f.count, counted)
=================================================================================
