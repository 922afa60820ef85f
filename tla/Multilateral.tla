------------------------------ MODULE Multilateral ------------------------------
(***************************************************************************)
(* Rescaling and joining finished series (pricelab/engine/splicing.py);    *)
(* multilateral indices on a rolling window, and the rules that extend a   *)
(* published series by splicing (pricelab/engine/multilateral.py).         *)
(*                                                                         *)
(* A series maps its periods to the logarithms of its levels, NA where it  *)
(* has none: a ratio is a difference, a rescaling a shift.  Prices and     *)
(* levels are in units that every mean taken here divides.  Every item     *)
(* sold has the same expenditure in every period, so the shares of a       *)
(* Tornqvist index are equal.  The time product dummy is solved for        *)
(* windows of up to three periods.                                         *)
(*                                                                         *)
(* A collection is a sequence of periods; in each, an item has a price, was*)
(* quoted but not sold (Unsold: a quantity of zero), or is missing (NA).   *)
(***************************************************************************)
EXTENDS Integers, Sequences, FiniteSets, SequencesExt, FiniteSetsExt

CONSTANTS NA,       \* no level
          Refused,  \* the call raises
          Items,
          Unsold,
          PeriodsPerYear

Shifted(s, by) == [t \in DOMAIN s |-> IF s[t] = NA \/ by = NA THEN NA ELSE s[t] + by]

HasLevel(s, t) == t \in DOMAIN s /\ s[t] # NA

RebaseTo(s, ref, base) == IF ~HasLevel(s, ref) THEN Refused ELSE Shifted(s, base - s[ref])

\* What puts `new` on the level of `old` at the overlap.
LinkFactor(old, new, overlap) ==
  IF overlap \notin DOMAIN old \/ ~HasLevel(new, overlap) THEN Refused
  ELSE IF old[overlap] = NA THEN NA ELSE old[overlap] - new[overlap]

\* Mutant: keeps the old level at the overlap and shifts only what follows.
Splice_Unscaled(old, new, overlap) ==
  IF LinkFactor(old, new, overlap) = Refused THEN Refused
  ELSE [t \in {u \in DOMAIN old : u < overlap} \cup {u \in DOMAIN new : u >= overlap} |->
          IF t <= overlap THEN old[t] ELSE new[t]]

\* The old series before the overlap, the rescaled new one from there on.
Splice(old, new, overlap) ==
  LET factor == LinkFactor(old, new, overlap)
  IN IF factor = Refused THEN Refused
     ELSE [t \in {u \in DOMAIN old : u < overlap} \cup {u \in DOMAIN new : u >= overlap} |->
             IF t < overlap THEN old[t] ELSE Shifted(new, factor)[t]]

\* Links into levels; the first link is ignored, a missing one holds the level.
Chain(links, base) ==
  LET level[t \in DOMAIN links] ==
        IF t = Min(DOMAIN links) THEN base
        ELSE level[t - 1] + (IF links[t] = NA THEN 0 ELSE links[t])
  IN level

\* The price change that carries a weight from one period to another.
PriceUpdate(s, from, to) ==
  IF ~HasLevel(s, from) \/ to \notin DOMAIN s THEN Refused
  ELSE IF s[to] = NA THEN NA ELSE s[to] - s[from]

\* Chained against direct over their common span, both rebased to its start.
ChainDrift(chained, direct) ==
  LET common == DOMAIN chained \cap DOMAIN direct
      start == Min(common)
      end == Max(common)
  IN IF \/ Cardinality(common) < 2
        \/ ~HasLevel(chained, start) \/ ~HasLevel(direct, start) THEN Refused
     ELSE IF chained[end] = NA \/ direct[end] = NA THEN NA
     ELSE (chained[end] - chained[start]) - (direct[end] - direct[start])

-----------------------------------------------------------------------------
\* Joining two series changes no movement of either ("everything about the new
\* series is preserved except its level"), the join reads the old level, and a
\* series cut in two, or chained from its own movements, is put together again
\* without drift.
JoinsKeepMovements(old, new, overlap, base) ==
  LET out == Splice(old, new, overlap)
      links(s) == [t \in DOMAIN s |-> IF t = Min(DOMAIN s) THEN NA ELSE PriceUpdate(s, t - 1, t)]
      whole(s) == \A t \in DOMAIN s : s[t] # NA
  IN /\ out # Refused /\ HasLevel(old, overlap) =>
          /\ out[overlap] = old[overlap]
          /\ \A t, u \in DOMAIN out : HasLevel(out, t) /\ HasLevel(out, u) =>
               /\ t <= overlap /\ u <= overlap => out[t] - out[u] = PriceUpdate(old, u, t)
               /\ t >= overlap /\ u >= overlap => out[t] - out[u] = PriceUpdate(new, u, t)
          /\ \A p \in DOMAIN old \cap DOMAIN out :
               HasLevel(old, p) /\ new = old => out[p] = old[p]
     /\ whole(new) => /\ ChainDrift(Chain(links(new), base), new) = 0
                      /\ Chain(links(new), base) = RebaseTo(new, Min(DOMAIN new), base)

-----------------------------------------------------------------------------
(* Windows *)

Sum(f(_), S) == MapThenSumSet(f, S)

InOrder(periods) ==
  IF periods = {} THEN <<>>
  ELSE SelectSeq([t \in 1..Max(periods) |-> t], LAMBDA t : t \in periods)

\* Periods nothing was quoted in are not in the panel, periods nothing was sold
\* in are.  A price is dropped when nothing was sold at it.
BuildPanel(collection) ==
  LET at == InOrder({t \in DOMAIN collection : \E i \in Items : collection[t][i] # NA})
  IN [at |-> at,
      row |-> [k \in DOMAIN at |->
                 [i \in Items |-> IF collection[at[k]][i] = Unsold THEN NA
                                  ELSE collection[at[k]][i]]]]

Both(row, s, t) == {i \in Items : row[s][i] # NA /\ row[t][i] # NA}

\* The log bilateral index of two periods; NA with too few items in common.
Bilateral(row, min, s, t) ==
  LET matched == Both(row, s, t)
  IN IF s = t THEN 0
     ELSE IF matched = {} \/ Cardinality(matched) < min THEN NA
     ELSE Sum(LAMBDA i : row[t][i] - row[s][i], matched) \div Cardinality(matched)

\* A bridge can be compared with every period.
Bridges(row, min) ==
  {l \in DOMAIN row : \A u \in DOMAIN row : Bilateral(row, min, l, u) # NA}

Geks(row, min) ==
  LET bridges == Bridges(row, min)
      g(t) == Sum(LAMBDA l : Bilateral(row, min, l, t), bridges) \div Cardinality(bridges)
  IN IF Len(row) < 2 \/ bridges = {} THEN Refused
     ELSE <<0>> \o [k \in 1..(Len(row) - 1) |-> g(k + 1) - g(1)]

\* The normal equations of ln p(i,t) = alpha + delta(t) + gamma(i), the item
\* effects eliminated and multiplied by six.  Where the items do not connect the
\* periods the solution is not determined by the data: NA.
TimeProductDummy(row) ==
  LET T == Len(row)
      sold(i) == {t \in DOMAIN row : row[t][i] # NA}
      in(t) == {i \in Items : row[t][i] # NA}
      share(i) == 6 \div Cardinality(sold(i))
      m(s, t) == IF s = t THEN Sum(LAMBDA i : 6 - share(i), in(t))
                 ELSE -Sum(share, Both(row, s, t))
      r(t) == Sum(LAMBDA i : 6 * row[t][i] - share(i) * Sum(LAMBDA s : row[s][i], sold(i)), in(t))
      det == IF T = 2 THEN m(2, 2) ELSE m(2, 2) * m(3, 3) - m(2, 3) * m(2, 3)
      delta(t) == IF T = 2 THEN r(2)
                  ELSE r(t) * m(5 - t, 5 - t) - r(5 - t) * m(2, 3)
  IN IF T < 2 \/ (\A t \in DOMAIN row : in(t) = {}) THEN Refused
     ELSE IF det = 0 THEN NA
     ELSE <<0>> \o [k \in 1..(T - 1) |-> delta(k + 1) \div det]

\* GEKS weights by quantities and refuses a collection of prices alone.
MultilateralIndex(row, cfg) ==
  IF cfg.method = "tpd" THEN TimeProductDummy(row)
  ELSE IF ~cfg.quantities THEN Refused
  ELSE Geks(row, cfg.minMatched)

-----------------------------------------------------------------------------
\* Extension.  A state is [level, spread, windows], or Refused, or NA.

\* The level of a period, linked at each earlier period of the new window.
LinkCandidates(level, new, first, at) ==
  [pos \in first..(at - 1) |-> level[pos] + new[at - first + 1] - new[pos - first + 1]]

SplicePositions(first, last, splice) ==
  CASE splice = "movement" -> {last}
    [] splice = "window" -> {first}
    [] splice = "half" -> {first + (last - first + 1) \div 2}
    [] splice = "mean" -> first..last

\* Period `at` on the window from `first`, linked through `used`.
Published(state, row, cfg, first, at, used) ==
  LET new == MultilateralIndex(SubSeq(row, first, at), cfg)
      candidates == LinkCandidates(state.level, new, first, at)
      values == {candidates[pos] : pos \in DOMAIN candidates}
  IN IF state \in {Refused, NA} THEN state
     ELSE IF new \in {Refused, NA} THEN new
     ELSE [level |-> Append(state.level, Sum(LAMBDA pos : candidates[pos], used)
                                           \div Cardinality(used)),
           spread |-> Append(state.spread, Max(values) - Min(values)),
           windows |-> state.windows + 1]

\* The first period of the window that ends at `at`.
WindowStart(cfg, at) == at - cfg.window + 1

Whole(row, cfg) ==
  LET new == MultilateralIndex(row, cfg)
  IN IF new \in {Refused, NA} THEN new
     ELSE [level |-> new, spread |-> [t \in DOMAIN row |-> 0], windows |-> 1]

\* Mutant: computes the first window on everything that has arrived.
Rolling_FirstIsWhole(row, cfg) ==
  FoldLeft(LAMBDA state, at :
             Published(state, row, cfg, WindowStart(cfg, at), at,
                       SplicePositions(WindowStart(cfg, at), at - 1, cfg.splice)),
           LET all == Whole(row, cfg)
           IN IF all \in {Refused, NA} THEN all
              ELSE [all EXCEPT !.level = SubSeq(@, 1, cfg.window),
                               !.spread = SubSeq(@, 1, cfg.window)],
           [k \in 1..(Len(row) - cfg.window) |-> cfg.window + k])

\* The first full window as computed, then one period at a time.
Rolling(row, cfg) ==
  FoldLeft(LAMBDA state, at :
             Published(state, row, cfg, WindowStart(cfg, at), at,
                       SplicePositions(WindowStart(cfg, at), at - 1, cfg.splice)),
           Whole(SubSeq(row, 1, cfg.window), cfg),
           [k \in 1..(Len(row) - cfg.window) |-> cfg.window + k])

SeasonOf(t) == ((t - 1) % PeriodsPerYear) + 1

\* Periods that restart an expanding window: the first, each anchor month, and
\* the one that fills a window.
AnchorPositions(at, cfg) ==
  FoldLeft(LAMBDA anchors, i :
             IF SeasonOf(at[i]) = cfg.anchorMonth \/ i - Max(anchors) >= cfg.window - 1
             THEN anchors \cup {i} ELSE anchors,
           {1}, [i \in 1..(Len(at) - 1) |-> i + 1])

\* The window of a period begins at the last anchor before it.
FixedBaseExtend(p, cfg) ==
  LET anchor(t) == Max({a \in AnchorPositions(p.at, cfg) : a < t})
  IN FoldLeft(LAMBDA state, t :
                Published(state, p.row, cfg, anchor(t), t,
                          {IF cfg.splice = "fbew" THEN anchor(t) ELSE t - 1}),
              [level |-> <<0>>, spread |-> <<0>>, windows |-> 0],
              [k \in 1..(Len(p.row) - 1) |-> k + 1])

Extend(collection, cfg) ==
  LET p == BuildPanel(collection)
  IN IF p.at = <<>> THEN Refused
     ELSE IF Len(p.at) <= cfg.window THEN Whole(p.row, cfg)
     ELSE IF cfg.splice \in {"fbew", "fbmw"} THEN FixedBaseExtend(p, cfg)
     ELSE Rolling(p.row, cfg)

\* The same data under every configuration asked for: the movement over the
\* whole span, NA for a combination that could not be computed.
MethodComparison(collection, configs) ==
  [cfg \in configs |->
     LET out == Extend(collection, cfg)
     IN IF out \in {Refused, NA} \/ Len(BuildPanel(collection).at) < 2 THEN NA
        ELSE Last(out.level) - out.level[1]]

\* How far apart the combinations that were computed finished.
ComparisonSpread(comparison) ==
  LET finals == {comparison[c] : c \in DOMAIN comparison} \ {NA}
  IN IF finals = {} THEN NA ELSE Max(finals) - Min(finals)

\* The chained bilateral index of the same data against a multilateral one.
DriftAgainstChained(collection, level) ==
  LET row == BuildPanel(collection).row
      links == [t \in DOMAIN row |-> IF t = 1 THEN NA ELSE Bilateral(row, 2, t - 1, t)]
  IN ChainDrift(Chain(links, 0), level)

-----------------------------------------------------------------------------
\* Seasonal forms: every season of the year is a collection of its own.

\* The periods of a season that were quoted, and its own index.
SeasonPeriods(collection, season) ==
  {t \in DOMAIN collection : SeasonOf(t) = season /\ \E i \in Items : collection[t][i] # NA}

SubIndex(collection, season, cfg) ==
  LET periods == SeasonPeriods(collection, season)
  IN IF Cardinality(periods) < 2 THEN Refused
     ELSE Extend([t \in periods |-> collection[t]], cfg)

\* A period of a season against the one before it.
Movement(level, rank) == level[rank] - level[rank - 1]

\* A period against the period before it in the index of its season.
YearOverYear(collection, cfg) ==
  LET sub == [s \in 1..PeriodsPerYear |-> SubIndex(collection, s, cfg)]
      rank(t) == Cardinality({u \in SeasonPeriods(collection, SeasonOf(t)) : u <= t})
      compared == {t \in DOMAIN collection :
                     /\ sub[SeasonOf(t)] \notin {Refused, NA}
                     /\ t \in SeasonPeriods(collection, SeasonOf(t)) /\ rank(t) > 1}
  IN IF \A s \in DOMAIN sub : sub[s] = Refused THEN Refused
     ELSE [t \in compared |-> Movement(sub[SeasonOf(t)].level, rank(t))]

\* The mean of the last PeriodsPerYear comparisons, accumulated.
RollingYear(yoy) ==
  LET at == InOrder(DOMAIN yoy)
      mean(k) == Sum(LAMBDA j : yoy[at[j]], (k - PeriodsPerYear + 1)..k) \div PeriodsPerYear
  IN [k \in PeriodsPerYear..Len(at) |-> Sum(mean, PeriodsPerYear..k)]

-----------------------------------------------------------------------------
Splices == {"movement", "window", "half", "mean", "fbew", "fbmw"}
FixedBase == {"fbew", "fbmw"}

\* What is published is not revised: a further period leaves the levels of the
\* earlier ones alone, from the first full window on -- and for the fixed-base
\* rules from the period after it, because they publish the first window over
\* again once there is more than one.
HistoryStands(collection, cfg) ==
  LET out == Extend(collection, cfg)
      before == Front(collection)
      earlier == Extend(before, cfg)
      full == cfg.window + (IF cfg.splice \in FixedBase THEN 1 ELSE 0)
  IN out \notin {Refused, NA} =>
       /\ Len(out.level) = Len(BuildPanel(collection).at)
       /\ Len(BuildPanel(before).at) >= full =>
            earlier \notin {Refused, NA} /\ IsPrefix(earlier.level, out.level)

\* The rules differ only where the spread said so: two rolling rules agree up to
\* the first period whose candidates disagree.  Where the items are the same
\* throughout, every rule and both methods give the direct comparison, and a
\* chained index has not drifted from it; two periods of one window with the same
\* prices have the same level.
SplicesAgree(collection, cfg) ==
  LET row == BuildPanel(collection).row
      by(splice) == Extend(collection, [cfg EXCEPT !.splice = splice])
      movement == by("movement")
      whole == [t \in 1..cfg.window |-> row[t]]
      index == MultilateralIndex(whole, cfg)
      rules == {[cfg EXCEPT !.splice = splice, !.method = method] :
                  splice \in Splices, method \in {"geks", "tpd"}}
      matched == /\ Len(row) >= 2 /\ cfg.minMatched <= Cardinality(Items) /\ cfg.quantities
                 /\ \A t \in DOMAIN row, i \in Items : row[t][i] # NA
  IN /\ movement \notin {Refused, NA} =>
          \A splice \in Splices \ FixedBase :
            LET other == by(splice)
            IN \A t \in DOMAIN other.level :
                 (\A u \in 1..t : other.spread[u] = 0) => other.level[t] = movement.level[t]
     /\ matched =>
          /\ \A splice \in Splices :
               LET out == by(splice)
               IN /\ \A t \in DOMAIN row :
                       out.spread[t] = 0 /\ out.level[t] = Bilateral(row, 1, 1, t)
                  /\ DriftAgainstChained(collection, out.level) = 0
          /\ ComparisonSpread(MethodComparison(collection, rules)) = 0
     /\ cfg.window <= Len(row) /\ index \notin {Refused, NA} =>
          \A s, t \in DOMAIN whole : whole[s] = whole[t] => index[s] = index[t]

\* "Compares each month only against the same month in other years": a season seen
\* once has no figure, every other period but the first of its season has one, and
\* under steady growth it shows the annual rate, and the rolling year the same rate,
\* wherever the season was observed "one year earlier".  Nothing is claimed over a gap:
\* there the code reads the last year observed before it, and shows the growth of all
\* the years between as one.
SeasonsKeepTheRate(collection, growth, cfg) ==
  LET yoy == YearOverYear(collection, cfg)
      seen == {t \in DOMAIN collection : \E i \in Items : collection[t][i] # NA}
      later == {t \in seen : \E u \in SeasonPeriods(collection, SeasonOf(t)) : u < t}
      annual == {t \in later : t - PeriodsPerYear \in seen}
  IN IF yoy = Refused THEN later = {}
     ELSE /\ DOMAIN yoy = later
          /\ \A t \in annual : yoy[t] = growth
          /\ later = annual => \A k \in DOMAIN RollingYear(yoy) :
                                 RollingYear(yoy)[k] = growth * (k - PeriodsPerYear + 1)
=================================================================================
