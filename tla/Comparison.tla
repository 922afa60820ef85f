------------------------------- MODULE Comparison -------------------------------
(***************************************************************************)
(* Prices compared between regions (pricelab/engine/spatial.py), and       *)
(* nominal values in the prices of a reference period or in another        *)
(* currency (pricelab/engine/deflation.py).                                *)
(*                                                                         *)
(* A price list maps the products a region prices to logarithms of their   *)
(* prices.  A country product dummy has the normal equations of a time     *)
(* product dummy with the base region first, so it is solved by            *)
(* Multilateral.  A series to deflate maps months, counted from a January, *)
(* to fractions; a frequency is its number of months.                      *)
(***************************************************************************)
EXTENDS Integers, Sequences, FiniteSets, SequencesExt, FiniteSetsExt

CONSTANTS NA, Refused, Unsold, Products

Mul == INSTANCE Multilateral WITH Items <- Products, PeriodsPerYear <- 12

Priced(prices, r) == {i \in Products : prices[r][i] # NA}
Regions(prices) == {r \in DOMAIN prices : Priced(prices, r) # {}}

OverlapMatrix(prices) ==
  [r, s \in Regions(prices) |-> Cardinality(Priced(prices, r) \cap Priced(prices, s))]

\* The most products shared with any one other region.
SharedProducts(overlap, regions, r) ==
  IF regions \ {r} = {} THEN 0 ELSE Max({overlap[r, s] : s \in regions \ {r}})

\* Everything a chain of shared products reaches from the base.
ConnectedTo(prices, base) ==
  LET grown(reached) ==
        {r \in Regions(prices) : \E s \in reached : Priced(prices, r) \cap Priced(prices, s) # {}}
      steps[n \in Nat] == IF n = 0 THEN {base} ELSE grown(steps[n - 1])
  IN steps[Cardinality(Regions(prices))]

ConnectedPart(prices, base) ==
  LET connected == ConnectedTo(prices, base)
  IN IF base \notin Regions(prices) \/ Cardinality(connected) < 2 THEN Refused ELSE connected

\* Thin regions, the base excepted, and those no chain reaches.
Withheld(prices, base, minOverlap) ==
  {r \in Regions(prices) \ {base} :
     \/ SharedProducts(OverlapMatrix(prices), Regions(prices), r) < minOverlap
     \/ r \notin ConnectedTo(prices, base)}

ThinPairs(prices, minOverlap) ==
  {pair \in kSubset(2, Regions(prices)) :
     \E r, s \in pair : r # s /\ OverlapMatrix(prices)[r, s] < minOverlap}

\* Estimated logarithms of parities, and those that are published.
Cpd(prices, base, minOverlap) ==
  LET connected == ConnectedPart(prices, base)
      others == SetToSeq(connected \ {base})
      order == <<base>> \o others
      fitted == Mul!TimeProductDummy([k \in DOMAIN order |-> prices[order[k]]])
      estimate(r) == IF r \in connected THEN fitted[CHOOSE k \in DOMAIN order : order[k] = r] ELSE NA
  IN IF connected = Refused THEN Refused
     ELSE IF fitted \in {NA, Refused} THEN fitted
     ELSE [estimated |-> [r \in Regions(prices) |-> estimate(r)],
           published |-> [r \in Regions(prices) |->
                            IF r \in Withheld(prices, base, minOverlap) THEN NA ELSE estimate(r)]]

Convert(values, result) ==
  [r \in DOMAIN values |->
     IF r \notin DOMAIN result.published \/ result.published[r] = NA \/ values[r] = NA THEN NA
     ELSE values[r] - result.published[r]]

PriceLevelIndices(result, rates) ==
  LET common == {r \in DOMAIN rates \cap DOMAIN result.published :
                   result.published[r] # NA}
  IN IF common = {} THEN Refused ELSE [r \in common |-> result.published[r] - rates[r]]

-----------------------------------------------------------------------------
\* The base is a choice of unit: between two regions that chains of products
\* connect the parity is the same whichever is the base, the fit never fails once
\* they are connected, and a region is published under one base and withheld
\* under another only where it is the base itself.  Regions whose prices differ by
\* a factor have that factor as their parity.
BaseIsAUnit(prices, minOverlap) ==
  \A b \in Regions(prices) :
    LET one == Cpd(prices, b, minOverlap)
        connected == ConnectedTo(prices, b)
        factor(r) == {prices[r][i] - prices[b][i] : i \in Priced(prices, r) \cap Priced(prices, b)}
    IN /\ one = Refused <=> connected = {b}
       /\ one # Refused =>
            /\ one # NA
            /\ {r \in Regions(prices) : one.estimated[r] # NA} = connected
            /\ \A c \in connected \ {b} :
                 LET other == Cpd(prices, c, minOverlap)
                 IN \A r \in connected :
                      /\ other.estimated[r] = one.estimated[r] - one.estimated[c]
                      /\ r \notin {b, c} => (one.published[r] = NA <=> other.published[r] = NA)
            /\ \A r \in connected :
                 Regions(prices) = {b, r} /\ Cardinality(factor(r)) = 1 =>
                   {one.estimated[r]} = factor(r)

-----------------------------------------------------------------------------
(* Deflation *)

Fr == INSTANCE Ratios

Year(m) == m \div 12
Floor(m, months) == m - (m % months)
Mean(s, S) == Fr!Over(Fr!SumOf(LAMBDA m : s[m], S), Fr!Whole(Cardinality(S)))

\* Monthly, quarterly or annual where every step is the same; else refused.
FrequencyOf(s) ==
  LET next(m) == Min({k \in DOMAIN s : k > m})
      steps == {next(m) - m : m \in {k \in DOMAIN s : \E l \in DOMAIN s : l > k}}
  IN IF \E f \in {1, 3, 12} : steps = {f} THEN CHOOSE f \in steps : TRUE ELSE Refused

\* A period of the coarser frequency is there only when all of its parts are.
Complete(s, first, target, source) ==
  Cardinality({m \in DOMAIN s : Floor(m, target) = first}) = target \div source

ToFrequency(s, target, how) ==
  LET source == FrequencyOf(s)
      parts(first) == {m \in DOMAIN s : Floor(m, target) = first}
      converted(first) == CASE how = "mean" -> Mean(s, parts(first))
                            [] how = "sum" -> Fr!SumOf(LAMBDA m : s[m], parts(first))
                            [] how = "last" -> s[Max(parts(first))]
  IN IF source = Refused THEN Refused
     ELSE IF target < source THEN Refused
     ELSE IF target = source THEN s
     ELSE [first \in {f \in {Floor(m, target) : m \in DOMAIN s} : Complete(s, f, target, source)}
             |-> converted(first)]

\* The nominal series on the periods the deflator has.
Align(nominal, deflator, partial) ==
  LET n == FrequencyOf(nominal)
      missing == DOMAIN nominal \ DOMAIN deflator
  IN IF n = Refused \/ n # FrequencyOf(deflator) \/ (missing # {} /\ ~partial) THEN Refused
     ELSE [m \in DOMAIN nominal \ missing |-> nominal[m]]

\* A reference is one period, or every period of a year.
ReferencePeriods(deflator, reference) ==
  IF reference.kind = "period" THEN {reference.at} \cap DOMAIN deflator
  ELSE LET within == {m \in DOMAIN deflator : Year(m) = reference.at}
       IN IF Cardinality(within) = 12 \div FrequencyOf(deflator) THEN within ELSE {}

Deflate(nominal, deflator, reference, partial) ==
  LET aligned == Align(nominal, deflator, partial)
      at == ReferencePeriods(deflator, reference)
      rebased == [m \in DOMAIN deflator |-> Fr!Over(deflator[m], Mean(deflator, at))]
  IN IF aligned = Refused \/ \E m \in DOMAIN deflator : ~Fr!Below(Fr!Zero, deflator[m]) THEN Refused
     ELSE IF at = {} THEN Refused
     ELSE [nominal |-> aligned, deflator |-> rebased, reference |-> at,
           real |-> [m \in DOMAIN aligned |-> Fr!Over(aligned[m], rebased[m])]]

\* Against the period `horizon` rows earlier.
Earlier(s, m, horizon) ==
  LET before == {k \in DOMAIN s : k < m}
      at == {k \in before : Cardinality({l \in before : l >= k}) = horizon}
  IN IF at = {} THEN NA ELSE CHOOSE k \in at : TRUE

RealGrowth(result, horizon) ==
  [m \in DOMAIN result.nominal |->
     LET k == Earlier(result.nominal, m, horizon)
     IN IF k = NA THEN NA
        ELSE Fr!Minus(Fr!Over(Fr!Over(result.nominal[m], result.nominal[k]),
                              Fr!Over(result.deflator[m], result.deflator[k])), Fr!One)]

VolumeIndex(result) ==
  IF ~(result.reference \subseteq DOMAIN result.real) THEN Refused
  ELSE [m \in DOMAIN result.real |-> Fr!Over(result.real[m], Mean(result.real, result.reference))]

\* A year's parity is held through the year only when asked for.
PppConvert(values, ppp, broadcast) ==
  LET fv == FrequencyOf(values)
      fp == FrequencyOf(ppp)
      ofYear == [y \in {Year(m) : m \in DOMAIN ppp} |-> ppp[Max({m \in DOMAIN ppp : Year(m) = y})]]
      used == IF fv = fp THEN ppp ELSE [m \in DOMAIN values |-> ofYear[Year(m)]]
      covered == IF fv = fp THEN DOMAIN values \subseteq DOMAIN ppp
                 ELSE \A m \in DOMAIN values : Year(m) \in DOMAIN ofYear
  IN IF Refused \in {fv, fp} \/ (fv # fp /\ ~(fp = 12 /\ broadcast)) \/ ~covered THEN Refused
     ELSE IF \E m \in DOMAIN values : ~Fr!Below(Fr!Zero, used[m]) THEN Refused
     ELSE [m \in DOMAIN values |-> Fr!Over(values[m], used[m])]

PriceLevelIndex(ppp, rate) ==
  LET common == DOMAIN ppp \cap DOMAIN rate
  IN IF Refused \in {FrequencyOf(ppp), FrequencyOf(rate)} \/ FrequencyOf(ppp) # FrequencyOf(rate)
        \/ common = {} THEN Refused
     ELSE [m \in common |-> Fr!Over(ppp[m], rate[m])]

-----------------------------------------------------------------------------
\* The reference is a choice of unit: two references give real series in one
\* proportion, the same real growth -- which is that of the real series itself --
\* and a volume index that averages one over the reference it names.
ReferenceIsAUnit(nominal, deflator, references, partial) ==
  \A p, q \in references :
    LET a == Deflate(nominal, deflator, p, partial)
        b == Deflate(nominal, deflator, q, partial)
        v == VolumeIndex(a)
    IN a # Refused /\ b # Refused =>
         /\ Cardinality({Fr!Over(a.real[m], b.real[m]) : m \in DOMAIN a.real}) <= 1
         /\ RealGrowth(a, 1) = RealGrowth(b, 1)
         /\ \A m \in DOMAIN a.real :
              LET k == Earlier(a.real, m, 1)
              IN k # NA => RealGrowth(a, 1)[m] = Fr!Minus(Fr!Over(a.real[m], a.real[k]), Fr!One)
         /\ p.kind = "period" /\ p.at \in DOMAIN a.real => a.real[p.at] = nominal[p.at]
         /\ v # Refused => Mean(v, a.reference) = Fr!One

\* Converting in one step or in two is the same, and the year's parity makes no
\* difference to when the months are added up.
ConversionsCompose(s, ppp) ==
  /\ \A how \in {"mean", "sum", "last"} :
       LET quarters == ToFrequency(s, 3, how)
           years == ToFrequency(s, 12, how)
           both == IF quarters = Refused THEN Refused ELSE ToFrequency(quarters, 12, how)
       IN Refused \notin {quarters, years, both} => both = years
  /\ LET converted == PppConvert(s, ppp, TRUE)
         added == ToFrequency(s, 12, "sum")
         annual == IF added = Refused THEN Refused ELSE PppConvert(added, ppp, FALSE)
     IN Refused \notin {converted, annual} => ToFrequency(converted, 12, "sum") = annual
=================================================================================
