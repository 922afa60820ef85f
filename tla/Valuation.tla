------------------------------- MODULE Valuation -------------------------------
(***************************************************************************)
(* What a replacement is worth against the item it replaces, and what the  *)
(* valuations do to the headline: pricelab/engine/quality_adjustment.py    *)
(* and the form of pages/quality_adjustment.py, applied to the collection  *)
(* by Adjustments and indexed by IndexSeries.                              *)
(*                                                                         *)
(* Prices, quantities and quality ratios are logarithms to the base 2, so  *)
(* a ratio is a difference.  What is added up (an option's cost, index     *)
(* points) is an exact fraction of powers of two.                          *)
(***************************************************************************)
EXTENDS IndexSeries, Sequences

Fr == INSTANCE Ratios
Adj == INSTANCE Adjustments

Power(k) == IF k = NA THEN NA ELSE Fr!Ratio(2 ^ Max({k, 0}), 2 ^ Max({-k, 0}))
Log2(x) == CHOOSE k \in -9..9 : Power(k) = x

-----------------------------------------------------------------------------
\* The new item in terms of the old one's quality, and the pure price change.
Build(from, to, q) ==
  IF NA \in {from, to, q} THEN Refused
  ELSE [from |-> from, to |-> to, q |-> q, adjusted |-> to - q, pure |-> to - q - from]

\* Both items priced in one period; the link is the new item's next period
\* unless one is named.
Overlap(p, old, new, at, period) ==
  LET later == {t \in T : t > at /\ Priced(p, new, t)}
      t == IF period # 0 THEN period ELSE Min(later)
  IN IF \/ ~Priced(p, old, at) \/ ~Priced(p, new, at)
        \/ period = 0 /\ later = {}
        \/ period # 0 /\ ~Priced(p, new, period) THEN Refused
     ELSE Build(p[old][at], p[new][t], p[new][at] - p[old][at])

LinkToShowNoChange(from, to) == Build(from, to, to - from)

\* The change of continuing items of the category, chosen (targeted) or all.
MeanImputation(p, peers, u, t, from, to) ==
  LET relative == MeanChange(p, peers, u, t)
  IN IF relative = NA THEN Refused ELSE Build(from, to, to - from - relative)

\* The pure change of other replacements of the class.
ReplacementMean(relatives, from, to) ==
  IF relatives = <<>> THEN Refused
  ELSE Build(from, to, to - from - MapThenSumSet(LAMBDA k : relatives[k], DOMAIN relatives)
                                     \div Len(relatives))

DirectComparison(from, to) == Build(from, to, 0)

QuantityAdjustment(from, to, oldQuantity, newQuantity) ==
  IF NA \in {oldQuantity, newQuantity} THEN Refused ELSE Build(from, to, newQuantity - oldQuantity)

\* The old item is priced with the option, or without it.
OptionCost(from, to, value, added, share) ==
  LET cost == Fr!Times(value, share)
      adjustedOld == IF added THEN Fr!Plus(Power(from), cost) ELSE Fr!Minus(Power(from), cost)
  IN IF ~Fr!Below(Fr!Zero, adjustedOld) \/ Fr!Below(value, Fr!Zero)
        \/ Fr!Below(share, Fr!Zero) \/ Fr!Below(Fr!One, share) THEN Refused
     ELSE Build(from, to, Log2(adjustedOld) - from)

-----------------------------------------------------------------------------
\* The form: the old price is the last one before the link, or the first there
\* is; imputations by a mean need one before the link.
OldPrice(p, old, t) ==
  LET before == LastObserved(p, old, t - 1)
  IN IF before # 0 THEN p[old][before] ELSE p[old][Min({u \in T : Priced(p, old, u)})]

ValuationForm(p, old, new, t, choice) ==
  LET from == OldPrice(p, old, t)
      to == p[new][t]
      before == LastObserved(p, old, t - 1)
      peers == DOMAIN p \ {old, new}
  IN IF ~Priced(p, new, t) \/ ~\E u \in T : Priced(p, old, u) THEN Refused
     ELSE CASE choice.method = "overlap" -> Overlap(p, old, new, choice.at, t)
            [] choice.method = "direct" -> DirectComparison(from, to)
            [] choice.method = "no_change" -> LinkToShowNoChange(from, to)
            [] choice.method = "quantity" -> QuantityAdjustment(from, to, 0, choice.quantity)
            [] choice.method = "option" ->
                 OptionCost(from, to, Power(from + choice.quantity), choice.quantity >= 0, Power(0))
            [] choice.method = "class" -> ReplacementMean(choice.relatives, from, to)
            [] choice.method = "mean" ->
                 IF before = 0 THEN Refused ELSE MeanImputation(p, peers, before, t, from, to)

\* Items that left and items that arrived within maxGap periods of it.
ReplacementCandidates(p, maxGap) ==
  LET seen(i) == {t \in T : Priced(p, i, t)}
      quoted == {t \in T : \E i \in DOMAIN p : Priced(p, i, t)}
      near(e, n) ==
        /\ e # n /\ seen(e) # {} /\ seen(n) # {}
        /\ Max(seen(e)) < Max(quoted) /\ Min(seen(n)) > Min(quoted)
        /\ Cardinality({t \in quoted : t <= Min(seen(n))})
             - Cardinality({t \in quoted : t <= Max(seen(e))}) \in 0..maxGap
  IN {pair \in (DOMAIN p) \X (DOMAIN p) : near(pair[1], pair[2])}

-----------------------------------------------------------------------------
\* The prices after the ledger was applied.  An item that was not priced keeps
\* its row.
LinkedPrices(p, entries) ==
  LET out == Adj!ApplyAdjustments([i \in DOMAIN p |-> T], entries)
      q(row) == MapThenSumSet(LAMBDA k : row.divided[k].q, DOMAIN row.divided)
      rows(i, t) == {r \in out.rows : r.item = i /\ r.period = t}
      price(r) == IF p[r.from][r.period] = NA THEN NA ELSE p[r.from][r.period] - q(r)
  IN IF out = Refused THEN Refused
     ELSE [i \in DOMAIN p |-> [t \in T |->
             IF rows(i, t) = {} THEN NA ELSE price(CHOOSE r \in rows(i, t) : TRUE)]]

\* Points by which a valuation moves the link of its cell: relative to the link
\* under Jevons, as a difference under Carli and Dutot.
IndexPointEffect(q, cell, raw, to) ==
  IF cell = NA THEN NA
  ELSE CASE cell.formula = "jevons" -> Fr!Minus(Power(-(q \div cell.n)), Fr!One)
         [] cell.formula = "carli" -> Fr!Over(Fr!Minus(Power(raw - q), Power(raw)), Fr!Whole(cell.n))
         [] cell.formula = "dutot" ->
              IF cell.sum = NA THEN Refused
              ELSE Fr!Over(Fr!Minus(Power(to - q), Power(to)), cell.sum)

WithoutRatios(entries, S) == [k \in DOMAIN entries |-> IF k \in S THEN [entries[k] EXCEPT !.q = 0]
                                                       ELSE entries[k]]

FinalLevel(p, entries, cfg) ==
  LET linked == LinkedPrices(p, entries)
  IN IF linked = Refused THEN Refused
     ELSE LET out == BuildIndex(linked, cfg)
          IN IF out = Refused THEN Refused ELSE Power(out[Periods])

\* As configured, linked at ratio 1, not linked, and without each valuation.
ImpactReport(p, entries, cfg) ==
  LET configured == FinalLevel(p, entries, cfg)
      unadjusted == FinalLevel(p, WithoutRatios(entries, DOMAIN entries), cfg)
      effect == [k \in DOMAIN entries |->
                   Fr!Minus(configured, FinalLevel(p, WithoutRatios(entries, {k}), cfg))]
      total == Fr!Minus(configured, unadjusted)
  IN IF configured = Refused THEN Refused
     ELSE [level |-> configured, adjustment |-> total,
           linking |-> Fr!Minus(configured, FinalLevel(p, <<>>, cfg)),
           effect |-> effect,
           residual |-> Fr!Minus(total, Fr!SumOf(LAMBDA k : effect[k], DOMAIN entries))]

-----------------------------------------------------------------------------
\* The price change the ledger shows an analyst before approving it is the one
\* the series then makes: from the period the old price was read in to the link
\* -- unless the old item had no price before the link, and its first one stood
\* in.  Linked without change the series does not move, by a mean it moves as its
\* peers do and its index with it; and where the two items always moved alike an
\* overlap puts the series of the old one together again.
PureChangeIsRecorded(p, old, new, t, choice) ==
  LET v == ValuationForm(p, old, new, t, choice)
      out == LinkedPrices(p, <<[old |-> old, new |-> new, period |-> t, q |-> v.q]>>)
      u == IF choice.method = "overlap" THEN choice.at ELSE LastObserved(p, old, t - 1)
      peers == DOMAIN p \ {old, new}
      alike == \E gap \in -6..6 : \A w \in T :
                 Priced(p, old, w) /\ Priced(p, new, w) => p[new][w] - p[old][w] = gap
      without == [i \in peers |-> p[i]]
      cfg == [chained |-> TRUE, minMatched |-> 1, priceRef |-> 0, indexRef |-> 0]
  IN v # Refused =>
       /\ u # 0 => out[old][t] - out[old][u] = v.pure
       /\ choice.method = "no_change" /\ u # 0 => out[old][t] = out[old][u]
       /\ choice.method = "mean" /\ u = t - 1 =>
            LET all == BuildIndex(out, cfg)
                rest == BuildIndex(without, cfg)
            IN all[t] - all[u] = rest[t] - rest[u]
       /\ choice.method = "overlap" /\ alike =>
            \A w \in T : Priced(p, old, w) /\ out[old][w] # NA => out[old][w] = p[old][w]
       /\ \A w \in T : out[new][w] = NA

\* Index points are what the valuation does to the cell it is in, whatever the
\* formula, and a candidate pair can always be linked where it is suggested.
EffectIsOnTheCell(p, old, new, t, choice) ==
  LET v == ValuationForm(p, old, new, t, choice)
      at(q) == LinkedPrices(p, <<[old |-> old, new |-> new, period |-> t, q |-> q]>>)
      cell == Matched(at(0), DOMAIN p, t - 1, t)
      n == Cardinality(cell)
      sum(q, w) == Fr!SumOf(LAMBDA i : Power(at(q)[i][w]), cell)
      carli(q) == Fr!Over(Fr!SumOf(LAMBDA i : Power(at(q)[i][t] - at(q)[i][t - 1]), cell), Fr!Whole(n))
      link(q) == MeanChange(at(q), DOMAIN p, t - 1, t)
      points(formula) ==
        IndexPointEffect(v.q, [formula |-> formula, n |-> n, sum |-> sum(0, t - 1)],
                         p[new][t] - p[old][t - 1], p[new][t])
  IN v # Refused /\ old \in cell =>
       /\ v.q % n = 0 => points("jevons") = Fr!Minus(Power(link(v.q) - link(0)), Fr!One)
       /\ points("carli") = Fr!Minus(carli(v.q), carli(0))
       /\ points("dutot") = Fr!Minus(Fr!Over(sum(v.q, t), sum(0, t - 1)),
                                     Fr!Over(sum(0, t), sum(0, t - 1)))

\* Of two valuations the report leaves exactly their interaction unexplained: the
\* residual times the level is minus the product of their effects, so it vanishes
\* when one of them does nothing, and its sign says whether they pull together.
ResidualIsInteraction(p, entries, cfg) ==
  LET report == ImpactReport(p, entries, cfg)
  IN report # Refused /\ report.level # NA =>
       /\ Len(entries) = 1 => report.residual = Fr!Zero
       /\ Len(entries) = 2 =>
            Fr!Times(report.residual, report.level)
              = Fr!Negated(Fr!Times(report.effect[1], report.effect[2]))
       /\ (\A k \in DOMAIN entries : entries[k].q = 0) => report.adjustment = Fr!Zero

CandidatesCanBeLinked(p, maxGap) ==
  \A pair \in ReplacementCandidates(p, maxGap) :
    LET t == Min({u \in T : Priced(p, pair[2], u)})
        v == ValuationForm(p, pair[1], pair[2], t, [method |-> "direct"])
    IN /\ v # Refused
       /\ LinkedPrices(p, <<[old |-> pair[1], new |-> pair[2], period |-> t, q |-> v.q]>>) # Refused
=================================================================================
