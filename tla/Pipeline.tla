-------------------------------- MODULE Pipeline --------------------------------
(***************************************************************************)
(* One call from a collection to an analysis: run_pipeline of              *)
(* pricelab/__init__.py, which puts the stages of the other modules        *)
(* together, and auto_configure of pricelab/engine/auto.py, which chooses  *)
(* the treatments where the caller names none.                             *)
(*                                                                         *)
(* A collection d has its panel after the repair of slips (d.panel, log    *)
(* prices), the category of each item, and whether validate passes it.     *)
(* The aggregation of the categories is in Headline.                       *)
(***************************************************************************)
EXTENDS Valuation

Qua == INSTANCE Quality

CategoriesOf(d) == {d.category[i] : i \in DOMAIN d.category}

\* A linked item has no rows of its own any more.
Continuing(d, entries) == DOMAIN d.panel \ {entries[k].new : k \in DOMAIN entries}

\* What the outlier stage leaves: the quotes rejected by name are holes.
Screened(linked, outlier) ==
  IF outlier.enabled THEN Qua!Prices(Qua!ApplyDecisions(linked, outlier.entries)) ELSE linked

\* The stages in their order: links, exclusions, imputation, the index of each
\* category.
Indices(d, config) ==
  LET linked == LinkedPrices(d.panel, config.quality)
      items == Continuing(d, config.quality)
      screened == Screened([i \in items |-> linked[i]], config.outlier)
      imputed == Prices(RunImputation(screened, d.category, config.methodFor))
      inCategory(c) == {i \in items : d.category[i] = c}
      index == [c \in CategoriesOf(d) |-> BuildIndex([i \in inCategory(c) |-> imputed[i]], config.index)]
  IN IF linked = Refused THEN Refused
     ELSE IF \E c \in CategoriesOf(d) : index[c] = Refused THEN Refused
     ELSE index

\* The result.  A collection that does not validate has no index.  An optional stage
\* is "off", "works" or "fails" with a ValueError: a multilateral one is left out, a seasonal one takes the run with it.  The impact of the ledger is that
\* of a second run with every size at one.
RunPipeline(d, config) ==
  LET indices == Indices(d, config)
      plain == Indices(d, [config EXCEPT !.quality = WithoutRatios(@, DOMAIN @)])
  IN IF ~d.valid THEN [validation |-> FALSE]
     ELSE IF indices = Refused \/ config.seasonal = "fails" THEN Refused
     ELSE [validation |-> TRUE, indices |-> indices,
           multilateral |-> config.multilateral = "works",
           seasonal |-> config.seasonal = "works",
           impact |-> IF config.quality = <<>> THEN NA ELSE plain]

-----------------------------------------------------------------------------
\* What the gaps of a category are read as (Quality); dates are the months of the
\* periods.
Mechanism(d, c) ==
  LET rows == {i \in DOMAIN d.panel : d.category[i] = c} \X T
      dated(S) == {<<r[1], d.dates[r[2]]>> : r \in S}
      read == Qua!ClassifyMissing(dated(rows), dated({r \in rows : Gap(d.panel, r[1], r[2])}))
  IN IF read = NA THEN "none" ELSE read.mechanism

\* Days between periods, to the periods that span about a year.
ReferenceWindow(step) ==
  CASE step <= 10 -> 15 [] step > 10 /\ step <= 45 -> 13
    [] step > 45 /\ step <= 130 -> 5 [] OTHER -> 3

\* The method a category is given: one item has no peers to move with.
Treatment(d, c) ==
  CASE Mechanism(d, c) = "none" -> "none"
    [] Mechanism(d, c) = "seasonal" -> "seasonal_hold"
    [] Mechanism(d, c) \in {"collection", "sporadic"} ->
         IF Cardinality({i \in DOMAIN d.panel : d.category[i] = c}) <= 1 THEN "carry_forward"
         ELSE "class_mean"

AutoConfigure(d) ==
  [codes |-> IF d.zeros THEN {0} ELSE {},
   window |-> IF Periods > 2 THEN ReferenceWindow(d.step) ELSE 13,
   methodFor |-> [c \in CategoriesOf(d) |-> Treatment(d, c)],
   formula |-> IF d.weighted THEN "laspeyres" ELSE "jevons",
   index |-> [chained |-> TRUE, minMatched |-> 2, priceRef |-> 0, indexRef |-> 0],
   quality |-> <<>>, outlier |-> [enabled |-> FALSE, entries |-> <<>>],
   multilateral |-> "off", seasonal |-> "off"]

\* analyse: the treatments are chosen only where none are given.
Analyse(d, config) == RunPipeline(d, IF config = NA THEN AutoConfigure(d) ELSE config)

-----------------------------------------------------------------------------
\* "An excluded quote leaves a hole, and the hole should be filled by the imputation
\* the run configured": a run in which quotes are rejected is the run in which they
\* were never collected, whatever is linked, imputed and fixed; a quote that counts
\* for an item it was linked to is rejected under that item's name.  Decisions other
\* than rejections change nothing, and with the screens off nor do those.
RejectedIsUncollected(d, config) ==
  LET rejects == IF config.outlier.enabled
                 THEN SelectSeq(config.outlier.entries, LAMBDA e : e.decision = "reject") ELSE <<>>
      linked == Adj!ApplyAdjustments([i \in DOMAIN d.panel |-> T], config.quality)
      rejected(j, t) == \E r \in linked.rows, k \in DOMAIN rejects :
                          /\ r.from = j /\ r.period = t
                          /\ rejects[k].item = r.item /\ rejects[k].period = t
      uncollected == [d EXCEPT !.panel = [j \in DOMAIN @ |-> [t \in T |->
                        IF rejected(j, t) THEN NA ELSE @[j][t]]]]
  IN linked # Refused =>
       /\ Analyse(d, config) = Analyse(uncollected, [config EXCEPT !.outlier.entries = <<>>])
       /\ Analyse(d, config) = Analyse(d, [config EXCEPT !.outlier.entries = rejects])

\* Where the treatments are chosen automatically a gap after an item's first quote
\* is left open exactly in a category whose gaps are read as seasonal, and where a
\* step since the item's last quote has no pair of quotes in a category of several
\* items.  (So the outage of a whole such category, announced as imputed by class
\* mean, is not filled: there is no priced peer in it.)  And no price is made up out
\* of season.
GapsAreTreatedAsRead(d) ==
  LET auto == AutoConfigure(d)
      filled == Prices(RunImputation(d.panel, d.category, auto.methodFor))
  IN \A i \in DOMAIN d.panel, t \in T :
       LET peers == {j \in DOMAIN d.panel : d.category[j] = d.category[i]}
           u == LastObserved(d.panel, i, t)
       IN Gap(d.panel, i, t) /\ u # 0 =>
            (filled[i][t] = NA <=>
               \/ Mechanism(d, d.category[i]) = "seasonal"
               \/ /\ Cardinality(peers) > 1
                  /\ \E v \in (u + 1)..t : Matched(d.panel, peers, v - 1, v) = {})
=================================================================================
