------------------------------- MODULE Algorithms -------------------------------
(***************************************************************************)
(* The pure functions of the engine on every input of a bounded set.  A    *)
(* behaviour calls one algorithm with one input after the other; the       *)
(* properties of the modules are evaluated when it returns.                *)
(***************************************************************************)
EXTENDS AlgorithmInputs

CONSTANT MinCount   \* suppression_min_count

VARIABLES algorithm, input

vars == <<algorithm, input>>

Series == INSTANCE IndexSeries WITH Periods <- 3, Base <- 100
Agg == INSTANCE Aggregation
Dis == INSTANCE Disclosure WITH Threshold <- MinCount
Adj == INSTANCE Adjustments
Val == INSTANCE Valuation WITH Periods <- 3, Base <- 0
Rev == INSTANCE Revisions
Cmp == INSTANCE Comparison WITH Products <- Items
Qua == INSTANCE Quality
Hea == INSTANCE Headline
Con == INSTANCE Configuration WITH Absent <- Unsold
Hou == INSTANCE Housing WITH Threshold <- 2
Pro == INSTANCE Projections WITH Season <- 2, Least <- 6
Pip == INSTANCE Pipeline WITH Periods <- 3, Base <- 0
Cls == INSTANCE Clause
Mul == INSTANCE Multilateral WITH Items <- Pair, PeriodsPerYear <- 4
For == INSTANCE Formulae
Sea == INSTANCE Seasonal WITH Periods <- 4, Base <- 0, PeriodsPerYear <- 2
Dec == INSTANCE Decomposition WITH Nodes <- DOMAIN Tree, Parent <- Tree

-----------------------------------------------------------------------------
\* Configurations.
MethodChoices ==
  {[x |-> m, y |-> m] : m \in Series!Methods} \cup
  {[x |-> "class_mean", y |-> "overall_mean"], [x |-> "overall_mean", y |-> "targeted_mean"]}

Settings == [chained : BOOLEAN, minMatched : 1..3, priceRef : {0, 2, 4}, indexRef : 0..3]
FewSettings == [chained : BOOLEAN, minMatched : {1, 2}, priceRef : {0, 2}, indexRef : {0, 3}]

Windows(method, minMatched) ==
  [method : {method}, splice : Mul!Splices, window : 2..3, minMatched : minMatched,
   anchorMonth : {3}, quantities : {TRUE}]
MultilateralSettings == Windows("geks", 1..2) \cup Windows("tpd", {1})
SeasonalWindows == {c \in MultilateralSettings : c.splice \in {"mean", "fbew"} /\ c.window = 2 /\ c.minMatched = 1}

Valuations ==
  [method : {"overlap"}, at : 1..3] \cup [method : {"direct", "no_change", "mean"}] \cup
  [method : {"quantity"}, quantity : {2, -2}] \cup [method : {"option"}, quantity : {0, -1}] \cup
  [method : {"class"}, relatives : {<<2, -4>>}]
ImpactSettings == [chained : BOOLEAN, minMatched : {1}, priceRef : {0}, indexRef : {0, 3}]

Screens ==
  {[tukeyK |-> Qua!Fr!Ratio(3, 2), quartileRatio |-> Qua!Fr!Ratio(5, 2), hbC |-> Qua!Fr!Ratio(4, 1), hbU |-> u,
    low |-> Qua!Fr!Ratio(1, 2), high |-> Qua!Fr!Ratio(2, 1), band |-> Qua!Fr!Ratio(3, 2), minCell |-> 4] : u \in 0..1} \cup
  {[tukeyK |-> Qua!Fr!Ratio(1, 2), quartileRatio |-> Qua!Fr!Ratio(3, 2), hbC |-> Qua!Fr!Ratio(1, 1), hbU |-> 0,
    low |-> Qua!Fr!Ratio(1, 2), high |-> Qua!Fr!Ratio(4, 1), band |-> Qua!Fr!Ratio(1, 1), minCell |-> 4]}

References == [kind : {"period"}, at : {0, 4, 12}] \cup [kind : {"year"}, at : {0, 1}]

PairRules == [minMonths : {0, 2}, excludeNew : BOOLEAN, maxChange : {NA, 1}]
AnyPair == [minMonths |-> 0, excludeNew |-> FALSE, maxChange |-> NA]
PairWeights == {[months \in 1..4 |-> 1], [months \in 1..4 |-> IF months = 1 THEN 3 ELSE 1]}

Cleaning ==
  {[codes |-> {0}, window |-> width, minPeriods |-> least, low |-> Qua!Fr!Ratio(316, 10),
    high |-> Qua!Fr!Ratio(3162, 10), tolerance |-> Qua!Fr!Ratio(316, 100), repair |-> repair] :
     width \in {3, 4, 13}, least \in {2, 3}, repair \in BOOLEAN}
Tolerance == Qua!Fr!Ratio(1, 100)

PipelineSettings ==
  [methodFor : {[c \in {"x", "y"} |-> m] : m \in {"carry_forward", "class_mean", "overall_mean"}},
   index : [chained : {TRUE}, minMatched : {1}, priceRef : {0}, indexRef : {0}]]

SeasonalSettings == [minYears |-> 2, maxInSeasonTenths |-> 9]
SeasonalSeries == [chained : BOOLEAN, minMatched : {1}, priceRef : {0}, indexRef : {0}]

\* A monthly collection with these prices, and a configuration with these ledgers.
Collection(x, dates) ==
  [panel |-> x.panel, category |-> x.category, dates |-> dates, step |-> 30, zeros |-> FALSE,
   weighted |-> FALSE, valid |-> algorithm = "imputation" \/ x.valid]
Configured(x, settings) ==
  [outlier |-> [enabled |-> x.enabled, entries |-> x.entries], quality |-> x.quality,
   methodFor |-> settings.methodFor, index |-> settings.index,
   multilateral |-> x.multilateral, seasonal |-> x.seasonal]

-----------------------------------------------------------------------------
Inputs ==
  [imputation |-> PanelInputs,
   turnover |-> [panel : SteadyPanels, category : {OneClass, TwoClasses}],
   index |-> FullPanels \cup PairPanels,
   join |-> JoinInputs,
   contributions |-> ChangeInputs,
   tree |-> TreeInputs,
   disclosure |-> TableInputs,
   adjustments |-> LedgerInputs,
   replacement |-> ReplacementInputs,
   impact |-> ImpactInputs,
   cell |-> CellInputs,
   decision |-> DecisionInputs,
   vintages |-> VintageInputs,
   chain |-> ChainInputs,
   regions |-> RegionInputs,
   deflator |-> DeflatorInputs,
   conversion |-> ConversionInputs,
   level |-> LevelInputs,
   sales |-> SaleInputs,
   slips |-> SlipInputs,
   gaps |-> GapInputs,
   quantities |-> QuantityInputs,
   characteristics |-> CharacteristicsInputs,
   loading |-> LoadInputs,
   headline |-> HeadlineInputs,
   file |-> FileInputs,
   carried |-> CarriedInputs,
   rents |-> RentInputs,
   owners |-> OwnerInputs,
   shocks |-> ShockInputs,
   baseline |-> BaselineInputs,
   history |-> HistoryInputs,
   shares |-> ShareInputs,
   pipeline |-> PipelineInputs,
   clause |-> ClauseInputs,
   windows |-> WindowInputs,
   seasons |-> SeasonInputs,
   formulae |-> FormulaInputs,
   updating |-> UpdateInputs,
   seasonal |-> SeasonalInputs,
   engine |-> EngineInputs,
   nesting |-> NestInputs,
   rates |-> RateInputs,
   middle |-> MiddleInputs,
   offer |-> OfferInputs]

Init == algorithm \in DOMAIN Inputs /\ input = NA

Choose == input = NA /\ input' \in Inputs[algorithm] /\ UNCHANGED algorithm

Return == input # NA /\ input' = NA /\ UNCHANGED algorithm

Next == Choose \/ Return

Spec == Init /\ [][Next]_vars

Chosen(name) == algorithm = name /\ input # NA

-----------------------------------------------------------------------------
\* The properties of the modules, with the comments they have there, stated of the step
\* that returns from a call with the input chosen.

\* A quote is flagged exactly when it was imputed, and class_mean ends where
\* targeted_mean ends (IndexSeries).  A rejected quote is one never collected, and what
\* is chosen automatically fills the gaps it can (Pipeline).  The price change an
\* analyst approves is the one recorded, it is priced on the cell it is in, and the
\* report leaves only interactions unexplained (Valuation).
ImputationIsTraceable == [][(
  /\ Chosen("imputation") =>
       /\ \A m \in MethodChoices : Series!FillsFlagged(input.panel, input.category, m)
       /\ input.category = OneClass => Series!CascadeIsAnchored(input.panel, Items)
       /\ \A dates \in GapDates : Pip!GapsAreTreatedAsRead(Collection(input, dates))
  /\ Chosen("pipeline") => \A settings \in PipelineSettings :
       Pip!RejectedIsUncollected(Collection(input, <<0, 1, 2>>), Configured(input, settings))
  /\ Chosen("replacement") =>
       /\ \A choice \in Valuations :
            /\ Val!PureChangeIsRecorded(input.panel, i1, i2, input.period, choice)
            /\ input.period > 1 => Val!EffectIsOnTheCell(input.panel, i1, i2, input.period, choice)
       /\ Val!CandidatesCanBeLinked(input.panel, 1)
  /\ Chosen("impact") =>
       \A cfg \in ImpactSettings : Val!ResidualIsInteraction(input.panel, input.entries, cfg))]_vars

\* Items that come and go at constant prices move no index, Jevons chains to its
\* direct counterpart, a published series reads Base where its labels say
\* (IndexSeries), and a join changes no movement (Multilateral).
SeriesHoldTogether == [][(
  /\ Chosen("turnover") =>
       \A m \in MethodChoices, cfg \in FewSettings :
         Series!TurnoverIsNotInflation(input.panel, input.category, m, cfg)
  /\ Chosen("index") => \A cfg \in Settings : /\ Series!ChainingDoesNotDrift(input, cfg)
                                          /\ Series!ReadsBaseAtReference(input, cfg)
  /\ Chosen("join") => Mul!JoinsKeepMovements(input.old, input.new, input.overlap, 100))]_vars

\* Contributions add up where nothing is missing and only there, a root of the
\* tree is the sum of the columns it stands for (Aggregation), and contributions
\* of a tree and of an annual rate add up as well (Decomposition).  The tree the
\* categories hang in moves no headline, and a category that is skipped is left out
\* of it (Headline).
AggregatesAddUp == [][(
  /\ Chosen("loading") => \A scheme \in {"s", "t"} :
       Hea!LoadingIsIdempotent(Hea!LoadClassification(<<>>, "s", input.first), scheme, input.second)
  /\ Chosen("headline") =>
       LET nodes == Hea!LoadClassification(Hea!LoadClassification(<<>>, "s", input.files.first),
                                           "t", input.files.second)
           rows == WeightRows(input.weight)
       IN /\ Hea!TreeMovesNoHeadline(input.level, rows, nodes)
          /\ Hea!SkippedIsLeftOut(input.level, input.compiles, rows, nodes)
  /\ Chosen("contributions") => Agg!ContributionsAddUp(input.start, input.end, input.weight)
  /\ Chosen("tree") => Agg!RootIsSumOfColumns(input, Tree)
  /\ Chosen("nesting") => Dec!ContributionsNest(input.start, input.end)
  /\ Chosen("rates") => \A t \in 5..6 :
       Dec!AnnualRateIsExplained(input.levels, input.weights, 2, t, input.offset))]_vars

\* A suppressed value is not the total less the rest, and no more is hidden
\* than that takes (Disclosure).
SuppressionExact == [][(Chosen("disclosure") => Dis!SuppressionExact(input))]_vars

\* A screen has no direction and no currency, and a decision reaches no farther
\* than its quote and the next one (Quality).  A slip of the unit is undone, gaps
\* are read from the periods that are systemic, derived quantities agree and every
\* item left out is counted (Quality).
ScreensAreFair == [][(
  /\ Chosen("slips") => \A cfg \in Cleaning : Qua!SlipsAreUndone(input.true, input.slip, cfg)
  /\ Chosen("gaps") => Qua!ReadingIsOfTheBlock(input.rows, input.missing)
  /\ Chosen("quantities") => Qua!DerivedQuantitiesAgree(input, Tolerance)
  /\ Chosen("characteristics") =>
       Qua!EveryItemIsExplained(input.chars, input.columns, input.priced)
  /\ Chosen("cell") => \A cfg \in Screens : Qua!ScreensAreFair(input, cfg)
  /\ Chosen("decision") =>
       \A cfg \in {c \in Screens : c.hbU = 0} :
         Qua!DecisionIsLocal(input.panel, [i \in DOMAIN input.panel |-> "x"], cfg, input.entries))]_vars

\* What the vintages changed adds up to how far a figure has moved (Revisions).
RevisionsAddUp == [][(
  /\ Chosen("vintages") => Rev!RevisionsAddUp(input)
  /\ Chosen("chain") => \A series \in {NA, "All items", "bread"}, n \in 2..3 :
                         Rev!ChainIsCompared(input, series, n))]_vars

\* Every method recovers the level of a market, repeat sales are accounted for and
\* revise only through loops, and thin strata are hidden.  A rent index
\* follows the market as far as the chains of its strata hold, and the measures of
\* owner-occupied housing hold together (Housing).
LevelIsRecovered == [][(
  /\ Chosen("rents") => Hou!RentsFollowTheMarket(RentsOf(input), input.strata, input.weights, input.level)
  /\ Chosen("owners") => Hou!OwnershipHoldsTogether(input.prices, input.rate, input.share, input.land,
                                                   input.years, input.perYear)
  /\ Chosen("level") /\ input.sales # <<>> =>
       \A base \in {NA, 2}, weight \in PairWeights :
         Hou!LevelIsRecovered(input.sales, base, input.level, AnyPair, weight)
  /\ Chosen("sales") =>
       /\ \A rules \in PairRules : Hou!PairsAreAccounted(input, rules)
       /\ \A months \in {0, 2} :
            Hou!RevisedOnlyThroughLoops(input, [AnyPair EXCEPT !.minMonths = months],
                                        [m \in 1..4 |-> 1])
       /\ Hou!ThinStrataHidden(input, NA))]_vars

\* Shocks add up, the baseline repeats what it saw, a backtest sees only the past and
\* its verdict follows the errors, and a projection leaves the system with all its
\* assumptions stated and its columns named (Projections).
ProjectionsHoldUp == [][(
  /\ Chosen("shocks") =>
       Pro!ShocksAddUp(input.series, input.shocks, [horizon |-> input.horizon, origins |-> 2], input.seasonal)
  /\ Chosen("baseline") => Pro!BaselineRepeats(input.history, input, input.seasonal,
                                             IsSteady(input.history, input.seasonal))
  /\ Chosen("history") =>
       /\ Pro!OriginsSeeOnlyThePast(input.history, [input.history EXCEPT ![input.month] = input.value],
                                    input.spec, input.driver, input.seasonal)
       /\ Pro!VerdictFollowsErrors(input.history, input.spec, input.driver, input.seasonal)
       /\ Pro!ColumnsSayTheirKind(input.history, input.spec, input.driver,
                                  <<Shock("wages", 2, 1, 3, input.value = 0, 1)>>, input.seasonal)
  /\ Chosen("shares") => \A nodes \in {{}, {"P"}} : Pro!DirectEffectsAddUp({"a", "b"} \cup nodes, input.weights))]_vars

\* Every limited payment has its line, and the price stays near the index and
\* within the limits (Clause).
PaymentsFollowIndex == [][(
  Chosen("clause") =>
    /\ Cls!ChangesAnnounced(input.clause, input.index, <<3, 4, 5>>)
    /\ Cls!PriceFollowsIndex(input.clause, input.index, <<3, 4, 5>>))]_vars

\* One price per series and period, every quote accounted for, and when the
\* order of approval matters (Adjustments).
LinksLoseNothing == [][(
  Chosen("adjustments") =>
    /\ Adj!OnePriceNothingLost(input.panel, <<input.e, input.f>>)
    /\ Adj!OnePriceNothingLost(input.panel, <<input.e>>)
    /\ Adj!OrderOfApproval(input.panel, input.e, input.f))]_vars

\* A further period revises nothing that was published, splicing rules differ only
\* where the spread says so, and a season observed a year before shows the annual
\* rate (Multilateral).
WindowsHoldTogether == [][(
  /\ Chosen("windows") => \A cfg \in MultilateralSettings :
                         /\ Mul!HistoryStands(input, cfg)
                         /\ cfg.splice = "mean" => Mul!SplicesAgree(input, cfg)
  /\ Chosen("seasons") => \A cfg \in SeasonalWindows : Mul!SeasonsKeepTheRate(input, U, cfg))]_vars

\* What each formula does when the periods are exchanged, what updating a weight
\* changes (Formulae), and that a base region and a reference period are units
\* (Comparison).  A saved configuration means what it meant, and every
\* category is computed with the formula it names (Configuration).
FormulaeReverse == [][(
  /\ Chosen("file") => Con!LegacyMeansTheSame(input)
  /\ Chosen("carried") => Con!FormulaIsTheOneNamed(input, input.panel)
  /\ Chosen("regions") => \A n \in 1..2 : Cmp!BaseIsAUnit(input, n)
  /\ Chosen("deflator") => \A partial \in BOOLEAN :
       Cmp!ReferenceIsAUnit(input.nominal, input.deflator, References, partial)
  /\ Chosen("conversion") => Cmp!ConversionsCompose(input.series, input.ppp)
  /\ Chosen("formulae") => For!FormulaeReverse(input.p0, input.pt, input.q0, input.qt)
  /\ Chosen("updating") => For!UpdatingIsTheDifference(input.p0, input.pt, input.pb, input.sb))]_vars

\* The seasonal treatments differ by the season alone, an item reappears in line,
\* and a fallback of the adjustment is announced exactly where demanding the engine
\* fails (Seasonal).
GapIsTheSeason == [][(
  /\ Chosen("seasonal") =>
       /\ \A series \in SeasonalSeries :
            Sea!GapIsTheSeason(input.panel, TwoClasses, input.weight, series, SeasonalSettings)
       /\ \A path \in {<<0, 0, 0, 0>>, <<0, 2, 2, 4>>} :
            Sea!ReappearsInLine(input.panel, TwoClasses, SeasonalSettings, path)
  /\ Chosen("engine") => Sea!EngineIsNamed(input.length, input.perYear, input))]_vars

\* The measures of the middle ignore the tails, and are offered only where they
\* can be computed (Decomposition).
MiddleIsStable == [][(
  /\ Chosen("middle") => Dec!MiddleIsStable(input.from, input.to, input.weight, input.cut)
  /\ Chosen("offer") => Dec!OfferedIsComputable(input.weight, input.data))]_vars
===================================================================================
