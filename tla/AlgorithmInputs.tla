----------------------------- MODULE AlgorithmInputs -----------------------------
(***************************************************************************)
(* The bounded sets of inputs on which Algorithms evaluates the pure       *)
(* functions of the engine.                                                *)
(***************************************************************************)
EXTENDS Integers, Sequences

CONSTANTS NA, Refused, Unsold,  \* model values
          i1, i2, i3, i4        \* items

Items == {i1, i2, i3}
Pair == {i1, i2}
Of(S) == [Pair -> S]
Whole(k) == [n |-> k, d |-> 1]
Row(x, y, z) == [i \in Items |-> CASE i = i1 -> x [] i = i2 -> y [] OTHER -> z]

Tree == [R |-> NA, P |-> "R", Q |-> "R", a |-> "P", b |-> "P", c |-> "Q"]
Leaves == {"a", "b", "c"}

-----------------------------------------------------------------------------
\* Panels: log prices in units of 36, which every mean over up to three items,
\* and every mean of those, divides.
OneClass == [i \in Items |-> "x"]
TwoClasses == [i \in Items |-> IF i = i3 THEN "y" ELSE "x"]

PanelInputs ==
  [panel : {Row(x, y, z) : x, y \in [1..3 -> {NA, 0, 36}], z \in [1..3 -> {NA, 36}]},
   category : {OneClass, TwoClasses}]

\* Constant prices with gaps, panels without gaps, and panels of two items.
Always == Row(0, 36, 108)
SteadyPanels ==
  {[i \in Items |-> [t \in 1..3 |-> IF <<i, t>> \in gaps THEN NA ELSE Always[i]]] :
     gaps \in SUBSET (Items \X (1..3))}
FullPanels == [Items -> [1..3 -> {0, 36}]]
PairPanels == [Pair -> [1..3 -> {NA, 0, 36}]]

\* Two finished series that overlap, with gaps.
JoinInputs ==
  [old : [1..3 -> {NA, 0, 1}], new : UNION {[2..4 -> {NA, 0, 2}], [1..3 -> {NA, 0, 1}]},
   overlap : 1..4]

\* Columns of a weighted aggregate at two periods.
ChangeInputs ==
  LET level == {NA, 1, 3}
  IN [start : [1..3 -> level], end : [1..3 -> level], weight : [1..3 -> {NA, 1, 2}]]

\* Supplied columns of the tree: any leaf, and sometimes the inner node P.
Column == [level : {NA, 2, 3}, weight : {NA, -1, 0, 1}]
TreeInputs ==
  UNION {[S -> Column] : S \in SUBSET Leaves} \cup
  UNION {{[n \in S |-> IF n = "P" THEN p ELSE leaf[n]] :
            leaf \in [S \ {"P"} -> [level : {NA, 3}, weight : {NA, 1}]],
            p \in [level : {2}, weight : {NA, 5}]} :
          S \in {{"P"} \cup U : U \in SUBSET Leaves}}

\* Tables of four rows in one, two unequal or two equal groups.
TableInputs ==
  {[r \in 1..4 |-> [group |-> g[r], count |-> cell[r].count, value |-> cell[r].value]] :
     g \in {<<1, 1, 1, 1>>, <<1, 2, 2, 2>>, <<1, 1, 2, 2>>},
     cell \in [1..4 -> [count : {NA, 1, 2}, value : {NA, 1, 2}]]}

\* Two ledger entries on a panel of four items.
Entry == {e \in [old : Items \cup {i4}, new : Items \cup {i4}, period : {2, 3}] : e.old # e.new}
LedgerInputs ==
  [panel : [Items \cup {i4} -> {{1, 2, 3}, {1, 2}, {2, 3}}], e : Entry, f : Entry]

\* An index that reads 100 in the base period 2 or is not published there, and
\* payments in the three periods after it.
Clauses ==
  [base : {2}, averaging : {1, 2}, lag : {0, 1}, band : {0, 3}, mode : {"excess", "full"},
   trigger : {0, 4}, cap : {NA, 5}, collar : {NA, 3}, tenths : {5, 10}]
ClauseIndices ==
  {before \o after : before \in {<<100, 100>>, <<NA, 100>>, <<100, NA>>},
                     after \in [1..3 -> {94, 98, 108, NA}]}
ClauseInputs == [clause : Clauses, index : ClauseIndices]

-----------------------------------------------------------------------------
\* Four periods of two items, log prices in units of 144: sold, missing, quoted
\* and not sold.
U == 144
On(x, y) == [i \in Pair |-> IF i = i1 THEN x ELSE y]
WindowInputs ==
  {<<first>> \o rest :
     first \in {On(0, 0), On(0, NA), On(Unsold, Unsold)},
     rest \in [1..3 -> {On(0, 0), On(U, 0), On(NA, U), On(0, NA), On(Unsold, Unsold), On(NA, NA)}]}
  \cup {<<On(0, 0)>> \o rest : rest \in [1..3 -> {On(0, 0), On(U, 0), On(0, U)}]}

\* Three years of four seasons in which the price doubles every year.
SeasonInputs ==
  {[t \in 1..12 |-> IF t \in seen THEN On(U * ((t - 1) \div 4), NA) ELSE On(NA, NA)] :
     seen \in SUBSET (1..12)}

\* Prices and quantities of two items at two periods, squares where a root is
\* taken; and prices at a base and a reference period with the shares of it.
FormulaInputs == [p0 : Of({NA, 1, 2}), pt : Of({NA, 1, 4}), q0 : Of({NA, 1, 4}),
                  qt : Of({NA, 0, 1, 4})]
UpdateInputs == [p0 : Of({NA, 1, 2}), pt : Of({1, 4}), pb : Of({NA, 1, 2}), sb : Of({NA, 1, 3})]

\* Two years of two seasons: one item in every combination of prices, two others
\* in a few; prices are powers of two.
SeasonalInputs ==
  LET few == {<<0, 0, 0, 0>>, <<0, 2, 2, 4>>, <<0, NA, 2, NA>>, <<NA, 2, NA, 2>>, <<NA, NA, 0, 2>>}
  IN [panel : {Row(x, y, z) : x \in [1..4 -> {NA, 0, 2}], y \in few, z \in few \cup {<<2, 2, 2, 2>>}},
      weight : {Row(NA, NA, NA), Row(2, 1, 3), Row(NA, 1, 2)}]

\* Where X-13 may be, whether it may be used and works, and the series.
EngineInputs ==
  [x13path : {"unset", "empty", "has"}, x12path : {"unset", "empty", "has"},
   path : {"unset", "has"}, permitted : BOOLEAN, works : BOOLEAN,
   perYear : {2, 4, 12}, length : {7, 8, 24}]

\* Leaves, or a leaf and its parent, at two periods.
NestInputs ==
  LET at(S, level, weight) == [n \in S |-> [level |-> level[n], weight |-> weight[n]]]
      both(S, weights) ==
        {[start |-> at(S, f, w), end |-> at(S, g, w)] :
           f \in [S -> {NA, 2, 3}], g \in [S -> {NA, 2, 4}], w \in weights}
  IN UNION {both(S, [S -> {NA, 1, 2}]) : S \in {{"a", "b"}, {"a", "c"}, {"b", "P"}}}
     \cup both(Leaves, {[a |-> 1, b |-> 2, c |-> 1]}) \cup both({"a", "P", "c"}, {[a |-> 1, P |-> 1, c |-> 2]})

\* Three years of two components, weights of two links.
RateInputs ==
  [levels : [{"x", "y"} -> {<<1, 1, 1, 1, 1, 1>>, <<1, 2, 1, 2, 4, 2>>, <<2, 1, 1, 3, 1, 1>>,
                            <<1, 1, 1, 2, 1, 3>>}],
   weights : [1..2 -> {w \in [{"x", "y"} -> {NA, 1, 2}] : \E c \in {"x", "y"} : w[c] # NA}],
   offset : 0..1]

\* Changes of three components, their weights and a trim in twentieths.
MiddleInputs ==
  [from : [1..3 -> {1, 2}], to : [1..3 -> {NA, 1, 3}], weight : [1..3 -> {NA, 1, 2}],
   cut : {0, 2, 5, 9}]

\* What a collection offers the core measures.
OfferInputs ==
  LET row(x, y, z) == [a |-> x, b |-> y, c |-> z]
  IN [weight : [Leaves -> {NA, 0, 1}],
      data : [exclude : {{}, {"a"}, {"P"}, {"z"}, {"a", "P"}, {"P", "c"}}, window : {3, 6},
              periods : {1, 7, 8}, horizon : {1},
              prices : {NA} \cup {<<row(1, 1, 1), row(x, 1, NA), row(1, y, z)>> :
                                    x \in {1, 2}, y \in {1, NA}, z \in {1, 2}}]]

\* One replacement among three items, log prices to the base 2; and two chains of
\* replacements among four.
ReplacementInputs ==
  [panel : {Row(x, y, z) : x \in [1..3 -> {NA, 0, 2}], y \in [1..3 -> {NA, 0, 4}],
                           z \in {<<0, 2, 0>>, <<NA, 2, 4>>}},
   period : 1..3]
Link(from, to, t, q) == [old |-> from, new |-> to, period |-> t, q |-> q]
ImpactInputs ==
  [panel : {[i \in Items \cup {i4} |-> IF i = i4 THEN last ELSE row[i]] :
              row \in {Row(x, y, z) : x \in {<<0, NA, NA>>, <<0, 2, NA>>}, y \in [1..3 -> {NA, 2, 4}],
                                     z \in {<<0, NA, NA>>, <<0, 4, 4>>}},
              last \in {<<2, 2, 2>>, <<NA, 4, 2>>}},
   entries : {<<Link(i1, i2, 2, q)>> : q \in {0, 2}} \cup
             {<<Link(i1, i2, s, q), Link(i3, i4, t, r)>> :
                q \in {0, 2, -2}, r \in {2, -2}, s \in {2, 3}, t \in {2, 3}}]

\* A cell of four or five price relatives, and a decision or two on the quotes of
\* four items over four periods, of which one item varies.
CellInputs ==
  {{[item |-> k, period |-> 2, previous |-> level[k], price |-> level[k] + change[k]] : k \in 1..n} :
     n \in 4..5, change \in [1..5 -> {-2, 0, 1, 3}], level \in {<<0, 2, 1, 3, 1>>}}
Verdict == [item : {i1, i2}, period : 2..3, decision : {"accept", "reject"}]
DecisionInputs ==
  [panel : {[i \in Items \cup {i4} |-> CASE i = i1 -> <<0>> \o x [] i = i2 -> y [] i = i3 -> <<0, 0, 0, 0>>
                                        [] OTHER -> z] :
              x \in [1..3 -> {NA, 0, 2}], y \in {<<0, NA, 0, 3>>},
              z \in {<<0, 2, 0, 2>>}},
   entries : {<<e>> : e \in Verdict} \cup
             {<<[item |-> i1, period |-> s, decision |-> "reject"], e>> : s \in 2..3, e \in Verdict}]

\* Two or three vintages of up to three periods, listed in order or not; and the
\* runs of a chain, of which some no longer have a column.
VintageInputs ==
  {[k \in 1..3 |-> [vintage |-> n[k], level |-> level[k]]] :
     n \in {<<1, 2, 3>>, <<2, 1, 3>>}, level \in [1..3 -> [1..2 -> {NA, 0, 1, 3}]]} \cup
  {[k \in 1..2 |-> [vintage |-> k, level |-> level[k]]] :
     level \in [1..2 -> UNION {[1..n -> {NA, 0, 1}] : n \in 1..3}]}
ChainInputs ==
  LET columns == {<<>>} \cup UNION {[S -> {<<0, 1>>, <<0, 3>>}] :
                                     S \in {{"All items"}, {"All items", "bread"}, {"bread"}}}
  IN {[k \in 1..n |-> [vintage |-> k, headline |-> "bread", columns |-> column[k]]] :
        n \in 1..3, column \in [1..3 -> columns]}

\* Three regions and three products, log prices in units the fit divides.
RegionInputs ==
  [north : [Items -> {NA, 0}], south : [Items -> {NA, 0, 60}], west : [Items -> {NA, 0, 60}]]

\* Series of some months from a start on, in steps of a month or a quarter, that
\* may have a gap.
Months(start, n, step, gap, k) ==
  [m \in {start + step * j : j \in 0..(n - 1)} \ gap |-> Whole(1 + ((m * m + k * m) % (3 + k)))]
DeflatorInputs ==
  {[nominal |-> Months(a, n, step, {}, 2), deflator |-> Months(b, l, s, gap, 1)] :
     a \in {0, 1, 3}, n \in {0, 1, 3, 14}, b \in 0..3, l \in {1, 5, 15}, step \in {1, 3},
     s \in {1, 3}, gap \in {{}, {3}, {12}}}
ConversionInputs ==
  {[series |-> Months(a, n, step, gap, 1), ppp |-> Months(0, l, 12, {}, 2)] :
     a \in 0..4, n \in {2, 8, 11, 12, 15, 23, 24, 27}, step \in {1, 3}, gap \in {{}, {9}, {4}},
     l \in 1..3}

\* Sales of four properties of two qualities in a market where only the level
\* moves; sales at any price; and properties that may sell twice in a period.
NoSale == [price |-> NA]
Sale(p, t, x) == [id |-> p, period |-> t, price |-> x, cell |-> IF p = i3 THEN "y" ELSE "x",
                  appraisal |-> IF p = i2 THEN NA ELSE 1, isNew |-> p = i1 /\ t = 1]
Listing(sales) == LET of(p) == SelectSeq(sales[p], LAMBDA s : s.price # NA)
                  IN of(i1) \o of(i2) \o of(i3) \o of(i4)
LevelInputs ==
  LET quality == [p \in Items \cup {i4} |-> IF p = i3 THEN 2 ELSE 1]
      sold(p, periods, level) ==
        [t \in 1..3 |-> IF t \in periods
                        THEN [Sale(p, t, quality[p] + level[t]) EXCEPT
                                !.appraisal = IF p = i2 THEN NA ELSE quality[p]]
                        ELSE NoSale]
  IN {[level |-> level,
       sales |-> Listing([p \in Items \cup {i4} |->
                            sold(p, CASE p = i1 -> x [] p = i2 -> y [] p = i3 -> z [] OTHER -> w, level)])] :
        level \in {<<0, 0, 1>>, <<1, 0, 2>>, <<2, 1, 0>>, <<0, 2, 1>>}, x, y \in SUBSET (1..3),
        z \in {{}, {1, 3}, {2, 3}}, w \in {{}, {1, 2, 3}, {3}}}
SaleInputs ==
  LET at(p, prices) == [t \in DOMAIN prices |-> IF prices[t] = NA THEN NoSale ELSE Sale(p, t, prices[t])]
  IN {Listing([p \in Items \cup {i4} |-> CASE p = i1 -> at(p, x) [] p = i2 -> at(p, y) [] p = i3 -> at(p, z)
                                           [] OTHER -> at(p, <<NA, NA, 0, NA>>)]) :
        x \in [1..4 -> {NA, 0, 2}], y \in {<<0, NA, NA, 1>>, <<NA, 1, 0, NA>>, <<1, 0, NA, 0>>},
        z \in {<<0, 1, NA, 2>>, <<NA, 0, 0, 1>>, <<1, NA, NA, NA>>}} \cup
     {<<Sale(i1, a, x), Sale(i1, b, y), Sale(i1, c, 0), Sale(i2, a, x), Sale(i2, 2, y)>> :
        a, b, c \in 1..3, x, y \in 0..1}

\* Quotes of an item that may have slipped; gaps of a category of two items over up
\* to three years; quantities and expenditures; tables of characteristics.
SlipInputs ==
  [true : {<<1000, 1000, 1000, 1000, 1000>>, <<1000, 2000, 1000, 1000, 2000>>,
           <<1000, NA, 0, 2000, 2000>>, <<1000, NA, 1000, 2000, 2000>>},
   slip : [1..5 -> {0, 1, -1}]]
GapInputs ==
  LET rows(years) == Pair \X (0..(12 * years - 1))
  IN {[rows |-> rows(n),
       missing |-> {r \in rows(n) : /\ r[2] % 12 \in hit[r[2] \div 12]
                                    /\ r[1] \in who \/ r[2] % 12 \in both}] :
        n \in 1..3, hit \in [0..2 -> {{}, {1}, {1, 2}, 0..8}], who \in {{i1}, Pair},
        both \in {{}, {1}, {2}}}
QuantityInputs ==
  LET some == {NA, Whole(0), Whole(2), Whole(3)}
  IN [1..2 -> [price : {NA, Whole(0), Whole(2), Whole(5)}, quantity : some, expenditure : some]]
CharacteristicsInputs ==
  {[chars |-> [k \in 1..n |-> [id |-> id[k], values |-> [a |-> a[k], b |-> b[k]]]],
    columns |-> columns, priced |-> priced] :
     n \in 0..3, id \in [1..3 -> Items], a \in [1..3 -> {NA, "number", "text"}],
     b \in {<<"number", NA, "number">>, <<NA, NA, NA>>}, columns \in {{}, {"a"}, {"a", "b"}},
     priced \in {Pair, Items \cup {i4}}}

\* Classification files; and categories of a collection, their items priced in one
\* or two periods, in a classification loaded from two files under two schemes.
ClassFiles ==
  LET row(c, p) == [code |-> c, parent |-> p]
  IN {<<>>, <<row("R", NA), row("P", "R"), row("a", "P"), row("b", "P"), row("c", "R")>>,
      <<row("a", "P"), row("b", "P"), row("a", "Q")>>,
      <<row("a", "P"), row("b", "a"), row("c", "Z"), row("P", NA)>>}
LoadInputs == [first : ClassFiles, second : ClassFiles]
WeightRows(weight) ==
  UNION {{[category |-> c, item |-> <<c, 1>>, period |-> 1, weight |-> weight[c]],
          [category |-> c, item |-> <<c, 1>>, period |-> 2,
           weight |-> IF weight[c] = NA THEN NA ELSE weight[c] + 2],
          [category |-> c, item |-> <<c, 2>>, period |-> 1,
           weight |-> IF weight[c] = 4 THEN 6 ELSE NA]} : c \in DOMAIN weight}
HeadlineInputs ==
  LET files == [first : {<<>>}, second : ClassFiles] \cup [first : ClassFiles, second : {<<>>}]
  IN UNION {[files : files, level : [S -> {NA, 1, 3}], weight : [S -> {NA, 0, 4}],
             compiles : {{"a", "b", "c", "P"}, {"a", "b"}}] :
              S \in {{"a"}, {"a", "b", "c"}, {"a", "P"}, {"b", "c"}}} \cup
     [files : files, level : [{"a", "b", "P"} -> {NA, 3}], weight : [{"a", "b", "P"} -> {0, 4}],
      compiles : {{"a", "b", "c", "P"}, {"a", "P"}}]

\* Saved configurations, most of them valid in all sections but one; and what the
\* rows of two categories carry.
Sections ==
  LET good == [replacements |-> <<>>,
               seasonal |-> [treatment |-> "both", engine |-> "auto", perYear |-> 12, minYears |-> 2,
                             stl |-> 7, subSamples |-> 3],
               outlier |-> [methods |-> {"tukey"}, hbU |-> 5, low |-> 5, high |-> 20, entries |-> <<>>],
               revision |-> [vintages |-> 12, alpha |-> 5],
               multilateral |-> [method |-> "tpd", splice |-> "mean", window |-> 25, anchorMonth |-> 12]]
      decision(period, reason) == [item |-> i1, period |-> period, decision |-> "reject", reason |-> reason]
      replaced(new) == [old |-> i1, new |-> new]
  IN {good, [good EXCEPT !.replacements = <<replaced(i2), replaced(i3)>>], [good EXCEPT !.seasonal.stl = 8],
      [good EXCEPT !.outlier.entries = <<decision(1, TRUE), decision(1, TRUE)>>],
      [good EXCEPT !.outlier.entries = <<decision(1, TRUE), decision(2, TRUE)>>],
      [good EXCEPT !.outlier.entries = <<decision(1, FALSE)>>], [good EXCEPT !.outlier.low = 20],
      [good EXCEPT !.revision.vintages = 1], [good EXCEPT !.multilateral.window = 1],
      [good EXCEPT !.multilateral.anchorMonth = 13]}
FileInputs ==
  LET plain(base, priceRef, weightRef, indexRef) ==
        [base |-> base, priceRef |-> priceRef, weightRef |-> weightRef, indexRef |-> indexRef,
         formula |-> "jevons", custom |-> NA, aggregate |-> NA, homogeneous |-> FALSE]
      expressions == {NA, "ok", "bad", "empty"}
      index == {plain(b, p, w, x) : b \in {NA, 1, 2}, p \in {NA, Unsold, 1}, w, x \in {NA, Unsold, 2}} \cup
               [base : {NA, 2}, priceRef : {Unsold}, weightRef : {Unsold}, indexRef : {Unsold},
                formula : {"jevons", "custom", "unit_value"}, custom : expressions,
                aggregate : expressions, homogeneous : BOOLEAN]
      file(version, i, s) == [field \in DOMAIN s \cup {"version", "index"} |->
                                CASE field = "version" -> version [] field = "index" -> i [] OTHER -> s[field]]
  IN {file(v, i, s) : v \in {"1", "2", "3"}, i \in index, s \in Sections}
CarriedInputs == [formula : {"jevons", "fisher", "laspeyres", "custom"},
                  panel : [{"a", "b"} -> SUBSET {"quantity", "expenditure", "weight"}]]

\* Rents of dwellings of three qualities that follow one market, some of the time; and
\* prices, rates and land of owner-occupied housing.
RentInputs ==
  {r \in [level : {<<0, 2, 2, 4>>, <<2, 0, 4, 2>>}, strata : {OneClass, TwoClasses},
             periods : {Row(x, y, z) : x, y \in SUBSET (1..4), z \in {{}, {1, 2, 3, 4}, {1, 2}, {2, 3, 4}}},
             weights : {NA, [x |-> 1, y |-> 3], [x |-> 0, y |-> 1]}] :
        UNION {r.periods[i] : i \in Items} = 1..4}
RentsOf(r) ==
  [i \in Items |-> [t \in 1..4 |-> IF t \in r.periods[i]
                                   THEN r.level[t] + (CASE i = i1 -> 0 [] i = i2 -> 2 [] OTHER -> 1)
                                   ELSE NA]]
OwnerInputs ==
  [rate : {<<3, 3, 3, 4, 5>>, <<97, 97, 0, 1, NA>>}, share : {Whole(0), [n |-> 1, d |-> 3], [n |-> 2, d |-> 3]},
   land : {<<0, 1, 2, 3, 3>>, <<0, 0, 1, 1, 0>>}, perYear : 1..2, years : {1},
   prices : {<<a, b, c, a, b>> : a, b, c \in 0..2} \cup {<<0, 1, 2, 3, 4>>}] \cup
  [rate : {<<3, 3, 3, 4, 5>>}, share : {Whole(0)}, land : {<<0, 1, 2, 3, 3>>}, perYear : 1..2, years : {2},
   prices : {<<0, 2, 4, 6, 8>>, <<0, 1, 2, 3, 4>>, <<4, 3, 2, 1, 0>>}]

\* Shocks, alone and beside others; histories that repeat their pattern; histories that
\* do not, with what one of their months might have been; and weights of categories.
Shock(driver, size, start, coefficient, sourced, phase) ==
  [driver |-> driver, size |-> size, start |-> start, coefficient |-> coefficient,
   sourced |-> sourced, phase |-> phase]
ShockInputs ==
  LET energy == {Shock("energy prices", size, start, coefficient, sourced, phase) :
                   size \in {NA, 2, -4}, start \in {NA, 1, 2}, coefficient \in {NA, 1, -2},
                   sourced \in BOOLEAN, phase \in 1..2}
      wages == Shock("wages", 2, 2, 1, TRUE, 2)
  IN [series : {<<0, 2, 0, 4, 2, 6, 4, 2, 6, 8>>, <<NA, 0, 0, 2, 2, 4, 4, 6, 8, 8, 6, 4>>,
                <<0, 0, 2, 2, 4, NA, 6, 8, 8, 6, 4>>},
      shocks : {<<>>} \cup {<<e>> : e \in energy} \cup {<<wages, e>> : e \in energy} \cup
               {<<e, Shock("exchange rate", -2, 1, 1, sourced, 1), wages>> :
                  e \in {e \in energy : e.sourced}, sourced \in BOOLEAN},
      horizon : 1..3, seasonal : BOOLEAN]
SteadyHistories == {<<>> \o [t \in 1..n |-> slope * t + (IF t % 2 = 0 THEN season ELSE 0)] :
                      n \in 10..11, slope \in {0, 2, 4, -2}, season \in {0, 2}}
Histories == {<<0, 2, 0, 4, 2, 4, a, b, a, c, b>> : a, b, c \in {0, 2, 6}}
BaselineInputs == [history : SteadyHistories \cup Histories, origins : 1..3, horizon : 1..3, seasonal : BOOLEAN]
\* Every second change is the same, and every change where there is no season.
IsSteady(y, seasonal) ==
  IF seasonal THEN \A t \in 4..Len(y) : y[t] - y[t - 1] = y[t - 2] - y[t - 3]
  ELSE \A t \in 3..Len(y) : y[t] - y[t - 1] = y[2] - y[1]
HistoryInputs ==
  [history : Histories, month : {7, 9, 11}, value : {0, 4}, seasonal : BOOLEAN,
   driver : {NA, <<0, 1, 1, 3, 3, 4, 4, 6, 5, 5, 7>>, <<0, 1, 1, 3, 3, NA, 4, 6, 5, 5, 7>>},
   spec : [horizon : 1..2, origins : {1, 3}, method : {"arima", "pass_through"}, halfwidth : {3},
           named : BOOLEAN, sourced : {TRUE}]]
ShareInputs == [weights : {NA} \cup [{"a", "b"} -> {0, 1, 3}]]

\* Collections with a ledger of replacements and of decisions, all of them valid or
\* not; and collections with gaps in the months of one year or of two.
PipelineInputs ==
  [panel : {Row(<<0, 36, NA>>, y, <<NA, 36, 0>>) : y \in {<<a>> \o b : a \in {NA, 0}, b \in [1..2 -> {NA, 0, 36}]}},
   category : {OneClass, TwoClasses}, valid : {TRUE}, enabled : {TRUE},
   quality : {<<>>} \cup {<<Link(i1, i2, t, 36)>> : t \in {2, 3}},
   entries : {<<e>> : e \in {e \in Verdict : e.decision = "reject"}} \cup
             {<<[item |-> i1, period |-> 2, decision |-> "reject"],
                [item |-> i, period |-> 3, decision |-> decision]>> :
                i \in {i1, i2}, decision \in {"accept", "reject"}},
   multilateral : {"off"}, seasonal : {"off"}] \cup
  [panel : {Row(<<0, 36, NA>>, <<NA, 0, 36>>, <<0, 36, 36>>)}, category : {OneClass}, valid : BOOLEAN,
   enabled : BOOLEAN, quality : {<<>>}, entries : {<<>>, <<[item |-> i2, period |-> 3, decision |-> "reject"]>>},
   multilateral : {"off", "works", "fails"}, seasonal : {"off", "works", "fails"}]
GapDates == {<<0, 1, 2>>, <<0, 1, 12>>, <<0, 1, 13>>, <<5, 17, 29>>}
=================================================================================
