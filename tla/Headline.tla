-------------------------------- MODULE Headline --------------------------------
(***************************************************************************)
(* How the categories of a collection become one headline: the             *)
(* classification they are codes of (pricelab/data/classification.py),     *)
(* their weights and build_all (pricelab/engine/index.py), and             *)
(* build_multilateral_all (pricelab/engine/multilateral.py).               *)
(*                                                                         *)
(* One period is modelled: level gives each category an index, NA where it *)
(* has none.  Weights are even, so that their mean over two periods is     *)
(* whole.                                                                  *)
(***************************************************************************)
EXTENDS Integers, Sequences, FiniteSets, FiniteSetsExt, SequencesExt

CONSTANTS NA, Refused

Agg == INSTANCE Aggregation

-----------------------------------------------------------------------------
(* Classification nodes, in the order they were stored *)

\* A code the scheme has already is skipped, within a file too.
LoadClassification(nodes, scheme, file) ==
  FoldLeft(LAMBDA stored, row :
             IF \E k \in DOMAIN stored : stored[k].scheme = scheme /\ stored[k].code = row.code THEN stored
             ELSE Append(stored, [scheme |-> scheme, code |-> row.code, parent |-> row.parent]),
           nodes, file)

\* A code of two schemes has the parent of the row read last.
ParentMap(nodes) ==
  LET last(code) == Max({k \in DOMAIN nodes : nodes[k].code = code})
  IN [code \in {nodes[k].code : k \in DOMAIN nodes} |-> nodes[last(code)].parent]

\* The categories and all above them, nothing if one is unknown.  A parent that is
\* not a node is a root.
ParentMapFor(nodes, categories) ==
  LET parent == ParentMap(nodes)
      above(c) == IF c \in DOMAIN parent THEN parent[c] ELSE NA
      keep[n \in Nat] == IF n = 0 THEN categories
                         ELSE keep[n - 1] \cup ({above(c) : c \in keep[n - 1]} \ {NA})
  IN IF categories = {} \/ ~(categories \subseteq DOMAIN parent) THEN NA
     ELSE [c \in keep[Cardinality(DOMAIN parent)] |-> above(c)]

\* Parents whose weight is not the sum of their children's, where all are stated.
ValidateWeightHierarchy(weights, parent) ==
  LET children(n) == {c \in DOMAIN parent : parent[c] = n}
  IN {n \in DOMAIN weights : /\ children(n) # {} /\ children(n) \subseteq DOMAIN weights
                             /\ weights[n] # MapThenSumSet(LAMBDA c : weights[c], children(n))}

-----------------------------------------------------------------------------
(* Weights and headline *)

\* rows are [category, item, period, weight]: each item counts its mean weight.
CategoryWeights(rows) ==
  LET stated == {r \in rows : r.weight # NA}
      of(i) == {r \in stated : r.item = i}
      mean(i) == MapThenSumSet(LAMBDA r : r.weight, of(i)) \div Cardinality(of(i))
      total(c) == MapThenSumSet(mean, {r.item : r \in {r \in stated : r.category = c}})
      weighted == {c \in {r.category : r \in stated} : total(c) > 0}
  IN IF weighted = {} THEN NA ELSE [c \in weighted |-> total(c)]

WeightOf(weights, c) == IF c \in DOMAIN weights THEN weights[c] ELSE NA

\* A weighted aggregate is a total over a weight; an unweighted one is the geometric
\* mean of the columns that have a level.
Flat(level, weights) ==
  Agg!WeightedAggregate(level, [c \in DOMAIN level |-> WeightOf(weights, c)])
Equal(level) == [equally |-> {c \in DOMAIN level : level[c] # NA}]

ByTree(level, weights, parent) ==
  LET tree == Agg!AggregateTree(
                [c \in DOMAIN level |-> [level |-> level[c], weight |-> WeightOf(weights, c)]],
                parent)
      roots == {n \in DOMAIN parent : parent[n] = NA /\ tree[n].has}
      weighed == {n \in roots : tree[n].w # NA}
      there == {n \in weighed : tree[n].v # NA}
      w == MapThenSumSet(LAMBDA n : tree[n].w, weighed)
  IN IF w <= 0 \/ there = {} THEN NA
     ELSE [w |-> w, v |-> MapThenSumSet(LAMBDA n : tree[n].v, there)]

Headline(level, weights, parent) ==
  CASE weights = NA -> Equal(level)
    [] weights # NA /\ parent # NA /\ DOMAIN level \subseteq DOMAIN parent -> ByTree(level, weights, parent)
    [] OTHER -> Flat(level, weights)

\* build_all: a collection of one category has no headline.  An analyst's formula,
\* where there is one, replaces it.
BuildAll(level, rows, nodes, formula) ==
  LET weights == CategoryWeights(rows)
      parent == IF weights = NA THEN NA ELSE ParentMapFor(nodes, DOMAIN level)
  IN CASE Cardinality(DOMAIN level) = 1 -> NA
       [] formula # NA -> formula
       [] OTHER -> Headline(level, weights, parent)

\* A category whose series fails, or has a level in fewer than two periods, is
\* skipped, which is announced only when there are weights.
BuildMultilateralAll(level, compiles, rows, nodes) ==
  LET kept == [c \in DOMAIN level \cap compiles |-> level[c]]
      weights == CategoryWeights(rows)
      parent == IF weights = NA THEN NA ELSE ParentMapFor(nodes, DOMAIN level)
  IN IF DOMAIN kept = {} THEN Refused
     ELSE [headline |-> IF Cardinality(DOMAIN kept) = 1 THEN kept
                        ELSE Headline(kept, weights, parent),
           skipped |-> DOMAIN level \ compiles,
           announced |-> DOMAIN level \ compiles # {} /\ weights # NA]

-----------------------------------------------------------------------------
\* Loading a file a second time stores nothing, and a scheme has one row per code
\* (load_classification_from_csv).
LoadingIsIdempotent(nodes, scheme, file) ==
  LET once == LoadClassification(nodes, scheme, file)
      of(code) == {k \in DOMAIN once : once[k].scheme = scheme /\ once[k].code = code}
  IN /\ LoadClassification(once, scheme, file) = once
     /\ \A k \in DOMAIN file : Cardinality(of(file[k].code)) = 1

\* Which tree the categories hang in, or whether they hang in one, never moves a
\* weighted headline, as long as no category stands above another (build_all).  So a
\* category the classification does not know, for which the whole tree is set aside,
\* costs the nodes and not the headline.
TreeMovesNoHeadline(level, rows, nodes) ==
  LET weights == CategoryWeights(rows)
      parent == ParentMapFor(nodes, DOMAIN level)
      built == BuildAll(level, rows, nodes, NA)
      flat == Flat(level, weights)
  IN /\ weights # NA /\ parent # NA /\ Cardinality(DOMAIN level) > 1 =>
          ((\A c \in DOMAIN level : parent[c] = NA \/ Agg!Ancestors(parent, c) \cap DOMAIN level = {})
             => built = flat)
     /\ weights # NA /\ parent # NA => DOMAIN level \subseteq DOMAIN parent

\* A multilateral headline that leaves a category out is the one of the collection
\* without it, and says so if the headline is weighted (build_multilateral_all).
SkippedIsLeftOut(level, compiles, rows, nodes) ==
  LET all == BuildMultilateralAll(level, compiles, rows, nodes)
      kept == [c \in DOMAIN level \cap compiles |-> level[c]]
      here == {r \in rows : r.category \in DOMAIN kept}
  IN all # Refused /\ Cardinality(DOMAIN kept) > 1 /\ CategoryWeights(here) # NA =>
       /\ (ParentMapFor(nodes, DOMAIN level) = NA) = (ParentMapFor(nodes, DOMAIN kept) = NA)
            => all.headline = BuildAll(kept, here, nodes, NA)
       /\ all.announced = (DOMAIN kept # DOMAIN level)
=================================================================================
