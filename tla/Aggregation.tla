------------------------------ MODULE Aggregation ------------------------------
(***************************************************************************)
(* Weighted aggregation and contributions of pricelab/engine/              *)
(* aggregation.py.                                                         *)
(*                                                                         *)
(* A column has a level, NA where its series has none, and a weight, NA    *)
(* where the weights do not mention it.  An aggregate is kept as a weight  *)
(* and the weighted sum of levels it stands for, its level being their     *)
(* quotient: no division is needed on the way up a tree.  A tree is a      *)
(* parent map: the parent of every code, NA for a root.                    *)
(***************************************************************************)
EXTENDS Integers, FiniteSets, FiniteSetsExt, SequencesExt

CONSTANTS NA,
          Refused       \* the call raises

Total(f(_), S) == MapThenSumSet(f, S)

\* Columns a weight is known for.
Usable(weight) == {c \in DOMAIN weight : weight[c] # NA}

Leveled(level, S) == {c \in S : level[c] # NA}

\* The weight of a column without a level stays in the denominator, what it
\* would have added is left out.
WeightedAggregate(level, weight) ==
  LET there == Leveled(level, Usable(weight))
      w == Total(LAMBDA c : weight[c], Usable(weight))
  IN IF w <= 0 \/ there = {} THEN NA
     ELSE [w |-> w, v |-> Total(LAMBDA c : weight[c] * level[c], there)]

\* Each column's share of the change, as a numerator over Denominator; NA when
\* the column has no level at the end, or none of them has a contribution.
Denominator(start, weight) ==
  IF Leveled(start, Usable(weight)) # Usable(weight) THEN NA
  ELSE LET base == Total(LAMBDA c : weight[c] * start[c], Usable(weight))
       IN IF base = 0 THEN NA ELSE base

Contributions(start, end, weight) ==
  [c \in Usable(weight) |->
     IF Denominator(start, weight) = NA \/ end[c] = NA THEN NA
     ELSE weight[c] * (end[c] - start[c])]

-----------------------------------------------------------------------------
\* aggregate_tree

Depth(parent) ==
  LET depth[n \in DOMAIN parent] == IF parent[n] = NA THEN 1 ELSE 1 + depth[parent[n]]
  IN depth

\* Mutant: parents before their children.
Order_RootFirst(parent) ==
  LET depth == Depth(parent)
  IN SetToSortSeq(DOMAIN parent, LAMBDA a, b : depth[a] < depth[b])

\* Deepest first.
Order(parent) ==
  LET depth == Depth(parent)
  IN SetToSortSeq(DOMAIN parent, LAMBDA a, b : depth[a] > depth[b])

Absent == [has |-> FALSE, w |-> NA, v |-> NA]

\* The columns that were supplied; a column is [level, weight].
Leaves(columns, parent) ==
  [n \in DOMAIN parent |->
     IF n \notin DOMAIN columns THEN Absent
     ELSE [has |-> TRUE, w |-> columns[n].weight,
           v |-> IF columns[n].weight = NA \/ columns[n].level = NA THEN NA
                 ELSE columns[n].weight * columns[n].level]]

\* A node gets the aggregate of the children that have an index and a weight,
\* unless it was supplied with an index of its own.
RollNode(parent, known, n) ==
  LET kids == {k \in DOMAIN parent : parent[k] = n /\ known[k].has /\ known[k].w # NA}
      w == Total(LAMBDA k : known[k].w, kids)
      there == {k \in kids : known[k].v # NA}
  IN IF known[n].has \/ kids = {} THEN known
     ELSE [known EXCEPT ![n] =
             [has |-> TRUE, w |-> w,
              v |-> IF w <= 0 \/ there = {} THEN NA ELSE Total(LAMBDA k : known[k].v, there)]]

AggregateTree(columns, parent) ==
  IF \E c \in DOMAIN columns : columns[c].weight # NA /\ columns[c].weight < 0 THEN Refused
  ELSE FoldLeft(LAMBDA known, n : RollNode(parent, known, n),
                Leaves(columns, parent), Order(parent))

Ancestors(parent, n) ==
  LET up[d \in 0..Cardinality(DOMAIN parent)] ==
        IF d = 0 THEN {n} ELSE up[d - 1] \cup {parent[m] : m \in up[d - 1] \ {NA}}
  IN up[Cardinality(DOMAIN parent)] \ {n, NA}

-----------------------------------------------------------------------------
\* The contributions add up to the aggregate's own change exactly when every
\* usable column has a level at both ends (contributions: "These sum to the
\* aggregate's own percentage change exactly").
ContributionsAddUp(start, end, weight) ==
  LET c == Contributions(start, end, weight)
      from == WeightedAggregate(start, weight)
      to == WeightedAggregate(end, weight)
      stated == {k \in DOMAIN c : c[k] # NA}
      missing == {k \in Usable(weight) : end[k] = NA /\ weight[k] * start[k] # 0}
  IN Denominator(start, weight) # NA /\ to # NA =>
       (Total(LAMBDA k : c[k], stated) = to.v - from.v) = (missing = {})

\* Rolled up level by level, a root holds the weight and the weighted sum of
\* the supplied columns beneath it that have a weight, but none that lies below
\* a column with an index of its own: such a column stands for its subtree.
RootIsSumOfColumns(columns, parent) ==
  LET out == AggregateTree(columns, parent)
      counted(r) == {c \in DOMAIN columns :
                       /\ columns[c].weight # NA
                       /\ c = r \/ r \in Ancestors(parent, c)
                       /\ Ancestors(parent, c) \cap DOMAIN columns = {}}
      value(c) == IF columns[c].level = NA THEN 0 ELSE columns[c].weight * columns[c].level
  IN out # Refused =>
       \A r \in {n \in DOMAIN parent : parent[n] = NA} :
         IF counted(r) = {} THEN out[r].w = NA
         ELSE /\ out[r].w = Total(LAMBDA c : columns[c].weight, counted(r))
              /\ (IF out[r].v = NA THEN 0 ELSE out[r].v) = Total(value, counted(r))
================================================================================
