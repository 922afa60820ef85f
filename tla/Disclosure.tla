------------------------------- MODULE Disclosure -------------------------------
(***************************************************************************)
(* Statistical disclosure control: suppress_small_cells and                *)
(* suppress_with_secondary of pricelab/core/security.py.                   *)
(*                                                                         *)
(* A table maps a row to its group, the number of quotes it is built from  *)
(* and its value, NA where it has none.  The total of each group is        *)
(* published beside it.                                                    *)
(***************************************************************************)
EXTENDS Integers, FiniteSets, FiniteSetsExt

CONSTANTS Threshold,    \* suppression_min_count
          NA,
          Refused       \* the call raises

\* A cell without a count is never small.
Small(cell) == cell.count # NA /\ cell.count < Threshold

Primary(table) == {i \in DOMAIN table : Small(table[i])}

Group(table, g) == {i \in DOMAIN table : table[i].group = g}
Groups(table) == {table[i].group : i \in DOMAIN table}

\* Mutant: leaves alone a group whose two cells would both disappear.
NeedsSecondary_SparesPairs(primary, remaining) ==
  Cardinality(primary) = 1 /\ Cardinality(remaining) > 1

NeedsSecondary(primary, remaining) == Cardinality(primary) = 1 /\ remaining # {}

\* idxmin: the first row of the smallest value, over those that have one.
Smallest(table, S) ==
  LET valued == {i \in S : table[i].value # NA}
      least == {i \in valued : \A j \in valued : table[i].value <= table[j].value}
  IN Min(least)

\* Rows hidden besides the small ones.
Secondary(table) ==
  LET remaining(g) == Group(table, g) \ Primary(table)
  IN {Smallest(table, remaining(g)) :
        g \in {h \in Groups(table) :
                 NeedsSecondary(Group(table, h) \cap Primary(table), remaining(h))}}

\* idxmin raises when no remaining cell has a value.
Failing(table) ==
  \E g \in Groups(table) :
    LET remaining == Group(table, g) \ Primary(table)
    IN /\ NeedsSecondary(Group(table, g) \cap Primary(table), remaining)
       /\ \A i \in remaining : table[i].value = NA

\* suppress_with_secondary.  With no grouping dimension or with several it
\* refuses: only one total per group is in scope.
Suppress(table, dimensions) ==
  IF dimensions # 1 \/ Failing(table) THEN Refused
  ELSE [i \in DOMAIN table |->
          LET hidden == i \in Primary(table) \cup Secondary(table)
          IN [value |-> IF hidden THEN NA ELSE table[i].value,
              suppressed |-> hidden, secondary |-> i \in Secondary(table)]]

-----------------------------------------------------------------------------
\* The value of a suppressed cell is never the group's total less what is
\* published of the group: of its cells with a value no single one is hidden,
\* unless it is the only cell with a value, and the total says it anyway.
\* Groups with a small cell that has no value to hide are excepted: the code
\* counts it as a second unknown.  And no more is hidden than that takes: the
\* small cells, one more cell of the group at most, and only beside a single
\* small one.
SuppressionExact(table) ==
  LET out == Suppress(table, 1)
      Hidden(g) == {i \in Group(table, g) : out[i].suppressed}
      Valued(g) == {i \in Group(table, g) : table[i].value # NA}
      Low(g) == {i \in Group(table, g) : table[i].count # NA /\ table[i].count < Threshold}
  IN out # Refused =>
       \A g \in Groups(table) :
         /\ Hidden(g) \subseteq Valued(g) /\ Cardinality(Hidden(g)) = 1 =>
              Valued(g) = Hidden(g)
         /\ Low(g) \subseteq Hidden(g)
         /\ Cardinality(Hidden(g) \ Low(g)) <= IF Cardinality(Low(g)) = 1 THEN 1 ELSE 0
==================================================================================
