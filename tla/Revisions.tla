-------------------------------- MODULE Revisions --------------------------------
(***************************************************************************)
(* What the vintages of a series say about its revisions:                  *)
(* pricelab/engine/revision.py, on the chain the registry returns.         *)
(***************************************************************************)
EXTENDS Integers, Sequences, FiniteSets, SequencesExt

CONSTANTS NA, Refused

Fr == INSTANCE Ratios

\* A run of the chain reproduces to [vintage, headline, columns], or to no indices
\* at all.  The column compared is the one asked for, else the run's headline, else
\* "All items", else the first.
Column(run, series) ==
  LET names == DOMAIN run.columns
  IN IF series # NA THEN series
     ELSE IF run.headline \in names THEN run.headline
     ELSE IF "All items" \in names THEN "All items"
     ELSE CHOOSE c \in names : TRUE

Comparable(run, series) == run.columns # <<>> /\ Column(run, series) \in DOMAIN run.columns

\* The latest maxVintages of the chain, less those without the column.
VintagesFromRegistry(chain, series, maxVintages) ==
  LET latest == SubSeq(chain, Len(chain) - (IF Len(chain) < maxVintages THEN Len(chain) ELSE maxVintages) + 1, Len(chain))
      kept == SelectSeq(latest, LAMBDA run : Comparable(run, series))
  IN IF Len(chain) < 2 \/ Len(kept) < 2 THEN Refused
     ELSE [k \in DOMAIN kept |-> [vintage |-> kept[k].vintage,
                                  level |-> kept[k].columns[Column(kept[k], series)]]]

\* One row per period, one column per vintage in the order of their numbers.
RevisionTriangle(vintages) ==
  LET ordered == SortSeq(vintages, LAMBDA v, w : v.vintage < w.vintage)
      periods == UNION {DOMAIN vintages[k].level : k \in DOMAIN vintages}
  IN [t \in periods |-> [k \in DOMAIN ordered |->
        IF t \in DOMAIN ordered[k].level THEN ordered[k].level[t] ELSE NA]]

\* Mutant: differences from the first vintage.
Differences_FromFirst(row) ==
  [k \in 1..(Len(row) - 1) |-> IF NA \in {row[1], row[k + 1]} THEN NA ELSE row[k + 1] - row[1]]

\* What each vintage changed; nothing where either of the two is silent.
Differences(row) ==
  [k \in 1..(Len(row) - 1) |-> IF NA \in {row[k], row[k + 1]} THEN NA ELSE row[k + 1] - row[k]]

\* The figure first published against the one on record now.
PublishedVsCurrent(row) ==
  LET present == SelectSeq(row, LAMBDA x : x # NA)
  IN IF present = <<>> THEN NA
     ELSE [first |-> Head(present), current |-> Last(present),
           revision |-> Last(present) - Head(present), vintages |-> Len(present),
           revised |-> Head(present) # Last(present)]

\* Over all revisions: their number and mean, whether the standard error is zero,
\* and the verdict where that alone decides it (else NA: the t test does).
BiasTest(values) ==
  LET n == Len(values)
      total == FoldLeft(LAMBDA sum, x : sum + x, 0, values)
      constant == n >= 2 /\ Cardinality(ToSet(values)) = 1
  IN [n |-> n, mean |-> Fr!Ratio(total, n),
      significant |-> IF n < 2 THEN FALSE ELSE IF constant THEN total # 0 ELSE NA]

Analyse(vintages) ==
  LET triangle == RevisionTriangle(vintages)
      flat == FoldLeft(LAMBDA seq, t : seq \o SelectSeq(Differences(triangle[t]), LAMBDA x : x # NA),
                       <<>>, SetToSeq(DOMAIN triangle))
      magnitude == FoldLeft(LAMBDA sum, x : sum + Fr!Abs(x), 0, flat)
  IN [triangle |-> triangle,
      comparison |-> [t \in DOMAIN triangle |-> PublishedVsCurrent(triangle[t])],
      bias |-> BiasTest(flat), absolute |-> Fr!Ratio(magnitude, Len(flat)),
      extendsOnly |-> flat = <<>>]

-----------------------------------------------------------------------------
\* The two accounts of a page agree: where no vintage in between is silent, what
\* the vintages changed adds up to how far the figure is from the one first
\* published.  A period revised without any of them showing a change has a gap;
\* and the order in which the registry lists the vintages does not matter.
RevisionsAddUp(vintages) ==
  LET report == Analyse(vintages)
      row(t) == report.triangle[t]
      told(t) == {k \in DOMAIN row(t) : row(t)[k] # NA}
      whole(t) == \A j, k \in told(t), l \in DOMAIN row(t) : j < l /\ l < k => l \in told(t)
      changes(t) == SelectSeq(Differences(row(t)), LAMBDA x : x # NA)
      sum(t) == FoldLeft(LAMBDA total, x : total + x, 0, changes(t))
      periods == {t \in DOMAIN report.triangle : told(t) # {}}
  IN /\ \A t \in periods : whole(t) => sum(t) = report.comparison[t].revision
     /\ (\A t \in periods : whole(t)) =>
          /\ report.absolute = Fr!Zero => ~\E t \in periods : report.comparison[t].revised
          /\ report.extendsOnly => \A t \in periods : report.comparison[t].vintages = 1
     /\ report.bias.significant = TRUE => report.bias.mean # Fr!Zero
     /\ Analyse(Reverse(vintages)).comparison = report.comparison

\* A column the vintages agree on is compared over every run that still has it.
ChainIsCompared(chain, series, maxVintages) ==
  LET out == VintagesFromRegistry(chain, series, maxVintages)
      latest == {k \in DOMAIN chain : k > Len(chain) - maxVintages}
      having == {k \in latest : chain[k].columns # <<>> /\ series \in DOMAIN chain[k].columns}
  IN series # NA =>
       IF Cardinality(having) < 2 THEN out = Refused
       ELSE /\ Len(out) = Cardinality(having)
            /\ RevisionsAddUp(out)
=================================================================================
