----------------------------------- MODULE Gate -----------------------------------
(***************************************************************************)
(* The gate between an upload and a compilation (pages/ingest.py,          *)
(* pricelab/data/validation.py, pricelab/data/upload.py): the critical     *)
(* findings of a collection, the decisions recorded about them, and what   *)
(* the pipeline says of a collection that was let through.                 *)
(*                                                                         *)
(* A collection is what the checks tell apart in it: whether a required    *)
(* column is absent, how many columns have an unexpected type, whether a   *)
(* sampled row fails, which value checks fail, and how many required       *)
(* columns are mostly empty.  Findings that are not critical block         *)
(* nothing and are left out.                                               *)
(***************************************************************************)
EXTENDS Naturals, Sequences

CONSTANTS Tabs,
          Collections,  \* standardised collections, [hash, absent, ...] as below
          None

VARIABLES overrides,  \* validation_overrides: content hash, dimension
          shown,      \* the collection on each tab's Ingest page
          outcome,    \* what compiling it gave
          decided     \* history: the findings people decided on

vars == <<overrides, shown, outcome, decided>>

\* validate: an absent column ends the checks, and so does an unexpected type.
Fails(d, check) == IF check \in d.failed THEN <<check>> ELSE <<>>
Errors(d) ==
  IF d.absent THEN <<"absent">>
  ELSE [i \in 1..(d.mistyped + (IF d.sample THEN 1 ELSE 0)) |-> "contract"]
       \o (IF d.mistyped > 0 THEN <<>>
           ELSE Fails(d, "duplicates") \o Fails(d, "no prices") \o Fails(d, "negative price")
                \o Fails(d, "negative quantity") \o Fails(d, "negative expenditure"))
Passed(d) == Errors(d) = <<>>

DimensionOf(error) ==
  CASE error = "duplicates" -> "uniqueness"
    [] error = "negative price" -> "validity"
    [] OTHER -> "consistency"

\* assess: the dimension of each critical finding, in order.
Critical(d) ==
  [i \in DOMAIN Errors(d) |-> DimensionOf(Errors(d)[i])]
  \o (IF d.absent THEN <<>> ELSE [i \in 1..d.mostlyEmpty |-> "completeness"])

\* The findings still open: an override clears every critical finding of its
\* dimension for that content.
Overridden_AnyDimension(d, dimension) ==   \* mutant: one override clears all findings
  \E o \in overrides : o.hash = d.hash
Overridden(d, dimension) == [hash |-> d.hash, dimension |-> dimension] \in overrides
Open(d) == {k \in DOMAIN Critical(d) : ~Overridden(d, Critical(d)[k])}
Blocking(d) == Open(d) # {}

\* A form is keyed by content and dimension: the page draws the open findings in
\* order up to one whose key is taken, where it raises.
Forms(d) ==
  {k \in Open(d) : \A i, j \in Open(d) : i < j /\ j <= k => Critical(d)[i] # Critical(d)[j]}

Init ==
  /\ overrides = {} /\ decided = {}
  /\ shown = [t \in Tabs |-> None]
  /\ outcome = [t \in Tabs |-> None]

-----------------------------------------------------------------------------
\* compile_and_store: run_pipeline validates again and knows no decision.
Outcome(d) ==
  IF Blocking(d) THEN None
  ELSE [collection |-> d, indices |-> Passed(d), waived |-> DOMAIN Critical(d)]

\* A run of the page with a collection: it compiles unless a finding is open.
Ingest(t, d) ==
  /\ shown' = [shown EXCEPT ![t] = d]
  /\ outcome' = [outcome EXCEPT ![t] = Outcome(d)]
  /\ UNCHANGED <<overrides, decided>>

\* A decision with a reason; which of the four it is makes no difference.  A
\* finding another tab has decided meanwhile has no form in this run.
Submit(t, k) ==
  LET d == shown[t]
  IN /\ d # None
     /\ k \in Forms(d)
     /\ overrides' = overrides \cup {[hash |-> d.hash, dimension |-> Critical(d)[k]]}
     /\ decided' = decided \cup {<<d, k>>}
     /\ UNCHANGED <<shown, outcome>>

Next ==
  \E t \in Tabs :
    \/ \E d \in Collections : Ingest(t, d)
    \/ \E k \in 1..8 : Submit(t, k)

-----------------------------------------------------------------------------
\* A critical finding that was waived was decided by a person, or its dimension
\* was, for another finding of this collection or of one with the same content
\* hash (which leaves the column names out): nothing else opens the gate.  Behind
\* it an index is built exactly when nothing structural was waived: the pipeline
\* refuses the collection again.  And a blocked page always has a form to decide on.
DecisionsOpenTheGate ==
  /\ \A t \in Tabs : outcome[t] # None =>
       LET d == outcome[t].collection
       IN /\ \A k \in outcome[t].waived : \E e \in decided :
               e[1].hash = d.hash /\ Critical(e[1])[e[2]] = Critical(d)[k]
          /\ outcome[t].indices <=> \A k \in outcome[t].waived : Critical(d)[k] = "completeness"
  /\ \A d \in Collections : Blocking(d) => Forms(d) # {}
=================================================================================
