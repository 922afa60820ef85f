------------------------------ MODULE Adjustments ------------------------------
(***************************************************************************)
(* Linking replacement items onto the series they continue:                *)
(* apply_adjustments of pricelab/engine/quality_adjustment.py, under the   *)
(* validator of QualityAdjustmentConfig in pricelab/core/config.py.        *)
(*                                                                         *)
(* A row is a collected quote: the item and period it was collected for,   *)
(* the item it counts for now, and the ledger entries whose quality ratio  *)
(* its price was divided by.                                               *)
(***************************************************************************)
EXTENDS Integers, Sequences, FiniteSets, SequencesExt

CONSTANT Refused   \* the call raises

\* The rows of a panel that maps an item to the periods it was collected in.
Collected(panel) ==
  UNION {{[from |-> i, period |-> t, item |-> i, divided |-> <<>>] : t \in panel[i]} :
           i \in DOMAIN panel}

\* An old item is replaced once, a new item continues one old item.
OnePerItem(entries) ==
  \A a, b \in DOMAIN entries :
    a # b => entries[a].old # entries[b].old /\ entries[a].new # entries[b].new

\* Mutant: keeps the rows of the old item that were replaced.
Dropped_KeepsOld(rows, e) == {r \in rows : r.item = e.new /\ r.period < e.period}

Dropped(rows, e) ==
  {r \in rows : \/ r.item = e.old /\ r.period >= e.period
                \/ r.item = e.new /\ r.period < e.period}

Linked(rows, e) == {r \in rows : r.item = e.new /\ r.period >= e.period}

\* One entry.  It is refused when an item has no rows left, or the new one none
\* to link.
ApplyEntry(state, e) ==
  IF \/ state = Refused
     \/ ~\E r \in state.rows : r.item = e.old
     \/ Linked(state.rows, e) = {}
  THEN Refused
  ELSE [rows |-> (state.rows \ (Dropped(state.rows, e) \cup Linked(state.rows, e)))
                   \cup {[r EXCEPT !.item = e.old, !.divided = Append(@, e)] :
                           r \in Linked(state.rows, e)},
        log |-> state.log \cup {[from |-> r.from, period |-> r.period] :
                                  r \in Dropped(state.rows, e)}]

\* The ledger is applied in the order it was approved in.
ApplyAdjustments(panel, entries) ==
  IF ~OnePerItem(entries) THEN Refused
  ELSE FoldLeft(ApplyEntry, [rows |-> Collected(panel), log |-> {}], entries)

-----------------------------------------------------------------------------
\* No series has two prices in one period, and every quote collected is either
\* still there or in the log ("Nothing is dropped silently"), never both,
\* whatever ledger the validator lets through.
OnePriceNothingLost(panel, entries) ==
  LET out == ApplyAdjustments(panel, entries)
      key(r) == [from |-> r.from, period |-> r.period]
  IN out # Refused =>
       /\ \A r, q \in out.rows : r.item = q.item /\ r.period = q.period => r = q
       /\ {key(r) : r \in out.rows} \cap out.log = {}
       /\ {key(r) : r \in out.rows} \cup out.log = {key(r) : r \in Collected(panel)}

\* When the order of approval matters.  Entries between different items apply in
\* any order with one result, and neither makes the other impossible.  When an
\* item's replacement is itself replaced later, the two apply newest first only:
\* in the order in which they happened the second is refused, because the quotes
\* of the item it ends count for the first one by then.
OrderOfApproval(panel, e, f) ==
  LET Possible(entries) == ApplyAdjustments(panel, entries) # Refused
      either == Possible(<<e>>) /\ Possible(<<f>>)
  IN /\ {e.old, e.new} \cap {f.old, f.new} = {} =>
          /\ ApplyAdjustments(panel, <<e, f>>) = ApplyAdjustments(panel, <<f, e>>)
          /\ Possible(<<e, f>>) = either
     /\ e.new = f.old /\ e.period < f.period /\ e.old # f.new /\ either =>
          ~Possible(<<e, f>>) /\ Possible(<<f, e>>)
================================================================================
