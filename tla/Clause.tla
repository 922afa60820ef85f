--------------------------------- MODULE Clause ---------------------------------
(***************************************************************************)
(* Contract price escalation: apply_clause of pricelab/engine/             *)
(* escalation.py.                                                          *)
(*                                                                         *)
(* Percentages are whole numbers.  The indexation factor is Tenths / 10,   *)
(* so adjustments and limits are kept in tenths of a percent.  An index is *)
(* a sequence of readings, NA where none is published yet.                 *)
(***************************************************************************)
EXTENDS Integers, Sequences, SequencesExt

CONSTANTS NA,       \* not published, no limit
          Refused   \* the call raises

Abs(x) == IF x < 0 THEN -x ELSE x
Sign(x) == IF x < 0 THEN -1 ELSE IF x > 0 THEN 1 ELSE 0

\* The average of the `averaging` periods that end at `at`; all are needed.
Reading(index, at, averaging) ==
  LET used == (at - averaging + 1)..at
  IN IF ~(used \subseteq DOMAIN index) \/ (\E u \in used : index[u] = NA) THEN NA
     ELSE FoldLeft(+, 0, SubSeq(index, at - averaging + 1, at)) \div averaging

Movement(reading, base) == ((reading - base) * 100) \div base

\* Mutant: the excess is measured from the wrong side for falls.
Banded_Unsigned(c, movement) ==
  IF c.band = 0 THEN movement
  ELSE IF Abs(movement) <= c.band THEN 0
  ELSE IF c.mode = "excess" THEN movement - c.band ELSE movement

\* Within the dead band nothing passes through, beyond it the excess or all.
Banded(c, movement) ==
  IF c.band = 0 THEN movement
  ELSE IF Abs(movement) <= c.band THEN 0
  ELSE IF c.mode = "excess" THEN movement - Sign(movement) * c.band ELSE movement

Triggered(c, banded, current) == c.trigger = 0 \/ Abs(banded - current) >= c.trigger

\* Cap first, then collar; the adjustment tested is the one before either.
Limited(c, adjustment) ==
  IF c.collar # NA /\ adjustment < -10 * c.collar THEN -10 * c.collar
  ELSE IF c.cap # NA /\ adjustment > 10 * c.cap THEN 10 * c.cap
  ELSE adjustment

\* The payment is mentioned in the summary's list of limits.
Event(c, movement, banded, held, bound) ==
  \/ c.band # 0 /\ movement # banded
  \/ held
  \/ bound

\* One payment period; `current` is the movement the price is set at.
Pay(c, state, reading, base) ==
  LET movement == Movement(reading, base)
      banded == Banded(c, movement)
      held == ~Triggered(c, banded, state.current)
      current == IF held THEN state.current ELSE banded
      applied == Limited(c, c.tenths * current)
  IN [current |-> current,
      rows |-> Append(state.rows,
                 [movement |-> movement, banded |-> banded, set |-> current,
                  applied |-> applied,
                  event |-> Event(c, movement, banded, held, applied # c.tenths * current)])]

\* The schedule: payments in the given periods.
ApplyClause(c, index, payments) ==
  LET base == Reading(index, c.base, c.averaging)
      step(state, p) ==
        IF state = Refused \/ Reading(index, p - c.lag, c.averaging) = NA THEN Refused
        ELSE Pay(c, state, Reading(index, p - c.lag, c.averaging), base)
  IN IF base = NA \/ base <= 0 THEN Refused
     ELSE FoldLeft(step, [current |-> 0, rows |-> <<>>], payments)

-----------------------------------------------------------------------------
\* Every payment that is not what the bare movement gives is in the list of
\* events (EscalationResult.events: "one plain-language line for every period
\* in which the dead band, the trigger, the cap or the collar changed the
\* payment").
ChangesAnnounced(c, index, payments) ==
  LET out == ApplyClause(c, index, payments)
  IN out # Refused =>
       \A k \in DOMAIN out.rows :
         out.rows[k].applied # c.tenths * out.rows[k].movement => out.rows[k].event

\* A payment stays within a trigger of the movement of its own period, whatever
\* happened before, and never leaves the cap and the collar; the dead band neither
\* enlarges a movement nor turns it round.
PriceFollowsIndex(c, index, payments) ==
  LET out == ApplyClause(c, index, payments)
  IN out # Refused =>
       \A k \in DOMAIN out.rows :
         LET row == out.rows[k]
         IN /\ row.set # row.banded => Abs(row.set - row.banded) < c.trigger
            /\ c.cap # NA => row.applied <= 10 * c.cap
            /\ c.collar # NA => row.applied >= -10 * c.collar
            /\ Abs(row.banded) <= Abs(row.movement) /\ row.banded * row.movement >= 0
=================================================================================
