----------------------------- MODULE AuditTamper ----------------------------
(***************************************************************************)
(* verify_chain against edits made to the table from outside the           *)
(* application: "either that record's own content was altered after the    *)
(* fact, or a record was deleted from ahead of it" (docstring of           *)
(* verify_chain).  The application keeps writing while the edits happen.   *)
(***************************************************************************)
EXTENDS AuditLog

CONSTANT MaxEdits   \* bound: outside edits in a behaviour

VARIABLES damaged,  \* ids of the rows an outside edit left inconsistent
          edits     \* outside edits so far

tamperVars == <<vars, damaged, edits>>

TamperInit == Init /\ damaged = {} /\ edits = 0

EditAllowed == edits < MaxEdits /\ writer = {}

\* UPDATE audit_events SET params_json = ... : the hash columns stay.
Alter(r) ==
  /\ EditAllowed /\ r.content # 0
  /\ rows' = (rows \ {r}) \cup {[r EXCEPT !.content = 0]}
  /\ damaged' = damaged \cup {r.id}
  /\ edits' = edits + 1
  /\ UNCHANGED <<pending, pc, last, writer, clock, crossed, overtaken>>

\* DELETE FROM audit_events: the row after it no longer follows, unless it did not
\* follow before; and a unit between its two statements may have read the row.
After(r) == {q \in rows : q.id > r.id}
Successor(r) ==
  {q.id : q \in {p \in After(r) : p.hash \notin overtaken /\ \A o \in After(r) : p.id <= o.id}}
Remove(r) ==
  /\ EditAllowed
  /\ rows' = rows \ {r}
  /\ damaged' = (damaged \ {r.id}) \cup Successor(r)
  /\ edits' = edits + 1
  /\ crossed' = crossed \cup Reading
  /\ UNCHANGED <<pending, pc, last, writer, clock, overtaken>>

TamperNext ==
  \/ Next /\ UNCHANGED <<damaged, edits>>
  \/ \E r \in rows : Alter(r) \/ Remove(r)

TamperSpec == TamperInit /\ [][TamperNext]_tamperVars

\* As long as an edit is still visible verify_chain answers False, and names no row after
\* the first one whose content was altered or whose predecessor was deleted; and it names
\* nothing else, save a row another unit or an edit overtook as it was recorded: never one
\* appended in good faith after the edit.  Removing the newest rows leaves a shorter chain
\* that verifies, and so may removing one of two rivals for one predecessor.
EditsLocated ==
  /\ ~VerifyChain(rows) =>
       \E e \in rows : e.id = FirstBreak(rows) /\ (e.id \in damaged \/ e.hash \in overtaken)
  /\ \A id \in damaged : ~VerifyChain(rows) /\ FirstBreak(rows) <= id
=============================================================================
