------------------------------- MODULE Registry -------------------------------
(***************************************************************************)
(* The run registry of pricelab/core/registry.py, driven by the Register,  *)
(* Approve and Register-correction buttons of pages/reports.py in several  *)
(* browser sessions at once.                                               *)
(*                                                                         *)
(* A run identifier is the hash of the input data and the configuration,   *)
(* so a run is identified with its content: r \in Runs.  Each button runs  *)
(* one unit of work of core.db.session_scope and then, in a second one,    *)
(* records an audit event.  SELECTs are steps of their own because another *)
(* session may commit between them; a flush and the commit that follows it *)
(* are one step, because a flushed row is invisible and locked until then. *)
(***************************************************************************)
EXTENDS Naturals

CONSTANTS Sessions,     \* browser sessions, each a thread
          Runs,         \* run contents: input data with a configuration
          None,         \* no row, no run
          ReRegister,   \* may a correction name content already registered?
          MaxVintage,   \* bound: highest vintage a correction may reach
          Tracked       \* bound: the audit actions whose events are kept

Row == [approved : BOOLEAN, vintage : 1..MaxVintage, supersedes : Runs \cup {None}]
MaybeRow == Row \cup {None}

ASSUME RegistryAssumption ==
  /\ None \notin Runs /\ None \notin Row
  /\ ReRegister \in BOOLEAN
  /\ MaxVintage \in Nat \ {0}
  /\ Tracked \subseteq {"registered", "approved", "corrected"}

VARIABLES runs,     \* the index_runs table
          pc,       \* progress of each session's button handler
          tx,       \* what its open unit of work has read
          events    \* audit events committed so far

vars == <<runs, pc, tx, events>>

Tx == [run : Runs, original : Runs \cup {None}, vintage : 1..MaxVintage, loaded : MaybeRow]
Event == [action : {"registered", "approved", "corrected"}, run : Runs,
          original : Runs \cup {None}]

NewRow == [approved |-> FALSE, vintage |-> 1, supersedes |-> None]
Registered(r) == runs[r] # None
Approved(r) == Registered(r) /\ runs[r].approved

\* What common.record writes once the unit of work has committed.
Happened(e) ==
  /\ Registered(e.run)
  /\ e.action = "approved" => Approved(e.run)
  /\ e.action = "corrected" => runs[e.run].supersedes # None

Init ==
  /\ runs = [r \in Runs |-> None]
  /\ pc = [s \in Sessions |-> "idle"]
  /\ tx = [s \in Sessions |-> None]
  /\ events = {}

Goto(s, label) == pc' = [pc EXCEPT ![s] = label]
Record(s, e) == tx' = [tx EXCEPT ![s] = e] /\ Goto(s, "record")

-----------------------------------------------------------------------------
(* Register this run *)

\* register_run looks the run up; an existing row is returned as it is.
RegisterLookup(s, r) ==
  /\ pc[s] = "idle"
  /\ IF Registered(r)
     THEN Record(s, [action |-> "registered", run |-> r, original |-> None])
     ELSE /\ tx' = [tx EXCEPT ![s] =
               [run |-> r, original |-> None, vintage |-> 1, loaded |-> None]]
          /\ Goto(s, "insert")
  /\ UNCHANGED <<runs, events>>

\* A row another session inserted meanwhile violates UNIQUE(run_id) and the
\* unit of work is rolled back.
CanInsert_Replace(r) == TRUE   \* mutant: INSERT OR REPLACE
CanInsert(r) == ~Registered(r)

RegisterInsert(s) ==
  /\ pc[s] = "insert"
  /\ LET r == tx[s].run
     IN /\ CanInsert(r)
        /\ runs' = [runs EXCEPT ![r] = NewRow]
        /\ Record(s, [action |-> "registered", run |-> r, original |-> None])
  /\ UNCHANGED events

\* Mutant: the handler records its event in a finally block.
Fail_Finally(s) ==
  /\ pc[s] # "idle"
  /\ IF pc[s] = "record" THEN tx' = [tx EXCEPT ![s] = None] /\ Goto(s, "idle")
     ELSE Record(s, [action |-> IF pc[s] = "insert" THEN "registered" ELSE "corrected",
                     run |-> tx[s].run, original |-> tx[s].original])
  /\ UNCHANGED <<runs, events>>

\* Any exception: IntegrityError, a locked database, a failing pipeline, the
\* death of the process.  Nothing of the open unit of work remains.
Fail(s) ==
  /\ pc[s] # "idle"
  /\ tx' = [tx EXCEPT ![s] = None]
  /\ Goto(s, "idle")
  /\ UNCHANGED <<runs, events>>

-----------------------------------------------------------------------------
(* Approve run *)

ApproveRun(s, r) ==
  /\ pc[s] = "idle"
  /\ Registered(r)
  /\ runs' = [runs EXCEPT ![r].approved = TRUE]
  /\ Record(s, [action |-> "approved", run |-> r, original |-> None])
  /\ UNCHANGED events

-----------------------------------------------------------------------------
(* Register correction *)

\* correct_run reads the original and refuses one that is not approved.
Correctable_Any(o) == Registered(o)   \* mutant: the approval is not checked
Correctable(o) == Approved(o)

CorrectRead(s, o, r) ==
  /\ pc[s] = "idle"
  /\ Correctable(o)
  /\ runs[o].vintage < MaxVintage
  /\ tx' = [tx EXCEPT ![s] =
       [run |-> r, original |-> o, vintage |-> runs[o].vintage + 1, loaded |-> None]]
  /\ Goto(s, "lookup")
  /\ UNCHANGED <<runs, events>>

\* register_run inside correct_run: is the corrected content registered
\* already?  Content identical to the original is refused.
CorrectLookup(s) ==
  /\ pc[s] = "lookup"
  /\ LET t == tx[s]
     IN /\ t.run # t.original
        /\ Registered(t.run) => ReRegister
        /\ tx' = [tx EXCEPT ![s].loaded = runs[t.run]]
  /\ Goto(s, "correct")
  /\ UNCHANGED <<runs, events>>

\* The ORM emits only the columns whose value differs from the one it loaded.
Column(stored, loaded, new) == IF new = loaded THEN stored ELSE new

CorrectedRow_SameVintage(s) ==   \* mutant: vintage = original.vintage
  LET t == tx[s]
  IN [approved |-> FALSE, vintage |-> t.vintage - 1, supersedes |-> t.original]
CorrectedRow_Twice(s) ==   \* mutant: the vintage is incremented twice
  LET t == tx[s]
  IN [approved |-> FALSE, vintage |-> t.vintage + 1, supersedes |-> t.original]
CorrectedRow(s) ==
  LET t == tx[s]
  IN [approved |-> FALSE, vintage |-> t.vintage, supersedes |-> t.original]

\* The new row, or the row register_run found, is linked to the original.
CorrectWrite(s) ==
  /\ pc[s] = "correct"
  /\ LET t == tx[s]
         r == t.run
     IN /\ \/ /\ t.loaded = None
              /\ CanInsert(r)
              /\ runs' = [runs EXCEPT ![r] = CorrectedRow(s)]
           \/ /\ t.loaded # None
              /\ runs' = [runs EXCEPT
                   ![r].vintage = Column(runs[r].vintage, t.loaded.vintage, t.vintage),
                   ![r].supersedes =
                      Column(runs[r].supersedes, t.loaded.supersedes, t.original)]
        /\ Record(s, [action |-> "corrected", run |-> r, original |-> t.original])
  /\ UNCHANGED events

-----------------------------------------------------------------------------
\* common.record, in a unit of work of its own after the other committed.
RecordEvent(s) ==
  /\ pc[s] = "record"
  /\ events' = events \cup {e \in {tx[s]} : e.action \in Tracked}
  /\ tx' = [tx EXCEPT ![s] = None]
  /\ Goto(s, "idle")
  /\ UNCHANGED runs

Next ==
  \E s \in Sessions :
    \/ \E r \in Runs : RegisterLookup(s, r) \/ ApproveRun(s, r)
    \/ \E o, r \in Runs : CorrectRead(s, o, r)
    \/ RegisterInsert(s) \/ CorrectLookup(s) \/ CorrectWrite(s)
    \/ RecordEvent(s) \/ Fail(s)

Spec == Init /\ [][Next]_vars

-----------------------------------------------------------------------------
\* The state is of the expected shape.
TypeOK ==
  /\ runs \in [Runs -> MaybeRow]
  /\ pc \in [Sessions -> {"idle", "insert", "lookup", "correct", "record"}]
  /\ tx \in [Sessions -> Tx \cup Event \cup {None}]
  /\ \A s \in Sessions :
       /\ pc[s] \in {"insert", "lookup", "correct"} => tx[s] \in Tx
       /\ pc[s] \in {"lookup", "correct"} => tx[s].original \in Runs
       /\ pc[s] = "record" => tx[s] \in Event
  /\ events \subseteq Event

\* A vintage above 1 is exactly a row that supersedes another one, and what it
\* supersedes was signed off, whatever was approved, corrected or registered
\* by other sessions while the correction was being made (correct_run:
\* "correction" only applies once a figure has been signed off).
LineageSound ==
  \A r \in Runs : Registered(r) =>
    /\ runs[r].vintage > 1 <=> runs[r].supersedes # None
    /\ runs[r].supersedes # None =>
         runs[r].supersedes # r /\ Approved(runs[r].supersedes)

\* The audit log never claims what did not happen: an event is recorded after
\* the commit it reports, and what it reports is never undone.
EventsTruthful == \A e \in events : Happened(e)

ApprovedUnchanged == \A r \in Runs : Approved(r) => runs'[r] = runs[r]

\* "An approved run is immutable": no step changes any column of one.
ApprovedImmutable == [][ApprovedUnchanged]_vars

RowsKept ==
  \A r \in Runs : /\ Registered(r) => Registered(r)'
                  /\ Approved(r) => Approved(r)'

\* No step withdraws an approval or deletes a row.
ApprovalPersists == [][RowsKept]_vars

\* A vintage is numbered one above the run it supersedes, so vintages grow
\* along the chain and a run is never its own ancestor.
VintagesGrow ==
  \A r \in Runs : Registered(r) /\ runs[r].supersedes # None =>
    runs[r].vintage = runs[runs[r].supersedes].vintage + 1
=============================================================================
