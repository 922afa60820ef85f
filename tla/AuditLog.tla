------------------------------ MODULE AuditLog ------------------------------
(***************************************************************************)
(* The hash-chained audit trail of pricelab/core/audit.py, written by      *)
(* concurrent browser sessions through core.db.session_scope, on the       *)
(* default SQLite database.                                                *)
(*                                                                         *)
(* Each browser session runs on a thread of its own.  A unit of work opens *)
(* a database session, calls record_event and commits.  Most units only    *)
(* record (record of pages/common.py); some write other rows first (a      *)
(* login stores its session token, a projection stores its row).           *)
(* record_event is two statements: a SELECT of the last hash and an INSERT *)
(* of the new row.  A SELECT takes no lock and begins no transaction; the  *)
(* first INSERT takes the single write lock until the transaction ends.    *)
(*                                                                         *)
(* SHA-256 is modelled as injective: the hash of a row is the sequence of  *)
(* contents from the genesis hash to the row itself.                       *)
(***************************************************************************)
EXTENDS Naturals, Sequences

CONSTANTS Sessions,     \* browser sessions, each a thread
          MaxEvents     \* bound: record_event calls in a behaviour

ASSUME AuditAssumption == MaxEvents \in Nat

VARIABLES rows,      \* committed rows of audit_events
          pending,   \* rows flushed by each open transaction
          pc,        \* progress of each session's unit of work
          last,      \* the hash record_event read in each session
          writer,    \* the holders of SQLite's write lock
          clock,     \* record_event calls so far: makes each content unique
          crossed,   \* history: sessions that another unit's commit came upon
                     \* between the two statements of record_event
          overtaken  \* history: hashes of the rows such sessions inserted

vars == <<rows, pending, pc, last, writer, clock, crossed, overtaken>>

Genesis == <<>>
Hashes == Seq(Nat)
Row == [id : Nat, prev : Hashes, content : Nat, hash : Hashes]

HashRecord(prev, content) == Append(prev, content)

\* The row that ORDER BY id DESC LIMIT 1 returns.
Newest(R) == CHOOSE r \in R : \A q \in R : q.id <= r.id
LastHash(R) == IF R = {} THEN Genesis ELSE Newest(R).hash

\* verify_chain walks the rows by id; Before(R, e) are those visited before e.
Before(R, e) == {r \in R : r.id < e.id}
Follows(R, e) ==
  /\ e.prev = LastHash(Before(R, e))
  /\ e.hash = HashRecord(e.prev, e.content)

VerifyChain_LinksOnly(R) ==   \* mutant: the content is not re-hashed
  \A e \in R : e.prev = LastHash(Before(R, e))
VerifyChain(R) == \A e \in R : Follows(R, e)

\* The id verify_chain returns with False: the first row that does not follow.
Broken(R) == {e \in R : ~Follows(R, e)}
FirstBreak(R) == (CHOOSE e \in Broken(R) : \A f \in Broken(R) : e.id <= f.id).id

\* A session sees what is committed and what it flushed itself.
Visible(s) == rows \cup pending[s]

\* SQLite has one writer at a time; a second waits, then fails as "locked".
CanWrite_NoLock(s) == TRUE   \* mutant: writers do not wait for each other
CanWrite(s) == writer \subseteq {s}
NewId(s) == IF Visible(s) = {} THEN 1 ELSE Newest(Visible(s)).id + 1

Init ==
  /\ rows = {}
  /\ pending = [s \in Sessions |-> {}]
  /\ pc = [s \in Sessions |-> "idle"]
  /\ last = [s \in Sessions |-> Genesis]
  /\ writer = {}
  /\ clock = 0
  /\ crossed = {} /\ overtaken = {}

\* session_scope opens, for a unit that only records or has other rows to write first.
Open(s) ==
  /\ pc[s] = "idle"
  /\ \E first \in {"record", "write"} : pc' = [pc EXCEPT ![s] = first]
  /\ UNCHANGED <<rows, pending, last, writer, clock, crossed, overtaken>>

\* A flush of the unit's other rows, before it records anything.
WriteOther(s) ==
  /\ pc[s] = "write"
  /\ CanWrite(s)
  /\ pc' = [pc EXCEPT ![s] = "record"]
  /\ writer' = writer \cup {s}
  /\ UNCHANGED <<rows, pending, last, clock, crossed, overtaken>>

ReadLast_Committed(s) ==   \* mutant: the last hash is read in a session of its own
  /\ pc[s] = "record"
  /\ clock < MaxEvents
  /\ last' = [last EXCEPT ![s] = LastHash(rows)]
  /\ pc' = [pc EXCEPT ![s] = "insert"]
  /\ crossed' = crossed \ {s}
  /\ UNCHANGED <<rows, pending, writer, clock, overtaken>>

\* record_event, first statement: prev_hash = _last_hash(session).
ReadLast(s) ==
  /\ pc[s] = "record"
  /\ clock < MaxEvents
  /\ last' = [last EXCEPT ![s] = LastHash(Visible(s))]
  /\ pc' = [pc EXCEPT ![s] = "insert"]
  /\ crossed' = crossed \ {s}
  /\ UNCHANGED <<rows, pending, writer, clock, overtaken>>

\* record_event, second statement: session.add(event); session.flush().
Insert(s) ==
  /\ pc[s] = "insert"
  /\ clock < MaxEvents
  /\ CanWrite(s)
  /\ LET content == clock + 1
         hash == HashRecord(last[s], content)
     IN /\ pending' = [pending EXCEPT ![s] = @ \cup
             {[id |-> NewId(s), prev |-> last[s], content |-> content, hash |-> hash]}]
        /\ overtaken' = overtaken \cup {h \in {hash} : s \in crossed}
  /\ \E next \in {"record", "commit"} : pc' = [pc EXCEPT ![s] = next]
  /\ clock' = clock + 1
  /\ writer' = writer \cup {s}
  /\ crossed' = crossed \ {s}
  /\ UNCHANGED <<rows, last>>

Reading == {s \in Sessions : pc[s] = "insert"}

\* The end of the unit of work: session.commit().
Commit(s) ==
  /\ pc[s] = "commit"
  /\ rows' = rows \cup pending[s]
  /\ pending' = [pending EXCEPT ![s] = {}]
  /\ pc' = [pc EXCEPT ![s] = "idle"]
  /\ writer' = writer \ {s}
  /\ crossed' = crossed \cup Reading
  /\ UNCHANGED <<last, clock, overtaken>>

\* Any exception inside the unit of work, a "database is locked" timeout or
\* the death of the process before the commit: session.rollback().
Rollback(s) ==
  /\ pc[s] # "idle"
  /\ pending' = [pending EXCEPT ![s] = {}]
  /\ pc' = [pc EXCEPT ![s] = "idle"]
  /\ writer' = writer \ {s}
  /\ crossed' = crossed \ {s}
  /\ UNCHANGED <<rows, last, clock, overtaken>>

Next ==
  \E s \in Sessions :
    \/ Open(s) \/ WriteOther(s) \/ ReadLast(s) \/ Insert(s)
    \/ Commit(s) \/ Rollback(s)

Spec == Init /\ [][Next]_vars

-----------------------------------------------------------------------------
\* The state is of the expected shape, and SQLite's write lock has one holder.
TypeOK ==
  /\ rows \subseteq Row
  /\ pending \in [Sessions -> SUBSET Row]
  /\ pc \in [Sessions -> {"idle", "write", "record", "insert", "commit"}]
  /\ last \in [Sessions -> Hashes]
  /\ writer \subseteq Sessions
  /\ \A s, t \in writer : s = t
  /\ clock \in 0..MaxEvents
  /\ crossed \subseteq Reading
  /\ overtaken \subseteq Hashes

\* verify_chain reports a break only if a stored record was edited or removed:
\* whatever the sessions do, the chain the application itself wrote verifies
\* (docstring of verify_chain).
ChainIntact == VerifyChain(rows)

\* The application breaks its own chain in one way only: exactly the rows do not follow for
\* which another unit committed between record_event's SELECT and its INSERT.  No roll-back,
\* no second event of a unit and no unit that held the lock when it read leaves a row that
\* does not follow, and every race leaves one (record_event, session_scope).
ForksNeedARace == Broken(rows) = {e \in rows : e.hash \in overtaken}

\* The log implements the append-only trail, forked or not: a commit adds all rows of its
\* unit under ids above every earlier one, and no committed row changes or goes.
Trail == INSTANCE AuditTrail WITH trail <- {[at |-> e.id, event |-> e.content] : e \in rows}
TrailSpec == Trail!Spec
=============================================================================
