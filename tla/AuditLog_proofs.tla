--------------------------- MODULE AuditLog_proofs ---------------------------
(***************************************************************************)
(* The hash chain of core/audit.py, for any number of sessions and events: *)
(* a row fails to follow exactly where a unit of work was overtaken        *)
(* between the SELECT and the INSERT of record_event, the log is an        *)
(* append-only trail all the same, and verify_chain locates every edit     *)
(* made from outside (AuditTamper).                                        *)
(***************************************************************************)
EXTENDS AuditTamper, WellFoundedInduction, TLAPS

\* The content a row was inserted with is the last of its hash.
Stamp(e) == e.hash[Len(e.hash)]

\* A hash of the first n calls of record_event, or the genesis hash.
Made(h, n) == h = Genesis \/ h[Len(h)] \in 1..n

Bounded(R) == \E n \in Nat : \A e \in R : e.id <= n

\* The rows of a table, edited or not: no id twice; hashes as the application made them, no
\* two the same; contents as they were or altered.
Numbered(R, n) ==
  /\ Bounded(R)
  /\ \A p, q \in R : p.id = q.id => p = q
  /\ \A p, q \in R : Stamp(p) = Stamp(q) => p = q
  /\ \A e \in R : /\ e.hash = Append(e.prev, Stamp(e)) /\ Made(e.prev, n)
                  /\ Stamp(e) \in 1..n /\ e.content \in {0, Stamp(e)}

\* Only the holder of the write lock has flushed rows, and they come after every committed
\* one; a session that was overtaken has not got the lock.
Locked ==
  \A s \in Sessions :
    /\ pending[s] # {} => s \in writer
    /\ pc[s] = "commit" => s \in writer /\ pending[s] # {}
    /\ s \in crossed => s \notin writer
    /\ \A p \in pending[s], q \in rows : q.id < p.id

\* The hash a session has read is still the last one, unless it was overtaken.
Read ==
  \A s \in Sessions :
    /\ Made(last[s], clock)
    /\ pc[s] = "insert" /\ s \notin crossed => last[s] = LastHash(Visible(s))

\* The part of the strengthening that edits from outside leave alone.
Base ==
  /\ TypeOK /\ Locked /\ Read
  /\ Numbered(rows, clock) /\ \A s \in Sessions : Numbered(Visible(s), clock)
  /\ \A h \in overtaken : h # Genesis /\ Made(h, clock)

-----------------------------------------------------------------------------
(* Rows and their numbers *)

\* A set of numbers that is not empty has a least one, a bounded one a greatest.
LEMMA LeastNumber ==
  ASSUME NEW T \in SUBSET Nat, T # {} PROVE \E x \in T : \A y \in T : x <= y
<1>1. PICK x \in T : \A y \in T : <<y, x>> \notin OpToRel(<, Nat)
  BY WFMin, NatLessThanWellFounded
<1>2. \A y \in T : ~(y < x)
  BY <1>1 DEF OpToRel
<1> QED BY <1>2

LEMMA GreatestNumber ==
  ASSUME NEW T \in SUBSET Nat, T # {}, NEW n \in Nat, \A x \in T : x <= n
  PROVE  \E x \in T : \A y \in T : y <= x
<1> DEFINE B == {m \in Nat : \A x \in T : x <= m}
<1>1. PICK m \in B : \A k \in B : m <= k
  <2>1. n \in B /\ B \in SUBSET Nat
    OBVIOUS
  <2> HIDE DEF B
  <2> QED BY <2>1, LeastNumber
<1>2. CASE m \in T
  BY <1>1, <1>2
<1>3. CASE m \notin T
  <2>1. \A x \in T : x \in Nat /\ x < m
    BY <1>1, <1>3
  <2>2. m - 1 \in Nat /\ \A x \in T : x <= m - 1
    <3>1. PICK x \in T : x \in Nat /\ x < m
      BY <2>1
    <3> QED BY <1>1, <2>1, <3>1
  <2>3. m <= m - 1
    BY <1>1, <2>2
  <2> QED BY <1>1, <2>3
<1> QED BY <1>2, <1>3

LEMMA LastOfHash ==
  ASSUME NEW g \in Hashes, NEW c \in Nat
  PROVE  /\ Append(g, c) \in Hashes /\ Append(g, c) # Genesis
         /\ Append(g, c)[Len(Append(g, c))] = c
BY DEF Hashes, Genesis

LEMMA NewestOfBounded ==
  ASSUME NEW R \in SUBSET Row, R # {}, Bounded(R)
  PROVE  Newest(R) \in R /\ \A q \in R : q.id <= Newest(R).id
<1> DEFINE T == {e.id : e \in R}
<1>1. T \in SUBSET Nat /\ T # {}
  BY DEF Row
<1>2. PICK n \in Nat : \A e \in R : e.id <= n
  BY DEF Bounded
<1>3. \A x \in T : x <= n
  BY <1>2
<1>4. PICK x \in T : \A y \in T : y <= x
  <2> HIDE DEF T
  <2> QED BY <1>1, <1>3, GreatestNumber
<1>5. \E r \in R : \A q \in R : q.id <= r.id
  BY <1>4
<1> QED BY <1>5 DEF Newest

LEMMA LastHashOf ==
  ASSUME NEW R \in SUBSET Row, Bounded(R)
  PROVE  /\ LastHash(R) \in Hashes
         /\ LastHash(R) = Genesis \/ \E p \in R : LastHash(R) = p.hash
<1>1. CASE R = {}
  BY <1>1 DEF LastHash, Hashes, Genesis
<1>2. CASE R # {}
  BY <1>2, NewestOfBounded DEF LastHash, Row
<1> QED BY <1>1, <1>2

\* The newest row of a set, where every other is older.
LEMMA NewestIs ==
  ASSUME NEW R \in SUBSET Row, NEW m \in R, \A p, q \in R : p.id = q.id => p = q,
         \A q \in R : q.id <= m.id
  PROVE  LastHash(R) = m.hash
<1>1. Newest(R) \in R /\ \A q \in R : q.id <= Newest(R).id
  BY DEF Newest
<1>2. Newest(R).id = m.id
  BY <1>1 DEF Row
<1> QED BY <1>1, <1>2 DEF LastHash

\* Every hash is longer than the genesis hash and ends in the number of its row.
LEMMA HashOfRow ==
  ASSUME NEW R \in SUBSET Row, NEW n \in Nat, Numbered(R, n), NEW e \in R
  PROVE  e.hash # Genesis /\ e.hash[Len(e.hash)] = Stamp(e) /\ Made(e.hash, n)
<1>1. e.prev \in Hashes /\ Stamp(e) \in Nat /\ Stamp(e) \in 1..n /\ e.hash = Append(e.prev, Stamp(e))
  BY DEF Numbered, Row
<1> QED BY <1>1, LastOfHash DEF Made, Stamp

\* A row follows when its content is the one it was hashed with and it comes after the row
\* it was hashed over.
LEMMA FollowsIff ==
  ASSUME NEW R \in SUBSET Row, NEW n \in Nat, NEW e \in Row,
         e.hash = Append(e.prev, Stamp(e)), Stamp(e) \in 1..n
  PROVE  Follows(R, e) <=> e.content = Stamp(e) /\ e.prev = LastHash(Before(R, e))
<1>1. e.prev \in Hashes /\ e.content \in Nat /\ Stamp(e) \in Nat
  BY DEF Row
<1>2. e.hash = Append(e.prev, e.content) <=> e.content = Stamp(e)
  <2>1. Append(e.prev, e.content)[Len(Append(e.prev, e.content))] = e.content
    BY <1>1, LastOfHash
  <2>2. Append(e.prev, Stamp(e))[Len(Append(e.prev, Stamp(e)))] = Stamp(e)
    BY <1>1, LastOfHash
  <2> QED BY <1>1, <2>1, <2>2
<1> QED BY <1>2 DEF Follows, HashRecord

\* A new row, numbered after all others.
LEMMA ExtendNumbered ==
  ASSUME NEW R \in SUBSET Row, NEW n \in Nat, Numbered(R, n), NEW e \in Row,
         \A q \in R : q.id < e.id, Made(e.prev, n), e.content = n + 1,
         e.hash = HashRecord(e.prev, e.content)
  PROVE  /\ Numbered(R \cup {e}, n + 1)
         /\ Stamp(e) = n + 1 /\ e.hash = Append(e.prev, Stamp(e)) /\ e.hash # Genesis
         /\ Before(R \cup {e}, e) = R
         /\ \A q \in R : Before(R \cup {e}, q) = Before(R, q)
<1> DEFINE S == R \cup {e}
<1>1. Before(S, e) = R /\ \A q \in R : Before(S, q) = Before(R, q)
  BY DEF Before, Row
<1>2. Stamp(e) = n + 1 /\ e.hash = Append(e.prev, Stamp(e)) /\ e.hash # Genesis
  BY LastOfHash DEF Stamp, HashRecord, Row
<1>3. \A p, q \in S : p.id = q.id => p = q
  BY DEF Numbered, Row
<1>4. Bounded(S)
  BY DEF Bounded, Row
<1>5. \A h : Made(h, n) => Made(h, n + 1)
  BY DEF Made
<1>6. \A q \in S : /\ q.hash = Append(q.prev, Stamp(q)) /\ Made(q.prev, n + 1)
                   /\ Stamp(q) \in 1..(n + 1) /\ q.content \in {0, Stamp(q)}
  BY <1>2, <1>5 DEF Numbered
<1>7. \A p, q \in S : Stamp(p) = Stamp(q) => p = q
  <2>1. \A q \in R : Stamp(q) \in 1..n
    BY DEF Numbered
  <2> QED BY <1>2, <2>1 DEF Numbered
<1>8. Numbered(S, n + 1)
  BY <1>3, <1>4, <1>6, <1>7 DEF Numbered
<1> QED BY <1>1, <1>2, <1>8

-----------------------------------------------------------------------------
(* The steps of the application *)

LEMMA BaseTypes ==
  ASSUME Base
  PROVE  /\ clock \in Nat /\ rows \in SUBSET Row
         /\ \A s \in Sessions : /\ Visible(s) \in SUBSET Row /\ rows \subseteq Visible(s)
                                /\ pending[s] \subseteq Visible(s) /\ last[s] \in Hashes
BY AuditAssumption DEF Base, TypeOK, Visible, AuditAssumption

\* What an insert does: one row more for its session, after everything anybody can see.
Inserted(s, e) ==
  /\ pending' = [pending EXCEPT ![s] = pending[s] \cup {e}]
  /\ rows' = rows /\ clock' = clock + 1 /\ writer' = {s}
  /\ \A q \in Visible(s) : q.id < e.id
  /\ e.prev = last[s] /\ e.content = clock + 1 /\ e.hash = HashRecord(e.prev, e.content)
  /\ overtaken' = overtaken \cup {h \in {e.hash} : s \in crossed}
  /\ Visible(s)' = Visible(s) \cup {e}
  /\ \A t \in Sessions : t # s => Visible(t)' = Visible(t)

LEMMA InsertedRow ==
  ASSUME Base, NEW s \in Sessions, Insert(s)
  PROVE  \E e \in Row : Inserted(s, e)
<1> DEFINE V == Visible(s)
           e == [id |-> NewId(s), prev |-> last[s], content |-> clock + 1,
                 hash |-> HashRecord(last[s], clock + 1)]
<1>1. V \in SUBSET Row /\ Bounded(V) /\ last[s] \in Hashes /\ clock \in Nat
  BY BaseTypes DEF Base, Numbered
<1>2. NewId(s) \in Nat /\ \A q \in V : q.id < NewId(s)
  <2>1. CASE V = {}
    BY <2>1 DEF NewId
  <2>2. CASE V # {}
    <3>1. Newest(V) \in V /\ \A q \in V : q.id <= Newest(V).id
      BY <1>1, <2>2, NewestOfBounded
    <3>2. NewId(s) = Newest(V).id + 1
      BY <2>2 DEF NewId
    <3> QED BY <1>1, <3>1, <3>2 DEF Row
  <2> QED BY <2>1, <2>2
<1>3. HashRecord(last[s], clock + 1) \in Hashes
  BY <1>1 DEF HashRecord, Hashes
<1>4. /\ e \in Row /\ \A q \in V : q.id < e.id
      /\ e.prev = last[s] /\ e.content = clock + 1 /\ e.hash = HashRecord(e.prev, e.content)
  BY <1>1, <1>2, <1>3 DEF Row
<1>5. /\ pending' = [pending EXCEPT ![s] = pending[s] \cup {e}]
      /\ rows' = rows /\ clock' = clock + 1 /\ writer' = writer \cup {s} /\ writer \subseteq {s}
  BY DEF Insert, CanWrite
<1>6. overtaken' = overtaken \cup {h \in {e.hash} : s \in crossed}
  BY DEF Insert
<1> HIDE DEF e
<1>7. Visible(s)' = V \cup {e} /\ \A t \in Sessions : t # s => Visible(t)' = Visible(t)
  BY <1>5 DEF Visible, Base, TypeOK
<1>8. Inserted(s, e)
  BY <1>4, <1>5, <1>6, <1>7 DEF Inserted
<1> QED BY <1>4, <1>8

\* A commit shows every session what its own saw.
LEMMA Committed ==
  ASSUME Base, NEW s \in Sessions, Commit(s)
  PROVE  /\ rows' = Visible(s) /\ clock' = clock /\ overtaken' = overtaken /\ last' = last
         /\ writer' = {}
         /\ \A t \in Sessions : pending'[t] = {} /\ pc'[t] # "commit" /\ Visible(t)' = Visible(s)
         /\ \A t \in Sessions : t # s => pending[t] = {} /\ Visible(t) = rows
<1>1. s \in writer /\ writer = {s}
  BY DEF Commit, Base, Locked, TypeOK
<1>2. /\ rows' = Visible(s) /\ clock' = clock /\ overtaken' = overtaken /\ last' = last
      /\ writer' = {}
      /\ pending' = [pending EXCEPT ![s] = {}] /\ pc' = [pc EXCEPT ![s] = "idle"]
  BY <1>1 DEF Commit, Visible
<1>3. \A t \in Sessions : t # s => pending[t] = {} /\ Visible(t) = rows /\ pc[t] # "commit"
  BY <1>1 DEF Base, Locked, Visible
<1>4. \A t \in Sessions : pending'[t] = {} /\ pc'[t] # "commit"
  BY <1>2, <1>3 DEF Base, TypeOK
<1>5. \A t \in Sessions : Visible(t)' = Visible(s)
  BY <1>2, <1>4 DEF Visible
<1> QED BY <1>2, <1>3, <1>4, <1>5

\* A roll-back leaves its session with the committed rows.
LEMMA RolledBack ==
  ASSUME Base, NEW s \in Sessions, Rollback(s)
  PROVE  /\ rows' = rows /\ clock' = clock /\ overtaken' = overtaken /\ last' = last
         /\ writer' = writer \ {s} /\ crossed' = crossed \ {s}
         /\ \A t \in Sessions : pending'[t] = IF t = s THEN {} ELSE pending[t]
         /\ \A t \in Sessions : pc'[t] = IF t = s THEN "idle" ELSE pc[t]
         /\ \A t \in Sessions : Visible(t)' = IF t = s THEN rows ELSE Visible(t)
<1>1. /\ rows' = rows /\ clock' = clock /\ overtaken' = overtaken /\ last' = last
      /\ writer' = writer \ {s} /\ crossed' = crossed \ {s}
      /\ \A t \in Sessions : pending'[t] = IF t = s THEN {} ELSE pending[t]
      /\ \A t \in Sessions : pc'[t] = IF t = s THEN "idle" ELSE pc[t]
  BY DEF Rollback, Base, TypeOK
<1> QED BY <1>1 DEF Visible

\* Opening a unit, its other writes and the SELECT of record_event change no row.
LEMMA NoRowChanges ==
  ASSUME Base, NEW s \in Sessions, Open(s) \/ WriteOther(s) \/ ReadLast(s)
  PROVE  /\ rows' = rows /\ pending' = pending /\ clock' = clock /\ overtaken' = overtaken
         /\ \A t \in Sessions : Visible(t)' = Visible(t)
         /\ crossed' = crossed \ {s} \/ crossed' = crossed
         /\ \A t \in Sessions : t # s => pc'[t] = pc[t] /\ last'[t] = last[t]
BY DEF Open, WriteOther, ReadLast, Visible, Base, TypeOK

LEMMA BaseStep ==
  ASSUME Base, Next PROVE Base'
<1> USE DEF Base
<1>0. /\ clock \in Nat
      /\ \A s \in Sessions : LastHash(Visible(s)) \in Hashes /\ Made(LastHash(Visible(s)), clock)
  <2> SUFFICES ASSUME NEW s \in Sessions
               PROVE  LastHash(Visible(s)) \in Hashes /\ Made(LastHash(Visible(s)), clock)
    BY BaseTypes
  <2>1. clock \in Nat /\ Visible(s) \in SUBSET Row /\ Numbered(Visible(s), clock)
    BY BaseTypes
  <2>2. /\ LastHash(Visible(s)) \in Hashes
        /\ LastHash(Visible(s)) = Genesis \/ \E p \in Visible(s) : LastHash(Visible(s)) = p.hash
    BY <2>1, LastHashOf DEF Numbered
  <2>3. Made(LastHash(Visible(s)), clock)
    BY <2>1, <2>2, HashOfRow DEF Made
  <2> QED BY <2>2, <2>3
<1>1. ASSUME NEW s \in Sessions, Open(s) \/ WriteOther(s) \/ ReadLast(s) PROVE Base'
  <2>1. /\ rows' = rows /\ pending' = pending /\ clock' = clock /\ overtaken' = overtaken
        /\ \A t \in Sessions : Visible(t)' = Visible(t)
    BY <1>1, NoRowChanges
  <2>2. TypeOK'
    <3>1. CASE Open(s)
      BY <3>1 DEF Open, TypeOK, Reading
    <3>2. CASE WriteOther(s)
      BY <3>2 DEF WriteOther, CanWrite, TypeOK, Reading
    <3>3. CASE ReadLast(s)
      BY <1>0, <3>3 DEF ReadLast, TypeOK, Reading
    <3> QED BY <1>1, <3>1, <3>2, <3>3
  <2>3. Locked'
    <3>1. CASE Open(s)
      BY <2>1, <3>1 DEF Open, Locked, TypeOK, Reading
    <3>2. CASE WriteOther(s)
      BY <2>1, <3>2 DEF WriteOther, Locked, TypeOK, Reading
    <3>3. CASE ReadLast(s)
      BY <2>1, <3>3 DEF ReadLast, Locked, TypeOK, Reading
    <3> QED BY <1>1, <3>1, <3>2, <3>3
  <2>4. Read'
    <3>1. CASE Open(s)
      BY <2>1, <3>1 DEF Open, Read, TypeOK
    <3>2. CASE WriteOther(s)
      BY <2>1, <3>2 DEF WriteOther, Read, TypeOK
    <3>3. CASE ReadLast(s)
      BY <1>0, <2>1, <3>3 DEF ReadLast, Read, TypeOK
    <3> QED BY <1>1, <3>1, <3>2, <3>3
  <2> QED BY <2>1, <2>2, <2>3, <2>4
<1>2. ASSUME NEW s \in Sessions, Insert(s) PROVE Base'
  <2>1. PICK e \in Row : Inserted(s, e)
    BY <1>2, InsertedRow
  <2>2. /\ \A R : Numbered(R, clock) => Numbered(R, clock + 1)
        /\ \A h : Made(h, clock) => Made(h, clock + 1)
    <3>1. \A h : Made(h, clock) => Made(h, clock + 1)
      BY <1>0 DEF Made
    <3> QED BY <1>0, <3>1 DEF Numbered
  <2>3. Made(last[s], clock)
    BY DEF Read
  <2>4. /\ Numbered(Visible(s) \cup {e}, clock + 1) /\ Stamp(e) = clock + 1
        /\ e.hash # Genesis
    BY <1>0, <2>1, <2>3, BaseTypes, ExtendNumbered DEF Inserted
  <2>5. Made(e.hash, clock + 1)
    BY <1>0, <2>4 DEF Made, Stamp
  <2>6. TypeOK'
    <3>1. e.hash \in Hashes
      BY <2>1 DEF Row
    <3> QED BY <1>2, <2>1, <3>1, AuditAssumption DEF Insert, Inserted, TypeOK, AuditAssumption, Reading
  <2>7. \A t \in Sessions : t # s => pending[t] = {} /\ t \notin writer
    BY <1>2 DEF Insert, CanWrite, Locked
  <2>8. \A t \in Sessions : pending'[t] = IF t = s THEN pending[s] \cup {e} ELSE {}
    BY <2>1, <2>7 DEF Inserted, TypeOK
  <2>9. \A t \in Sessions : t # s => pc'[t] = pc[t]
    BY <1>2 DEF Insert, TypeOK
  <2>10. crossed' = crossed \ {s} /\ last' = last /\ pc'[s] # "insert"
    BY <1>2 DEF Insert, TypeOK
  <2>11. Locked'
    <3>1. rows \subseteq Visible(s)
      BY DEF Visible
    <3> QED BY <2>1, <2>7, <2>8, <2>9, <2>10, <3>1 DEF Locked, Inserted
  <2>12. Read'
    BY <2>1, <2>2, <2>9, <2>10 DEF Read, Inserted
  <2>13. Numbered(rows, clock)' /\ \A t \in Sessions : Numbered(Visible(t), clock)'
    BY <2>1, <2>2, <2>4 DEF Inserted
  <2>14. \A h \in overtaken' : h # Genesis /\ Made(h, clock + 1)
    BY <2>1, <2>2, <2>4, <2>5 DEF Inserted
  <2> QED BY <2>1, <2>6, <2>11, <2>12, <2>13, <2>14 DEF Inserted
<1>3. ASSUME NEW s \in Sessions, Commit(s) PROVE Base'
  <2>1. /\ rows' = Visible(s) /\ clock' = clock /\ overtaken' = overtaken /\ last' = last
        /\ writer' = {}
        /\ \A t \in Sessions : pending'[t] = {} /\ pc'[t] # "commit" /\ Visible(t)' = Visible(s)
    BY <1>3, Committed
  <2>2. TypeOK'
    BY <1>3 DEF Commit, TypeOK, Reading
  <2>3. Locked'
    BY <2>1 DEF Locked
  <2>4. \A t \in Sessions : pc'[t] = "insert" => t \in crossed'
    BY <1>3 DEF Commit, TypeOK, Reading
  <2>5. Read'
    BY <2>1, <2>4 DEF Read
  <2> QED BY <2>1, <2>2, <2>3, <2>5
<1>4. ASSUME NEW s \in Sessions, Rollback(s) PROVE Base'
  <2>1. /\ rows' = rows /\ clock' = clock /\ overtaken' = overtaken /\ last' = last
        /\ writer' = writer \ {s} /\ crossed' = crossed \ {s}
        /\ \A t \in Sessions : pending'[t] = IF t = s THEN {} ELSE pending[t]
        /\ \A t \in Sessions : pc'[t] = IF t = s THEN "idle" ELSE pc[t]
        /\ \A t \in Sessions : Visible(t)' = IF t = s THEN rows ELSE Visible(t)
    BY <1>4, RolledBack
  <2>2. TypeOK'
    BY <1>4, <2>1 DEF Rollback, TypeOK, Reading
  <2>3. Locked' /\ Read'
    BY <2>1 DEF Locked, Read
  <2> QED BY <2>1, <2>2, <2>3
<1> QED BY <1>1, <1>2, <1>3, <1>4 DEF Next

LEMMA BaseStarts ==
  ASSUME Init PROVE Base
<1>1. TypeOK
  BY AuditAssumption DEF Init, TypeOK, AuditAssumption, Hashes, Genesis, Reading
<1>2. \A n : Numbered({}, n)
  BY DEF Numbered, Bounded
<1>3. \A s \in Sessions : Visible(s) = {}
  BY DEF Init, Visible
<1> QED BY <1>1, <1>2, <1>3 DEF Init, Base, Locked, Read, Made

LEMMA BaseStutters ==
  ASSUME Base, UNCHANGED vars PROVE Base'
<1>1. \A s \in Sessions : Visible(s)' = Visible(s)
  BY DEF vars, Visible
<1> QED BY <1>1 DEF vars, Base, TypeOK, Reading, Locked, Read

\* The log's state always has the expected shape, and SQLite's write lock has at most one
\* holder (record_event, session_scope).
THEOREM AuditTypes == Spec => []TypeOK
<1>1. Init => Base
  BY BaseStarts
<1>2. Base /\ [Next]_vars => Base'
  BY BaseStep, BaseStutters
<1>3. Base => TypeOK
  BY DEF Base
<1> QED BY <1>1, <1>2, <1>3, PTL DEF Spec

-----------------------------------------------------------------------------
(* Where the chain breaks *)

\* A row follows unless its unit was overtaken, and then it does not.
Exact(R) ==
  \A e \in R : /\ e.content = Stamp(e)
               /\ e.prev = LastHash(Before(R, e)) <=> e.hash \notin overtaken

\* The strengthening: a hash that was read is that of a row, and no longer the last one when
\* its session was overtaken.
IInv ==
  /\ Base
  /\ Exact(rows) /\ \A s \in Sessions : Exact(Visible(s))
  /\ \A s \in Sessions : last[s] = Genesis \/ pc[s] # "insert" \/ \E q \in Visible(s) : q.hash = last[s]
  /\ \A s \in crossed : last[s] # LastHash(rows)

\* A row that is added breaks the chain exactly when its session was overtaken.
LEMMA InsertExact ==
  ASSUME IInv, NEW s \in Sessions, Insert(s)
  PROVE  Exact(rows)' /\ \A t \in Sessions : Exact(Visible(t))'
<1>1. PICK e \in Row : Inserted(s, e)
  BY InsertedRow DEF IInv
<1>2. /\ clock \in Nat /\ \A t \in Sessions : Visible(t) \in SUBSET Row /\ Numbered(Visible(t), clock)
      /\ rows \in SUBSET Row /\ Numbered(rows, clock)
  BY BaseTypes DEF IInv, Base
<1>3. /\ Numbered(Visible(s) \cup {e}, clock + 1) /\ Stamp(e) = clock + 1 /\ e.hash # Genesis
      /\ Before(Visible(s) \cup {e}, e) = Visible(s)
      /\ \A q \in Visible(s) : Before(Visible(s) \cup {e}, q) = Before(Visible(s), q)
  <2>1. Made(e.prev, clock)
    BY <1>1 DEF Inserted, IInv, Base, Read
  <2> QED BY <1>1, <1>2, <2>1, ExtendNumbered DEF Inserted
<1>4. ~Made(e.hash, clock)
  <2>1. e.hash[Len(e.hash)] = clock + 1
    BY <1>3 DEF Stamp
  <2> QED BY <1>2, <1>3, <2>1 DEF Made
<1>5. e.hash \notin overtaken
  BY <1>4 DEF IInv, Base
<1>6. \A t \in Sessions : \A q \in Visible(t) : q.hash # e.hash
  BY <1>2, <1>4, HashOfRow
<1>7. \A q \in rows : q.hash # e.hash
  BY <1>2, <1>4, HashOfRow
<1>8. overtaken' = IF s \in crossed THEN overtaken \cup {e.hash} ELSE overtaken
  BY <1>1 DEF Inserted
<1>9. Exact(rows)'
  BY <1>1, <1>7, <1>8 DEF Inserted, Exact, IInv
<1>10. ASSUME NEW t \in Sessions, t # s PROVE Exact(Visible(t))'
  BY <1>1, <1>6, <1>8, <1>10 DEF Inserted, Exact, IInv
<1>11. e.prev = LastHash(Visible(s)) <=> s \notin crossed
  <2>1. e.prev = last[s] /\ pc[s] = "insert"
    BY <1>1 DEF Inserted, Insert
  <2>2. CASE s \notin crossed
    BY <2>1, <2>2 DEF IInv, Base, Read
  <2>3. CASE s \in crossed
    <3>1. Visible(s) = rows
      BY <2>3 DEF IInv, Base, Locked, Visible
    <3> QED BY <2>1, <2>3, <3>1 DEF IInv
  <2> QED BY <2>2, <2>3
<1>12. Exact(Visible(s))'
  <2>1. e.content = Stamp(e) /\ (e.hash \notin overtaken' <=> s \notin crossed)
    BY <1>1, <1>3, <1>5, <1>8 DEF Inserted
  <2>2. ASSUME NEW q \in Visible(s)
        PROVE  /\ q.content = Stamp(q)
               /\ q.prev = LastHash(Before(Visible(s) \cup {e}, q)) <=> q.hash \notin overtaken'
    BY <1>3, <1>6, <1>8 DEF IInv, Exact
  <2>3. Visible(s)' = Visible(s) \cup {e}
    BY <1>1 DEF Inserted
  <2>4. \A q \in Visible(s)' :
          /\ q.content = Stamp(q)
          /\ q.prev = LastHash(Before(Visible(s)', q)) <=> q.hash \notin overtaken'
    BY <1>3, <1>11, <2>1, <2>2, <2>3
  <2> QED BY <2>4 DEF Exact
<1> QED BY <1>9, <1>10, <1>12

\* A commit leaves no session that is reading with the last hash.
LEMMA CommitOvertakes ==
  ASSUME IInv, NEW s \in Sessions, Commit(s), NEW t \in Sessions, t # s, pc[t] = "insert"
  PROVE  last[t] # LastHash(Visible(s))
<1> DEFINE V == Visible(s)
<1>1. /\ V \in SUBSET Row /\ Numbered(V, clock) /\ clock \in Nat
      /\ rows \subseteq V /\ pending[s] \subseteq V /\ V = rows \cup pending[s]
  BY BaseTypes DEF IInv, Base, Visible
<1>2. pending[s] # {} /\ \A p \in pending[s], q \in rows : q.id < p.id
  BY DEF Commit, IInv, Base, Locked
<1>3. V # {} /\ Newest(V) \in V /\ \A q \in V : q.id <= Newest(V).id
  BY <1>1, <1>2, NewestOfBounded DEF Numbered
<1>4. Newest(V) \notin rows
  <2>1. PICK p \in pending[s] : p \in V
    BY <1>1, <1>2
  <2>2. p.id <= Newest(V).id /\ p.id \in Nat /\ Newest(V).id \in Nat
    BY <1>1, <1>3, <2>1 DEF Row
  <2>3. Newest(V) \in rows => Newest(V).id < p.id
    BY <1>2, <2>1
  <2> QED BY <2>2, <2>3
<1>5. LastHash(V) = Newest(V).hash
  BY <1>3 DEF LastHash
<1>6. Visible(t) = rows
  BY Committed DEF IInv
<1>7. last[t] = Genesis \/ \E q \in rows : q.hash = last[t]
  BY <1>6 DEF IInv
<1>8. LastHash(V) # Genesis
  BY <1>1, <1>3, <1>5, HashOfRow
<1>9. ASSUME NEW q \in rows, q.hash = LastHash(V) PROVE FALSE
  <2>1. Stamp(q) = Stamp(Newest(V)) /\ q \in V
    BY <1>1, <1>5, <1>9 DEF Stamp
  <2> QED BY <1>1, <1>3, <1>4, <1>9, <2>1 DEF Numbered
<1> QED BY <1>7, <1>8, <1>9

LEMMA InvariantStep ==
  ASSUME IInv, Next PROVE IInv'
<1>0. Base'
  BY BaseStep DEF IInv
<1>1. ASSUME NEW s \in Sessions, Open(s) \/ WriteOther(s) \/ ReadLast(s) PROVE IInv'
  <2>1. /\ rows' = rows /\ pending' = pending /\ clock' = clock /\ overtaken' = overtaken
        /\ \A t \in Sessions : Visible(t)' = Visible(t)
        /\ crossed' = crossed \ {s} \/ crossed' = crossed
        /\ \A t \in Sessions : t # s => pc'[t] = pc[t] /\ last'[t] = last[t]
    BY <1>1, NoRowChanges DEF IInv
  <2>2. Exact(rows)' /\ \A t \in Sessions : Exact(Visible(t))'
    BY <2>1 DEF IInv, Exact
  <2>3. \/ pc'[s] # "insert" /\ last'[s] = last[s]
        \/ last'[s] = LastHash(Visible(s)) /\ s \notin crossed'
    BY <1>1 DEF Open, WriteOther, ReadLast, IInv, Base, TypeOK
  <2>4. LastHash(Visible(s)) = Genesis \/ \E q \in Visible(s) : q.hash = LastHash(Visible(s))
    <3>1. Visible(s) \in SUBSET Row /\ Bounded(Visible(s))
      BY BaseTypes DEF IInv, Base, Numbered
    <3> HIDE DEF Bounded
    <3> QED BY <3>1, LastHashOf
  <2>5. \A t \in Sessions : \/ last'[t] = Genesis \/ pc'[t] # "insert"
                            \/ \E q \in Visible(t)' : q.hash = last'[t]
    BY <2>1, <2>3, <2>4 DEF IInv
  <2>6. \A t \in crossed' : last'[t] # LastHash(rows')
    <3>1. crossed \subseteq Sessions
      BY DEF IInv, Base, TypeOK, Reading
    <3> QED BY <2>1, <2>3, <3>1 DEF IInv
  <2> QED BY <1>0, <2>2, <2>5, <2>6 DEF IInv
<1>2. ASSUME NEW s \in Sessions, Insert(s) PROVE IInv'
  <2>1. PICK e \in Row : Inserted(s, e)
    BY <1>2, InsertedRow DEF IInv
  <2>2. /\ last' = last /\ crossed' = crossed \ {s} /\ pc'[s] # "insert"
        /\ \A t \in Sessions : t # s => pc'[t] = pc[t]
    BY <1>2 DEF Insert, IInv, Base, TypeOK
  <2>3. Exact(rows)' /\ \A t \in Sessions : Exact(Visible(t))'
    BY <1>2, InsertExact
  <2>4. \A t \in Sessions : \/ last'[t] = Genesis \/ pc'[t] # "insert"
                            \/ \E q \in Visible(t)' : q.hash = last'[t]
    BY <2>1, <2>2 DEF Inserted, IInv
  <2>5. \A t \in crossed' : last'[t] # LastHash(rows')
    BY <2>1, <2>2 DEF Inserted, IInv
  <2> QED BY <1>0, <2>3, <2>4, <2>5 DEF IInv
<1>3. ASSUME NEW s \in Sessions, Commit(s) PROVE IInv'
  <2>1. /\ rows' = Visible(s) /\ overtaken' = overtaken /\ last' = last
        /\ \A t \in Sessions : Visible(t)' = Visible(s)
        /\ \A t \in Sessions : t # s => Visible(t) = rows
        /\ rows \subseteq Visible(s)
    BY <1>3, Committed, BaseTypes DEF IInv
  <2>2. /\ \A t \in Sessions : pc'[t] = IF t = s THEN "idle" ELSE pc[t]
        /\ \A t \in crossed' : t \in Sessions /\ t # s /\ pc[t] = "insert"
    BY <1>3 DEF Commit, Reading, IInv, Base, TypeOK
  <2>3. Exact(rows)' /\ \A t \in Sessions : Exact(Visible(t))'
    BY <2>1 DEF IInv, Exact
  <2>4. \A t \in Sessions : \/ last'[t] = Genesis \/ pc'[t] # "insert"
                            \/ \E q \in Visible(t)' : q.hash = last'[t]
    <3>1. SUFFICES ASSUME NEW t \in Sessions, t # s, last[t] # Genesis, pc[t] = "insert"
                   PROVE  \E q \in Visible(t)' : q.hash = last[t]
      BY <2>1, <2>2
    <3>2. PICK q \in rows : q.hash = last[t]
      BY <2>1, <3>1 DEF IInv
    <3> QED BY <2>1, <3>2
  <2>5. \A t \in crossed' : last'[t] # LastHash(rows')
    BY <1>3, <2>1, <2>2, CommitOvertakes
  <2> QED BY <1>0, <2>3, <2>4, <2>5 DEF IInv
<1>4. ASSUME NEW s \in Sessions, Rollback(s) PROVE IInv'
  <2>1. /\ rows' = rows /\ overtaken' = overtaken /\ last' = last /\ crossed' = crossed \ {s}
        /\ \A t \in Sessions : pc'[t] = IF t = s THEN "idle" ELSE pc[t]
        /\ \A t \in Sessions : Visible(t)' = IF t = s THEN rows ELSE Visible(t)
    BY <1>4, RolledBack DEF IInv
  <2>2. Exact(rows)' /\ \A t \in Sessions : Exact(Visible(t))'
    BY <2>1 DEF IInv, Exact
  <2>3. \A t \in Sessions : \/ last'[t] = Genesis \/ pc'[t] # "insert"
                            \/ \E q \in Visible(t)' : q.hash = last'[t]
    BY <2>1 DEF IInv
  <2> QED BY <1>0, <2>1, <2>2, <2>3 DEF IInv
<1> QED BY <1>1, <1>2, <1>3, <1>4 DEF Next

LEMMA InvariantStutters ==
  ASSUME IInv, UNCHANGED vars PROVE IInv'
<1>1. Base' /\ \A s \in Sessions : Visible(s)' = Visible(s)
  BY BaseStutters DEF IInv, vars, Visible
<1> QED BY <1>1 DEF vars, IInv, Exact

LEMMA InvariantStarts ==
  ASSUME Init PROVE IInv
<1>1. Base
  BY BaseStarts
<1>2. rows = {} /\ \A s \in Sessions : Visible(s) = {} /\ last[s] = Genesis
  BY DEF Init, Visible
<1> QED BY <1>1, <1>2 DEF IInv, Exact, Init

LEMMA InvariantSays ==
  ASSUME IInv PROVE ForksNeedARace
<1>1. rows \in SUBSET Row /\ clock \in Nat /\ Numbered(rows, clock)
  BY BaseTypes DEF IInv, Base
<1>2. ASSUME NEW e \in rows PROVE Follows(rows, e) <=> e.hash \notin overtaken
  <2>1. e \in Row /\ e.hash = Append(e.prev, Stamp(e)) /\ Stamp(e) \in 1..clock
    BY <1>1 DEF Numbered
  <2>2. Follows(rows, e) <=> e.content = Stamp(e) /\ e.prev = LastHash(Before(rows, e))
    BY <1>1, <2>1, FollowsIff
  <2> QED BY <2>2 DEF IInv, Exact
<1> QED BY <1>2 DEF ForksNeedARace, Broken

\* On SQLite, whatever units of work interleave, fail and are rolled back, a row of
\* audit_events fails to follow exactly when another unit committed between the two
\* statements of its record_event: a unit that only records can fork the chain, one that
\* wrote before cannot (core/audit.py, session_scope of core/db.py).
THEOREM BreaksAreRaces == Spec => []ForksNeedARace
<1>1. Init => IInv
  BY InvariantStarts
<1>2. IInv /\ [Next]_vars => IInv'
  BY InvariantStep, InvariantStutters
<1>3. IInv => ForksNeedARace
  BY InvariantSays
<1> QED BY <1>1, <1>2, <1>3, PTL DEF Spec

-----------------------------------------------------------------------------
(* The trail *)

\* A commit adds the rows of its unit above all others; no other step touches the trail.
LEMMA StepExtendsTrail ==
  ASSUME Base, [Next]_vars
  PROVE  [Trail!Next]_({[at |-> e.id, event |-> e.content] : e \in rows})
<1> DEFINE entry(e) == [at |-> e.id, event |-> e.content]
           old == {entry(e) : e \in rows}
           new == {entry(e) : e \in rows'}
<1>1. ASSUME NEW s \in Sessions, Commit(s) PROVE Trail!Next
  <2>1. /\ rows' = rows \cup pending[s] /\ rows' = Visible(s)
        /\ rows' \in SUBSET Row /\ Numbered(rows', clock)
    BY <1>1, BaseTypes DEF Commit, Visible, Base
  <2>2. pending[s] # {} /\ \A p \in pending[s], q \in rows : q.id < p.id
    BY <1>1 DEF Commit, Base, Locked
  <2>3. \A p \in pending[s] : p.id \in Nat /\ p \in rows'
    BY <2>1 DEF Row
  <2>4. old \subseteq new
    BY <2>1
  <2>5. new # old
    <3>1. PICK p \in pending[s] : p \in rows'
      BY <2>2, <2>3
    <3>2. entry(p) \in new
      BY <3>1
    <3>3. ASSUME NEW q \in rows PROVE entry(p) # entry(q)
      <4>1. q.id < p.id /\ p.id \in Nat
        BY <2>2, <2>3, <3>1
      <4> QED BY <4>1
    <3> QED BY <3>2, <3>3
  <2>6. \A x \in new \ old : \A y \in old : y.at < x.at
    <3>1. ASSUME NEW x \in new, x \notin old, NEW y \in old PROVE y.at < x.at
      <4>1. PICK p \in rows' : x = entry(p)
        BY <3>1
      <4>2. PICK q \in rows : y = entry(q)
        BY <3>1
      <4>3. p \in pending[s]
        BY <2>1, <3>1, <4>1
      <4> QED BY <2>2, <4>1, <4>2, <4>3
    <3> QED BY <3>1
  <2>7. \A x, y \in new : x.at = y.at => x = y
    <3>1. \A p, q \in rows' : p.id = q.id => p = q
      BY <2>1 DEF Numbered
    <3> QED BY <3>1
  <2> QED BY <2>4, <2>5, <2>6, <2>7 DEF Trail!Next, Trail!Append
<1>2. ASSUME rows' = rows PROVE new = old
  BY <1>2
<1> QED
  BY <1>1, <1>2 DEF Next, vars, Open, WriteOther, ReadLast, Insert, Rollback

\* The log of an SQLite deployment implements the append-only trail, even where its chain
\* forks: nothing that was committed is lost, renumbered or rewritten, and a unit of work is
\* added as a whole (session_scope and record_event of core/audit.py and core/db.py).
THEOREM ImplementsTrail == Spec => TrailSpec
<1>1. Init => Base /\ Trail!Init
  BY BaseStarts DEF Init, Trail!Init
<1>2. Base /\ [Next]_vars =>
        Base' /\ [Trail!Next]_({[at |-> e.id, event |-> e.content] : e \in rows})
  BY BaseStep, BaseStutters, StepExtendsTrail
<1> QED BY <1>1, <1>2, PTL DEF Spec, TrailSpec, Trail!Spec

-----------------------------------------------------------------------------
(* Edits from outside *)

\* A row that cannot follow again, whatever is appended, altered or removed.
Lost(R, q) ==
  \/ q.content # Stamp(q)
  \/ q.prev # Genesis /\ \A p \in R : p.hash # q.prev

\* A row that does not follow was damaged or overtaken, and a damaged one is lost.
Accounted(R) ==
  \A q \in R : /\ q.id \notin damaged /\ q.hash \notin overtaken => Follows(R, q)
               /\ q.id \in damaged => Lost(R, q)

\* The strengthening.
TamperInv ==
  /\ Base
  /\ Accounted(rows) /\ \A s \in Sessions : Accounted(Visible(s))
  /\ \A id \in damaged : \E q \in rows : q.id = id

LEMMA LostNeverFollows ==
  ASSUME NEW R \in SUBSET Row, NEW n \in Nat, Numbered(R, n), NEW q \in R, Lost(R, q)
  PROVE  ~Follows(R, q)
<1>1. q.hash = Append(q.prev, Stamp(q)) /\ Stamp(q) \in 1..n
  BY DEF Numbered
<1>2. Follows(R, q) <=> q.content = Stamp(q) /\ q.prev = LastHash(Before(R, q))
  BY <1>1, FollowsIff
<1> DEFINE B == Before(R, q)
<1>3. B \in SUBSET Row /\ B \subseteq R /\ Bounded(B)
  BY DEF Before, Numbered, Bounded
<1>4. LastHash(B) = Genesis \/ \E p \in B : LastHash(B) = p.hash
  <2> HIDE DEF B
  <2> QED BY <1>3, LastHashOf
<1> QED BY <1>2, <1>3, <1>4 DEF Lost

\* The row an insert adds follows unless its session was overtaken, and restores no other.
LEMMA InsertAccounted ==
  ASSUME TamperInv, NEW s \in Sessions, Insert(s), damaged' = damaged
  PROVE  Accounted(rows)' /\ \A t \in Sessions : Accounted(Visible(t))'
<1>1. PICK e \in Row : Inserted(s, e)
  BY InsertedRow DEF TamperInv
<1> DEFINE V == Visible(s)
           S == V \cup {e}
<1>2. clock \in Nat /\ V \in SUBSET Row /\ Numbered(V, clock) /\ rows \subseteq V
  BY BaseTypes DEF TamperInv, Base
<1>3. /\ Numbered(S, clock + 1) /\ Stamp(e) = clock + 1 /\ e.hash # Genesis
      /\ Before(S, e) = V /\ \A q \in V : Before(S, q) = Before(V, q)
  <2>1. Made(e.prev, clock)
    BY <1>1 DEF Inserted, TamperInv, Base, Read
  <2> QED BY <1>1, <1>2, <2>1, ExtendNumbered DEF Inserted
<1>4. ~Made(e.hash, clock)
  <2>1. e.hash[Len(e.hash)] = clock + 1
    BY <1>3 DEF Stamp
  <2> QED BY <1>2, <1>3, <2>1 DEF Made
<1>5. overtaken \subseteq overtaken' /\ (s \in crossed => e.hash \in overtaken')
  BY <1>1 DEF Inserted
<1>6. Accounted(rows)'
  BY <1>1, <1>5 DEF Inserted, Accounted, TamperInv, Follows, Lost, Stamp
<1>7. ASSUME NEW t \in Sessions, t # s PROVE Accounted(Visible(t))'
  BY <1>1, <1>5, <1>7 DEF Inserted, Accounted, TamperInv, Follows, Lost, Stamp
<1>8. e.id \notin damaged
  BY <1>1, <1>2 DEF TamperInv, Inserted, Row
<1>9. e.hash \notin overtaken' => Follows(S, e)
  <2>1. SUFFICES ASSUME s \notin crossed PROVE Follows(S, e)
    BY <1>5
  <2>2. e.prev = LastHash(V)
    BY <1>1, <2>1 DEF Inserted, Insert, TamperInv, Base, Read
  <2> QED BY <1>1, <1>3, <2>2 DEF Follows, Inserted
<1>10. ASSUME NEW q \in V
       PROVE  /\ q.id \notin damaged /\ q.hash \notin overtaken' => Follows(S, q)
              /\ q.id \in damaged => Lost(S, q)
  <2>1. Follows(S, q) <=> Follows(V, q)
    BY <1>3 DEF Follows
  <2>2. Lost(V, q) => Lost(S, q)
    <3>1. q.prev # e.hash
      BY <1>2, <1>4 DEF Numbered
    <3> QED BY <3>1 DEF Lost
  <2> QED BY <1>5, <2>1, <2>2 DEF TamperInv, Accounted
<1>11. Visible(s)' = S
  BY <1>1 DEF Inserted
<1>12. \A q \in S : /\ q.id \notin damaged /\ q.hash \notin overtaken' => Follows(S, q)
                    /\ q.id \in damaged => Lost(S, q)
  BY <1>8, <1>9, <1>10
<1>13. Accounted(Visible(s))'
  <2> HIDE DEF S
  <2> QED BY <1>11, <1>12 DEF Accounted, Follows, Lost, Stamp
<1> QED BY <1>6, <1>7, <1>13

\* A step of the application.
LEMMA TamperInvStep ==
  ASSUME TamperInv, Next, UNCHANGED <<damaged, edits>> PROVE TamperInv'
<1>0. Base'
  BY BaseStep DEF TamperInv
<1>1. ASSUME NEW s \in Sessions, Open(s) \/ WriteOther(s) \/ ReadLast(s) PROVE TamperInv'
  <2>1. /\ rows' = rows /\ overtaken' = overtaken
        /\ \A t \in Sessions : Visible(t)' = Visible(t)
    BY <1>1, NoRowChanges DEF TamperInv
  <2> QED BY <1>0, <2>1 DEF TamperInv, Accounted, Follows, Lost, Stamp
<1>2. ASSUME NEW s \in Sessions, Insert(s) PROVE TamperInv'
  <2>1. rows' = rows
    BY <1>2 DEF Insert
  <2> QED BY <1>0, <1>2, <2>1, InsertAccounted DEF TamperInv
<1>3. ASSUME NEW s \in Sessions, Commit(s) PROVE TamperInv'
  <2>1. /\ rows' = Visible(s) /\ overtaken' = overtaken /\ rows \subseteq Visible(s)
        /\ \A t \in Sessions : Visible(t)' = Visible(s)
    BY <1>3, Committed, BaseTypes DEF TamperInv
  <2>2. \A id \in damaged' : \E q \in rows' : q.id = id
    BY <2>1 DEF TamperInv
  <2>3. Accounted(rows)' /\ \A t \in Sessions : Accounted(Visible(t))'
    BY <2>1 DEF TamperInv, Accounted, Follows, Lost, Stamp
  <2> QED BY <1>0, <2>2, <2>3 DEF TamperInv
<1>4. ASSUME NEW s \in Sessions, Rollback(s) PROVE TamperInv'
  <2>1. /\ rows' = rows /\ overtaken' = overtaken
        /\ \A t \in Sessions : Visible(t)' = IF t = s THEN rows ELSE Visible(t)
    BY <1>4, RolledBack DEF TamperInv
  <2>2. Accounted(rows)' /\ \A t \in Sessions : Accounted(Visible(t))'
    BY <2>1 DEF TamperInv, Accounted, Follows, Lost, Stamp
  <2> QED BY <1>0, <2>1, <2>2 DEF TamperInv
<1> QED BY <1>1, <1>2, <1>3, <1>4 DEF Next

\* While no session holds the lock every session sees the committed rows.
LEMMA NobodyWrites ==
  ASSUME Base, writer = {}
  PROVE  \A s \in Sessions : pending[s] = {} /\ Visible(s) = rows
BY DEF Base, Locked, Visible

\* An altered row is lost, and the only one an alteration breaks.
LEMMA AlterKeeps ==
  ASSUME TamperInv, NEW r \in rows, Alter(r) PROVE TamperInv'
<1> DEFINE R == rows
           a == [r EXCEPT !.content = 0]
           S == (R \ {r}) \cup {a}
<1>1. R \in SUBSET Row /\ clock \in Nat /\ Numbered(R, clock) /\ r \in Row
  BY BaseTypes DEF TamperInv, Base
<1>2. /\ a \in Row /\ a.id = r.id /\ a.prev = r.prev /\ a.hash = r.hash /\ a.content = 0
      /\ Stamp(a) = Stamp(r)
  BY <1>1 DEF Row, Stamp
<1>3. \A q \in R \ {r} : q.id # r.id /\ Stamp(q) # Stamp(r)
  BY <1>1 DEF Numbered
<1>4. /\ rows' = S /\ damaged' = damaged \cup {r.id}
      /\ UNCHANGED <<pending, pc, last, writer, clock, crossed, overtaken>> /\ writer = {}
  BY DEF Alter, EditAllowed
<1> HIDE DEF a
<1>5. ASSUME NEW q \in Row PROVE LastHash(Before(S, q)) = LastHash(Before(R, q))
  <2>1. CASE ~(r.id < q.id)
    <3>1. Before(S, q) = Before(R, q)
      BY <1>2, <2>1 DEF Before
    <3> QED BY <3>1
  <2>2. CASE r.id < q.id
    <3> DEFINE B == Before(R, q)
               C == Before(S, q)
    <3>1. C = (B \ {r}) \cup {a} /\ r \in B
      BY <1>2, <2>2 DEF Before
    <3>2. B \in SUBSET Row /\ C \in SUBSET Row /\ B # {} /\ B \subseteq R
      BY <1>1, <1>2, <3>1 DEF Before
    <3>3. Bounded(B)
      BY <1>1, <3>2 DEF Numbered, Bounded
    <3>4. Newest(B) \in B /\ \A p \in B : p.id <= Newest(B).id
      <4> HIDE DEF B
      <4> QED BY <3>2, <3>3, NewestOfBounded
    <3>5. PICK m \in C : m.hash = Newest(B).hash /\ m.id = Newest(B).id
      BY <1>2, <3>1, <3>4
    <3>6. \A p \in C : p.id <= m.id
      BY <1>2, <3>1, <3>4, <3>5
    <3>7. \A p, o \in C : p.id = o.id => p = o
      BY <1>1, <1>2, <1>3, <3>1, <3>2 DEF Numbered
    <3>8. LastHash(C) = m.hash
      <4> HIDE DEF B, C
      <4> QED BY <3>2, <3>6, <3>7, NewestIs
    <3> QED BY <3>2, <3>5, <3>8 DEF LastHash
  <2> QED BY <2>1, <2>2
<1>6. LastHash(S) = LastHash(R)
  <2>1. Newest(R) \in R /\ \A p \in R : p.id <= Newest(R).id
    BY <1>1, NewestOfBounded DEF Numbered
  <2>2. PICK m \in S : m.hash = Newest(R).hash /\ m.id = Newest(R).id
    BY <1>2, <2>1
  <2>3. \A p \in S : p.id <= m.id
    BY <1>2, <2>1, <2>2
  <2>4. \A p, o \in S : p.id = o.id => p = o
    BY <1>1, <1>2, <1>3 DEF Numbered
  <2>5. S \in SUBSET Row
    BY <1>1, <1>2
  <2>6. LastHash(S) = m.hash
    <3> HIDE DEF S
    <3> QED BY <2>3, <2>4, <2>5, NewestIs
  <2> QED BY <2>2, <2>6 DEF LastHash
<1>7. Numbered(S, clock)
  <2>1. Bounded(S)
    BY <1>1, <1>2 DEF Numbered, Bounded
  <2>2. \A p, q \in S : p.id = q.id => p = q
    BY <1>1, <1>2, <1>3 DEF Numbered
  <2>3. \A p, q \in S : Stamp(p) = Stamp(q) => p = q
    BY <1>1, <1>2, <1>3 DEF Numbered
  <2>4. \A q \in S : /\ q.hash = Append(q.prev, Stamp(q)) /\ Made(q.prev, clock)
                     /\ Stamp(q) \in 1..clock /\ q.content \in {0, Stamp(q)}
    BY <1>1, <1>2 DEF Numbered
  <2> QED BY <2>1, <2>2, <2>3, <2>4 DEF Numbered
<1>8. \A s \in Sessions : pending[s] = {} /\ Visible(s) = rows /\ Visible(s)' = S
  BY <1>4, NobodyWrites DEF TamperInv, Visible
<1>9. Base'
  <2>1. TypeOK'
    BY <1>1, <1>2, <1>4 DEF TamperInv, Base, TypeOK, Reading
  <2>2. Locked'
    BY <1>4, <1>8 DEF TamperInv, Base, Locked
  <2>3. Read'
    BY <1>4, <1>6, <1>8 DEF TamperInv, Base, Read
  <2> QED BY <1>4, <1>7, <1>8, <2>1, <2>2, <2>3 DEF TamperInv, Base
<1>10. \A q \in S : /\ q.id \notin damaged' /\ q.hash \notin overtaken' => Follows(S, q)
                    /\ q.id \in damaged' => Lost(S, q)
  <2>1. Lost(S, a)
    <3>1. Stamp(r) \in 1..clock
      BY <1>1 DEF Numbered
    <3> QED BY <1>1, <1>2, <3>1 DEF Lost
  <2>2. ASSUME NEW q \in R \ {r}
        PROVE  /\ Follows(R, q) => Follows(S, q)
               /\ Lost(R, q) => Lost(S, q)
    <3>1. Follows(R, q) => Follows(S, q)
      BY <1>1, <1>5 DEF Follows
    <3>2. \A p \in S : \E o \in R : p.hash = o.hash
      BY <1>2
    <3> QED BY <3>1, <3>2 DEF Lost
  <2> QED BY <1>2, <1>3, <1>4, <2>1, <2>2 DEF TamperInv, Accounted
<1>11. \A id \in damaged' : \E q \in S : q.id = id
  BY <1>2, <1>4 DEF TamperInv
<1> HIDE DEF S
<1>12. Accounted(rows)' /\ \A s \in Sessions : Accounted(Visible(s))'
  BY <1>4, <1>8, <1>10 DEF Accounted, Follows, Lost, Stamp
<1> QED BY <1>4, <1>9, <1>11, <1>12 DEF TamperInv

\* A removal breaks the row after the removed one, which is then lost, and no other; a row
\* that was overtaken may follow again.
LEMMA RemoveKeeps ==
  ASSUME TamperInv, NEW r \in rows, Remove(r) PROVE TamperInv'
<1> DEFINE S == rows \ {r}
           B(q) == Before(rows, q)
           C(q) == Before(S, q)
<1>0. /\ rows \in SUBSET Row /\ S \in SUBSET Row /\ clock \in Nat /\ Numbered(rows, clock)
      /\ r \in Row
  BY BaseTypes DEF TamperInv, Base
<1>1. \A q \in S : q.id # r.id /\ Stamp(q) # Stamp(r) /\ q.hash # r.hash
  <2>1. \A q \in S : q.id # r.id /\ Stamp(q) # Stamp(r)
    BY <1>0 DEF Numbered
  <2> QED BY <2>1 DEF Stamp
<1>2. ASSUME NEW q \in S, ~(r.id < q.id) PROVE C(q) = B(q)
  BY <1>2 DEF Before
<1>3. ASSUME NEW q \in S, r.id < q.id
      PROVE  /\ B(q) \in SUBSET Row /\ C(q) = B(q) \ {r} /\ r \in B(q)
             /\ Newest(B(q)) \in B(q) /\ \A p \in B(q) : p.id <= Newest(B(q)).id
             /\ LastHash(B(q)) = Newest(B(q)).hash
  <2>1. B(q) \in SUBSET Row /\ C(q) = B(q) \ {r} /\ r \in B(q)
    BY <1>0, <1>3 DEF Before
  <2>2. Bounded(B(q))
    BY <1>0 DEF Numbered, Bounded, Before
  <2>3. Newest(B(q)) \in B(q) /\ \A p \in B(q) : p.id <= Newest(B(q)).id
    <3> HIDE DEF B, C
    <3> QED BY <2>1, <2>2, NewestOfBounded
  <2> QED BY <2>1, <2>3 DEF LastHash
<1>4. ASSUME NEW q \in S, r.id < q.id, Newest(B(q)) # r
      PROVE  LastHash(C(q)) = LastHash(B(q)) /\ q.id \notin Successor(r)
  <2> DEFINE m == Newest(B(q))
  <2>1. m \in C(q) /\ C(q) \in SUBSET Row /\ \A p \in C(q) : p.id <= m.id
    BY <1>3, <1>4
  <2>2. \A p, o \in C(q) : p.id = o.id => p = o
    BY <1>0 DEF Numbered, Before
  <2>3. LastHash(C(q)) = m.hash
    <3> HIDE DEF C, m
    <3> QED BY <2>1, <2>2, NewestIs
  <2>4. m \in After(r) /\ m.id < q.id
    <3>1. m \in rows /\ m.id < q.id /\ m # r /\ m.id >= r.id
      BY <1>3, <1>4 DEF Before
    <3>2. m \in S
      BY <3>1
    <3> QED BY <1>0, <1>1, <3>1, <3>2 DEF After, Row
  <2>5. q.id \notin Successor(r)
    <3>1. q.id \in Nat /\ m.id \in Nat
      BY <1>0, <2>4 DEF After, Row
    <3> HIDE DEF m
    <3> QED BY <2>4, <3>1 DEF Successor
  <2> QED BY <1>3, <1>4, <2>3, <2>5
<1>5. ASSUME NEW q \in S, r.id < q.id, Newest(B(q)) = r
      PROVE  /\ q.hash \notin overtaken => q.id \in Successor(r)
             /\ q.hash \notin overtaken /\ q.id \notin damaged => Lost(S, q)
  <2>1. \A o \in After(r) : q.id <= o.id
    <3>1. SUFFICES ASSUME NEW o \in After(r), ~(q.id <= o.id) PROVE FALSE
      OBVIOUS
    <3>2. o \in B(q) /\ o.id > r.id
      BY <1>0, <3>1 DEF After, Before, Row
    <3> QED BY <1>0, <1>3, <1>5, <3>2 DEF Row
  <2>2. q \in After(r)
    BY <1>0, <1>5 DEF After, Row
  <2>3. ASSUME q.hash \notin overtaken, q.id \notin damaged PROVE Lost(S, q)
    <3>1. q.prev = r.hash
      BY <1>3, <1>5, <2>3 DEF TamperInv, Accounted, Follows
    <3>2. r.hash # Genesis
      BY <1>0, HashOfRow
    <3> QED BY <1>1, <3>1, <3>2 DEF Lost
  <2> QED BY <2>1, <2>2, <2>3 DEF Successor
<1>6. Numbered(S, clock)
  BY <1>0 DEF Numbered, Bounded
<1>7. /\ rows' = S /\ damaged' = (damaged \ {r.id}) \cup Successor(r)
      /\ crossed' = crossed \cup Reading
      /\ UNCHANGED <<pending, pc, last, writer, clock, overtaken>> /\ writer = {}
  BY DEF Remove, EditAllowed
<1>8. \A s \in Sessions : pending[s] = {} /\ Visible(s) = rows /\ Visible(s)' = S
  BY <1>7, NobodyWrites DEF TamperInv, Visible
<1>9. Base'
  <2>1. TypeOK'
    BY <1>0, <1>7 DEF TamperInv, Base, TypeOK, Reading
  <2>2. Locked'
    BY <1>7, <1>8 DEF TamperInv, Base, Locked
  <2>3. Read'
    BY <1>7 DEF TamperInv, Base, Read, Reading
  <2> QED BY <1>6, <1>7, <1>8, <2>1, <2>2, <2>3 DEF TamperInv, Base
<1>10. ASSUME NEW q \in S
       PROVE  /\ q.id \notin damaged' /\ q.hash \notin overtaken' => Follows(S, q)
              /\ q.id \in damaged' => Lost(S, q)
  <2>1. Lost(rows, q) => Lost(S, q)
    BY DEF Lost
  <2>2. q \in rows /\ q.id # r.id
    BY <1>1
  <2>3. CASE ~(r.id < q.id)
    <3>1. q.id \notin Successor(r)
      BY <1>0, <2>2, <2>3 DEF Successor, After, Row
    <3> QED BY <1>2, <1>7, <2>1, <2>2, <2>3, <3>1 DEF TamperInv, Accounted, Follows
  <2>4. CASE r.id < q.id /\ Newest(B(q)) # r
    BY <1>4, <1>7, <2>1, <2>2, <2>4 DEF TamperInv, Accounted, Follows
  <2>5. CASE r.id < q.id /\ Newest(B(q)) = r
    <3>1. q.id \in Successor(r) => q.hash \notin overtaken
      <4>1. SUFFICES ASSUME NEW p \in After(r), p.hash \notin overtaken, p.id = q.id
                     PROVE  q.hash \notin overtaken
        BY DEF Successor
      <4>2. p = q
        BY <1>0, <2>2, <4>1 DEF Numbered, After
      <4> QED BY <4>1, <4>2
    <3> QED BY <1>5, <1>7, <2>1, <2>2, <2>5, <3>1 DEF TamperInv, Accounted
  <2> QED BY <2>3, <2>4, <2>5
<1>11. \A id \in damaged' : \E q \in S : q.id = id
  <2>1. \A q \in After(r) : q \in S
    BY <1>0 DEF After, Row
  <2>2. \A id \in Successor(r) : \E q \in S : q.id = id
    BY <2>1 DEF Successor
  <2> QED BY <1>7, <2>2 DEF TamperInv
<1> HIDE DEF S
<1>12. Accounted(rows)' /\ \A s \in Sessions : Accounted(Visible(s))'
  BY <1>7, <1>8, <1>10 DEF Accounted, Follows, Lost, Stamp
<1> QED BY <1>7, <1>9, <1>11, <1>12 DEF TamperInv

LEMMA TamperInvLocates ==
  ASSUME TamperInv PROVE EditsLocated
<1>1. rows \in SUBSET Row /\ Broken(rows) \subseteq rows /\ clock \in Nat /\ Numbered(rows, clock)
  BY BaseTypes DEF TamperInv, Base, Broken
<1>2. ~VerifyChain(rows) <=> Broken(rows) # {}
  BY DEF VerifyChain, Broken
<1>3. ASSUME Broken(rows) # {}
      PROVE \E e \in Broken(rows) : FirstBreak(rows) = e.id /\ \A f \in Broken(rows) : e.id <= f.id
  <2> DEFINE T == {e.id : e \in Broken(rows)}
  <2>1. T \in SUBSET Nat /\ T # {}
    BY <1>1, <1>3 DEF Row
  <2>2. PICK x \in T : \A y \in T : x <= y
    <3> HIDE DEF T
    <3> QED BY <2>1, LeastNumber
  <2>3. \E e \in Broken(rows) : \A f \in Broken(rows) : e.id <= f.id
    BY <2>2
  <2> QED BY <2>3 DEF FirstBreak
<1>4. \A e \in Broken(rows) : e.id \in damaged \/ e.hash \in overtaken
  BY DEF TamperInv, Accounted, Broken
<1>5. ASSUME NEW id \in damaged
      PROVE  \E q \in Broken(rows) : q.id = id
  <2>1. PICK q \in rows : q.id = id
    BY DEF TamperInv
  <2>2. Lost(rows, q)
    BY <2>1 DEF TamperInv, Accounted
  <2> QED BY <1>1, <2>1, <2>2, LostNeverFollows DEF Broken
<1>6. ASSUME ~VerifyChain(rows)
      PROVE \E e \in rows : e.id = FirstBreak(rows) /\ (e.id \in damaged \/ e.hash \in overtaken)
  BY <1>1, <1>2, <1>3, <1>4, <1>6
<1>7. ASSUME NEW id \in damaged PROVE ~VerifyChain(rows) /\ FirstBreak(rows) <= id
  <2>1. PICK q \in Broken(rows) : q.id = id
    BY <1>5
  <2>2. PICK e \in Broken(rows) : FirstBreak(rows) = e.id /\ \A f \in Broken(rows) : e.id <= f.id
    BY <1>3, <2>1
  <2> QED BY <1>2, <2>1, <2>2
<1> QED BY <1>6, <1>7 DEF EditsLocated

\* Whatever is altered or deleted behind the application's back, while units of work of any
\* shape interleave: verify_chain of core/audit.py answers False as long as the damage still
\* shows, at its first row or before, and accuses no row but a damaged or overtaken one.
THEOREM TamperLocated == TamperSpec => []EditsLocated
<1>1. TamperInit => TamperInv
  <2> SUFFICES ASSUME TamperInit PROVE TamperInv
    OBVIOUS
  <2>1. Base /\ rows = {} /\ damaged = {} /\ \A s \in Sessions : Visible(s) = {}
    BY BaseStarts DEF TamperInit, Init, Visible
  <2> QED BY <2>1 DEF TamperInv, Accounted
<1>2. TamperInv /\ [TamperNext]_tamperVars => TamperInv'
  <2> SUFFICES ASSUME TamperInv, [TamperNext]_tamperVars PROVE TamperInv'
    OBVIOUS
  <2>1. CASE UNCHANGED tamperVars
    <3>1. Base' /\ \A s \in Sessions : Visible(s)' = Visible(s)
      BY <2>1, BaseStutters DEF tamperVars, vars, TamperInv, Visible
    <3> QED BY <2>1, <3>1 DEF tamperVars, vars, TamperInv, Accounted, Follows, Lost, Stamp
  <2> QED BY <2>1, TamperInvStep, AlterKeeps, RemoveKeeps DEF TamperNext
<1>3. TamperInv => EditsLocated
  BY TamperInvLocates
<1> QED
  BY <1>1, <1>2, <1>3, PTL DEF TamperSpec
=============================================================================
