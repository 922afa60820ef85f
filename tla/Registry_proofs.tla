---------------------------- MODULE Registry_proofs ----------------------------
(***************************************************************************)
(* What the registry guarantees for any number of sessions, runs and       *)
(* vintages: lineage leads through signed-off runs, the audit log tells    *)
(* the truth, approvals persist; and, when corrections always bring        *)
(* content that is not registered yet, approved runs are immutable and     *)
(* vintages grow.  Whatever the registry holds, the walk of vintage_chain  *)
(* over it ends and is complete.                                           *)
(***************************************************************************)
EXTENDS Vintages, FiniteSetTheorems, WellFoundedInduction, TLAPS

Correcting(s) == pc[s] \in {"lookup", "correct"}

\* What an open correction has read stays true until it writes: the original
\* stays approved, and a row that had been corrected stays corrected.
OpenCorrection(s) ==
  /\ Correcting(s) => Approved(tx[s].original) /\ tx[s].vintage > 1
  /\ pc[s] = "correct" =>
       /\ tx[s].run # tx[s].original
       /\ tx[s].loaded # None =>
            /\ ReRegister
            /\ Registered(tx[s].run)
            /\ tx[s].loaded.vintage > 1 => runs[tx[s].run].vintage > 1
            /\ tx[s].loaded.supersedes # None => runs[tx[s].run].supersedes # None

IInv ==
  /\ TypeOK
  /\ LineageSound
  /\ \A s \in Sessions : OpenCorrection(s)
  /\ EventsTruthful
  /\ \A s \in Sessions : pc[s] = "record" => Happened(tx[s])

\* How far one step may change the table: rows stay, approvals stay, and a
\* row that supersedes another one goes on superseding one.
Grows ==
  \A r \in Runs : Registered(r) =>
    /\ Registered(r)'
    /\ Approved(r) => Approved(r)'
    /\ runs[r].vintage > 1 => runs'[r].vintage > 1
    /\ runs[r].supersedes # None => runs'[r].supersedes # None

LEMMA TypeCorrect ==
  TypeOK /\ (\A s \in Sessions : OpenCorrection(s)) /\ [Next]_vars => TypeOK'
<1> SUFFICES ASSUME TypeOK, \A s \in Sessions : OpenCorrection(s), [Next]_vars
             PROVE  TypeOK'
  OBVIOUS
<1> USE RegistryAssumption DEF TypeOK, RegistryAssumption, MaybeRow, Goto, Record
<1>0. CASE UNCHANGED vars
  BY <1>0 DEF vars
<1>1. ASSUME NEW s \in Sessions, NEW r \in Runs, RegisterLookup(s, r) PROVE TypeOK'
  <2>1. CASE Registered(r)
    BY <1>1, <2>1 DEF RegisterLookup, Event
  <2>2. CASE ~Registered(r)
    BY <1>1, <2>2 DEF RegisterLookup, Tx
  <2> QED BY <2>1, <2>2
<1>2. ASSUME NEW s \in Sessions, NEW r \in Runs, ApproveRun(s, r) PROVE TypeOK'
  <2>1. [runs[r] EXCEPT !.approved = TRUE] \in Row
    BY <1>2 DEF ApproveRun, Registered, Row
  <2> QED BY <1>2, <2>1 DEF ApproveRun, Event
<1>3. ASSUME NEW s \in Sessions, NEW o \in Runs, NEW r \in Runs, CorrectRead(s, o, r)
      PROVE  TypeOK'
  <2>1. runs[o].vintage + 1 \in 1..MaxVintage
    BY <1>3 DEF CorrectRead, Correctable, Approved, Registered, Row
  <2> QED BY <1>3, <2>1 DEF CorrectRead, Tx
<1>4. ASSUME NEW s \in Sessions, RegisterInsert(s) PROVE TypeOK'
  BY <1>4 DEF RegisterInsert, NewRow, Row, Event, Tx
<1>5. ASSUME NEW s \in Sessions, CorrectLookup(s) PROVE TypeOK'
  <2>1. tx[s] \in Tx /\ runs[tx[s].run] \in MaybeRow
    BY <1>5 DEF CorrectLookup, Tx
  <2>2. [tx[s] EXCEPT !.loaded = runs[tx[s].run]] \in Tx
    BY <2>1 DEF Tx
  <2>3. [tx[s] EXCEPT !.loaded = runs[tx[s].run]].original = tx[s].original
    BY <2>1 DEF Tx
  <2> QED BY <1>5, <2>2, <2>3 DEF CorrectLookup
<1>6. ASSUME NEW s \in Sessions, CorrectWrite(s) PROVE TypeOK'
  <2> DEFINE t == tx[s]
             r == t.run
  <2>1. t \in Tx /\ r \in Runs /\ t.original \in Runs /\ t.vintage \in 1..MaxVintage
    BY <1>6 DEF CorrectWrite, Tx
  <2>2. runs' \in [Runs -> MaybeRow]
    <3>1. CASE runs' = [runs EXCEPT ![r] = CorrectedRow(s)]
      BY <2>1, <3>1 DEF CorrectedRow, Row
    <3>2. CASE runs' = [runs EXCEPT
                   ![r].vintage = Column(runs[r].vintage, t.loaded.vintage, t.vintage),
                   ![r].supersedes =
                      Column(runs[r].supersedes, t.loaded.supersedes, t.original)]
               /\ t.loaded # None
      <4>1. Registered(r)
        BY <1>6, <3>2 DEF CorrectWrite, OpenCorrection
      <4> QED BY <2>1, <3>2, <4>1 DEF Column, Row, Registered
    <3> QED BY <1>6, <3>1, <3>2 DEF CorrectWrite
  <2> QED BY <1>6, <2>1, <2>2 DEF CorrectWrite, Event
<1>7. ASSUME NEW s \in Sessions, RecordEvent(s) PROVE TypeOK'
  BY <1>7 DEF RecordEvent
<1>8. ASSUME NEW s \in Sessions, Fail(s) PROVE TypeOK'
  BY <1>8 DEF Fail
<1> QED
  BY <1>0, <1>1, <1>2, <1>3, <1>4, <1>5, <1>6, <1>7, <1>8 DEF Next

-----------------------------------------------------------------------------
\* A correction that found an existing row: what it writes into that row.
LEMMA ExistingRow ==
  ASSUME IInv, NEW s \in Sessions, CorrectWrite(s), tx[s].loaded # None
  PROVE  LET r == tx[s].run
         IN /\ Registered(r)
            /\ runs' = [runs EXCEPT ![r] = runs'[r]]
            /\ runs'[r] \in Row
            /\ runs'[r].approved = runs[r].approved
            /\ runs'[r].vintage > 1
            /\ \/ runs'[r].supersedes = tx[s].original
               \/ runs[r].supersedes # None /\ runs'[r].supersedes = runs[r].supersedes
<1> DEFINE t == tx[s]
           r == t.run
<1>1. /\ Registered(r) /\ t.vintage > 1 /\ t.original \in Runs
      /\ t.loaded.vintage > 1 => runs[r].vintage > 1
      /\ t.loaded.supersedes # None => runs[r].supersedes # None
  BY DEF IInv, OpenCorrection, Correcting, CorrectWrite, TypeOK
<1>2. t \in Tx /\ r \in Runs /\ runs[r] \in Row
  BY <1>1 DEF IInv, TypeOK, CorrectWrite, Tx, MaybeRow, Registered
<1>3. runs' = [runs EXCEPT
         ![r].vintage = Column(runs[r].vintage, t.loaded.vintage, t.vintage),
         ![r].supersedes = Column(runs[r].supersedes, t.loaded.supersedes, t.original)]
  BY DEF CorrectWrite
<1>4. /\ runs'[r].vintage = Column(runs[r].vintage, t.loaded.vintage, t.vintage)
      /\ runs'[r].supersedes = Column(runs[r].supersedes, t.loaded.supersedes, t.original)
      /\ runs'[r].approved = runs[r].approved
      /\ runs' = [runs EXCEPT ![r] = runs'[r]]
  BY <1>2, <1>3 DEF IInv, TypeOK, Row
<1>5. runs'[r] \in Row
  BY <1>1, <1>2, <1>3 DEF IInv, TypeOK, Row, Tx, Column
<1>6. runs'[r].vintage > 1
  BY <1>1, <1>4 DEF Column
<1>7. \/ runs'[r].supersedes = t.original
      \/ runs[r].supersedes # None /\ runs'[r].supersedes = runs[r].supersedes
  BY <1>1, <1>4, RegistryAssumption DEF Column, RegistryAssumption
<1> QED BY <1>1, <1>4, <1>5, <1>6, <1>7

LEMMA TableGrows == IInv /\ [Next]_vars => Grows
<1> SUFFICES ASSUME IInv, [Next]_vars, NEW r \in Runs, runs[r] # None
             PROVE  /\ runs'[r] # None
                    /\ runs[r].approved => runs'[r].approved
                    /\ runs[r].vintage > 1 => runs'[r].vintage > 1
                    /\ runs[r].supersedes # None => runs'[r].supersedes # None
  BY DEF Grows, Registered, Approved
<1> USE RegistryAssumption DEF RegistryAssumption
<1>0. runs \in [Runs -> MaybeRow] /\ runs[r] \in Row
  BY DEF IInv, TypeOK, MaybeRow
<1>1. CASE UNCHANGED runs
  BY <1>1
<1>2. ASSUME NEW s \in Sessions, NEW q \in Runs, ApproveRun(s, q)
      PROVE  runs' = [runs EXCEPT ![q].approved = TRUE]
  BY <1>2 DEF ApproveRun
<1>3. CASE \E q \in Runs : runs' = [runs EXCEPT ![q].approved = TRUE]
  <2> PICK q \in Runs : runs' = [runs EXCEPT ![q].approved = TRUE]
    BY <1>3
  <2>1. CASE q # r
    BY <1>0, <2>1
  <2>2. CASE q = r
    <3>1. runs'[r] = [runs[r] EXCEPT !.approved = TRUE]
      BY <1>0, <2>2
    <3>2. runs'[r] \in Row
      BY <1>0, <3>1 DEF Row
    <3> QED BY <1>0, <3>1, <3>2 DEF Row
  <2> QED BY <2>1, <2>2
<1>4. ASSUME NEW s \in Sessions, RegisterInsert(s) PROVE runs'[r] = runs[r]
  BY <1>4, <1>0 DEF RegisterInsert, CanInsert, Registered
<1>5. ASSUME NEW s \in Sessions, CorrectWrite(s)
      PROVE  /\ runs'[r] # None
             /\ runs[r].approved => runs'[r].approved
             /\ runs[r].vintage > 1 => runs'[r].vintage > 1
             /\ runs[r].supersedes # None => runs'[r].supersedes # None
  <2>1. tx[s].run \in Runs /\ tx[s].original \in Runs
    BY <1>5 DEF CorrectWrite, IInv, TypeOK, Tx
  <2>2. CASE tx[s].loaded = None
    BY <1>0, <1>5, <2>2 DEF CorrectWrite, CanInsert, Registered
  <2>3. CASE tx[s].loaded # None
    <3>1. CASE tx[s].run # r
      BY <1>0, <1>5, <2>3, <3>1 DEF CorrectWrite
    <3>2. CASE tx[s].run = r
      BY <1>0, <1>5, <2>1, <2>3, <3>2, ExistingRow
    <3> QED BY <3>1, <3>2
  <2> QED BY <2>2, <2>3
<1>6. ASSUME NEW s \in Sessions, Next, ~UNCHANGED runs
      PROVE  \E q \in Sessions : \/ RegisterInsert(q) \/ CorrectWrite(q)
                                 \/ \E x \in Runs : ApproveRun(q, x)
  BY <1>6 DEF Next, RegisterLookup, CorrectRead, CorrectLookup, RecordEvent, Fail
<1> QED
  BY <1>0, <1>1, <1>2, <1>3, <1>4, <1>5, <1>6 DEF vars, Next

-----------------------------------------------------------------------------
\* LineageSound is kept: only two writes touch a row's lineage.
LEMMA LineageKept == IInv /\ [Next]_vars => LineageSound'
<1> SUFFICES ASSUME IInv, [Next]_vars, NEW r \in Runs, runs'[r] # None
             PROVE  /\ runs'[r].vintage > 1 <=> runs'[r].supersedes # None
                    /\ runs'[r].supersedes # None =>
                         /\ runs'[r].supersedes # r
                         /\ runs'[runs'[r].supersedes] # None
                         /\ runs'[runs'[r].supersedes].approved
  BY DEF LineageSound, Registered, Approved
<1> DEFINE Signed(o) == runs'[o] # None /\ runs'[o].approved
<1> USE RegistryAssumption DEF RegistryAssumption
<1>0. /\ runs \in [Runs -> MaybeRow] /\ runs' \in [Runs -> MaybeRow] /\ LineageSound
      /\ runs'[r] \in Row
  BY TypeCorrect DEF IInv, TypeOK, MaybeRow
<1>1. \A o \in Runs : Approved(o) => Signed(o)
  BY TableGrows DEF Grows, Approved, Registered
<1>2. CASE /\ runs[r] # None
           /\ runs'[r].vintage = runs[r].vintage
           /\ runs'[r].supersedes = runs[r].supersedes
  <2>1. runs[r] \in Row
    BY <1>0, <1>2 DEF MaybeRow
  <2>2. runs[r].supersedes # None =>
          runs[r].supersedes \in Runs /\ Approved(runs[r].supersedes)
    BY <1>0, <1>2, <2>1 DEF LineageSound, Registered, Row
  <2> QED BY <1>0, <1>1, <1>2, <2>2 DEF LineageSound, Registered
<1>3. CASE UNCHANGED runs
  BY <1>2, <1>3
<1>4. ASSUME NEW s \in Sessions, NEW q \in Runs, ApproveRun(s, q)
      PROVE  /\ runs[r] # None
             /\ runs'[r].vintage = runs[r].vintage
             /\ runs'[r].supersedes = runs[r].supersedes
  <2>1. runs[q] \in Row
    BY <1>0, <1>4 DEF ApproveRun, Registered, MaybeRow
  <2> QED BY <1>0, <1>4, <2>1 DEF ApproveRun, Registered, Row
<1>5. ASSUME NEW s \in Sessions, RegisterInsert(s)
      PROVE  runs'[r] = runs[r] \/ runs'[r] = NewRow
  BY <1>0, <1>5 DEF RegisterInsert
<1>6. CASE runs'[r] = NewRow
  BY <1>6 DEF NewRow
<1>7. ASSUME NEW s \in Sessions, CorrectWrite(s), tx[s].run = r
      PROVE  /\ runs'[r].vintage > 1 /\ runs'[r].supersedes # None
             /\ runs'[r].supersedes # r
             /\ Signed(runs'[r].supersedes)
  <2>1. /\ tx[s].original \in Runs /\ tx[s].original # r
        /\ Approved(tx[s].original) /\ tx[s].vintage > 1
    BY <1>7 DEF CorrectWrite, IInv, TypeOK, OpenCorrection, Correcting
  <2>2. CASE tx[s].loaded = None
    <3>1. runs'[r] = CorrectedRow(s)
      BY <1>0, <1>7, <2>2 DEF CorrectWrite
    <3> QED BY <1>1, <2>1, <3>1 DEF CorrectedRow
  <2>3. CASE tx[s].loaded # None
    <3>1. /\ runs[r] # None /\ runs'[r].vintage > 1
          /\ \/ runs'[r].supersedes = tx[s].original
             \/ runs[r].supersedes # None /\ runs'[r].supersedes = runs[r].supersedes
      BY <1>7, <2>3, ExistingRow DEF Registered
    <3>2. runs[r].supersedes # None =>
            /\ runs[r].supersedes # r /\ runs[r].supersedes \in Runs
            /\ Approved(runs[r].supersedes)
      <4>1. runs[r] \in Row
        BY <1>0, <3>1 DEF MaybeRow
      <4> QED BY <1>0, <3>1, <4>1 DEF LineageSound, Registered, Row
    <3> QED BY <1>1, <2>1, <3>1, <3>2
  <2> QED BY <2>2, <2>3
<1>8. ASSUME NEW s \in Sessions, CorrectWrite(s), tx[s].run # r
      PROVE  runs'[r] = runs[r]
  BY <1>0, <1>8 DEF CorrectWrite
<1> QED
  BY <1>0, <1>2, <1>3, <1>4, <1>5, <1>6, <1>7, <1>8
     DEF Next, vars, RegisterLookup, CorrectRead, CorrectLookup, RecordEvent, Fail

\* What an open correction relies on is kept, by the other sessions' steps
\* because the table only grows, by its own because it reads what it relies on.
LEMMA OpenCorrectionKept ==
  IInv /\ [Next]_vars => \A s \in Sessions : OpenCorrection(s)'
<1> SUFFICES ASSUME IInv, [Next]_vars, NEW s \in Sessions PROVE OpenCorrection(s)'
  OBVIOUS
<1> USE RegistryAssumption DEF RegistryAssumption
<1>0. TypeOK /\ TypeOK' /\ Grows /\ OpenCorrection(s)
  BY TypeCorrect, TableGrows DEF IInv
<1>1. CASE UNCHANGED <<pc[s], tx[s]>>
  <2>1. pc[s] \in {"lookup", "correct"} => tx[s].original \in Runs /\ tx[s].run \in Runs
    BY <1>0 DEF TypeOK, Tx
  <2> QED BY <1>0, <1>1, <2>1 DEF OpenCorrection, Correcting, Grows, Registered, Approved
<1>2. CASE pc'[s] \notin {"lookup", "correct"}
  BY <1>2 DEF OpenCorrection, Correcting
<1>3. ASSUME NEW o \in Runs, NEW r \in Runs, CorrectRead(s, o, r)
      PROVE  OpenCorrection(s)'
  <2>1. /\ Approved(o) /\ runs' = runs /\ pc'[s] = "lookup"
        /\ tx'[s] = [run |-> r, original |-> o, vintage |-> runs[o].vintage + 1,
                     loaded |-> None]
    BY <1>0, <1>3 DEF CorrectRead, Correctable, TypeOK, Goto
  <2>2. runs[o].vintage \in 1..MaxVintage
    BY <1>0, <2>1 DEF Approved, Registered, TypeOK, MaybeRow, Row
  <2> QED BY <2>1, <2>2 DEF OpenCorrection, Correcting, Approved, Registered
<1>4. ASSUME CorrectLookup(s) PROVE OpenCorrection(s)'
  <2>1. /\ tx[s] \in Tx /\ pc[s] = "lookup" /\ pc'[s] = "correct" /\ runs' = runs
        /\ tx' = [tx EXCEPT ![s].loaded = runs[tx[s].run]]
        /\ tx[s].run # tx[s].original /\ (Registered(tx[s].run) => ReRegister)
    BY <1>0, <1>4 DEF CorrectLookup, TypeOK, Goto
  <2>2. /\ tx'[s].run = tx[s].run /\ tx'[s].original = tx[s].original
        /\ tx'[s].vintage = tx[s].vintage /\ tx'[s].loaded = runs[tx[s].run]
    BY <1>0, <2>1 DEF TypeOK, Tx
  <2> QED BY <1>0, <2>1, <2>2 DEF OpenCorrection, Correcting, Approved, Registered
<1>5. ASSUME NEW q \in Sessions, q # s, NEW r \in Runs,
             RegisterLookup(q, r) \/ ApproveRun(q, r)
      PROVE  UNCHANGED <<pc[s], tx[s]>>
  BY <1>0, <1>5 DEF RegisterLookup, ApproveRun, Goto, Record, TypeOK
<1>6. ASSUME NEW q \in Sessions, q # s, NEW o \in Runs, NEW r \in Runs, CorrectRead(q, o, r)
      PROVE  UNCHANGED <<pc[s], tx[s]>>
  BY <1>0, <1>6 DEF CorrectRead, Goto, TypeOK
<1>7. ASSUME NEW q \in Sessions, q # s,
             \/ RegisterInsert(q) \/ CorrectLookup(q) \/ CorrectWrite(q)
             \/ RecordEvent(q) \/ Fail(q)
      PROVE  UNCHANGED <<pc[s], tx[s]>>
  BY <1>0, <1>7 DEF RegisterInsert, CorrectLookup, CorrectWrite, RecordEvent, Fail,
                    Goto, Record, TypeOK
<1>8. ASSUME NEW r \in Runs,
             \/ RegisterLookup(s, r) \/ ApproveRun(s, r) \/ RegisterInsert(s)
             \/ CorrectWrite(s) \/ RecordEvent(s) \/ Fail(s)
      PROVE  pc'[s] \notin {"lookup", "correct"}
  BY <1>0, <1>8 DEF RegisterLookup, ApproveRun, RegisterInsert, CorrectWrite,
                    RecordEvent, Fail, Goto, Record, TypeOK
<1>9. CASE UNCHANGED vars
  BY <1>1, <1>9 DEF vars
<1> QED
  <2>1. CASE \E q \in Sessions : q # s /\
          (\/ \E r \in Runs : RegisterLookup(q, r) \/ ApproveRun(q, r)
           \/ \E o, r \in Runs : CorrectRead(q, o, r)
           \/ RegisterInsert(q) \/ CorrectLookup(q) \/ CorrectWrite(q)
           \/ RecordEvent(q) \/ Fail(q))
    BY <1>1, <1>5, <1>6, <1>7, <2>1
  <2>2. CASE \/ RegisterInsert(s) \/ CorrectWrite(s) \/ RecordEvent(s) \/ Fail(s)
    <3>1. pc'[s] \notin {"lookup", "correct"}
      BY <1>0, <2>2 DEF RegisterInsert, CorrectWrite, RecordEvent, Fail, Goto, Record, TypeOK
    <3> QED BY <1>2, <3>1
  <2>3. CASE \E r \in Runs : RegisterLookup(s, r) \/ ApproveRun(s, r)
    BY <1>2, <1>8, <2>3
  <2> QED BY <1>3, <1>4, <1>9, <2>1, <2>2, <2>3 DEF Next

\* The log stays truthful: what is recorded happened, and what happened stays.
LEMMA TruthKept ==
  IInv /\ [Next]_vars =>
    /\ EventsTruthful'
    /\ \A s \in Sessions : pc'[s] = "record" => Happened(tx[s])'
<1> SUFFICES ASSUME IInv, [Next]_vars
             PROVE  /\ EventsTruthful'
                    /\ \A s \in Sessions : pc'[s] = "record" => Happened(tx[s])'
  OBVIOUS
<1> USE RegistryAssumption DEF RegistryAssumption
<1>0. TypeOK /\ TypeOK' /\ Grows
  BY TypeCorrect, TableGrows DEF IInv
<1>1. ASSUME NEW e \in Event, Happened(e)
      PROVE  /\ runs'[e.run] # None
             /\ e.action = "approved" => runs'[e.run].approved
             /\ e.action = "corrected" => runs'[e.run].supersedes # None
  BY <1>0, <1>1 DEF Happened, Grows, Event, Registered, Approved
<1>2. \A e \in Event : Happened(e) =>
         /\ runs'[e.run] # None
         /\ e.action = "approved" => runs'[e.run].approved
         /\ e.action = "corrected" => runs'[e.run].supersedes # None
  BY <1>1
<1>3. ASSUME NEW e \in events' PROVE Happened(e)'
  <2>1. e \in events \/ \E s \in Sessions : pc[s] = "record" /\ e = tx[s]
    BY <1>3 DEF Next, vars, RegisterLookup, RegisterInsert, Fail, ApproveRun,
                CorrectRead, CorrectLookup, CorrectWrite, RecordEvent
  <2>2. e \in Event /\ Happened(e)
    BY <1>0, <2>1 DEF TypeOK, IInv, EventsTruthful
  <2> QED BY <1>2, <2>2 DEF Happened, Registered, Approved
<1>4. ASSUME NEW s \in Sessions, pc'[s] = "record" PROVE Happened(tx[s])'
  <2>1. CASE pc[s] = "record" /\ UNCHANGED <<pc[s], tx[s]>>
    <3>1. tx[s] \in Event /\ Happened(tx[s])
      BY <1>0, <2>1 DEF TypeOK, IInv
    <3> QED BY <1>2, <2>1, <3>1 DEF Happened, Registered, Approved
  <2>2. ASSUME NEW r \in Runs, RegisterLookup(s, r) PROVE Happened(tx[s])'
    BY <1>0, <1>4, <2>2 DEF RegisterLookup, TypeOK, Goto, Record, Happened, Registered
  <2>3. ASSUME NEW r \in Runs, ApproveRun(s, r) PROVE Happened(tx[s])'
    <3>1. tx'[s] = [action |-> "approved", run |-> r, original |-> None]
      BY <1>0, <2>3 DEF ApproveRun, TypeOK, Record
    <3>2. runs[r] \in Row /\ runs'[r] = [runs[r] EXCEPT !.approved = TRUE]
      BY <1>0, <2>3 DEF ApproveRun, TypeOK, Registered, MaybeRow
    <3>3. runs'[r] # None /\ runs'[r].approved
      BY <1>0, <2>3, <3>2 DEF Grows, Registered, Row, ApproveRun
    <3> QED BY <3>1, <3>3 DEF Happened, Registered, Approved
  <2>4. ASSUME RegisterInsert(s) PROVE Happened(tx[s])'
    <3>1. /\ tx[s].run \in Runs
          /\ tx'[s] = [action |-> "registered", run |-> tx[s].run, original |-> None]
          /\ runs'[tx[s].run] = NewRow
      BY <1>0, <2>4 DEF RegisterInsert, TypeOK, Record, Tx
    <3>2. NewRow # None
      <4>1. NewRow \in Row
        BY DEF NewRow, Row
      <4> QED BY <4>1
    <3> QED BY <3>1, <3>2 DEF Happened, Registered
  <2>5. ASSUME CorrectWrite(s) PROVE Happened(tx[s])'
    <3>1. /\ tx[s].run \in Runs /\ tx[s].original \in Runs
          /\ tx'[s] = [action |-> "corrected", run |-> tx[s].run, original |-> tx[s].original]
          /\ tx[s].vintage \in 1..MaxVintage
      BY <1>0, <2>5 DEF CorrectWrite, TypeOK, Record, Tx
    <3>2. runs'[tx[s].run] # None /\ runs'[tx[s].run].supersedes # None
      <4>1. CASE tx[s].loaded = None
        <5>1. runs'[tx[s].run] = CorrectedRow(s)
          BY <1>0, <2>5, <3>1, <4>1 DEF CorrectWrite, TypeOK
        <5>2. CorrectedRow(s) \in Row
          BY <3>1 DEF CorrectedRow, Row
        <5>3. runs'[tx[s].run].supersedes = tx[s].original
          BY <5>1 DEF CorrectedRow
        <5> QED BY <3>1, <5>1, <5>2, <5>3
      <4>2. CASE tx[s].loaded # None
        BY <2>5, <3>1, <4>2, ExistingRow
      <4> QED BY <4>1, <4>2
    <3> QED BY <3>1, <3>2 DEF Happened, Registered
  <2>6. ASSUME NEW q \in Sessions,
               \/ \E r \in Runs : RegisterLookup(q, r) \/ ApproveRun(q, r)
               \/ \E o, r \in Runs : CorrectRead(q, o, r)
               \/ RegisterInsert(q) \/ CorrectLookup(q) \/ CorrectWrite(q)
               \/ RecordEvent(q) \/ Fail(q)
        PROVE  \/ pc[s] = "record" /\ UNCHANGED <<pc[s], tx[s]>>
               \/ \E r \in Runs : RegisterLookup(s, r) \/ ApproveRun(s, r)
               \/ RegisterInsert(s) \/ CorrectWrite(s)
    <3>1. CASE q = s
      BY <1>0, <1>4, <2>6, <3>1 DEF CorrectRead, CorrectLookup, RecordEvent, Fail,
         TypeOK, Goto
    <3>2. CASE q # s
      BY <1>0, <1>4, <2>6, <3>2 DEF RegisterLookup, RegisterInsert, Fail, ApproveRun,
         CorrectRead, CorrectLookup, CorrectWrite, RecordEvent, TypeOK, Goto, Record
    <3> QED BY <3>1, <3>2
  <2>7. CASE UNCHANGED vars
    BY <1>4, <2>1, <2>7 DEF vars
  <2> QED BY <2>1, <2>2, <2>3, <2>4, <2>5, <2>6, <2>7 DEF Next
<1> QED BY <1>3, <1>4 DEF EventsTruthful

LEMMA Inductive == (Init => IInv) /\ (IInv /\ [Next]_vars => IInv')
<1>1. Init => IInv
  BY RegistryAssumption DEF RegistryAssumption, Init, IInv, TypeOK, MaybeRow,
     LineageSound, OpenCorrection, Correcting, EventsTruthful, Registered
<1>2. IInv /\ [Next]_vars => IInv'
  BY TypeCorrect, LineageKept, OpenCorrectionKept, TruthKept DEF IInv
<1> QED BY <1>1, <1>2

\* The registry's state always has the expected shape.
THEOREM RegistryTypes == Spec => []TypeOK
<1>1. IInv => TypeOK
  BY DEF IInv
<1> QED BY <1>1, Inductive, PTL DEF Spec

\* Lineage leads through signed-off runs only, whatever correct_run,
\* approve_run and register_run of other sessions do in between.
THEOREM LineageAlwaysSound == Spec => []LineageSound
<1>1. IInv => LineageSound
  BY DEF IInv
<1> QED BY <1>1, Inductive, PTL DEF Spec

\* No audit event claims what did not happen (common.record runs after the
\* commit it reports).
THEOREM LogIsTruthful == Spec => []EventsTruthful
<1>1. IInv => EventsTruthful
  BY DEF IInv
<1> QED BY <1>1, Inductive, PTL DEF Spec

\* No step withdraws an approval or deletes a row.
THEOREM ApprovalsPersist == Spec => ApprovalPersists
<1>1. IInv /\ [Next]_vars => [RowsKept]_vars
  BY TableGrows DEF Grows, Approved, RowsKept
<1> QED BY <1>1, Inductive, PTL DEF Spec, ApprovalPersists

-----------------------------------------------------------------------------
(* When corrections never name content that is registered already.         *)

\* A correction's vintage is one above the run it corrects until it writes.
NextVintage(s) == Correcting(s) => tx[s].vintage = runs[tx[s].original].vintage + 1

FreshInv == IInv /\ VintagesGrow /\ \A s \in Sessions : NextVintage(s)

Lineage(r) == <<runs[r].vintage, runs[r].supersedes>>

LEMMA RowsStable ==
  ASSUME ~ReRegister, IInv, [Next]_vars, NEW r \in Runs, Registered(r)
  PROVE  /\ Lineage(r)' = Lineage(r)
         /\ Approved(r) => runs'[r] = runs[r]
<1> USE RegistryAssumption DEF RegistryAssumption
<1>0. runs \in [Runs -> MaybeRow] /\ runs[r] \in Row
  BY DEF IInv, TypeOK, MaybeRow, Registered
<1>1. CASE runs'[r] = runs[r]
  BY <1>1 DEF Lineage
<1>2. ASSUME NEW s \in Sessions, ApproveRun(s, r)
      PROVE  /\ Lineage(r)' = Lineage(r)
             /\ Approved(r) => runs'[r] = runs[r]
  <2>1. runs'[r] = [runs[r] EXCEPT !.approved = TRUE]
    BY <1>0, <1>2 DEF ApproveRun
  <2> QED BY <1>0, <2>1 DEF Row, Lineage, Approved
<1>3. ASSUME NEW s \in Sessions, NEW q \in Runs, q # r, ApproveRun(s, q)
      PROVE  runs'[r] = runs[r]
  BY <1>0, <1>3 DEF ApproveRun
<1>4. ASSUME NEW s \in Sessions, RegisterInsert(s) PROVE runs'[r] = runs[r]
  BY <1>4, <1>0 DEF RegisterInsert, CanInsert, Registered
<1>5. ASSUME NEW s \in Sessions, CorrectWrite(s) PROVE runs'[r] = runs[r]
  <2>1. tx[s].loaded = None
    BY <1>5 DEF CorrectWrite, IInv, OpenCorrection
  <2> QED BY <1>0, <1>5, <2>1 DEF CorrectWrite, CanInsert, Registered
<1> QED
  BY <1>1, <1>2, <1>3, <1>4, <1>5
     DEF Next, vars, RegisterLookup, CorrectRead, CorrectLookup, RecordEvent, Fail

LEMMA NextVintageKept ==
  ASSUME ~ReRegister, FreshInv, [Next]_vars, NEW s \in Sessions
  PROVE  NextVintage(s)'
<1> USE RegistryAssumption DEF RegistryAssumption
<1>0. TypeOK /\ TypeOK' /\ OpenCorrection(s) /\ NextVintage(s)
  BY TypeCorrect DEF FreshInv, IInv
<1>1. CASE UNCHANGED <<pc[s], tx[s].run, tx[s].original, tx[s].vintage>>
  <2>1. CASE Correcting(s)
    <3>1. /\ tx[s].original \in Runs /\ Registered(tx[s].original)
          /\ tx[s].vintage = runs[tx[s].original].vintage + 1
      BY <1>0, <2>1 DEF TypeOK, OpenCorrection, Correcting, Approved, NextVintage
    <3>2. runs'[tx[s].original].vintage = runs[tx[s].original].vintage
      BY <3>1, RowsStable DEF FreshInv, Lineage
    <3> QED BY <1>1, <3>1, <3>2 DEF NextVintage
  <2>2. CASE ~Correcting(s)
    BY <1>1, <2>2 DEF NextVintage, Correcting
  <2> QED BY <2>1, <2>2
<1>2. CASE pc'[s] \notin {"lookup", "correct"}
  BY <1>2 DEF NextVintage, Correcting
<1>3. ASSUME NEW o \in Runs, NEW r \in Runs, CorrectRead(s, o, r)
      PROVE  NextVintage(s)'
  BY <1>0, <1>3 DEF CorrectRead, TypeOK, NextVintage
<1>4. ASSUME CorrectLookup(s)
      PROVE  /\ Correcting(s) /\ runs' = runs
             /\ UNCHANGED <<tx[s].run, tx[s].original, tx[s].vintage>>
  <2>1. tx[s] \in Tx /\ tx'[s] = [tx[s] EXCEPT !.loaded = runs[tx[s].run]]
    BY <1>0, <1>4 DEF CorrectLookup, TypeOK
  <2> QED BY <1>4, <2>1 DEF CorrectLookup, Correcting, Tx
<1>5. CASE CorrectLookup(s)
  BY <1>0, <1>4, <1>5 DEF NextVintage
<1>6. ASSUME NEW q \in Sessions, q # s,
             \/ \E r \in Runs : RegisterLookup(q, r) \/ ApproveRun(q, r)
             \/ \E o, r \in Runs : CorrectRead(q, o, r)
             \/ RegisterInsert(q) \/ CorrectLookup(q) \/ CorrectWrite(q)
             \/ RecordEvent(q) \/ Fail(q)
      PROVE  UNCHANGED <<pc[s], tx[s]>>
  BY <1>0, <1>6 DEF RegisterLookup, RegisterInsert, Fail, ApproveRun,
     CorrectRead, CorrectLookup, CorrectWrite, RecordEvent, TypeOK, Goto, Record
<1>7. ASSUME \/ \E r \in Runs : RegisterLookup(s, r) \/ ApproveRun(s, r)
             \/ RegisterInsert(s) \/ CorrectWrite(s) \/ RecordEvent(s) \/ Fail(s)
      PROVE  pc'[s] \notin {"lookup", "correct"}
  BY <1>0, <1>7 DEF RegisterLookup, RegisterInsert, Fail, ApproveRun,
     CorrectWrite, RecordEvent, TypeOK, Goto, Record
<1>8. CASE UNCHANGED vars
  BY <1>1, <1>8 DEF vars
<1>9. ASSUME NEW q \in Sessions,
             \/ \E r \in Runs : RegisterLookup(q, r) \/ ApproveRun(q, r)
             \/ \E o, r \in Runs : CorrectRead(q, o, r)
             \/ RegisterInsert(q) \/ CorrectLookup(q) \/ CorrectWrite(q)
             \/ RecordEvent(q) \/ Fail(q)
      PROVE  NextVintage(s)'
  <2>1. CASE q = s
    BY <1>2, <1>3, <1>5, <1>7, <1>9, <2>1
  <2>2. CASE q # s
    <3>1. UNCHANGED <<pc[s], tx[s]>>
      BY <1>6, <1>9, <2>2
    <3> QED BY <1>1, <3>1
  <2> QED BY <2>1, <2>2
<1> QED BY <1>8, <1>9 DEF Next

LEMMA VintagesGrowKept ==
  ASSUME ~ReRegister, FreshInv, [Next]_vars
  PROVE  VintagesGrow'
<1> SUFFICES ASSUME NEW r \in Runs, runs'[r] # None, runs'[r].supersedes # None
             PROVE  runs'[r].vintage = runs'[runs'[r].supersedes].vintage + 1
  BY DEF VintagesGrow, Registered
<1> USE RegistryAssumption DEF RegistryAssumption
<1>0. /\ runs \in [Runs -> MaybeRow] /\ runs' \in [Runs -> MaybeRow]
      /\ IInv /\ LineageSound /\ VintagesGrow
  BY TypeCorrect DEF FreshInv, IInv, TypeOK
<1>1. ASSUME NEW o \in Runs, Registered(o)
      PROVE  runs'[o].vintage = runs[o].vintage /\ runs'[o].supersedes = runs[o].supersedes
  BY <1>0, <1>1, RowsStable DEF Lineage
<1>2. CASE Registered(r)
  <2>1. runs[r].supersedes \in Runs /\ Registered(runs[r].supersedes)
    <3>1. runs[r] \in Row
      BY <1>0, <1>2 DEF MaybeRow, Registered
    <3> QED BY <1>0, <1>1, <1>2, <3>1 DEF LineageSound, Row, Approved
  <2>2. runs[r].vintage = runs[runs[r].supersedes].vintage + 1
    BY <1>0, <1>1, <1>2 DEF VintagesGrow
  <2> QED BY <1>1, <1>2, <2>1, <2>2
<1>3. ASSUME ~Registered(r), NEW s \in Sessions, CorrectWrite(s), tx[s].run = r
      PROVE  runs'[r].vintage = runs'[runs'[r].supersedes].vintage + 1
  <2>1. /\ tx[s].original \in Runs /\ Registered(tx[s].original)
        /\ tx[s].vintage = runs[tx[s].original].vintage + 1 /\ tx[s].loaded = None
    BY <1>0, <1>3 DEF FreshInv, IInv, OpenCorrection, Correcting, NextVintage, TypeOK,
                      CorrectWrite, Approved
  <2>2. runs'[r] = CorrectedRow(s)
    BY <1>0, <1>3, <2>1 DEF CorrectWrite
  <2> QED BY <1>1, <2>1, <2>2 DEF CorrectedRow
<1>4. CASE runs'[r] = NewRow
  BY <1>4 DEF NewRow
<1>5. ASSUME NEW s \in Sessions, CorrectWrite(s), tx[s].run # r
      PROVE  runs'[r] = runs[r]
  BY <1>0, <1>5 DEF CorrectWrite
<1>6. ASSUME NEW s \in Sessions, RegisterInsert(s)
      PROVE  runs'[r] = runs[r] \/ runs'[r] = NewRow
  BY <1>0, <1>6 DEF RegisterInsert
<1>7. ASSUME NEW s \in Sessions, NEW q \in Runs, ApproveRun(s, q)
      PROVE  Registered(r)
  BY <1>0, <1>7 DEF ApproveRun, Registered
<1> QED
  BY <1>2, <1>3, <1>4, <1>5, <1>6, <1>7
     DEF Next, vars, RegisterLookup, CorrectRead, CorrectLookup, RecordEvent, Fail, Registered

LEMMA FreshInductive ==
  ASSUME ~ReRegister
  PROVE  (Init => FreshInv) /\ (FreshInv /\ [Next]_vars => FreshInv')
<1>1. Init => FreshInv
  BY Inductive DEF Init, FreshInv, VintagesGrow, NextVintage, Correcting, Registered
<1>2. FreshInv /\ [Next]_vars => FreshInv'
  BY Inductive, NextVintageKept, VintagesGrowKept DEF FreshInv
<1> QED BY <1>1, <1>2

\* Vintages grow by one along every correction, so no run is its own ancestor.
THEOREM VintagesAlwaysGrow == ASSUME ~ReRegister PROVE Spec => []VintagesGrow
<1>1. FreshInv => VintagesGrow
  BY DEF FreshInv
<1>2. (Init => FreshInv) /\ (FreshInv /\ [Next]_vars => FreshInv')
  BY FreshInductive
<1> QED BY <1>1, <1>2, PTL DEF Spec

\* An approved run is immutable as long as corrections bring new content.
THEOREM ApprovedNeverChanges == ASSUME ~ReRegister PROVE Spec => ApprovedImmutable
<1>1. IInv /\ [Next]_vars => [ApprovedUnchanged]_vars
  BY RowsStable DEF ApprovedUnchanged, Approved
<1> QED BY <1>1, Inductive, PTL DEF Spec, ApprovedImmutable

-----------------------------------------------------------------------------
(* vintage_chain *)

\* A set of numbers that is not empty has a least one.
LEMMA LeastNumber ==
  ASSUME NEW T \in SUBSET Nat, T # {} PROVE \E x \in T : \A y \in T : x <= y
<1>1. PICK x \in T : \A y \in T : <<y, x>> \notin OpToRel(<, Nat)
  BY WFMin, NatLessThanWellFounded
<1>2. \A y \in T : ~(y < x)
  BY <1>1 DEF OpToRel
<1> QED BY <1>2

\* The turns of a loop, each computed from the one before.
Turned(w, n, D, F, d) ==
  w \in [0..n -> D] /\ \A i \in 0..n : w[i] = IF i = 0 THEN d ELSE F[w[i - 1]]

LEMMA Iteration ==
  ASSUME NEW D, NEW F \in [D -> D], NEW d \in D, NEW n \in Nat
  PROVE  \E w : Turned(w, n, D, F, d)
<1> DEFINE T == {m \in Nat : ~\E w : Turned(w, m, D, F, d)}
<1>1. SUFFICES ASSUME T # {} PROVE FALSE
  OBVIOUS
<1>2. PICK m \in T : \A k \in T : m <= k
  <2> HIDE DEF T
  <2>1. T \in SUBSET Nat
    BY DEF T
  <2> QED BY <1>1, <2>1, LeastNumber
<1>3. m # 0
  <2>1. Turned([i \in 0..0 |-> d], 0, D, F, d)
    BY DEF Turned
  <2> QED BY <1>2, <2>1
<1>4. PICK w : Turned(w, m - 1, D, F, d)
  <2>1. m - 1 \in Nat /\ ~(m <= m - 1)
    BY <1>2, <1>3
  <2> QED BY <1>2, <2>1
<1> DEFINE v == [i \in 0..m |-> IF i = m THEN F[w[m - 1]] ELSE w[i]]
<1>5. Turned(v, m, D, F, d)
  <2>1. v \in [0..m -> D]
    BY <1>2, <1>3, <1>4 DEF Turned
  <2>2. ASSUME NEW i \in 0..m PROVE v[i] = IF i = 0 THEN d ELSE F[v[i - 1]]
    BY <1>2, <1>3, <1>4 DEF Turned
  <2> QED BY <2>1, <2>2 DEF Turned
<1> QED BY <1>2, <1>5

\* A list of distinct registered runs, each superseding the one before it.
SoundChain(c) ==
  /\ c \in Seq(Runs) /\ c # <<>>
  /\ \A i \in 1..Len(c) : Registered(c[i])
  /\ \A i, j \in 1..Len(c) : c[i] = c[j] => i = j
  /\ \A i \in 1..(Len(c) - 1) : runs[c[i + 1]].supersedes = c[i]

LEMMA ChainFits ==
  ASSUME IsFiniteSet(Runs), NEW c \in Seq(Runs), \A i, j \in 1..Len(c) : c[i] = c[j] => i = j
  PROVE  Len(c) <= Cardinality(Runs) /\ Cardinality(Members(c)) = Len(c)
<1>0. Len(c) \in Nat /\ c \in [1..Len(c) -> Runs]
  OBVIOUS
<1>1. IsFiniteSet(1..Len(c)) /\ Cardinality(1..Len(c)) = Len(c)
  BY <1>0, FS_Interval
<1>2. c \in Injection(1..Len(c), Runs)
  BY <1>0 DEF Injection, IsInjective
<1>3. Len(c) <= Cardinality(Runs)
  BY <1>1, <1>2, FS_Injection
<1>4. c \in Bijection(1..Len(c), Members(c))
  <2>1. Members(c) = {c[i] : i \in 1..Len(c)}
    BY <1>0 DEF Members, ToSet
  <2>2. c \in [1..Len(c) -> Members(c)] /\ \A x \in Members(c) : \E i \in 1..Len(c) : c[i] = x
    BY <1>0, <2>1
  <2> QED BY <1>2, <2>2 DEF Bijection, Injection, Surjection
<1>5. Cardinality(Members(c)) = Len(c)
  BY <1>1, <1>4, FS_Bijection DEF ExistsBijection
<1> QED BY <1>3, <1>5

\* A loop over chains that adds a run at every turn until it stops has stopped by the
\* time there have been as many turns as there are runs.
LEMMA LoopEnds ==
  ASSUME IsFiniteSet(Runs), NEW D, \A c \in D : SoundChain(c), NEW F \in [D -> D],
         \A c \in D : F[c] = c \/ Len(F[c]) = Len(c) + 1,
         NEW w, w[0] \in D, \A n \in Turns : n # 0 /\ w[n - 1] \in D => w[n] = F[w[n - 1]]
  PROVE  w[Cardinality(Runs)] \in D /\ F[w[Cardinality(Runs)]] = w[Cardinality(Runs)]
<1> DEFINE N == Cardinality(Runs)
           Good(n) == w[n] \in D /\ (F[w[n]] = w[n] \/ Len(w[n]) > n)
           T == {n \in Turns : ~Good(n)}
<1>0. N \in Nat /\ Turns = 0..N
  BY FS_CardinalityType DEF Turns
<1>1. \A c \in D : Len(c) \in Nat /\ Len(c) > 0 /\ Len(c) <= N
  BY ChainFits DEF SoundChain
<1>2. Good(0)
  BY <1>1
<1>3. ASSUME T # {} PROVE FALSE
  <2>1. PICK m \in T : \A k \in T : m <= k
    <3>1. T \in SUBSET Nat
      BY <1>0
    <3> HIDE DEF T
    <3> QED BY <1>3, <3>1, LeastNumber
  <2>2. m \in Turns /\ m # 0 /\ m - 1 \in Turns /\ ~(m <= m - 1)
    <3> HIDE DEF Good
    <3> QED BY <1>0, <1>2, <2>1
  <2>3. Good(m - 1)
    <3> HIDE DEF Good
    <3> QED BY <2>1, <2>2
  <2>4. w[m] = F[w[m - 1]] /\ w[m - 1] \in D
    BY <2>2, <2>3
  <2>5. Good(m)
    <3>1. CASE F[w[m - 1]] = w[m - 1]
      BY <2>4, <3>1, <2>3
    <3>2. CASE F[w[m - 1]] # w[m - 1]
      <4>1. Len(w[m - 1]) > m - 1 /\ Len(w[m]) = Len(w[m - 1]) + 1 /\ w[m] \in D
        BY <2>3, <2>4, <3>2
      <4> QED BY <1>0, <1>1, <2>2, <2>4, <4>1
    <3> QED BY <3>1, <3>2
  <2> HIDE DEF Good
  <2> QED BY <2>1, <2>5
<1>4. Good(N)
  <2> HIDE DEF Good
  <2>1. N \in Turns
    BY <1>0
  <2> QED BY <1>3, <2>1
<1>5. w[N] \in D /\ ~(Len(w[N]) > N)
  BY <1>0, <1>1, <1>4
<1> QED BY <1>4, <1>5

\* What a registered run supersedes is registered.
LEMMA PreviousRegistered ==
  ASSUME TypeOK, LineageSound, NEW r \in Runs, Registered(r), runs[r].supersedes # None
  PROVE  runs[r].supersedes \in Runs /\ Registered(runs[r].supersedes)
<1>1. runs[r] \in Row
  BY DEF TypeOK, MaybeRow, Registered
<1> QED BY <1>1 DEF LineageSound, Approved, Row

Back(r) == {c \in Seq(Runs) : SoundChain(c) /\ c[Len(c)] = r}

LEMMA PrependSound ==
  ASSUME TypeOK, LineageSound, NEW r \in Runs, NEW c \in Back(r)
  PROVE  /\ Prepend(c) \in Back(r)
         /\ Prepend(c) = c \/ Len(Prepend(c)) = Len(c) + 1
<1> DEFINE p == runs[Head(c)].supersedes
           e == <<p>> \o c
<1>1. c \in Seq(Runs) /\ c # <<>> /\ Head(c) = c[1] /\ c[1] \in Runs /\ Registered(c[1])
      /\ Len(c) \in Nat /\ Len(c) > 0 /\ c[Len(c)] = r
  BY DEF Back, SoundChain
<1>2. CASE p = None \/ p \in Members(c)
  BY <1>2 DEF Prepend
<1>3. CASE ~(p = None \/ p \in Members(c))
  <2>1. p \in Runs /\ Registered(p) /\ \A i \in 1..Len(c) : c[i] # p
    BY <1>1, <1>3, PreviousRegistered DEF Members, ToSet
  <2>2. Prepend(c) = e
    BY <1>3 DEF Prepend
  <2>3. /\ e \in Seq(Runs) /\ e # <<>> /\ Len(e) = Len(c) + 1 /\ e[1] = p
        /\ \A i \in 2..Len(e) : e[i] = c[i - 1]
    BY <1>1, <2>1
  <2>5. p = runs[c[1]].supersedes
    BY <1>1
  <2> HIDE DEF e, p
  <2>4. e[Len(e)] = r
    BY <1>1, <2>3
  <2>6. \A i \in 1..Len(e) : Registered(e[i])
    BY <1>1, <2>1, <2>3 DEF Back, SoundChain
  <2>7. \A i, j \in 1..Len(e) : e[i] = e[j] => i = j
    <3>1. \A i, j \in 2..Len(e) : e[i] = e[j] => i = j
      BY <1>1, <2>3 DEF Back, SoundChain
    <3>2. \A i \in 2..Len(e) : e[i] # p
      BY <1>1, <2>1, <2>3
    <3> QED BY <1>1, <2>3, <3>1, <3>2
  <2>8. ASSUME NEW i \in 1..(Len(e) - 1) PROVE runs[e[i + 1]].supersedes = e[i]
    <3>1. CASE i = 1
      BY <1>1, <2>3, <2>5, <3>1
    <3>2. CASE i # 1
      <4>1. i - 1 \in 1..(Len(c) - 1) /\ e[i + 1] = c[(i - 1) + 1] /\ e[i] = c[i - 1]
        BY <1>1, <2>3, <3>2
      <4> QED BY <4>1 DEF Back, SoundChain
    <3> QED BY <3>1, <3>2
  <2> QED BY <2>2, <2>3, <2>4, <2>6, <2>7, <2>8 DEF Back, SoundChain
<1> QED BY <1>2, <1>3

LEMMA BackwardsWalk ==
  ASSUME TypeOK, LineageSound, IsFiniteSet(Runs), NEW r \in Runs, Registered(r)
  PROVE  Backwards(r) \in Back(r) /\ Prepend(Backwards(r)) = Backwards(r)
<1> DEFINE N == Cardinality(Runs)
           D == Back(r)
           F == [c \in D |-> Prepend(c)]
           Walks(w) == w = [n \in Turns |-> IF n = 0 THEN <<r>> ELSE Prepend(w[n - 1])]
           walk == CHOOSE w : Walks(w)
<1>0. N \in Nat /\ Turns = 0..N
  BY FS_CardinalityType DEF Turns
<1>1. F \in [D -> D] /\ \A c \in D : F[c] = c \/ Len(F[c]) = Len(c) + 1
  BY PrependSound
<1>2. <<r>> \in D
  BY DEF Back, SoundChain
<1>3. \E w : Walks(w)
  <2>1. PICK w : Turned(w, N, D, F, <<r>>)
    <3> HIDE DEF D, F
    <3> QED BY <1>0, <1>1, <1>2, Iteration
  <2>2. ASSUME NEW n \in Turns PROVE w[n] = IF n = 0 THEN <<r>> ELSE Prepend(w[n - 1])
    <3>1. n # 0 => n - 1 \in 0..N
      BY <1>0
    <3> QED BY <1>0, <2>1, <3>1 DEF Turned
  <2>3. w = [n \in Turns |-> w[n]]
    BY <1>0, <2>1 DEF Turned
  <2> QED BY <2>2, <2>3
<1>4. Walks(walk)
  BY <1>3
<1>5. Backwards(r) = walk[N]
  BY DEF Backwards
<1>6. walk[0] = <<r>> /\ \A n \in Turns : n # 0 => walk[n] = Prepend(walk[n - 1])
  <2> HIDE DEF walk
  <2> QED BY <1>0, <1>4
<1>7. \A n \in Turns : n # 0 /\ walk[n - 1] \in D => walk[n] = F[walk[n - 1]]
  BY <1>6
<1>8. \A c \in D : SoundChain(c)
  BY DEF Back
<1>9. walk[N] \in D /\ F[walk[N]] = walk[N]
  <2>1. walk[0] \in D
    BY <1>2, <1>6
  <2> HIDE DEF D, F, walk
  <2> QED BY <1>1, <1>7, <1>8, <2>1, LoopEnds
<1> QED BY <1>5, <1>9

LEMMA FirstSucceeds ==
  ASSUME TypeOK, NEW r, Successors(r) # {}
  PROVE  LET q == First(Successors(r)) IN q \in Runs /\ Registered(q) /\ runs[q].supersedes = r
<1> DEFINE S == Successors(r)
           T == {runs[q].vintage : q \in S}
<1>1. T \in SUBSET Nat /\ T # {}
  BY RegistryAssumption DEF Successors, TypeOK, MaybeRow, Row, Registered, RegistryAssumption
<1>2. PICK x \in T : \A y \in T : x <= y
  <2> HIDE DEF T
  <2> QED BY <1>1, LeastNumber
<1>3. \E q \in S : \A p \in S : runs[q].vintage <= runs[p].vintage
  BY <1>2
<1>4. First(S) \in S
  BY <1>3 DEF First
<1> QED BY <1>4 DEF Successors

Forth(b) == {c \in Seq(Runs) : SoundChain(c) /\ Members(b) \subseteq Members(c)}

LEMMA ExtendSound ==
  ASSUME TypeOK, NEW b, NEW c \in Forth(b)
  PROVE  /\ Extend(c) \in Forth(b)
         /\ Extend(c) = c \/ Len(Extend(c)) = Len(c) + 1
<1> DEFINE last == c[Len(c)]
           p == First(Successors(last))
           e == Append(c, p)
<1>1. c \in Seq(Runs) /\ c # <<>> /\ Len(c) \in Nat /\ Len(c) > 0 /\ Last(c) = last
  BY DEF Forth, SoundChain, Last
<1>2. CASE Successors(last) = {} \/ p \in Members(c)
  BY <1>1, <1>2 DEF Extend
<1>3. CASE ~(Successors(last) = {} \/ p \in Members(c))
  <2>1. p \in Runs /\ Registered(p) /\ runs[p].supersedes = last
    BY <1>3, FirstSucceeds
  <2>2. \A i \in 1..Len(c) : c[i] # p
    BY <1>1, <1>3 DEF Members, ToSet
  <2>3. Extend(c) = e
    BY <1>1, <1>3 DEF Extend
  <2>4. /\ e \in Seq(Runs) /\ e # <<>> /\ Len(e) = Len(c) + 1 /\ e[Len(e)] = p
        /\ \A i \in 1..Len(c) : e[i] = c[i]
    BY <1>1, <2>1
  <2> HIDE DEF e, p
  <2>5. \A i \in 1..Len(e) : Registered(e[i])
    <3>1. \A i \in 1..Len(e) : i = Len(e) \/ i \in 1..Len(c)
      BY <1>1, <2>4
    <3> QED BY <2>1, <2>4, <3>1 DEF Forth, SoundChain
  <2>6. \A i, j \in 1..Len(e) : e[i] = e[j] => i = j
    BY <1>1, <2>2, <2>4 DEF Forth, SoundChain
  <2>7. ASSUME NEW i \in 1..(Len(e) - 1) PROVE runs[e[i + 1]].supersedes = e[i]
    <3>1. CASE i = Len(c)
      BY <1>1, <2>1, <2>4, <3>1
    <3>2. CASE i # Len(c)
      <4>1. i \in 1..(Len(c) - 1) /\ e[i + 1] = c[i + 1] /\ e[i] = c[i]
        BY <1>1, <2>4, <3>2
      <4> QED BY <4>1 DEF Forth, SoundChain
    <3> QED BY <3>1, <3>2
  <2>8. Members(c) \subseteq Members(e)
    BY <1>1, <2>4 DEF Members, ToSet
  <2> QED BY <2>3, <2>4, <2>5, <2>6, <2>7, <2>8 DEF Forth, SoundChain
<1> QED BY <1>2, <1>3

LEMMA ForwardsWalk ==
  ASSUME TypeOK, IsFiniteSet(Runs), NEW b, SoundChain(b)
  PROVE  Forwards(b) \in Forth(b) /\ Extend(Forwards(b)) = Forwards(b)
<1> DEFINE N == Cardinality(Runs)
           D == Forth(b)
           F == [c \in D |-> Extend(c)]
           Walks(w) == w = [n \in Turns |-> IF n = 0 THEN b ELSE Extend(w[n - 1])]
           walk == CHOOSE w : Walks(w)
<1>0. N \in Nat /\ Turns = 0..N
  BY FS_CardinalityType DEF Turns
<1>1. F \in [D -> D] /\ \A c \in D : F[c] = c \/ Len(F[c]) = Len(c) + 1
  BY ExtendSound
<1>2. b \in D
  BY DEF Forth, SoundChain
<1>3. \E w : Walks(w)
  <2>1. PICK w : Turned(w, N, D, F, b)
    <3> HIDE DEF D, F
    <3> QED BY <1>0, <1>1, <1>2, Iteration
  <2>2. ASSUME NEW n \in Turns PROVE w[n] = IF n = 0 THEN b ELSE Extend(w[n - 1])
    <3>1. n # 0 => n - 1 \in 0..N
      BY <1>0
    <3> QED BY <1>0, <2>1, <3>1 DEF Turned
  <2>3. w = [n \in Turns |-> w[n]]
    BY <1>0, <2>1 DEF Turned
  <2> QED BY <2>2, <2>3
<1>4. Walks(walk)
  BY <1>3
<1>5. Forwards(b) = walk[N]
  BY DEF Forwards
<1>6. walk[0] = b /\ \A n \in Turns : n # 0 => walk[n] = Extend(walk[n - 1])
  <2> HIDE DEF walk
  <2> QED BY <1>0, <1>4
<1>7. \A n \in Turns : n # 0 /\ walk[n - 1] \in D => walk[n] = F[walk[n - 1]]
  BY <1>6
<1>8. \A c \in D : SoundChain(c)
  BY DEF Forth
<1>9. walk[N] \in D /\ F[walk[N]] = walk[N]
  <2>1. walk[0] \in D
    BY <1>2, <1>6
  <2> HIDE DEF D, F, walk, Walks
  <2> QED BY <1>1, <1>7, <1>8, <2>1, LoopEnds, ZenonT(30)
<1> QED BY <1>5, <1>9

LEMMA WholeChain ==
  ASSUME TypeOK, LineageSound, IsFiniteSet(Runs), NEW r \in Runs, Registered(r)
  PROVE  LET c == VintageChain(r)
         IN  SoundChain(c) /\ Ancestors({r}) \subseteq Members(c) /\ Extend(c) = c
<1> DEFINE b == Backwards(r)
           C == Members(b)
<1>1. b \in Back(r) /\ Prepend(b) = b
  BY BackwardsWalk
<1>2. SoundChain(b) /\ b[Len(b)] = r
  BY <1>1 DEF Back
<1>3. VintageChain(r) \in Forth(b) /\ Extend(VintageChain(r)) = VintageChain(r)
  BY <1>2, ForwardsWalk DEF VintageChain
<1>4. Ancestors({r}) \subseteq C
  <2>1. C = {b[i] : i \in 1..Len(b)} /\ Len(b) \in Nat /\ Len(b) > 0 /\ b \in Seq(Runs)
    BY <1>2 DEF Members, ToSet, SoundChain
  <2>2. C \in SUBSET Runs /\ {r} \subseteq C
    BY <1>2, <2>1
  <2>3. ASSUME NEW i \in 1..Len(b), runs[b[i]].supersedes # None
        PROVE  runs[b[i]].supersedes \in C
    <3>1. CASE i = 1
      <4> DEFINE p == runs[Head(b)].supersedes
      <4>1. Head(b) = b[1]
        BY <2>1
      <4>2. SUFFICES ASSUME p \notin C PROVE FALSE
        BY <3>1, <4>1
      <4>3. Prepend(b) = <<p>> \o b
        BY <2>3, <3>1, <4>1, <4>2 DEF Prepend
      <4>4. Registered(b[1]) /\ b[1] \in Runs
        BY <1>2, <2>1 DEF SoundChain
      <4>5. p \in Runs
        BY <2>3, <3>1, <4>1, <4>4, PreviousRegistered
      <4>6. Len(<<p>> \o b) = Len(b) + 1
        BY <2>1, <4>5
      <4> QED BY <1>1, <2>1, <4>3, <4>6
    <3>2. CASE i # 1
      <4>1. i - 1 \in 1..(Len(b) - 1) /\ i - 1 \in 1..Len(b) /\ (i - 1) + 1 = i
        BY <2>1, <3>2
      <4>2. runs[b[i]].supersedes = b[i - 1]
        BY <1>2, <4>1 DEF SoundChain
      <4> QED BY <2>1, <4>1, <4>2
    <3> QED BY <3>1, <3>2
  <2>4. SupersededBy(C) \subseteq C
    BY <2>1, <2>3 DEF SupersededBy
  <2> HIDE DEF C
  <2> QED BY <2>2, <2>4 DEF Ancestors
<1> QED BY <1>3, <1>4 DEF Forth

LEMMA ChainWalks ==
  ASSUME TypeOK, LineageSound, IsFiniteSet(Runs) PROVE ChainWalk
<1> SUFFICES ASSUME NEW r \in Runs, Registered(r)
             PROVE  LET chain == VintageChain(r)
                    IN /\ Ancestors({r}) \subseteq Members(chain)
                       /\ Cardinality(Members(chain)) = Len(chain)
                       /\ \A i \in 1..(Len(chain) - 1) : runs[chain[i + 1]].supersedes = chain[i]
  BY DEF ChainWalk
<1> DEFINE chain == VintageChain(r)
<1>1. SoundChain(chain) /\ Ancestors({r}) \subseteq Members(chain)
  BY WholeChain
<1> HIDE DEF chain
<1>2. Cardinality(Members(chain)) = Len(chain)
  BY <1>1, ChainFits DEF SoundChain
<1>3. \A i \in 1..(Len(chain) - 1) : runs[chain[i + 1]].supersedes = chain[i]
  BY <1>1 DEF SoundChain
<1> QED BY <1>1, <1>2, <1>3 DEF chain

\* Along a chain the vintages count up from that of its first run.
LEMMA VintagesCount ==
  ASSUME TypeOK, VintagesGrow, NEW c, SoundChain(c)
  PROVE  \A i \in 1..Len(c) : runs[c[i]].vintage = runs[c[1]].vintage + i - 1
<1> DEFINE Good(i) == runs[c[i]].vintage = runs[c[1]].vintage + i - 1
           T == {i \in 1..Len(c) : ~Good(i)}
<1>0. Len(c) \in Nat /\ \A i \in 1..Len(c) : runs[c[i]].vintage \in Nat
  BY RegistryAssumption
     DEF SoundChain, TypeOK, MaybeRow, Row, Registered, RegistryAssumption
<1>1. SUFFICES ASSUME T # {} PROVE FALSE
  OBVIOUS
<1>2. PICK m \in T : \A k \in T : m <= k
  <2>1. T \in SUBSET Nat
    BY <1>0
  <2> HIDE DEF T
  <2> QED BY <1>1, <2>1, LeastNumber
<1>3. m # 1
  BY <1>0, <1>2
<1>4. m - 1 \in 1..(Len(c) - 1) /\ m - 1 \in 1..Len(c) /\ (m - 1) + 1 = m /\ ~(m <= m - 1)
  BY <1>0, <1>2, <1>3
<1>5. Good(m - 1)
  <2> HIDE DEF Good
  <2> QED BY <1>2, <1>4
<1>6. runs[c[m]].supersedes = c[m - 1] /\ c[m - 1] \in Runs /\ c[m] \in Runs /\ Registered(c[m])
  BY <1>2, <1>4 DEF SoundChain
<1>7. runs[c[m]].vintage = runs[c[m - 1]].vintage + 1
  BY <1>6, RegistryAssumption DEF VintagesGrow, RegistryAssumption
<1>8. runs[c[1]].vintage \in Nat /\ m \in 1..Len(c)
  BY <1>0, <1>2
<1>9. Good(m)
  BY <1>0, <1>4, <1>5, <1>7, <1>8
<1> QED BY <1>2, <1>9

LEMMA TriangleCompletes ==
  ASSUME TypeOK, LineageSound, VintagesGrow, IsFiniteSet(Runs) PROVE TriangleComplete
<1> SUFFICES ASSUME NEW r \in Runs, Registered(r)
             PROVE  LET chain == VintageChain(r)
                    IN /\ Successors(Last(chain)) \subseteq Members(chain)
                       /\ Cardinality(TriangleColumns(chain)) = Len(chain)
  BY DEF TriangleComplete
<1> DEFINE chain == VintageChain(r)
           n == Len(chain)
           v == [i \in 1..n |-> runs[chain[i]].vintage]
<1>1. SoundChain(chain) /\ Extend(chain) = chain
  BY WholeChain
<1> HIDE DEF chain
<1>2. \A i \in 1..n : runs[chain[i]].vintage = runs[chain[1]].vintage + i - 1
  BY <1>1, VintagesCount
<1>3. /\ n \in Nat /\ n > 0 /\ chain \in Seq(Runs) /\ DOMAIN chain = 1..n
      /\ \A i \in 1..n : runs[chain[i]].vintage \in Nat
  BY <1>1, RegistryAssumption
     DEF SoundChain, TypeOK, MaybeRow, Row, Registered, RegistryAssumption
<1>4. Successors(Last(chain)) = {}
  <2> DEFINE q == First(Successors(Last(chain)))
  <2>1. SUFFICES ASSUME Successors(Last(chain)) # {} PROVE FALSE
    OBVIOUS
  <2>2. q \in Runs /\ Registered(q) /\ runs[q].supersedes = chain[n] /\ chain[n] \in Runs
    BY <1>3, <2>1, FirstSucceeds DEF Last
  <2>3. runs[q].vintage = runs[chain[n]].vintage + 1
    BY <2>2, RegistryAssumption DEF VintagesGrow, RegistryAssumption
  <2>4. q \in Members(chain)
    <3>1. SUFFICES ASSUME q \notin Members(chain) PROVE FALSE
      OBVIOUS
    <3>2. Extend(chain) = Append(chain, q)
      BY <2>1, <3>1 DEF Extend
    <3>3. Len(Append(chain, q)) = n + 1
      BY <1>3, <2>2
    <3> QED BY <1>1, <1>3, <3>2, <3>3
  <2>5. PICK i \in 1..n : chain[i] = q
    BY <1>3, <2>4 DEF Members, ToSet
  <2> HIDE DEF q
  <2>6. runs[q].vintage = runs[chain[1]].vintage + i - 1
    BY <1>2, <2>5
  <2>7. runs[chain[n]].vintage = runs[chain[1]].vintage + n - 1 /\ runs[chain[1]].vintage \in Nat
    BY <1>2, <1>3
  <2> QED BY <1>3, <2>3, <2>6, <2>7
<1>5. Cardinality(TriangleColumns(chain)) = n
  <2>1. IsFiniteSet(1..n) /\ Cardinality(1..n) = n
    BY <1>3, FS_Interval
  <2>2. TriangleColumns(chain) = {v[i] : i \in 1..n}
    BY <1>3 DEF TriangleColumns
  <2>3. \A i, j \in 1..n : v[i] = v[j] => i = j
    BY <1>2, <1>3
  <2>4. v \in Bijection(1..n, TriangleColumns(chain))
    <3>1. v \in [1..n -> TriangleColumns(chain)]
      BY <2>2
    <3>2. \A x \in TriangleColumns(chain) : \E i \in 1..n : v[i] = x
      BY <2>2
    <3> HIDE DEF v, n
    <3> QED BY <2>3, <3>1, <3>2 DEF Bijection, Injection, Surjection, IsInjective
  <2> QED BY <2>1, <2>4, FS_Bijection DEF ExistsBijection
<1> QED BY <1>4, <1>5 DEF chain

\* Wherever it is entered, vintage_chain of core/registry.py ends, and returns distinct
\* runs, each superseding the one before, and all that the run leads back to; even when
\* corrections have made the links circular.
THEOREM ChainIsWhole == ASSUME IsFiniteSet(Runs) PROVE Spec => []ChainWalk
<1>1. IInv => ChainWalk
  BY ChainWalks DEF IInv
<1> QED BY <1>1, Inductive, PTL DEF Spec

\* The chain reaches the latest vintage and the revision triangle has a column of its own
\* for each (engine/revision.py), as long as corrections bring new content.
THEOREM TriangleIsComplete ==
  ASSUME ~ReRegister, IsFiniteSet(Runs) PROVE Spec => []TriangleComplete
<1>1. FreshInv => TriangleComplete
  BY TriangleCompletes DEF FreshInv, IInv
<1>2. (Init => FreshInv) /\ (FreshInv /\ [Next]_vars => FreshInv')
  BY FreshInductive
<1> QED BY <1>1, <1>2, PTL DEF Spec
===============================================================================
