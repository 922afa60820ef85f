------------------------------ MODULE Ledger_proofs ------------------------------
(***************************************************************************)
(* Any number of sessions share the approval ledgers of any collections:   *)
(* what a session applies was recorded first, and a clash or a double      *)
(* decision traces back to a session that lagged or raced.                 *)
(***************************************************************************)
EXTENDS Ledger, FiniteSetTheorems, TLAPS

Steps ==
  {None}
  \cup [at : {"apply"}, cfg : Config]
  \cup [at : {"withdraw adjustment", "withdraw decision"}, row : Nat]
  \cup [at : {"decide"}, entry : Decisions, live : SUBSET Nat]

Session ==
  [hash : Data \cup {None}, screen : {"none", "own", "loaded"}, compiled : BOOLEAN,
   cfg : Config]

\* The shape of the state.  The hash of a session is not a collection before its
\* first upload, when no page that writes to a ledger can be used.
Shape ==
  /\ adjusted \in Seq(Row(Adjustments))
  /\ decided \in Seq(Row(Decisions))
  /\ sess \in [Users -> Session]
  /\ tx \in [Users -> Steps]

Recorded(table) == {table[i].entry : i \in DOMAIN table}
Approved(cfg, a, d) == cfg.adj \subseteq Recorded(a) /\ cfg.dec \subseteq Recorded(d)

Deciding(u) == tx[u] # None /\ tx[u].at = "decide"

\* The strengthening: a configuration that is still to be compiled was approved too,
\* and a decision is made in a session that has a collection.
IInv ==
  /\ Shape
  /\ \A u \in Users : Approved(sess[u].cfg, adjusted, decided)
  /\ \A u \in Users : tx[u] # None /\ tx[u].at = "apply" => Approved(tx[u].cfg, adjusted, decided)
  /\ \A u \in Users : Deciding(u) => sess[u].hash \in Data

-----------------------------------------------------------------------------
(* Tables *)

LEMMA RowNumbers ==
  ASSUME NEW E, NEW table \in Seq(Row(E))
  PROVE  DOMAIN table = 1..Len(table) /\ DOMAIN table \subseteq Nat
<1>1. DOMAIN table = 1..Len(table) /\ Len(table) \in Nat
  OBVIOUS
<1> QED BY <1>1

LEMMA AppendRow ==
  ASSUME NEW E, NEW table \in Seq(Row(E)), NEW d \in Data, NEW e \in E
  PROVE  /\ Append(table, NewRow(d, e)) \in Seq(Row(E))
         /\ Recorded(Append(table, NewRow(d, e))) = Recorded(table) \cup {e}
<1>1. NewRow(d, e) \in Row(E)
  BY DEF NewRow, Row
<1>2. Append(table, NewRow(d, e)) \in Seq(Row(E))
  BY <1>1
<1>3. /\ DOMAIN Append(table, NewRow(d, e)) = DOMAIN table \cup {Len(table) + 1}
      /\ \A i \in DOMAIN table : Append(table, NewRow(d, e))[i] = table[i]
      /\ Append(table, NewRow(d, e))[Len(table) + 1] = NewRow(d, e)
  BY <1>1
<1> QED BY <1>2, <1>3 DEF Recorded, NewRow

Without(table, i, u) == [table EXCEPT ![i] = Withdrawn(table[i], u)]

\* Withdrawing a row changes neither the entries nor the collections of a table, and
\* leaves no row live that was not.
LEMMA WithdrawRow ==
  ASSUME NEW E, NEW table \in Seq(Row(E)), NEW u \in Users, NEW i \in Nat
  PROVE  /\ Without(table, i, u) \in Seq(Row(E))
         /\ Recorded(Without(table, i, u)) = Recorded(table)
         /\ \A d \in Data : Live(Without(table, i, u), d) \subseteq Live(table, d)
         /\ \A d \in Data : ActiveEntries(Without(table, i, u), d) \subseteq ActiveEntries(table, d)
         /\ \A j \in DOMAIN table : Without(table, i, u)[j].entry = table[j].entry
<1>1. \A r \in Row(E) : /\ Withdrawn(r, u) \in Row(E)
                        /\ Withdrawn(r, u).entry = r.entry
                        /\ Withdrawn(r, u).data = r.data
                        /\ ~Withdrawn(r, u).live
  BY DEF Withdrawn, Row
<1>2. DOMAIN Without(table, i, u) = DOMAIN table /\ \A j \in DOMAIN table : table[j] \in Row(E)
  BY DEF Without
<1>3. \A j \in DOMAIN table : /\ Without(table, i, u)[j] \in Row(E)
                              /\ Without(table, i, u)[j].entry = table[j].entry
                              /\ Without(table, i, u)[j].data = table[j].data
                              /\ Without(table, i, u)[j].live => table[j].live
  BY <1>1, <1>2 DEF Without
<1>4. Without(table, i, u) \in Seq(Row(E))
  <2>1. Len(table) \in Nat /\ DOMAIN table = 1..Len(table)
    OBVIOUS
  <2>2. Without(table, i, u) \in [1..Len(table) -> Row(E)]
    BY <1>2, <1>3, <2>1 DEF Without
  <2> QED BY <2>1, <2>2
<1>5. Recorded(Without(table, i, u)) = Recorded(table)
  BY <1>2, <1>3 DEF Recorded
<1>6. \A d \in Data : Live(Without(table, i, u), d) \subseteq Live(table, d)
  BY <1>2, <1>3 DEF Live
<1>7. \A d \in Data : ActiveEntries(Without(table, i, u), d) \subseteq ActiveEntries(table, d)
  BY <1>2, <1>3, <1>6 DEF ActiveEntries, Live
<1> QED BY <1>3, <1>4, <1>5, <1>6, <1>7

\* The live entries of a collection are among the recorded ones.
LEMMA ActiveIsRecorded ==
  ASSUME NEW E, NEW table \in Seq(Row(E)), NEW d
  PROVE  ActiveEntries(table, d) \subseteq Recorded(table) /\ Recorded(table) \subseteq E
<1>1. \A i \in DOMAIN table : table[i] \in Row(E)
  OBVIOUS
<1> QED BY <1>1 DEF ActiveEntries, Live, Recorded, Row

-----------------------------------------------------------------------------
(* The invariant *)

\* What a step leaves to show when it only adds to what is recorded.
LEMMA RecordsOnlyGrow ==
  ASSUME IInv, Shape',
         Recorded(adjusted) \subseteq Recorded(adjusted'),
         Recorded(decided) \subseteq Recorded(decided'),
         NEW u \in Users, NEW s \in Session, sess' = [sess EXCEPT ![u] = s],
         NEW step \in Steps, tx' = [tx EXCEPT ![u] = step],
         s.cfg = sess[u].cfg \/ Approved(s.cfg, adjusted', decided'),
         \/ step = None \/ step.at # "apply" \/ Approved(step.cfg, adjusted', decided'),
         \/ step = None \/ step.at # "decide" \/ s.hash \in Data
  PROVE  IInv'
<1>1. \A cfg : Approved(cfg, adjusted, decided) => Approved(cfg, adjusted', decided')
  BY DEF Approved
<1>2. \A v \in Users : /\ sess'[v] = IF v = u THEN s ELSE sess[v]
                       /\ tx'[v] = IF v = u THEN step ELSE tx[v]
  BY DEF IInv, Shape
<1>3. \A v \in Users : Approved(sess'[v].cfg, adjusted', decided')
  BY <1>1, <1>2 DEF IInv
<1>4. \A v \in Users : tx'[v] # None /\ tx'[v].at = "apply"
                       => Approved(tx'[v].cfg, adjusted', decided')
  BY <1>1, <1>2 DEF IInv
<1>5. \A v \in Users : tx'[v] # None /\ tx'[v].at = "decide" => sess'[v].hash \in Data
  BY <1>2 DEF IInv, Deciding
<1> QED BY <1>3, <1>4, <1>5 DEF IInv, Deciding

\* The steps that write to no table.
LEMMA ReadingSteps ==
  ASSUME IInv, NEW u \in Users, adjusted' = adjusted, decided' = decided,
         NEW s \in Session, sess' = [sess EXCEPT ![u] = s],
         NEW step \in Steps, tx' = [tx EXCEPT ![u] = step],
         Approved(s.cfg, adjusted, decided),
         \/ step = None \/ step.at # "apply" \/ Approved(step.cfg, adjusted, decided),
         \/ step = None \/ step.at # "decide" \/ s.hash \in Data
  PROVE  IInv'
<1>1. Shape'
  BY DEF IInv, Shape
<1> QED BY <1>1, RecordsOnlyGrow

LEMMA OneSession ==
  ASSUME IInv, NEW u \in Users
  PROVE  /\ sess[u] \in Session /\ sess[u].cfg \in Config
         /\ tx[u] \in Steps /\ None \in Steps
         /\ sess[u].hash # None => sess[u].hash \in Data
         /\ Approved(sess[u].cfg, adjusted, decided)
         /\ sess = [sess EXCEPT ![u] = sess[u]]
         /\ tx = [tx EXCEPT ![u] = tx[u]]
         /\ tx[u] = None \/ tx[u].at # "apply" \/ Approved(tx[u].cfg, adjusted, decided)
         /\ tx[u] = None \/ tx[u].at # "decide" \/ sess[u].hash \in Data
  BY DEF IInv, Shape, Session, Steps, Deciding

\* The steps that only change what a session shows.
LEMMA ShowingSteps ==
  ASSUME IInv, NEW u \in Users, UNCHANGED <<adjusted, decided, tx>>,
         NEW s \in Session, sess' = [sess EXCEPT ![u] = s],
         s.cfg = sess[u].cfg, s.hash = sess[u].hash \/ s.hash \in Data
  PROVE  IInv'
<1>1. tx' = [tx EXCEPT ![u] = tx[u]] /\ tx[u] \in Steps
  BY OneSession
<1>2. /\ Approved(s.cfg, adjusted, decided)
      /\ tx[u] = None \/ tx[u].at # "apply" \/ Approved(tx[u].cfg, adjusted, decided)
      /\ tx[u] = None \/ tx[u].at # "decide" \/ s.hash \in Data
  BY OneSession
<1> QED BY <1>1, <1>2, ReadingSteps

LEMMA IngestStep ==
  ASSUME IInv, NEW u \in Users, NEW d \in Data, Ingest(u, d)
  PROVE  IInv'
<1> DEFINE s == [sess[u] EXCEPT !.hash = d]
           cfg == [adj |-> ActiveEntries(adjusted, d), dec |-> {}]
<1>1. s \in Session /\ s.cfg = sess[u].cfg /\ s.hash \in Data /\ sess' = [sess EXCEPT ![u] = s]
  BY OneSession DEF Ingest, Session
<1>2. CASE UNCHANGED tx
  <2> HIDE DEF s
  <2> QED BY <1>1, <1>2, ShowingSteps DEF Ingest
<1>3. CASE tx' = [tx EXCEPT ![u] = Apply(cfg)]
  <2>1. cfg \in Config /\ Approved(cfg, adjusted, decided)
    BY ActiveIsRecorded DEF IInv, Shape, Config, Approved
  <2>2. Apply(cfg) \in Steps /\ Apply(cfg).cfg = cfg /\ Apply(cfg).at # "decide"
    BY <2>1 DEF Apply, Steps
  <2> HIDE DEF s, cfg
  <2> QED BY <1>1, <1>3, <2>1, <2>2, OneSession, ReadingSteps DEF Ingest
<1> QED BY <1>2, <1>3 DEF Ingest, Goto

LEMMA CompileStep ==
  ASSUME IInv, NEW u \in Users, Compile(u)
  PROVE  IInv'
<1>1. tx[u].at = "apply" /\ tx[u] # None
  BY DEF Compile, Idle
<1>2. tx[u].cfg \in Config
  BY <1>1, OneSession DEF Steps
<1>3. Compiled(u) \in Session /\ Compiled(u).cfg = tx[u].cfg
  BY <1>2, OneSession DEF Compiled, Session
<1>4. /\ adjusted' = adjusted /\ decided' = decided
      /\ sess' = [sess EXCEPT ![u] = Compiled(u)]
      /\ tx' = [tx EXCEPT ![u] = None]
  BY DEF Compile, Done, Goto
<1> QED BY <1>1, <1>3, <1>4, OneSession, ReadingSteps

\* "Clear data", the picker of approved runs, a navigation and a new session.
LEMMA ScreenSteps ==
  ASSUME IInv, NEW u \in Users, Interrupt(u) \/ Clear(u) \/ LoadApproved(u) \/ NewSession(u)
  PROVE  IInv'
<1>1. CASE Interrupt(u)
  BY <1>1, OneSession, ReadingSteps DEF Interrupt, Done, Goto
<1>2. CASE Clear(u)
  <2>1. [sess[u] EXCEPT !.screen = "none"] \in Session
    BY OneSession DEF Session
  <2>2. /\ [sess[u] EXCEPT !.screen = "none"].cfg = sess[u].cfg
        /\ [sess[u] EXCEPT !.screen = "none"].hash = sess[u].hash
    BY OneSession DEF Session
  <2>3. sess' = [sess EXCEPT ![u] = [sess[u] EXCEPT !.screen = "none"]]
    BY <1>2 DEF Clear
  <2> QED BY <1>2, <2>1, <2>2, <2>3, ShowingSteps DEF Clear
<1>3. CASE LoadApproved(u)
  <2>1. [sess[u] EXCEPT !.screen = "loaded"] \in Session
    BY OneSession DEF Session
  <2>2. /\ [sess[u] EXCEPT !.screen = "loaded"].cfg = sess[u].cfg
        /\ [sess[u] EXCEPT !.screen = "loaded"].hash = sess[u].hash
    BY OneSession DEF Session
  <2>3. sess' = [sess EXCEPT ![u] = [sess[u] EXCEPT !.screen = "loaded"]]
    BY <1>3 DEF LoadApproved
  <2> QED BY <1>3, <2>1, <2>2, <2>3, ShowingSteps DEF LoadApproved
<1>4. CASE NewSession(u)
  <2>1. Empty \in Session /\ Approved(Empty.cfg, adjusted, decided)
    BY DEF Empty, Session, Config, Approved
  <2> QED BY <1>4, <2>1, OneSession, ReadingSteps DEF NewSession, Done, Goto
<1> QED BY <1>1, <1>2, <1>3, <1>4

\* Approve records the row before the session compiles under it.
LEMMA ApproveStep ==
  ASSUME IInv, NEW u \in Users, NEW e \in Adjustments, Approve(u, e)
  PROVE  IInv'
<1> DEFINE cfg == [sess[u].cfg EXCEPT !.adj = @ \cup {e}]
<1>1. sess[u].hash \in Data
  BY OneSession DEF Approve, OnAdjustmentPage
<1>2. /\ adjusted' \in Seq(Row(Adjustments))
      /\ Recorded(adjusted') = Recorded(adjusted) \cup {e}
  BY <1>1, AppendRow DEF Approve, IInv, Shape
<1>3. cfg \in Config /\ Approved(cfg, adjusted', decided)
  BY <1>2, OneSession DEF Config, Approved
<1>4. Apply(cfg) \in Steps /\ Apply(cfg).cfg = cfg /\ Apply(cfg).at # "decide"
  BY <1>3 DEF Apply, Steps
<1>5. /\ decided' = decided /\ sess' = sess
      /\ tx' = [tx EXCEPT ![u] = Apply(cfg)]
  BY DEF Approve, Goto
<1> HIDE DEF cfg
<1>6. Shape'
  BY <1>2, <1>4, <1>5 DEF IInv, Shape
<1> QED BY <1>2, <1>3, <1>4, <1>5, <1>6, OneSession, RecordsOnlyGrow

\* The statements that only read a table.
LEMMA PickSteps ==
  ASSUME IInv, NEW u \in Users,
         \/ \E i \in DOMAIN adjusted : PickAdjustment(u, i)
         \/ \E i \in DOMAIN decided : PickDecision(u, i)
         \/ \E e \in Decisions : Decide(u, e)
         \/ RecompileDecided(u)
  PROVE  IInv'
<1>0. DOMAIN adjusted \subseteq Nat /\ DOMAIN decided \subseteq Nat
  BY RowNumbers DEF IInv, Shape
<1>1. ASSUME NEW i \in DOMAIN adjusted, PickAdjustment(u, i) PROVE IInv'
  <2>1. [at |-> "withdraw adjustment", row |-> i] \in Steps
    BY <1>0 DEF Steps
  <2> QED BY <1>1, <2>1, OneSession, ReadingSteps DEF PickAdjustment, Goto
<1>2. ASSUME NEW i \in DOMAIN decided, PickDecision(u, i) PROVE IInv'
  <2>1. [at |-> "withdraw decision", row |-> i] \in Steps
    BY <1>0 DEF Steps
  <2> QED BY <1>2, <2>1, OneSession, ReadingSteps DEF PickDecision, Goto
<1>3. ASSUME NEW e \in Decisions, Decide(u, e) PROVE IInv'
  <2> DEFINE step == [at |-> "decide", entry |-> e, live |-> OnQuote(sess[u].hash, e[1])]
  <2>1. step \in Steps /\ step.at # "apply"
    BY <1>0 DEF Steps, OnQuote, Live
  <2>2. sess[u].hash \in Data
    BY <1>3, OneSession DEF Decide, OnOutlierPage
  <2>3. /\ adjusted' = adjusted /\ decided' = decided /\ sess' = sess
        /\ tx' = [tx EXCEPT ![u] = step]
    BY <1>3 DEF Decide, Goto
  <2> HIDE DEF step
  <2> QED BY <2>1, <2>2, <2>3, OneSession, ReadingSteps
<1>4. CASE RecompileDecided(u)
  <2> DEFINE cfg == [sess[u].cfg EXCEPT !.dec = ActiveEntries(decided, sess[u].hash)]
  <2>1. ActiveEntries(decided, sess[u].hash) \subseteq Recorded(decided)
        /\ Recorded(decided) \subseteq Decisions
    BY ActiveIsRecorded DEF IInv, Shape
  <2>2. cfg \in Config /\ Approved(cfg, adjusted, decided)
    BY <2>1, OneSession DEF Config, Approved
  <2>3. Apply(cfg) \in Steps /\ Apply(cfg).cfg = cfg /\ Apply(cfg).at # "decide"
    BY <2>2 DEF Apply, Steps
  <2>4. /\ adjusted' = adjusted /\ decided' = decided /\ sess' = sess
        /\ tx' = [tx EXCEPT ![u] = Apply(cfg)]
    BY <1>4 DEF RecompileDecided, Goto
  <2> HIDE DEF cfg
  <2> QED BY <2>2, <2>3, <2>4, OneSession, ReadingSteps
<1> QED BY <1>1, <1>2, <1>3, <1>4

LEMMA WithdrawSteps ==
  ASSUME IInv, NEW u \in Users, WithdrawAdjustment(u) \/ WithdrawDecision(u)
  PROVE  IInv'
<1>0. ASSUME tx[u] # None, tx[u].at \in {"withdraw adjustment", "withdraw decision"}
      PROVE  tx[u].row \in Nat
  BY <1>0, OneSession DEF Steps
<1>1. CASE WithdrawAdjustment(u)
  <2> DEFINE d == sess[u].hash
             cfg == [sess[u].cfg EXCEPT !.adj = ActiveEntries(adjusted', d)]
  <2>1. /\ tx[u].row \in Nat
        /\ adjusted' = Without(adjusted, tx[u].row, u)
        /\ decided' = decided /\ sess' = sess
    BY <1>0, <1>1 DEF WithdrawAdjustment, Idle, Without
  <2>2. adjusted' \in Seq(Row(Adjustments)) /\ Recorded(adjusted') = Recorded(adjusted)
    BY <2>1, WithdrawRow DEF IInv, Shape
  <2>3. /\ ActiveEntries(adjusted', d) \subseteq Recorded(adjusted')
        /\ Recorded(adjusted') \subseteq Adjustments
    BY <2>2, ActiveIsRecorded
  <2>4. cfg \in Config /\ Approved(cfg, adjusted', decided)
    BY <2>1, <2>2, <2>3, OneSession DEF Config, Approved
  <2>5. Apply(cfg) \in Steps /\ Apply(cfg).cfg = cfg /\ Apply(cfg).at # "decide"
    BY <2>4 DEF Apply, Steps
  <2>6. tx' = [tx EXCEPT ![u] = Apply(cfg)] \/ tx' = [tx EXCEPT ![u] = None]
    BY <1>1 DEF WithdrawAdjustment, Done, Goto
  <2> HIDE DEF cfg
  <2>7. Shape'
    BY <2>1, <2>2, <2>5, <2>6, OneSession DEF IInv, Shape
  <2>8. CASE tx' = [tx EXCEPT ![u] = Apply(cfg)]
    BY <2>1, <2>2, <2>4, <2>5, <2>7, <2>8, OneSession, RecordsOnlyGrow
  <2>9. CASE tx' = [tx EXCEPT ![u] = None]
    BY <2>1, <2>2, <2>7, <2>9, OneSession, RecordsOnlyGrow
  <2> QED BY <2>6, <2>8, <2>9
<1>2. CASE WithdrawDecision(u)
  <2>1. /\ tx[u].row \in Nat
        /\ decided' = Without(decided, tx[u].row, u)
        /\ adjusted' = adjusted /\ sess' = sess /\ tx' = [tx EXCEPT ![u] = None]
    BY <1>0, <1>2 DEF WithdrawDecision, Idle, Done, Goto, Without
  <2>2. decided' \in Seq(Row(Decisions)) /\ Recorded(decided') = Recorded(decided)
    BY <2>1, WithdrawRow DEF IInv, Shape
  <2>3. Shape'
    BY <2>1, <2>2, OneSession DEF IInv, Shape
  <2> QED BY <2>1, <2>2, <2>3, OneSession, RecordsOnlyGrow
<1> QED BY <1>1, <1>2

\* The table after the earlier decisions on the quote were withdrawn.
Settled(u) ==
  [i \in DOMAIN decided |->
     IF Superseded(u, i) THEN Withdrawn(decided[i], u) ELSE decided[i]]

LEMMA SettledRows ==
  ASSUME Shape, NEW u \in Users
  PROVE  /\ Settled(u) \in Seq(Row(Decisions))
         /\ DOMAIN Settled(u) = DOMAIN decided
         /\ Len(Settled(u)) = Len(decided)
         /\ Recorded(Settled(u)) = Recorded(decided)
         /\ \A i \in DOMAIN decided :
              /\ Settled(u)[i].entry = decided[i].entry
              /\ Settled(u)[i].data = decided[i].data
              /\ Settled(u)[i].live => decided[i].live /\ ~Superseded(u, i)
<1>1. \A r \in Row(Decisions) : /\ Withdrawn(r, u) \in Row(Decisions)
                                /\ Withdrawn(r, u).entry = r.entry
                                /\ Withdrawn(r, u).data = r.data
                                /\ ~Withdrawn(r, u).live
  BY DEF Withdrawn, Row
<1>2. /\ DOMAIN decided = 1..Len(decided) /\ Len(decided) \in Nat
      /\ \A i \in DOMAIN decided : decided[i] \in Row(Decisions)
  BY DEF Shape
<1>3. DOMAIN Settled(u) = DOMAIN decided
  BY DEF Settled
<1>4. \A i \in DOMAIN decided :
        /\ Settled(u)[i] \in Row(Decisions)
        /\ Settled(u)[i].entry = decided[i].entry
        /\ Settled(u)[i].data = decided[i].data
        /\ Settled(u)[i].live => decided[i].live /\ ~Superseded(u, i)
  BY <1>1, <1>2 DEF Settled
<1>5. Settled(u) \in [1..Len(decided) -> Row(Decisions)]
  <2>1. \A i \in 1..Len(decided) : Settled(u)[i] \in Row(Decisions)
    BY <1>2, <1>4
  <2>2. Settled(u) = [i \in 1..Len(decided) |-> Settled(u)[i]]
    BY <1>2 DEF Settled
  <2> QED BY <2>1, <2>2
<1>6. Settled(u) \in Seq(Row(Decisions)) /\ Len(Settled(u)) = Len(decided)
  BY <1>2, <1>5
<1>7. Recorded(Settled(u)) = Recorded(decided)
  BY <1>3, <1>4 DEF Recorded
<1> QED BY <1>3, <1>4, <1>6, <1>7

LEMMA DecideStep ==
  ASSUME IInv, NEW u \in Users, RecordDecision(u)
  PROVE  IInv'
<1>1. /\ sess[u].hash \in Data /\ tx[u].entry \in Decisions
      /\ decided' = Append(Settled(u), NewRow(sess[u].hash, tx[u].entry))
      /\ adjusted' = adjusted /\ sess' = sess /\ tx' = [tx EXCEPT ![u] = None]
  BY OneSession DEF RecordDecision, Idle, Done, Goto, Settled, Steps
<1>2. /\ decided' \in Seq(Row(Decisions))
      /\ Recorded(decided') = Recorded(decided) \cup {tx[u].entry}
  BY <1>1, SettledRows, AppendRow DEF IInv
<1>3. Shape'
  BY <1>1, <1>2, OneSession DEF IInv, Shape
<1> QED BY <1>1, <1>2, <1>3, OneSession, RecordsOnlyGrow

LEMMA InvariantHolds ==
  ASSUME IInv, [Next]_vars
  PROVE  IInv'
<1>1. CASE UNCHANGED vars
  BY <1>1 DEF vars, IInv, Shape, Deciding
<1>2. ASSUME NEW u \in Users, NEW d \in Data, Ingest(u, d) PROVE IInv'
  BY <1>2, IngestStep
<1>3. ASSUME NEW u \in Users, NEW e \in Adjustments, Approve(u, e) PROVE IInv'
  BY <1>3, ApproveStep
<1> QED
  BY <1>1, <1>2, <1>3, CompileStep, ScreenSteps, PickSteps, WithdrawSteps, DecideStep DEF Next

LEMMA InvariantStarts ==
  ASSUME Init PROVE IInv
<1>1. Empty \in Session /\ Approved(Empty.cfg, <<>>, <<>>)
  BY DEF Empty, Session, Config, Approved
<1>2. Shape
  BY <1>1 DEF Init, Shape, Steps
<1> QED BY <1>1, <1>2 DEF Init, IInv, Deciding

\* "The applied ledger ... is the approval record": whatever the sessions do at once,
\* an analysis on a screen applies no adjustment and no decision that no row of the
\* ledgers records (pages/quality_adjustment.py, pages/outliers.py).
THEOREM NothingUnapproved == Spec => []AppliedWasApproved
<1>1. IInv => AppliedWasApproved
  BY DEF IInv, Approved, Recorded, AppliedWasApproved
<1> QED
  BY <1>1, InvariantStarts, InvariantHolds, PTL DEF Spec

-----------------------------------------------------------------------------
(* Clashes *)

LEMMA FewerRowsOneToOne ==
  ASSUME NEW d \in Data, OneToOne(adjusted, Live(adjusted, d)),
         Live(adjusted', d) \subseteq Live(adjusted, d),
         \A i \in Live(adjusted, d) : adjusted'[i].entry = adjusted[i].entry
  PROVE  OneToOne(adjusted', Live(adjusted', d))
  BY DEF OneToOne

\* A replacement that clashes with a live one is approved only under a configuration
\* that does not hold the live one.
LEMMA ClashAtApproval ==
  ASSUME IInv, NEW u \in Users, NEW e \in Adjustments, Approve(u, e),
         NEW d \in Data, OneToOne(adjusted, Live(adjusted, d)),
         sess[u].hash = d => ActiveEntries(adjusted, d) \subseteq sess[u].cfg.adj
  PROVE  OneToOne(adjusted', Live(adjusted', d))
<1> DEFINE new == NewRow(sess[u].hash, e)
           n == Len(adjusted) + 1
<1>1. /\ sess[u].hash \in Data
      /\ adjusted' = Append(adjusted, new)
      /\ \A f \in sess[u].cfg.adj : ~Clash(e, f)
  BY OneSession DEF Approve, OnAdjustmentPage, CanAdd
<1>2. new \in Row(Adjustments) /\ new.entry = e /\ new.data = sess[u].hash
  BY <1>1 DEF NewRow, Row
<1>3. /\ DOMAIN adjusted' = DOMAIN adjusted \cup {n}
      /\ \A i \in DOMAIN adjusted : adjusted'[i] = adjusted[i]
      /\ adjusted'[n] = new
  <2> HIDE DEF new
  <2> QED BY <1>1, <1>2 DEF IInv, Shape
<1>4. Live(adjusted', d) \subseteq Live(adjusted, d) \cup {n}
  BY <1>3 DEF Live
<1>5. n \in Live(adjusted', d) => sess[u].hash = d
  BY <1>2, <1>3 DEF Live
<1>6. ASSUME NEW i \in Live(adjusted, d), sess[u].hash = d
      PROVE  ~Clash(e, adjusted[i].entry) /\ ~Clash(adjusted[i].entry, e)
  <2>1. adjusted[i].entry \in sess[u].cfg.adj
    BY <1>6 DEF ActiveEntries
  <2> QED BY <1>1, <2>1 DEF Clash
<1>7. \A i \in Live(adjusted, d) : i \in DOMAIN adjusted
  BY DEF Live
<1>8. ASSUME NEW i \in Live(adjusted', d), NEW j \in Live(adjusted', d),
             Clash(adjusted'[i].entry, adjusted'[j].entry)
      PROVE  i = j
  <2> HIDE DEF n, new
  <2>1. CASE i = n /\ j # n
    BY <1>2, <1>3, <1>4, <1>5, <1>6, <1>7, <1>8, <2>1
  <2>2. CASE i # n /\ j = n
    BY <1>2, <1>3, <1>4, <1>5, <1>6, <1>7, <1>8, <2>2
  <2>3. CASE i # n /\ j # n
    BY <1>3, <1>4, <1>7, <1>8, <2>3 DEF OneToOne
  <2> QED BY <2>1, <2>2, <2>3
<1> QED BY <1>8 DEF OneToOne

Lags(d) ==
  \E u \in Users : /\ sess[u].hash = d
                   /\ ~(ActiveEntries(adjusted, d) \subseteq sess[u].cfg.adj)

LEMMA ClashStep ==
  ASSUME IInv, [Next]_vars, NEW d \in Data,
         OneToOne(adjusted, Live(adjusted, d)), ~Lags(d)
  PROVE  OneToOne(adjusted', Live(adjusted', d))
<1>1. ASSUME adjusted' = adjusted PROVE OneToOne(adjusted', Live(adjusted', d))
  BY <1>1
<1>2. ASSUME NEW u \in Users, NEW e \in Adjustments, Approve(u, e)
      PROVE  OneToOne(adjusted', Live(adjusted', d))
  BY <1>2, ClashAtApproval DEF Lags
<1>3. ASSUME NEW u \in Users, WithdrawAdjustment(u)
      PROVE  OneToOne(adjusted', Live(adjusted', d))
  <2>1. /\ tx[u].row \in Nat
        /\ adjusted' = Without(adjusted, tx[u].row, u)
    BY <1>3, OneSession DEF WithdrawAdjustment, Idle, Steps, Without
  <2>2. /\ Live(adjusted', d) \subseteq Live(adjusted, d)
        /\ \A i \in DOMAIN adjusted : adjusted'[i].entry = adjusted[i].entry
    BY <2>1, WithdrawRow DEF IInv, Shape
  <2> QED BY <2>2, FewerRowsOneToOne DEF Live
<1> QED
  BY <1>1, <1>2, <1>3 DEF Next, vars, Ingest, LoadApproved, Compile, Interrupt, Clear,
     NewSession, PickAdjustment, Decide, PickDecision, RecordDecision, WithdrawDecision,
     RecompileDecided

\* The ledger of a collection comes to hold clashing replacements, which no later
\* upload of that collection survives, only when a session approves one under a
\* configuration that lags behind the ledger (pages/quality_adjustment.py).
THEOREM ClashesNeedLag == Spec => ClashNeedsLag
<1>1. IInv /\ [Next]_vars =>
        [\A d \in Data :
           OneToOne(adjusted, Live(adjusted, d)) =>
             \/ OneToOne(adjusted, Live(adjusted, d))'
             \/ \E u \in Users : /\ sess[u].hash = d
                                /\ ~(ActiveEntries(adjusted, d) \subseteq sess[u].cfg.adj)]_vars
  BY ClashStep DEF Lags
<1> QED
  BY <1>1, InvariantStarts, InvariantHolds, PTL DEF Spec, ClashNeedsLag

-----------------------------------------------------------------------------
(* Double decisions *)

\* Fewer live decisions on a quote are not more than one if there was at most one.
LEMMA FewerStaySingle ==
  ASSUME NEW S, NEW T \in SUBSET S, IsFiniteSet(S), Cardinality(T) > 1
  PROVE  Cardinality(S) > 1
<1>1. /\ Cardinality(T) <= Cardinality(S)
      /\ Cardinality(T) \in Nat /\ Cardinality(S) \in Nat
  BY FS_Subset, FS_CardinalityType
<1> QED BY <1>1

LEMMA DecisionsAreFinite ==
  ASSUME Shape, NEW d, NEW q PROVE IsFiniteSet(OnQuote(d, q))
<1>1. DOMAIN decided = 1..Len(decided) /\ Len(decided) \in Nat
  BY DEF Shape
<1>2. IsFiniteSet(1..Len(decided))
  BY <1>1, FS_Interval
<1>3. OnQuote(d, q) \subseteq 1..Len(decided)
  BY <1>1 DEF OnQuote, Live
<1> QED BY <1>2, <1>3, FS_Subset

\* A session that saw every live decision on the quote leaves its own as the only one.
LEMMA SettledDecision ==
  ASSUME IInv, NEW u \in Users, RecordDecision(u), NEW d \in Data, NEW q \in Quotes,
         tx[u].entry[1] = q => OnQuote(d, q) \subseteq tx[u].live,
         Cardinality(OnQuote(d, q)') > 1
  PROVE  Cardinality(OnQuote(d, q)) > 1
<1> DEFINE n == Len(decided) + 1
           new == NewRow(sess[u].hash, tx[u].entry)
<1>1. /\ sess[u].hash \in Data /\ tx[u].entry \in Decisions
      /\ decided' = Append(Settled(u), new)
  BY OneSession DEF RecordDecision, Idle, Settled, Steps
<1>2. new \in Row(Decisions) /\ new.entry = tx[u].entry
  BY <1>1 DEF NewRow, Row
<1>3. /\ DOMAIN decided' = DOMAIN decided \cup {n}
      /\ \A i \in DOMAIN decided : decided'[i] = Settled(u)[i]
      /\ decided'[n] = new
  <2> HIDE DEF new
  <2> QED BY <1>1, <1>2, SettledRows DEF IInv
<1>4. \A i \in DOMAIN decided : i \in OnQuote(d, q)' => i \in OnQuote(d, q) /\ ~Superseded(u, i)
  BY <1>3, SettledRows DEF OnQuote, Live, IInv
<1>5. OnQuote(d, q)' \subseteq DOMAIN decided \cup {n}
  BY <1>3 DEF OnQuote, Live
<1>6. CASE tx[u].entry[1] = q
  <2>1. OnQuote(d, q)' \subseteq {n}
    BY <1>4, <1>5, <1>6 DEF Superseded
  <2>2. IsFiniteSet({n}) /\ Cardinality({n}) = 1
    BY FS_Singleton
  <2>3. FALSE
    BY <2>1, <2>2, FewerStaySingle
  <2> QED BY <2>3
<1>7. CASE tx[u].entry[1] # q
  <2>1. n \in OnQuote(d, q)' => n \in DOMAIN decided
    BY <1>2, <1>3, <1>7 DEF OnQuote, Live
  <2>2. OnQuote(d, q)' \subseteq OnQuote(d, q)
    BY <1>4, <1>5, <2>1
  <2> QED BY <2>2, DecisionsAreFinite, FewerStaySingle DEF IInv
<1> QED BY <1>6, <1>7

LEMMA DoubleStep ==
  ASSUME IInv, [Next]_vars, NEW d \in Data, NEW q \in Quotes,
         Cardinality(OnQuote(d, q)') > 1,
         \A u \in Users : ~Idle(u) /\ tx[u].at = "decide" /\ tx[u].entry[1] = q
                          => OnQuote(d, q) \subseteq tx[u].live
  PROVE  Cardinality(OnQuote(d, q)) > 1
<1>1. CASE decided' = decided
  BY <1>1 DEF OnQuote, Live
<1>2. ASSUME NEW u \in Users, RecordDecision(u) PROVE Cardinality(OnQuote(d, q)) > 1
  <2>1. ~Idle(u) /\ tx[u].at = "decide"
    BY <1>2 DEF RecordDecision
  <2> QED BY <1>2, <2>1, SettledDecision
<1>3. ASSUME NEW u \in Users, WithdrawDecision(u) PROVE Cardinality(OnQuote(d, q)) > 1
  <2>1. /\ tx[u].row \in Nat
        /\ decided' = Without(decided, tx[u].row, u)
    BY <1>3, OneSession DEF WithdrawDecision, Idle, Steps, Without
  <2>2. /\ Live(decided', d) \subseteq Live(decided, d)
        /\ \A i \in DOMAIN decided : decided'[i].entry = decided[i].entry
    BY <2>1, WithdrawRow DEF IInv, Shape
  <2>3. OnQuote(d, q)' \subseteq OnQuote(d, q)
    BY <2>2 DEF OnQuote, Live
  <2> QED BY <2>3, DecisionsAreFinite, FewerStaySingle DEF IInv
<1> QED
  BY <1>1, <1>2, <1>3 DEF Next, vars, Ingest, LoadApproved, Compile, Interrupt, Clear,
     NewSession, PickAdjustment, Decide, PickDecision, Approve, WithdrawAdjustment,
     RecompileDecided

\* "One quote has one decision" (record_outlier_decision of core/ledger.py): a second
\* live decision on a quote appears only when another session committed between the
\* SELECT and the INSERT of the one that adds it.
THEOREM DoublesNeedARace == Spec => DoubleNeedsRace
<1>1. IInv /\ [Next]_vars =>
        [\A d \in Data, q \in Quotes :
           Cardinality(OnQuote(d, q)') > 1 =>
             \/ Cardinality(OnQuote(d, q)) > 1
             \/ \E u \in Users : /\ ~Idle(u) /\ tx[u].at = "decide" /\ tx[u].entry[1] = q
                                /\ ~(OnQuote(d, q) \subseteq tx[u].live)]_vars
  BY DoubleStep
<1> QED
  BY <1>1, InvariantStarts, InvariantHolds, PTL DEF Spec, DoubleNeedsRace
=================================================================================
