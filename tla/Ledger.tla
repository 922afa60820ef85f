--------------------------------- MODULE Ledger ---------------------------------
(***************************************************************************)
(* The approval ledgers of pricelab/core/ledger.py - quality adjustments   *)
(* and outlier decisions - and the pages that write, withdraw and re-apply *)
(* their entries in several browser sessions at once.                      *)
(*                                                                         *)
(* Both tables are keyed by the content hash st.session_state holds, which *)
(* Ingest replaces before it knows whether it will compile.  A SELECT is a *)
(* step of its own; the writes of a unit of work and its commit are one.   *)
(***************************************************************************)
EXTENDS Naturals, Sequences, FiniteSets

CONSTANTS Users,         \* browser sessions
          Data,          \* collections, identified with their content hash
          Adjustments,   \* replacements that can be valued: <<old, new>> items
          Quotes,        \* flagged quotes
          Verdicts,      \* "accept", "reject", "annotate"
          MaxRows,       \* bound: ledger rows
          None

Decisions == Quotes \X Verdicts

VARIABLES adjusted,   \* table quality_adjustments
          decided,    \* table outlier_decisions
          sess,       \* each session: content hash, whose analysis is on the screen,
                      \* whether it has compiled one, under which configuration
          tx          \* each session's handler between two statements

vars == <<adjusted, decided, sess, tx>>

Row(entries) == [data : Data, entry : entries, live : BOOLEAN, by : Users \cup {None}]
NewRow(d, e) == [data |-> d, entry |-> e, live |-> TRUE, by |-> None]
Withdrawn(row, u) == [row EXCEPT !.live = FALSE, !.by = u]

Config == [adj : SUBSET Adjustments, dec : SUBSET Decisions]
Empty == [hash |-> None, screen |-> "none", compiled |-> FALSE,
          cfg |-> [adj |-> {}, dec |-> {}]]

\* load_ledger and load_outlier_decisions: the live rows filed under d.
Live(table, d) == {i \in DOMAIN table : table[i].data = d /\ table[i].live}
ActiveEntries(table, d) == {table[i].entry : i \in Live(table, d)}

\* QualityAdjustmentConfig._one_replacement_per_item.  The entries come as a
\* list: two rows of one content clash as well.
Clash(e, f) == e[1] = f[1] \/ e[2] = f[2]
OneToOne(table, rows) == \A i, j \in rows : Clash(table[i].entry, table[j].entry) => i = j
CanAdd_NewOnly(entries, e) ==   \* mutant: seen_old is not consulted
  \A f \in entries : e[2] # f[2]
CanAdd(entries, e) == \A f \in entries : ~Clash(e, f)

Idle(u) == tx[u] = None
Goto(u, step) == tx' = [tx EXCEPT ![u] = step]
Done(u) == Goto(u, None)

\* compile_and_store is still to be called, under this configuration.
Apply(cfg) == [at |-> "apply", cfg |-> cfg]

Init ==
  /\ adjusted = <<>> /\ decided = <<>>
  /\ sess = [u \in Users |-> Empty]
  /\ tx = [u \in Users |-> None]

-----------------------------------------------------------------------------
(* Ingest *)

\* The content hash of the upload becomes the session's; critical findings end
\* the script run, and so does a ledger that QualityAdjustmentConfig refuses.
Ingest(u, d) ==
  /\ Idle(u)
  /\ sess' = [sess EXCEPT ![u].hash = d]
  /\ \/ UNCHANGED tx
     \/ /\ OneToOne(adjusted, Live(adjusted, d))
        /\ Goto(u, Apply([adj |-> ActiveEntries(adjusted, d), dec |-> {}]))
  /\ UNCHANGED <<adjusted, decided>>

\* compile_and_store; the pipeline may raise or the user navigate away.
Compiled(u) ==
  [sess[u] EXCEPT !.screen = "own", !.compiled = TRUE, !.cfg = tx[u].cfg]
Compile(u) ==
  /\ ~Idle(u) /\ tx[u].at = "apply"
  /\ sess' = [sess EXCEPT ![u] = Compiled(u)]
  /\ Done(u)
  /\ UNCHANGED <<adjusted, decided>>

Interrupt(u) ==
  /\ ~Idle(u)
  /\ Done(u)
  /\ UNCHANGED <<adjusted, decided, sess>>

\* "Clear data", and the picker that shows an approved run instead.
Clear(u) ==
  /\ Idle(u)
  /\ sess' = [sess EXCEPT ![u].screen = "none"]
  /\ UNCHANGED <<adjusted, decided, tx>>

LoadApproved(u) ==
  /\ Idle(u)
  /\ sess[u].screen = "none"
  /\ sess' = [sess EXCEPT ![u].screen = "loaded"]
  /\ UNCHANGED <<adjusted, decided, tx>>

-----------------------------------------------------------------------------
(* Quality adjustment *)

OnAdjustmentPage(u) == Idle(u) /\ sess[u].screen = "own" /\ sess[u].hash # None

\* "Approve and apply": validated against the session's own configuration,
\* recorded in the ledger, and only then compiled.
Approve_Late(u, e) ==   \* mutant: compiled before it is recorded
  /\ OnAdjustmentPage(u)
  /\ CanAdd(sess[u].cfg.adj, e)
  /\ Goto(u, Apply([sess[u].cfg EXCEPT !.adj = @ \cup {e}]))
  /\ UNCHANGED <<adjusted, decided, sess>>
Approve(u, e) ==
  /\ OnAdjustmentPage(u)
  /\ CanAdd(sess[u].cfg.adj, e)
  /\ Len(adjusted) + Len(decided) < MaxRows
  /\ adjusted' = Append(adjusted, NewRow(sess[u].hash, e))
  /\ Goto(u, Apply([sess[u].cfg EXCEPT !.adj = @ \cup {e}]))
  /\ UNCHANGED <<decided, sess>>

\* The row picked from the live ones; another session may withdraw it first.
PickAdjustment(u, i) ==
  /\ OnAdjustmentPage(u)
  /\ i \in Live(adjusted, sess[u].hash)
  /\ Goto(u, [at |-> "withdraw adjustment", row |-> i])
  /\ UNCHANGED <<adjusted, decided, sess>>

\* withdraw_adjustment and active_entries in one unit of work; afterwards a
\* remainder that is not one-to-one raises and nothing is compiled.
WithdrawAdjustment(u) ==
  /\ ~Idle(u) /\ tx[u].at = "withdraw adjustment"
  /\ adjusted' = [adjusted EXCEPT ![tx[u].row] = Withdrawn(@, u)]
  /\ LET d == sess[u].hash
     IN IF OneToOne(adjusted', Live(adjusted', d))
        THEN Goto(u, Apply([sess[u].cfg EXCEPT !.adj = ActiveEntries(adjusted', d)]))
        ELSE Done(u)
  /\ UNCHANGED <<decided, sess>>

-----------------------------------------------------------------------------
(* Outlier review *)

OnOutlierPage(u) == Idle(u) /\ sess[u].screen # "none" /\ sess[u].hash # None

\* record_outlier_decision reads the live decisions on the quote ...
OnQuote(d, q) == {i \in Live(decided, d) : decided[i].entry[1] = q}
Decide(u, e) ==
  /\ OnOutlierPage(u)
  /\ Goto(u, [at |-> "decide", entry |-> e, live |-> OnQuote(sess[u].hash, e[1])])
  /\ UNCHANGED <<adjusted, decided, sess>>

\* ... withdraws them and adds its own.
Superseded_Never(u, i) == FALSE   \* mutant: the earlier decision stays live
Superseded(u, i) == i \in tx[u].live
RecordDecision(u) ==
  /\ ~Idle(u) /\ tx[u].at = "decide"
  /\ Len(adjusted) + Len(decided) < MaxRows
  /\ decided' = Append([i \in DOMAIN decided |->
                          IF Superseded(u, i) THEN Withdrawn(decided[i], u) ELSE decided[i]],
                       NewRow(sess[u].hash, tx[u].entry))
  /\ Done(u)
  /\ UNCHANGED <<adjusted, sess>>

PickDecision(u, i) ==
  /\ OnOutlierPage(u)
  /\ i \in Live(decided, sess[u].hash)
  /\ Goto(u, [at |-> "withdraw decision", row |-> i])
  /\ UNCHANGED <<adjusted, decided, sess>>

WithdrawDecision(u) ==
  /\ ~Idle(u) /\ tx[u].at = "withdraw decision"
  /\ decided' = [decided EXCEPT ![tx[u].row] = Withdrawn(@, u)]
  /\ Done(u)
  /\ UNCHANGED <<adjusted, sess>>

\* "Recompile with these decisions": model_copy does not validate them.
RecompileDecided(u) ==
  /\ OnOutlierPage(u)
  /\ sess[u].compiled
  /\ LET entries == ActiveEntries(decided, sess[u].hash)
     IN /\ entries # {}
        /\ Goto(u, Apply([sess[u].cfg EXCEPT !.dec = entries]))
  /\ UNCHANGED <<adjusted, decided, sess>>

-----------------------------------------------------------------------------
NewSession(u) ==
  /\ sess' = [sess EXCEPT ![u] = Empty]
  /\ Done(u)
  /\ UNCHANGED <<adjusted, decided>>

Next ==
  \E u \in Users :
    \/ \E d \in Data : Ingest(u, d)
    \/ LoadApproved(u) \/ Compile(u) \/ Interrupt(u) \/ Clear(u) \/ NewSession(u)
    \/ \E e \in Adjustments : Approve(u, e)
    \/ \E i \in DOMAIN adjusted : PickAdjustment(u, i)
    \/ \E e \in Decisions : Decide(u, e)
    \/ \E i \in DOMAIN decided : PickDecision(u, i)
    \/ WithdrawAdjustment(u) \/ RecordDecision(u) \/ WithdrawDecision(u)
    \/ RecompileDecided(u)

Spec == Init /\ [][Next]_vars

-----------------------------------------------------------------------------
\* "The applied ledger ... is the approval record": a session applies nothing
\* that no ledger row, live or withdrawn, records.
AppliedWasApproved ==
  \A u \in Users :
    /\ sess[u].cfg.adj \subseteq {adjusted[i].entry : i \in DOMAIN adjusted}
    /\ sess[u].cfg.dec \subseteq {decided[i].entry : i \in DOMAIN decided}

\* The ledger of a collection comes to hold clashing replacements, after which
\* no upload of that collection compiles, only when a session approves one
\* under a configuration that lags behind the ledger.
ClashNeedsLag ==
  [][\A d \in Data :
       OneToOne(adjusted, Live(adjusted, d)) =>
         \/ OneToOne(adjusted, Live(adjusted, d))'
         \/ \E u \in Users : /\ sess[u].hash = d
                            /\ ~(ActiveEntries(adjusted, d) \subseteq sess[u].cfg.adj)]_vars

\* "One quote has one decision" (record_outlier_decision) unless two sessions
\* decided it at once: a second live decision appears only when one committed
\* between the SELECT and the INSERT of the other.
DoubleNeedsRace ==
  [][\A d \in Data, q \in Quotes :
       Cardinality(OnQuote(d, q)') > 1 =>
         \/ Cardinality(OnQuote(d, q)) > 1
         \/ \E u \in Users : /\ ~Idle(u) /\ tx[u].at = "decide" /\ tx[u].entry[1] = q
                            /\ ~(OnQuote(d, q) \subseteq tx[u].live)]_vars
=================================================================================
