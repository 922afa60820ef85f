-------------------------------- MODULE Services --------------------------------
(***************************************************************************)
(* The components that share no state with each other, checked in one run: *)
(* the initial state chooses the component that is observed, the others    *)
(* stay where they start, so the states are the sum of theirs and not the  *)
(* product.                                                                *)
(***************************************************************************)
EXTENDS Integers, Sequences

CONSTANTS Sessions, Torn, None,
  Limit, Window, MaxClock,                 \* Limiter
  MaxRetries, MaxVersion, MaxCalls,        \* Connector
  Configs, MaxUploads, MaxFailures,        \* Store
  Files, MaxSteps,                         \* Backup
  MaxEvents, MaxEdits,                     \* AuditTamper
  Users, Timeout, MaxTime, MaxLogins,      \* SignIn
  Collections,                             \* Gate
  Desks, Kinds, Data, FileOf, Choices, Titles, Capacity   \* ProjectionDesk

VARIABLES which,
  \* Limiter
  clock, events, counted, granted, refusal,
  \* Connector
  published, fresh, lastGood, call, shown, calls, audited,
  \* Store
  raw, sidecar, cleaned, log, cache, loaded, job, acked, uploads, failures, raced, broken,
  \* Backup
  db, store, up, writing, copy, tool, todo, mixed, damage,
  \* AuditTamper
  rows, pending, pc, last, writer, now, crossed, overtaken, damaged, edits,
  \* SignIn
  account, sessions, tab, running, time, issued, closed, began, verdict, handed,
  \* Gate
  overrides, onPage, outcome, decided,
  \* ProjectionDesk
  desk, cached, runs, projections, claim, exported, careless, mistaken

limiterVars == <<clock, events, counted, granted, refusal>>
connectorVars == <<published, fresh, lastGood, call, shown, calls, audited>>
storeVars == <<raw, sidecar, cleaned, log, cache, loaded, job, acked, uploads, failures, raced, broken>>
backupVars == <<db, store, up, writing, copy, tool, todo, mixed, damage>>
tamperVars == <<rows, pending, pc, last, writer, now, crossed, overtaken, damaged, edits>>
signInVars == <<account, sessions, tab, running, time, issued, closed, began, verdict, handed>>
gateVars == <<overrides, onPage, outcome, decided>>
deskVars == <<desk, cached, runs, projections, claim, exported, careless, mistaken>>
vars == <<which, limiterVars, connectorVars, storeVars, backupVars, tamperVars, signInVars,
          gateVars, deskVars>>

\* Collections of the gate: two with one content, whose last column was mapped to
\* the weight and to the quantity; and one with two findings of a dimension and an
\* empty column.
Collection(hash, failed, mostlyEmpty) ==
  [hash |-> hash, absent |-> FALSE, mistyped |-> 0, sample |-> FALSE, failed |-> failed,
   mostlyEmpty |-> mostlyEmpty]
SomeCollections ==
  {Collection("a", {"duplicates"}, 0), Collection("a", {"duplicates", "negative quantity"}, 0),
   Collection("b", {"no prices", "negative quantity"}, 1), Collection("c", {}, 2)}

\* The worksheets are those of one file.
OneBook == [d \in Data |-> "book"]

Lim == INSTANCE Limiter WITH Tabs <- Sessions, MaxTime <- MaxClock
Con == INSTANCE Connector WITH Tabs <- Sessions, events <- audited
Sto == INSTANCE Store
Bak == INSTANCE Backup
Tam == INSTANCE AuditTamper WITH clock <- now
Sig == INSTANCE SignIn WITH Tabs <- Sessions
Gat == INSTANCE Gate WITH Tabs <- Sessions, shown <- onPage
Pro == INSTANCE ProjectionDesk WITH Tabs <- Desks, Configs <- Choices

Components ==
  {"Limiter", "Connector", "Store", "Backup", "AuditTamper", "SignIn", "Gate", "ProjectionDesk"}

Init ==
  /\ which \in Components
  /\ Lim!Init /\ Con!Init /\ Sto!Init /\ Bak!Init /\ Tam!TamperInit
  /\ Sig!Init /\ Gat!Init /\ Pro!Init

Next ==
  \/ /\ which = "Limiter" /\ Lim!Next
     /\ UNCHANGED <<which, connectorVars, storeVars, backupVars, tamperVars,
                    signInVars, gateVars, deskVars>>
  \/ /\ which = "Connector" /\ Con!Next
     /\ UNCHANGED <<which, limiterVars, storeVars, backupVars, tamperVars,
                    signInVars, gateVars, deskVars>>
  \/ /\ which = "Store" /\ Sto!Next
     /\ UNCHANGED <<which, limiterVars, connectorVars, backupVars, tamperVars,
                    signInVars, gateVars, deskVars>>
  \/ /\ which = "Backup" /\ Bak!Next
     /\ UNCHANGED <<which, limiterVars, connectorVars, storeVars, tamperVars,
                    signInVars, gateVars, deskVars>>
  \/ /\ which = "AuditTamper" /\ Tam!TamperNext
     /\ UNCHANGED <<which, limiterVars, connectorVars, storeVars, backupVars,
                    signInVars, gateVars, deskVars>>
  \/ /\ which = "SignIn" /\ Sig!Next
     /\ UNCHANGED <<which, limiterVars, connectorVars, storeVars, backupVars,
                    tamperVars, gateVars, deskVars>>
  \/ /\ which = "Gate" /\ Gat!Next
     /\ UNCHANGED <<which, limiterVars, connectorVars, storeVars, backupVars,
                    tamperVars, signInVars, deskVars>>
  \/ /\ which = "ProjectionDesk" /\ Pro!Next
     /\ UNCHANGED <<which, limiterVars, connectorVars, storeVars, backupVars,
                    tamperVars, signInVars, gateVars>>

\* The fairness of the one component that promises something eventually.  Where another
\* one is observed no call is under way, and it asks nothing.
Spec == Init /\ [][Next]_vars /\ Con!Fairness

-----------------------------------------------------------------------------
\* The properties of the modules, under the names and with the comments they
\* have there.

\* The limit holds in every window and the wait announced is exact (Limiter).
WindowIsExact == Lim!WindowIsExact

\* A call of fetch ends, whatever the agency does (Connector).
CallEnds == Con!CallEnds

\* Every figure on a screen has its committed event (Connector).
FiguresTraced == Con!FiguresTraced

\* An acknowledged raw layer stays whole unless first uploads raced, a receipt is lost
\* only to an overlap or a write cut short, and the log names the configuration of the
\* cleaned layer beside it (Store).
StoreKept == Sto!RawKept /\ Sto!ReceiptsKept /\ Sto!LogExplains

\* No database without its raw layers, in the backup and live; and a restore that
\* succeeds leaves the backup and nothing else (Backup).
BackupIsComplete == []Bak!LayersComplete /\ Bak!RestoredIsBackup

\* verify_chain locates the first outside edit still visible, and nothing but edits and
\* rows that were overtaken as they were recorded (AuditTamper).
EditsLocated == Tam!EditsLocated

\* All and only current users are let in, under the role of the moment (SignIn).
AccessIsCurrent == Sig!AccessIsCurrent

\* Nothing but a decision opens the gate, and behind it the pipeline refuses what
\* is structurally wrong (Gate).
DecisionsOpenTheGate == Gat!DecisionsOpenTheGate

\* A registered projection is rebuilt from its run, and an exported one bears the stamp
\* of the analysis it was made from, in a tab that does not show another analysis or
\* use a title again, and to which the cache did not give the analysis of other data
\* than it read (ProjectionDesk).
ProjectionsReproduce == Pro!ProjectionsReproduce
===================================================================================
