---------------------------------- MODULE Backup ----------------------------------
(***************************************************************************)
(* backup, verify and restore (pricelab/core/backup.py).  A backup is      *)
(* taken while the application runs; a restore, once it has been stopped,  *)
(* as scripts/restore.py asks.  Both may be interrupted at any step.       *)
(*                                                                         *)
(* What the two halves of a backup have in common are the raw layers:      *)
(* Ingest writes the file of a content hash first, and a run that names    *)
(* the hash as its input is registered later.                              *)
(***************************************************************************)
EXTENDS Naturals

CONSTANTS Files,      \* raw layers
          MaxSteps,   \* bound: interruptions and damage
          None

VARIABLES db,      \* None, or the hashes the database refers to
          store,   \* the store directory: None, "torn" or "whole" per file
          up,      \* is the application running?
          writing, \* raw layers it has opened and not yet written
          copy,    \* the backup directory
          tool,    \* what backup or restore does next
          todo,    \* files it has still to copy
          mixed,   \* history: a restore of the target was cut short
          damage   \* interruptions and damage so far

vars == <<db, store, up, writing, copy, tool, todo, mixed, damage>>

NoCopy == [db |-> {}, files |-> [f \in Files |-> None], sealed |-> FALSE, intact |-> TRUE,
           ofMixed |-> FALSE]

Init ==
  /\ db = {} /\ store = [f \in Files |-> None] /\ up = TRUE /\ writing = {}
  /\ copy = NoCopy /\ tool = "idle" /\ todo = {}
  /\ mixed = FALSE /\ damage = 0

Present(files) == {f \in Files : files[f] # None}
Closed(refs, files) == \A f \in refs : files[f] = "whole"

-----------------------------------------------------------------------------
\* The application.
OpenRaw(f) ==
  /\ up /\ store[f] = None
  /\ store' = [store EXCEPT ![f] = "torn"]
  /\ writing' = writing \cup {f}
  /\ UNCHANGED <<db, up, copy, tool, todo, mixed, damage>>

WriteRaw(f) ==
  /\ f \in writing
  /\ store' = [store EXCEPT ![f] = "whole"]
  /\ writing' = writing \ {f}
  /\ UNCHANGED <<db, up, copy, tool, todo, mixed, damage>>

Register(f) ==
  /\ up /\ f \notin db /\ store[f] = "whole"
  /\ db' = db \cup {f}
  /\ UNCHANGED <<store, up, writing, copy, tool, todo, mixed, damage>>

\* Stopped on purpose or by a crash, which leaves a file it was writing torn;
\* when it starts, init_db creates a database that is missing.
Shutdown ==
  /\ up /\ up' = FALSE /\ writing' = {}
  /\ UNCHANGED <<db, store, copy, tool, todo, mixed, damage>>
Startup ==
  /\ ~up /\ tool \in {"idle", "copying", "listing"}
  /\ up' = TRUE
  /\ db' = IF db = None THEN {} ELSE db
  /\ UNCHANGED <<writing, store, copy, tool, todo, mixed, damage>>

-----------------------------------------------------------------------------
\* backup: the online snapshot of the database, the listing of the store, its
\* files one by one as they are then, and the manifest.
Snapshot ==
  /\ tool = "idle" /\ db # None
  /\ copy' = [NoCopy EXCEPT !.db = db, !.ofMixed = mixed]
  /\ tool' = "listing"
  /\ UNCHANGED <<db, store, up, writing, todo, mixed, damage>>

ListStore ==
  /\ tool = "listing"
  /\ todo' = Present(store) /\ tool' = "copying"
  /\ UNCHANGED <<db, store, up, writing, copy, mixed, damage>>

CopyOut(f) ==
  /\ tool = "copying" /\ f \in todo
  /\ copy' = [copy EXCEPT !.files[f] = store[f]]
  /\ todo' = todo \ {f}
  /\ UNCHANGED <<db, store, up, writing, tool, mixed, damage>>

Seal ==
  /\ tool = "copying" /\ todo = {}
  /\ copy' = [copy EXCEPT !.sealed = TRUE]
  /\ tool' = "idle"
  /\ UNCHANGED <<db, store, up, writing, todo, mixed, damage>>

\* A file of a finished backup rots; the target is lost.
Rot ==
  /\ tool = "idle" /\ copy.sealed /\ damage < MaxSteps
  /\ copy' = [copy EXCEPT !.intact = FALSE] /\ damage' = damage + 1
  /\ UNCHANGED <<db, store, up, writing, tool, todo, mixed>>
Disaster ==
  /\ tool = "idle" /\ ~up /\ damage < MaxSteps
  /\ db' = None /\ store' = [f \in Files |-> None] /\ damage' = damage + 1
  /\ UNCHANGED <<up, writing, copy, tool, todo, mixed>>

-----------------------------------------------------------------------------
\* restore: every file is checked against the manifest, and a target that is
\* not empty is refused unless overwrite was given; then the database file is
\* replaced, the store removed, and the files copied back.
Empty == db = None /\ Present(store) = {}
StartRestore(overwrite) ==
  /\ tool = "idle" /\ ~up
  /\ copy.sealed /\ copy.intact
  /\ overwrite \/ Empty
  /\ tool' = "database"
  /\ UNCHANGED <<db, store, up, writing, copy, todo, mixed, damage>>

DropDatabase ==
  /\ tool = "database" /\ db # None
  /\ db' = None
  /\ UNCHANGED <<store, up, writing, copy, tool, todo, mixed, damage>>

LoadDatabase ==
  /\ tool = "database" /\ db = None
  /\ db' = copy.db /\ tool' = "removing"
  /\ UNCHANGED <<store, up, writing, copy, todo, mixed, damage>>

RemoveFile(f) ==
  /\ tool = "removing" /\ store[f] # None
  /\ store' = [store EXCEPT ![f] = None]
  /\ UNCHANGED <<db, up, writing, copy, tool, todo, mixed, damage>>

StoreRemoved_Beside ==   \* mutant: the files are copied into the store that is there
  /\ tool = "removing"
  /\ todo' = Present(copy.files) /\ tool' = "restoring"
  /\ UNCHANGED <<db, store, up, writing, copy, mixed, damage>>
StoreRemoved ==
  /\ tool = "removing" /\ Present(store) = {}
  /\ todo' = Present(copy.files) /\ tool' = "restoring"
  /\ UNCHANGED <<db, store, up, writing, copy, mixed, damage>>

CopyBack(f) ==
  /\ tool = "restoring" /\ f \in todo
  /\ store' = [store EXCEPT ![f] = copy.files[f]] /\ todo' = todo \ {f}
  /\ UNCHANGED <<db, up, writing, copy, tool, mixed, damage>>

Restored ==
  /\ tool = "restoring" /\ todo = {}
  /\ tool' = "idle" /\ mixed' = copy.ofMixed
  /\ UNCHANGED <<db, store, up, writing, copy, todo, damage>>

\* The tool is killed: a backup has no manifest, a restore leaves a mixture and
\* perhaps a file copied in part.
Killed ==
  /\ tool # "idle" /\ damage < MaxSteps
  /\ IF tool \in {"listing", "copying"}
     THEN UNCHANGED <<store, mixed>>
     ELSE /\ mixed' = TRUE
          /\ \/ UNCHANGED store
             \/ \E f \in todo : store' = [store EXCEPT ![f] = "torn"]
  /\ tool' = "idle" /\ todo' = {} /\ damage' = damage + 1
  /\ UNCHANGED <<db, up, writing, copy>>

Next ==
  \/ \E f \in Files : \/ OpenRaw(f) \/ WriteRaw(f) \/ Register(f)
                      \/ CopyOut(f) \/ RemoveFile(f) \/ CopyBack(f)
  \/ Shutdown \/ Startup
  \/ Snapshot \/ ListStore \/ Seal \/ Rot \/ Disaster
  \/ \E overwrite \in BOOLEAN : StartRestore(overwrite)
  \/ DropDatabase \/ LoadDatabase \/ StoreRemoved \/ Restored \/ Killed

Spec == Init /\ [][Next]_vars

-----------------------------------------------------------------------------

\* No database without its raw layers.  A finished backup holds, whole, the raw
\* layer of every run its database refers to, although the application went on
\* writing; and no sequence of backups, disasters, restores, kills and restarts
\* leaves a live database naming a layer that is not there.  The exceptions: a
\* target whose restore was cut short, until one succeeds, and its backups.
LayersComplete ==
  /\ copy.sealed /\ ~copy.ofMixed => Closed(copy.db, copy.files)
  /\ tool = "idle" /\ ~mixed /\ db # None => Closed(db, store)

\* "A restore yields what was backed up": nothing of the previous target, or of
\* an interrupted restore, survives a restore that succeeds.
RestoredIsBackup == [][Restored => db = copy.db /\ store = copy.files]_vars
===================================================================================
