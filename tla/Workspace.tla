------------------------------- MODULE Workspace -------------------------------
(***************************************************************************)
(* The workspace of a browser session (st.session_state), the analysis     *)
(* cache all sessions share and the run registry: how an upload becomes an *)
(* analysis on the screen, and an analysis a registered figure.            *)
(*                                                                         *)
(* A pipeline result is identified with what it was computed from, a       *)
(* collection and a configuration; so is a run identifier, the hash of the *)
(* two.  Outputs keep one title, as re-uploads under one file name do: the *)
(* label then adds nothing to the cache key.                               *)
(***************************************************************************)
EXTENDS Naturals, FiniteSets

CONSTANTS Users,      \* browser sessions
          Inputs,     \* standardised collections: a worksheet under a mapping
          FileOf,     \* the uploaded file a collection was read from
          Cfgs,       \* run configurations, adjustments and decisions included
          Capacity,   \* entries the analysis cache holds
          None        \* nothing there

Files == {FileOf[d] : d \in Inputs}
Result == [df : Inputs, cfg : Cfgs]
MaybeNone(S) == S \cup {None}
Keys == MaybeNone(Files) \X Cfgs
Row == [headline : Result, approved : BOOLEAN]

ASSUME WorkspaceAssumption ==
  /\ FileOf = [d \in Inputs |-> FileOf[d]]
  /\ Capacity \in Nat \ {0}
  /\ None \notin Inputs \cup Cfgs \cup Files \cup Result \cup Row

VARIABLES ws,      \* each session's st.session_state
          job,     \* the compilation its script run is computing
          cache,   \* the analysis cache, keyed by file bytes and configuration
          runs     \* the registry: the headline of each run and its approval

vars == <<ws, job, cache, runs>>

Empty == [bytes |-> None, input |-> None, cfg |-> None, analysis |-> None,
          last |-> None, loaded |-> None]

Registered(r) == runs[r] # None
Approved(r) == Registered(r) /\ runs[r].approved
Idle(u) == job[u] = None

\* The run the session's data and configuration would register as.
Active(u) == [df |-> ws[u].input, cfg |-> ws[u].analysis.cfg]

Init ==
  /\ ws = [u \in Users |-> Empty]
  /\ job = [u \in Users |-> None]
  /\ cache = [k \in Keys |-> None]
  /\ runs = [r \in Result |-> None]

-----------------------------------------------------------------------------
(* compile_and_store *)

CacheKey_NoBytes(bytes, c) == <<None, c>>   \* mutant: keyed on the configuration only
CacheKey(bytes, c) == <<bytes, c>>

\* The analysis becomes the session's own; a loaded run is no longer shown.
Show_KeepsLoaded(w, d, c, result) ==   \* mutant: loaded_run_id is not popped
  [w EXCEPT !.input = d, !.cfg = c, !.analysis = result]
Show_SetDefault(w, d, c, result) ==   \* mutant: only when there is none yet
  [w EXCEPT !.input = IF @ = None THEN d ELSE @, !.cfg = c, !.analysis = result,
            !.loaded = None]
Show(w, d, c, result) ==
  [w EXCEPT !.input = d, !.cfg = c, !.analysis = result, !.loaded = None]

\* A hit is shown at once; a miss is computed, which takes a while.  w is the
\* workspace as the page has left it before it calls compile_and_store.
Compile(u, w, d, c) ==
  LET key == CacheKey(w.bytes, c)
  IN /\ IF cache[key] # None
        THEN ws' = [ws EXCEPT ![u] = Show(w, d, c, cache[key])] /\ UNCHANGED job
        ELSE /\ ws' = [ws EXCEPT ![u] = w]
             /\ job' = [job EXCEPT ![u] = [df |-> d, cfg |-> c, key |-> key,
                                           stored |-> FALSE]]
     /\ UNCHANGED <<cache, runs>>

\* cache.set evicts the least recently used entry when the cache is full; which
\* one that is, is left open.
Cached(c) == {k \in Keys : c[k] # None}
Store(key, result) ==
  LET full == [cache EXCEPT ![key] = result]
  IN IF Cardinality(Cached(full)) <= Capacity THEN cache' = full
     ELSE \E k \in Cached(cache) \ {key} : cache' = [full EXCEPT ![k] = None]

Computed(u) == [df |-> job[u].df, cfg |-> job[u].cfg]

\* The analysis is computed: it is in the cache before the calculation is recorded
\* and the cleaned layer written,
StoreResult(u) ==
  /\ ~Idle(u) /\ ~job[u].stored
  /\ Store(job[u].key, Computed(u))
  /\ job' = [job EXCEPT ![u].stored = TRUE]
  /\ UNCHANGED <<ws, runs>>

\* and on the screen after that.
FinishCompile(u) ==
  /\ ~Idle(u) /\ job[u].stored
  /\ ws' = [ws EXCEPT ![u] = Show(ws[u], job[u].df, job[u].cfg, Computed(u))]
  /\ job' = [job EXCEPT ![u] = None]
  /\ UNCHANGED <<cache, runs>>

\* The user navigates away, or the pipeline, the audit record or the write of the
\* cleaned layer raises: the script run ends here, the analysis cached or not.
Interrupt(u) ==
  /\ ~Idle(u)
  /\ job' = [job EXCEPT ![u] = None]
  /\ UNCHANGED <<ws, cache, runs>>

-----------------------------------------------------------------------------
(* The pages *)

\* Ingest remembers the uploaded bytes before it looks at what they hold.  It
\* compiles them, or returns early: unreadable, unmapped, critical findings
\* nobody has overridden, a formula the collection does not support.
Uploaded(u, d) == [ws[u] EXCEPT !.bytes = FileOf[d]]
IngestEarlyReturn(u, d) ==
  /\ Idle(u)
  /\ ws' = [ws EXCEPT ![u] = Uploaded(u, d)]
  /\ UNCHANGED <<job, cache, runs>>

Ingest(u, d, c) ==
  /\ Idle(u)
  /\ Compile(u, Uploaded(u, d), d, c)

\* Quality adjustment and Outliers recompile the session's data under a
\* configuration with other entries.
Recompile(u, c) ==
  /\ Idle(u)
  /\ ws[u].analysis # None /\ ws[u].input # None
  /\ Compile(u, ws[u], ws[u].input, c)

\* "Clear data" forgets the upload and the analysis, not the collection.
Cleared(u) == [ws[u] EXCEPT !.bytes = None, !.analysis = None, !.loaded = None]
Clear(u) ==
  /\ Idle(u)
  /\ ws[u].bytes # None
  /\ ws' = [ws EXCEPT ![u] = Cleared(u)]
  /\ UNCHANGED <<job, cache, runs>>

\* load_approved_run_picker: a session without an analysis shows an approved
\* run, reproduced from what the registry stored.
CanLoad(u) == ws[u].analysis = None
LoadApproved(u, r) ==
  /\ Idle(u) /\ CanLoad(u)
  /\ Approved(r)
  /\ ws' = [ws EXCEPT ![u] = [@ EXCEPT !.analysis = r, !.loaded = r]]
  /\ UNCHANGED <<job, cache, runs>>

Insert(r, headline) ==
  IF Registered(r) THEN runs
  ELSE [runs EXCEPT ![r] = [headline |-> headline, approved |-> FALSE]]

Register(u) ==
  /\ Idle(u)
  /\ ws[u].analysis # None /\ ws[u].input # None
  /\ runs' = Insert(Active(u), ws[u].analysis)
  /\ ws' = [ws EXCEPT ![u].last = Active(u)]
  /\ UNCHANGED <<job, cache>>

Approve(u) ==
  /\ Idle(u)
  /\ ws[u].analysis # None /\ ws[u].input # None /\ ws[u].last # None
  /\ runs' = [runs EXCEPT ![ws[u].last].approved = TRUE]
  /\ UNCHANGED <<ws, job, cache>>

CorrectedHeadline_Original(u, o) == o   \* mutant: copied from the original
CorrectedHeadline(u, o) == Active(u)
Correct(u, o) ==
  /\ Idle(u)
  /\ ws[u].analysis # None /\ ws[u].input # None
  /\ Approved(o) /\ Active(u) # o
  /\ runs' = Insert(Active(u), CorrectedHeadline(u, o))
  /\ ws' = [ws EXCEPT ![u].last = Active(u)]
  /\ UNCHANGED <<job, cache>>

\* Registering a forecast or a scenario registers the run it was made from
\* first, unless the session has a registered or a loaded run already.
RegisterProjection(u) ==
  /\ Idle(u)
  /\ ws[u].analysis # None /\ ws[u].last = None /\ ws[u].loaded = None
  /\ LET r == [df |-> ws[u].input, cfg |-> ws[u].cfg]
     IN runs' = Insert(r, r)
  /\ UNCHANGED <<ws, job, cache>>

\* The browser is reloaded, by the same person or another: a new session.
NewSession(u) ==
  /\ ws' = [ws EXCEPT ![u] = Empty]
  /\ job' = [job EXCEPT ![u] = None]
  /\ UNCHANGED <<cache, runs>>

\* The process restarts: the registry is all that is left.
Restart ==
  /\ ws' = [u \in Users |-> Empty]
  /\ job' = [u \in Users |-> None]
  /\ cache' = [k \in Keys |-> None]
  /\ UNCHANGED runs

Next ==
  \/ \E u \in Users :
       \/ \E d \in Inputs : IngestEarlyReturn(u, d) \/ \E c \in Cfgs : Ingest(u, d, c)
       \/ \E c \in Cfgs : Recompile(u, c)
       \/ StoreResult(u) \/ FinishCompile(u) \/ Interrupt(u) \/ Clear(u) \/ NewSession(u)
       \/ \E r \in Result : LoadApproved(u, r) \/ Correct(u, r)
       \/ Register(u) \/ Approve(u) \/ RegisterProjection(u)
  \/ Restart

Spec == Init /\ [][Next]_vars

-----------------------------------------------------------------------------
\* The row Reports stamps its exports with (_registry_row).
RegistryRow(u) ==
  IF ws[u].last # None THEN ws[u].last
  ELSE IF ws[u].loaded # None THEN ws[u].loaded
  ELSE IF ws[u].input # None /\ Registered(Active(u)) THEN Active(u)
  ELSE None

\* The session's bytes are not those its collection was read from.
Detoured(u) == ws[u].input # None /\ ws[u].bytes # FileOf[ws[u].input]

\* The analysis on the screen was not computed from the session's collection.
Stale(u) == ws[u].analysis # None /\ ws[u].input # None /\ ws[u].analysis # Active(u)

Poisoned(k) == cache[k] # None /\ (FileOf[cache[k].df] # k[1] \/ cache[k].cfg # k[2])
Misreported(r) == Registered(r) /\ runs[r].headline # r

\* What is on the screen is what the session says it is: while it says that it
\* shows a registered run, the figures are that approved run's, reproduced from
\* the registry; otherwise they are shown, however stale the data, under the
\* configuration they were computed with.
ScreenExplained ==
  \A u \in Users : ws[u].analysis # None =>
    IF ws[u].loaded # None
    THEN ws[u].analysis = ws[u].loaded /\ Approved(ws[u].loaded)
    ELSE ws[u].input # None /\ ws[u].cfg = ws[u].analysis.cfg

\* A cached analysis is wrong for its key only if a session whose bytes had
\* changed under its collection put it there.
PoisonedByDetour ==
  [][\A k \in Keys : Poisoned(k)' =>
       Poisoned(k) \/ \E u \in Users : Detoured(u)]_vars

\* A session comes to show another collection's figures as its own only by a
\* cache hit: on an entry a detour left, or after a detour of its own.
StaleFromCache ==
  [][\A u \in Users : Stale(u)' =>
       \/ Stale(u) \/ ws'[u].loaded # None
       \/ Detoured(u) \/ \E k \in Keys : Poisoned(k)]_vars

\* The registered headline is the run's own: a run is entered with another
\* result's figure only by a session showing that figure beside its data.
MisreportedOnlyStale ==
  [][\A r \in Result : Misreported(r)' =>
       Misreported(r) \/ \E u \in Users : Stale(u) /\ Active(u) = r]_vars

\* "The registry row for the active run" (_registry_row): what an export is
\* stamped with is the run whose figures it carries.
StampNamesRun ==
  \A u \in Users : ws[u].analysis # None /\ RegistryRow(u) # None =>
    RegistryRow(u) = ws[u].analysis

\* "An approval is a new key, never a stale hit" (compile_and_store).
NeverStale ==
  \A u \in Users : ws[u].loaded = None => ~Stale(u)
===============================================================================
