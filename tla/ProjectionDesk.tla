----------------------------- MODULE ProjectionDesk -----------------------------
(***************************************************************************)
(* The pages that make, export and register projections                    *)
(* (pages/forecasting.py, pages/scenarios.py) and the registry's table of  *)
(* them (pricelab/core/registry.py).                                       *)
(*                                                                         *)
(* An analysis is a pair of data and configuration, and so is the run that *)
(* registers it.  A projection is identified with the kind and the         *)
(* analysis it was made from: all are made under one specification, as the *)
(* pages' defaults are, and so have one key for each run.  Rebuilding one  *)
(* from the headline of another analysis gives another digest.             *)
(***************************************************************************)
EXTENDS Naturals, FiniteSets

CONSTANTS Tabs, Kinds,
          Data,       \* standardised worksheets
          FileOf,     \* the uploaded file a worksheet was read from
          Configs,
          Titles,     \* "Title for the outputs", typed on Ingest
          Capacity,   \* entries the analysis cache holds
          None

Analyses == Data \X Configs
Labels == {<<title>> : title \in Titles} \cup Analyses
Workbooks == {FileOf[d] : d \in Data}
Keys == (Workbooks \cup {None}) \X Configs \X Labels

VARIABLES desk,       \* st.session_state of each tab
          cached,     \* analysis cache: the data of the entry under each key
          runs,       \* registered runs; any of them may have been approved
          projections, \* projection_runs: the digest under each kind and run
          \* History: the promise made last, one of the two
          claim,      \* that of a page that a projection is registered
          exported,   \* that of the stamp on an exported projection
          \* and whether ever
          careless,   \* some tab showed another analysis than that of the run it had
                      \* registered, or one under the title of another
          mistaken    \* the cache gave some tab the analysis of other data than it read

vars == <<desk, cached, runs, projections, claim, exported, careless, mistaken>>

Blank == [shown |-> None, bytes |-> None, input |-> None, last |-> None, loaded |-> None,
          held |-> [k \in Kinds |-> None]]

Init ==
  /\ desk = [t \in Tabs |-> Blank] /\ cached = [key \in Keys |-> None]
  /\ runs = {} /\ projections = [key \in Kinds \X Analyses |-> None]
  /\ claim = None /\ exported = None /\ careless = FALSE /\ mistaken = FALSE

-----------------------------------------------------------------------------
\* The tab's state becomes w, with a on the screen; what it holds of the last
\* projection of each kind, and of the run it registered last, stays.
Show(t, w, a, title) ==
  /\ desk' = [desk EXCEPT ![t] = [w EXCEPT !.shown = [of |-> a, title |-> title]]]
  /\ careless' = (careless \/ desk[t].last \notin {None, a}
                  \/ \E k \in Kinds : LET h == desk[t].held[k]
                                      IN h # None /\ h.title = title /\ h.of # a)
  /\ mistaken' = (mistaken \/ (w.loaded = None /\ w.input # a[1]))
  /\ UNCHANGED <<runs, projections, claim, exported>>

\* cache.set, of an entry that was not there.
Entries == {key \in Keys : cached[key] # None}
Store(key, d) ==
  \E gone \in SUBSET Entries :
    /\ Cardinality(gone) = IF Cardinality(Entries) < Capacity THEN 0 ELSE 1
    /\ cached' = [k \in Keys |-> IF k = key THEN d ELSE IF k \in gone THEN None ELSE cached[k]]

\* compile_and_store, of the data d read and the bytes the tab has.  An analysis is
\* shown as the cache has it; one it lacks is computed, cached and shown, unless the
\* script run ends before it is (the calculation cannot be recorded, or the cleaned
\* layer not written).
Compile(t, bytes, d, c, title) ==
  LET key == <<bytes, c, title>>
      w == [desk[t] EXCEPT !.bytes = bytes, !.input = d, !.loaded = None]
  IN \/ /\ cached[key] # None
        /\ Show(t, w, <<cached[key], c>>, title)
        /\ UNCHANGED cached
     \/ /\ cached[key] = None
        /\ Store(key, d)
        /\ \/ Show(t, w, <<d, c>>, title)
           \/ /\ desk' = [desk EXCEPT ![t].bytes = bytes]
              /\ UNCHANGED <<runs, projections, claim, exported, careless, mistaken>>

\* Ingest takes the bytes of the upload before it knows whether it will compile.
Upload(t, file) ==
  /\ desk' = [desk EXCEPT ![t].bytes = file]
  /\ UNCHANGED <<cached, runs, projections, claim, exported, careless, mistaken>>
Ingest(t, d, c, title) == Compile(t, FileOf[d], d, c, <<title>>)

\* Quality adjustment and Outliers compile the tab's data again, under the label of
\* the analysis on the screen.
Recompile(t, c) ==
  /\ desk[t].shown # None /\ desk[t].input # None
  /\ Compile(t, desk[t].bytes, desk[t].input, c, desk[t].shown.title)

\* The picker of approved runs, on a page without an analysis; the title names the run.
LoadApproved(t, a) ==
  /\ desk[t].shown = None /\ a \in runs
  /\ Show(t, [desk[t] EXCEPT !.loaded = a], a, a)
  /\ UNCHANGED cached

\* Analyses of other sessions push an entry out, or the process restarts.
Evict(key) ==
  /\ cached[key] # None
  /\ cached' = [cached EXCEPT ![key] = None]
  /\ UNCHANGED <<desk, runs, projections, claim, exported, careless, mistaken>>

Clear(t) ==
  /\ desk[t].bytes # None
  /\ desk' = [desk EXCEPT ![t] = [@ EXCEPT !.shown = None, !.bytes = None, !.loaded = None]]
  /\ UNCHANGED <<cached, runs, projections, claim, exported, careless, mistaken>>

NewSession(t) ==
  /\ desk' = [desk EXCEPT ![t] = Blank]
  /\ UNCHANGED <<cached, runs, projections, claim, exported, careless, mistaken>>

\* Reports: "Register this run", the data the tab compiled last under the
\* configuration it shows.  (A correction does the same here.)
RegisterRun(t) ==
  /\ desk[t].shown # None /\ desk[t].input # None
  /\ LET run == <<desk[t].input, desk[t].shown.of[2]>>
     IN /\ runs' = runs \cup {run}
        /\ desk' = [desk EXCEPT ![t].last = run]
        /\ careless' = (careless \/ run # desk[t].shown.of)
  /\ UNCHANGED <<cached, projections, claim, exported, mistaken>>

-----------------------------------------------------------------------------
\* "Produce the forecast", "Build the scenario".
Build(t, kind) ==
  /\ desk[t].shown # None
  /\ desk' = [desk EXCEPT ![t].held[kind] = desk[t].shown]
  /\ UNCHANGED <<cached, runs, projections, claim, exported, careless, mistaken>>

\* The page goes on to exports and registration with a projection it holds under the
\* title it shows.  Mutant: with any it holds.
OnPage_Any(t, kind) == desk[t].shown # None /\ desk[t].held[kind] # None
OnPage(t, kind) ==
  /\ desk[t].shown # None /\ desk[t].held[kind] # None
  /\ desk[t].held[kind].title = desk[t].shown.title

\* The stamp is built from the analysis on the screen.
Export(t, kind) ==
  /\ OnPage(t, kind)
  /\ exported' = [of |-> desk[t].held[kind].of, stamp |-> desk[t].shown.of] /\ claim' = None
  /\ UNCHANGED <<desk, cached, runs, projections, careless, mistaken>>

\* The run last registered or else loaded in this tab; without one, that of the
\* session's data and configuration is registered first.
RunOf(t) ==
  IF desk[t].last # None THEN desk[t].last
  ELSE IF desk[t].loaded # None THEN desk[t].loaded
  ELSE <<desk[t].input, desk[t].shown.of[2]>>

\* register_projection: idempotent on the specification and the run, so of two
\* projections under one key the first stays.
RegisterProjection(t, kind) ==
  LET run == RunOf(t)
      of == desk[t].held[kind].of
  IN /\ OnPage(t, kind)
     /\ runs' = runs \cup {run}
     /\ projections' = [projections EXCEPT ![<<kind, run>>] = IF @ = None THEN of ELSE @]
     /\ claim' = [kind |-> kind, run |-> run, of |-> of] /\ exported' = None
     /\ UNCHANGED <<desk, cached, careless, mistaken>>

Next ==
  \/ \E key \in Keys : Evict(key)
  \/ \E t \in Tabs :
    \/ \E file \in Workbooks : Upload(t, file)
    \/ \E d \in Data, c \in Configs, title \in Titles : Ingest(t, d, c, title)
    \/ \E c \in Configs : Recompile(t, c)
    \/ \E a \in Analyses : LoadApproved(t, a)
    \/ Clear(t) \/ NewSession(t) \/ RegisterRun(t)
    \/ \E k \in Kinds : Build(t, k) \/ Export(t, k) \/ RegisterProjection(t, k)

-----------------------------------------------------------------------------
\* reproduce_projection: the projection made again from the run's own headline.
Matches(kind, run) == projections[<<kind, run>>] = run

\* "the registry can rebuild it and check its backtest to the last digit": so it can,
\* and the stamp on an exported projection names the analysis it was made from, as
\* long as no tab shows another analysis than that of the run it registered last or
\* gives two analyses one title, and the cache gives none the analysis of other data
\* than it read.  (After the first neither the run nor the stamp need be its own:
\* last_run_id is never reset, and a projection is held under a title.  The second the
\* cache does to two worksheets of one file, and after an upload that was not
\* compiled.)  And no run is ever missing that a projection is registered against.
ProjectionsReproduce ==
  /\ ~careless /\ ~mistaken =>
       /\ claim # None => Matches(claim.kind, claim.run) /\ claim.of = claim.run
       /\ exported # None => exported.stamp = exported.of
  /\ claim # None => claim.run \in runs /\ projections[<<claim.kind, claim.run>>] # None
=================================================================================
