-------------------------- MODULE ProjectionDesk_proofs --------------------------
(***************************************************************************)
(* A registered projection is reproduced from its run, and an exported one *)
(* carries the stamp of its analysis, for any tabs, kinds, files, titles   *)
(* and cache, as long as no tab has been careless and the cache has given  *)
(* none the analysis of other data than it read.                           *)
(***************************************************************************)
EXTENDS ProjectionDesk, TLAPS

Spec == Init /\ [][Next]_vars

Shown == [of : Analyses, title : Labels]
Bytes == Workbooks \cup {None}
Desk ==
  [shown : Shown \cup {None}, bytes : Bytes, input : Data \cup {None},
   last : Analyses \cup {None}, loaded : Analyses \cup {None},
   held : [Kinds -> Shown \cup {None}]]

\* None is no analysis, no data and nothing shown.
Sound == None \notin Analyses \cup Data \cup Shown

Shape ==
  /\ desk \in [Tabs -> Desk]
  /\ cached \in [Keys -> Data \cup {None}]
  /\ runs \subseteq Analyses
  /\ projections \in [Kinds \X Analyses -> Analyses \cup {None}]
  /\ careless \in BOOLEAN /\ mistaken \in BOOLEAN

\* An analysis that was not loaded was compiled beside the tab's input, and from it
\* unless the cache had that of other data.
FromInput(w, wrong) ==
  w.shown # None /\ w.loaded = None => /\ w.input \in Data
                                       /\ ~wrong => w.input = w.shown.of[1]
ShownIsInput == \A t \in Tabs : FromInput(desk[t], mistaken)

\* In a tab that was never careless what is shown is the run it registered or loaded,
\* and what it holds under the title it shows was made from what it shows.
Careful(w) ==
  w.shown # None =>
    /\ w.last \in {None, w.shown.of}
    /\ w.loaded \in {None, w.shown.of}
    /\ \A k \in Kinds : w.held[k] # None /\ w.held[k].title = w.shown.title
                        => w.held[k].of = w.shown.of

Reproducible ==
  /\ \A k \in Kinds, run \in Analyses : projections[<<k, run>>] \in {None, run}
  /\ claim # None => claim.of = claim.run
  /\ exported # None => exported.stamp = exported.of

Claimed ==
  claim # None => /\ claim.kind \in Kinds /\ claim.run \in runs
                  /\ projections[<<claim.kind, claim.run>>] # None

IInv ==
  /\ Shape /\ ShownIsInput /\ Claimed
  /\ ~careless => \A t \in Tabs : Careful(desk[t])
  /\ ~careless /\ ~mistaken => Reproducible

\* The steps that change one tab only.
LEMMA OneTab ==
  ASSUME IInv, NEW t \in Tabs, NEW d \in Desk, desk' = [desk EXCEPT ![t] = d],
         UNCHANGED <<projections, claim, exported>>,
         cached' \in [Keys -> Data \cup {None}],
         runs \subseteq runs', runs' \subseteq Analyses,
         careless' \in BOOLEAN, mistaken' \in BOOLEAN,
         careless => careless', mistaken => mistaken',
         FromInput(d, mistaken'), ~careless' => Careful(d)
  PROVE  IInv'
<1>1. \A s \in Tabs : desk'[s] = IF s = t THEN d ELSE desk[s]
  BY DEF IInv, Shape
<1>2. Shape'
  BY DEF IInv, Shape
<1>3. ASSUME NEW s \in Tabs PROVE FromInput(desk'[s], mistaken')
  BY <1>1 DEF IInv, ShownIsInput, FromInput
<1>4. Claimed' /\ (~careless' /\ ~mistaken' => Reproducible')
  BY DEF IInv, Claimed, Reproducible
<1>5. ~careless' => \A s \in Tabs : Careful(desk'[s])
  BY <1>1 DEF IInv
<1> QED BY <1>2, <1>3, <1>4, <1>5 DEF IInv, ShownIsInput

LEMMA OneDesk ==
  ASSUME IInv, NEW t \in Tabs
  PROVE  /\ desk[t] \in Desk
         /\ desk[t].shown # None => /\ desk[t].shown \in Shown
                                    /\ desk[t].shown.of \in Analyses
                                    /\ desk[t].shown.of[1] \in Data
                                    /\ desk[t].shown.of[2] \in Configs
                                    /\ desk[t].shown.of =
                                         <<desk[t].shown.of[1], desk[t].shown.of[2]>>
<1>1. desk[t] \in Desk
  BY DEF IInv, Shape
<1>2. desk[t].shown \in Shown \cup {None}
  BY <1>1 DEF Desk
<1> QED BY <1>1, <1>2 DEF Shown, Analyses

\* A tab that comes to show an analysis, compiled or loaded.
LEMMA ShowStep ==
  ASSUME IInv, NEW t \in Tabs, NEW a \in Analyses, NEW title \in Labels, NEW w \in Desk,
         w.last = desk[t].last, w.held = desk[t].held, w.loaded \in {None, a},
         w.loaded = None => w.input \in Data,
         Show(t, w, a, title), cached' \in [Keys -> Data \cup {None}]
  PROVE  IInv'
<1> DEFINE s == [of |-> a, title |-> title]
           d == [w EXCEPT !.shown = s]
<1>1. /\ s \in Shown /\ s.of = a /\ s.title = title
  BY DEF Shown
<1>2. /\ d \in Desk /\ d.shown = s /\ d.input = w.input /\ d.loaded = w.loaded
      /\ d.last = desk[t].last /\ d.held = desk[t].held
  <2> HIDE DEF s
  <2> QED BY <1>1 DEF Desk
<1>3. /\ desk' = [desk EXCEPT ![t] = d]
      /\ UNCHANGED <<runs, projections, claim, exported>>
  BY DEF Show
<1>4. /\ careless' \in BOOLEAN /\ (careless => careless')
      /\ ~careless' => desk[t].last \in {None, a}
      /\ ~careless' => \A k \in Kinds : /\ desk[t].held[k] # None
                                        /\ desk[t].held[k].title = title
                                        => desk[t].held[k].of = a
  BY DEF Show, IInv, Shape
<1>5. runs \subseteq runs' /\ runs' \subseteq Analyses
  BY <1>3 DEF IInv, Shape
<1>6. /\ mistaken' \in BOOLEAN /\ (mistaken => mistaken')
      /\ ~mistaken' /\ w.loaded = None => w.input = a[1]
  BY DEF Show, IInv, Shape
<1> HIDE DEF s, d
<1>7. FromInput(d, mistaken')
  BY <1>1, <1>2, <1>6 DEF FromInput
<1>8. ~careless' => Careful(d)
  BY <1>1, <1>2, <1>4 DEF Careful
<1> QED BY <1>2, <1>3, <1>4, <1>5, <1>6, <1>7, <1>8, OneTab

\* A tab that has only got other bytes.
LEMMA BytesStep ==
  ASSUME IInv, NEW t \in Tabs, NEW bytes \in Bytes,
         desk' = [desk EXCEPT ![t].bytes = bytes],
         UNCHANGED <<runs, projections, claim, exported, careless, mistaken>>,
         cached' \in [Keys -> Data \cup {None}]
  PROVE  IInv'
<1> DEFINE d == [desk[t] EXCEPT !.bytes = bytes]
<1>1. /\ d \in Desk /\ d.shown = desk[t].shown /\ d.input = desk[t].input
      /\ d.loaded = desk[t].loaded /\ d.last = desk[t].last /\ d.held = desk[t].held
  BY OneDesk DEF Desk
<1>2. desk' = [desk EXCEPT ![t] = d]
  OBVIOUS
<1> HIDE DEF d
<1>3. FromInput(d, mistaken') /\ (~careless' => Careful(d))
  BY <1>1 DEF IInv, ShownIsInput, FromInput, Careful
<1>4. runs' \subseteq Analyses /\ careless' \in BOOLEAN /\ mistaken' \in BOOLEAN
  BY DEF IInv, Shape
<1> QED BY <1>1, <1>2, <1>3, <1>4, OneTab

LEMMA CompileStep ==
  ASSUME IInv, NEW t \in Tabs, NEW bytes \in Bytes, NEW d \in Data, NEW c \in Configs,
         NEW title \in Labels, Compile(t, bytes, d, c, title)
  PROVE  IInv'
<1> DEFINE key == <<bytes, c, title>>
           w == [desk[t] EXCEPT !.bytes = bytes, !.input = d, !.loaded = None]
<1>1. key \in Keys
  BY DEF Keys, Bytes
<1>2. /\ w \in Desk /\ w.input = d /\ w.loaded = None
      /\ w.last = desk[t].last /\ w.held = desk[t].held
  BY OneDesk DEF Desk
<1> HIDE DEF w, key
<1>3. CASE cached[key] # None /\ Show(t, w, <<cached[key], c>>, title) /\ UNCHANGED cached
  <2>1. <<cached[key], c>> \in Analyses /\ cached' \in [Keys -> Data \cup {None}]
    BY <1>1, <1>3 DEF IInv, Shape, Analyses
  <2> QED BY <1>2, <1>3, <2>1, ShowStep
<1>4. CASE cached[key] = None /\ Store(key, d)
  <2>1. cached' \in [Keys -> Data \cup {None}]
    BY <1>4 DEF Store, IInv, Shape
  <2>2. CASE Show(t, w, <<d, c>>, title)
    <3>1. <<d, c>> \in Analyses
      BY DEF Analyses
    <3> QED BY <1>2, <2>1, <2>2, <3>1, ShowStep
  <2>3. CASE /\ desk' = [desk EXCEPT ![t].bytes = bytes]
             /\ UNCHANGED <<runs, projections, claim, exported, careless, mistaken>>
    BY <2>1, <2>3, BytesStep
  <2> QED BY <1>4, <2>2, <2>3 DEF Compile, key, w
<1> QED BY <1>3, <1>4 DEF Compile, key, w

LEMMA ClearStep ==
  ASSUME IInv, NEW t \in Tabs, Clear(t) \/ NewSession(t)
  PROVE  IInv'
<1> DEFINE d == [desk[t] EXCEPT !.shown = None, !.bytes = None, !.loaded = None]
<1>0. UNCHANGED <<cached, runs, projections, claim, exported, careless, mistaken>>
  BY DEF Clear, NewSession
<1>1. d \in Desk /\ d.shown = None
  BY OneDesk DEF Desk, Bytes
<1>2. Blank \in Desk /\ Blank.shown = None
  BY DEF Blank, Desk, Bytes
<1>3. desk' = [desk EXCEPT ![t] = d] \/ desk' = [desk EXCEPT ![t] = Blank]
  BY DEF Clear, NewSession
<1>4. /\ runs' \subseteq Analyses /\ careless' \in BOOLEAN /\ mistaken' \in BOOLEAN
      /\ cached' \in [Keys -> Data \cup {None}]
  BY <1>0 DEF IInv, Shape
<1> HIDE DEF d
<1>5. CASE desk' = [desk EXCEPT ![t] = d]
  <2>1. FromInput(d, mistaken') /\ Careful(d)
    BY <1>1 DEF FromInput, Careful
  <2> QED BY <1>0, <1>1, <1>4, <1>5, <2>1, OneTab
<1>6. CASE desk' = [desk EXCEPT ![t] = Blank]
  <2>1. FromInput(Blank, mistaken') /\ Careful(Blank)
    BY <1>2 DEF FromInput, Careful
  <2> QED BY <1>0, <1>2, <1>4, <1>6, <2>1, OneTab
<1> QED BY <1>3, <1>5, <1>6

LEMMA RegisterRunStep ==
  ASSUME IInv, NEW t \in Tabs, RegisterRun(t)
  PROVE  IInv'
<1> DEFINE run == <<desk[t].input, desk[t].shown.of[2]>>
           d == [desk[t] EXCEPT !.last = run]
<1>1. desk[t].shown # None /\ desk[t].input # None
  BY DEF RegisterRun
<1>2. run \in Analyses
  BY <1>1, OneDesk DEF Desk, Analyses
<1>3. /\ d \in Desk /\ d.last = run /\ d.shown = desk[t].shown /\ d.input = desk[t].input
      /\ d.loaded = desk[t].loaded /\ d.held = desk[t].held
  <2> HIDE DEF run
  <2> QED BY <1>2, OneDesk DEF Desk
<1>4. /\ runs' = runs \cup {run} /\ desk' = [desk EXCEPT ![t] = d]
      /\ careless' = (careless \/ run # desk[t].shown.of)
      /\ UNCHANGED <<cached, projections, claim, exported, mistaken>>
  BY DEF RegisterRun
<1>5. /\ runs' \subseteq Analyses /\ careless' \in BOOLEAN /\ mistaken' \in BOOLEAN
      /\ cached' \in [Keys -> Data \cup {None}]
  BY <1>2, <1>4 DEF IInv, Shape
<1> HIDE DEF run, d
<1>6. FromInput(d, mistaken') /\ (~careless' => Careful(d))
  BY <1>1, <1>3, <1>4 DEF IInv, ShownIsInput, FromInput, Careful
<1> QED BY <1>3, <1>4, <1>5, <1>6, OneTab

LEMMA BuildStep ==
  ASSUME IInv, NEW t \in Tabs, NEW kind \in Kinds, Build(t, kind)
  PROVE  IInv'
<1> DEFINE s == desk[t].shown
           d == [desk[t] EXCEPT !.held[kind] = s]
<1>1. s # None /\ s \in Shown
  BY OneDesk DEF Build
<1>2. /\ d \in Desk /\ d.shown = s /\ d.last = desk[t].last /\ d.input = desk[t].input
      /\ d.loaded = desk[t].loaded
      /\ d.held[kind] = s /\ \A k \in Kinds \ {kind} : d.held[k] = desk[t].held[k]
  BY <1>1, OneDesk DEF Desk
<1>3. /\ desk' = [desk EXCEPT ![t] = d]
      /\ UNCHANGED <<cached, runs, projections, claim, exported, careless, mistaken>>
  BY DEF Build
<1>4. /\ runs' \subseteq Analyses /\ careless' \in BOOLEAN /\ mistaken' \in BOOLEAN
      /\ cached' \in [Keys -> Data \cup {None}]
  BY <1>3 DEF IInv, Shape
<1> HIDE DEF d
<1>5. FromInput(d, mistaken')
  BY <1>2, <1>3 DEF IInv, ShownIsInput, FromInput
<1>6. ~careless' => Careful(d)
  BY <1>1, <1>2, <1>3 DEF IInv, Careful
<1> QED BY <1>2, <1>3, <1>4, <1>5, <1>6, OneTab

LEMMA ExportStep ==
  ASSUME IInv, NEW t \in Tabs, NEW kind \in Kinds, Export(t, kind)
  PROVE  IInv'
<1>1. /\ UNCHANGED <<desk, cached, runs, projections, careless, mistaken>> /\ claim' = None
      /\ exported' = [of |-> desk[t].held[kind].of, stamp |-> desk[t].shown.of]
      /\ OnPage(t, kind)
  BY DEF Export
<1>2. ~careless => exported'.stamp = exported'.of
  BY <1>1 DEF OnPage, IInv, Careful
<1> QED BY <1>1, <1>2 DEF IInv, Shape, ShownIsInput, FromInput, Careful, Reproducible, Claimed

LEMMA RegisterProjectionStep ==
  ASSUME Sound, IInv, NEW t \in Tabs, NEW kind \in Kinds, RegisterProjection(t, kind)
  PROVE  IInv'
<1> DEFINE run == RunOf(t)
           of == desk[t].held[kind].of
           key == <<kind, run>>
<1>1. /\ desk[t].shown # None /\ desk[t].held[kind] # None
      /\ desk[t].held[kind].title = desk[t].shown.title
      /\ runs' = runs \cup {run}
      /\ projections' = [projections EXCEPT ![key] =
                           IF projections[key] = None THEN of ELSE projections[key]]
      /\ claim' = [kind |-> kind, run |-> run, of |-> of]
      /\ UNCHANGED <<desk, cached, careless, mistaken>> /\ exported' = None
  BY DEF RegisterProjection, OnPage
<1>2. of \in Analyses
  BY <1>1, OneDesk DEF Desk, Shown
<1>3. run \in Analyses /\ key \in Kinds \X Analyses
  <2>1. desk[t].last \in Analyses \cup {None} /\ desk[t].loaded \in Analyses \cup {None}
    BY OneDesk DEF Desk
  <2>2. desk[t].loaded = None => desk[t].input \in Data
    BY <1>1, OneDesk DEF IInv, ShownIsInput, FromInput
  <2>3. desk[t].shown.of[2] \in Configs
    BY <1>1, OneDesk
  <2> QED BY <2>1, <2>2, <2>3 DEF RunOf, Analyses
<1>4. ~careless /\ ~mistaken => run = desk[t].shown.of /\ of = run
  BY <1>1, OneDesk DEF IInv, ShownIsInput, FromInput, Careful, RunOf
<1> HIDE DEF run, of, key
<1>5. /\ projections' \in [Kinds \X Analyses -> Analyses \cup {None}]
      /\ projections'[key] # None
      /\ \A other \in Kinds \X Analyses : projections[other] # None
                                         => projections'[other] = projections[other]
      /\ \A other \in Kinds \X Analyses : other # key => projections'[other] = projections[other]
      /\ projections'[key] \in {of, projections[key]}
  BY <1>1, <1>2, <1>3 DEF Sound, IInv, Shape
<1>6. Shape' /\ ShownIsInput'
  BY <1>1, <1>3, <1>5 DEF IInv, Shape, ShownIsInput, FromInput
<1>7. Claimed'
  BY <1>1, <1>3, <1>5 DEF Claimed, key
<1>8. ~careless' => \A s \in Tabs : Careful(desk'[s])
  BY <1>1 DEF IInv, Careful
<1>9. ASSUME ~careless', ~mistaken' PROVE Reproducible'
  <2>1. Reproducible /\ of = run
    BY <1>1, <1>4, <1>9 DEF IInv
  <2>3. ASSUME NEW k \in Kinds, NEW r \in Analyses
        PROVE  projections'[<<k, r>>] \in {None, r}
    <3>1. CASE <<k, r>> = key
      BY <1>5, <2>1, <3>1 DEF Reproducible, key
    <3>2. CASE <<k, r>> # key
      BY <1>5, <2>1, <3>2 DEF Reproducible
    <3> QED BY <3>1, <3>2
  <2>4. claim'.of = claim'.run /\ exported' = None
    BY <1>1, <2>1
  <2> QED BY <2>1, <2>3, <2>4 DEF Reproducible
<1> QED BY <1>6, <1>7, <1>8, <1>9 DEF IInv

LEMMA InvariantHolds ==
  ASSUME Sound, IInv, [Next]_vars
  PROVE  IInv'
<1>1. CASE UNCHANGED vars
  BY <1>1 DEF vars, IInv, Shape, ShownIsInput, FromInput, Careful, Reproducible, Claimed
<1>2. ASSUME NEW t \in Tabs, NEW a \in Analyses, LoadApproved(t, a) PROVE IInv'
  <2> DEFINE w == [desk[t] EXCEPT !.loaded = a]
  <2>1. w \in Desk /\ w.last = desk[t].last /\ w.held = desk[t].held /\ w.loaded = a
    BY OneDesk DEF Desk
  <2>2. a # None /\ a \in Labels
    BY DEF Sound, Labels
  <2>3. Show(t, w, a, a) /\ cached' \in [Keys -> Data \cup {None}]
    BY <1>2 DEF LoadApproved, IInv, Shape
  <2> HIDE DEF w
  <2> QED BY <2>1, <2>2, <2>3, ShowStep
<1>3. ASSUME NEW t \in Tabs, NEW file \in Workbooks, Upload(t, file) PROVE IInv'
  <2>1. file \in Bytes /\ cached' \in [Keys -> Data \cup {None}]
    BY <1>3 DEF Bytes, Upload, IInv, Shape
  <2> QED BY <1>3, <2>1, BytesStep DEF Upload
<1>4. ASSUME NEW t \in Tabs, NEW d \in Data, NEW c \in Configs, NEW title \in Titles,
             Ingest(t, d, c, title)
      PROVE  IInv'
  <2>1. FileOf[d] \in Bytes /\ <<title>> \in Labels
    BY DEF Bytes, Workbooks, Labels
  <2> QED BY <1>4, <2>1, CompileStep DEF Ingest
<1>5. ASSUME NEW t \in Tabs, NEW c \in Configs, Recompile(t, c) PROVE IInv'
  <2>1. desk[t].input \in Data /\ desk[t].bytes \in Bytes /\ desk[t].shown.title \in Labels
    BY <1>5, OneDesk DEF Recompile, Desk, Shown
  <2> QED BY <1>5, <2>1, CompileStep DEF Recompile
<1>6. ASSUME NEW key \in Keys, Evict(key) PROVE IInv'
  <2>1. /\ cached' \in [Keys -> Data \cup {None}]
        /\ UNCHANGED <<desk, runs, projections, claim, exported, careless, mistaken>>
    BY <1>6 DEF Evict, IInv, Shape
  <2> QED BY <2>1 DEF IInv, Shape, ShownIsInput, FromInput, Careful, Reproducible, Claimed
<1> QED
  BY <1>1, <1>2, <1>3, <1>4, <1>5, <1>6, ClearStep, RegisterRunStep, BuildStep, ExportStep,
     RegisterProjectionStep DEF Next

LEMMA InvariantStarts ==
  ASSUME Init PROVE IInv
<1>1. Blank \in Desk /\ Blank.shown = None
  BY DEF Blank, Desk, Bytes
<1>2. \A t \in Tabs : desk[t] = Blank
  BY DEF Init
<1>3. Shape
  BY <1>1 DEF Init, Shape
<1>4. \A k \in Kinds, run \in Analyses : projections[<<k, run>>] = None
  BY DEF Init
<1> QED BY <1>1, <1>2, <1>3, <1>4 DEF Init, IInv, ShownIsInput, FromInput, Careful, Reproducible,
              Claimed

\* "The registry can rebuild it and check its backtest to the last digit": for any
\* tabs, kinds, files, worksheets, configurations, titles and cache (register_projection
\* and reproduce_projection of core/registry.py, compile_and_store of pages/common.py,
\* pages/forecasting.py, pages/scenarios.py), until a tab was careless or mistaken.
THEOREM RegisteredIsReproduced == ASSUME Sound PROVE Spec => []ProjectionsReproduce
<1>1. IInv => ProjectionsReproduce
  <2> SUFFICES ASSUME IInv PROVE ProjectionsReproduce
    OBVIOUS
  <2>1. ASSUME ~careless, ~mistaken, claim # None PROVE Matches(claim.kind, claim.run)
    BY <2>1 DEF IInv, Shape, Claimed, Reproducible, Matches
  <2> QED BY <2>1 DEF IInv, Claimed, Reproducible, ProjectionsReproduce
<1> QED
  BY <1>1, InvariantStarts, InvariantHolds, PTL DEF Spec
=================================================================================
