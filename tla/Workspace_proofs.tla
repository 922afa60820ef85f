----------------------------- MODULE Workspace_proofs -----------------------------
(***************************************************************************)
(* Any number of sessions, workbooks and configurations, and a cache of    *)
(* any size: the screen is what the session says it is, and a wrong figure *)
(* has the causes named in Workspace.                                      *)
(***************************************************************************)
EXTENDS Workspace, TLAPS

Session ==
  [bytes : MaybeNone(Files), input : MaybeNone(Inputs), cfg : MaybeNone(Cfgs),
   analysis : MaybeNone(Result), last : MaybeNone(Result), loaded : MaybeNone(Result)]
Job == [df : Inputs, cfg : Cfgs, key : Keys, stored : BOOLEAN]

Shape ==
  /\ ws \in [Users -> Session]
  /\ job \in [Users -> MaybeNone(Job)]
  /\ cache \in [Keys -> MaybeNone(Result)]
  /\ runs \in [Result -> MaybeNone(Row)]

\* An analysis is cached under the configuration it was computed with.
CachedUnderConfig == \A k \in Keys : cache[k] # None => cache[k].cfg = k[2]

\* What the screen of a workspace w shows, in terms of the registry R.
Explained(w, R) ==
  w.analysis # None =>
    IF w.loaded # None
    THEN w.analysis = w.loaded /\ R[w.loaded] # None /\ R[w.loaded].approved
    ELSE w.input # None /\ w.cfg = w.analysis.cfg

\* A compilation under way has the key of the session's bytes, and computes the
\* collection they hold unless it is the one the session has.
OwnJob(w, j) ==
  j # None =>
    /\ j.key = <<w.bytes, j.cfg>>
    /\ FileOf[j.df] = w.bytes \/ w.input = j.df

LastRegistered(w, R) == w.last # None => R[w.last] # None

IInv ==
  /\ Shape /\ CachedUnderConfig
  /\ \A u \in Users : /\ Explained(ws[u], runs)
                      /\ OwnJob(ws[u], job[u])
                      /\ LastRegistered(ws[u], runs)

\* The registry only grows: no row goes, and no approval.
Grows(R) ==
  /\ R \in [Result -> MaybeNone(Row)]
  /\ \A r \in Result : runs[r] # None => /\ R[r] # None
                                         /\ runs[r].approved => R[r].approved

\* The steps of one session that leave the cache alone.
LEMMA OneSession ==
  ASSUME IInv, NEW u \in Users, NEW w \in Session, NEW j \in MaybeNone(Job),
         ws' = [ws EXCEPT ![u] = w], job' = [job EXCEPT ![u] = j], cache' = cache,
         Grows(runs'), Explained(w, runs'), OwnJob(w, j), LastRegistered(w, runs')
  PROVE  IInv'
<1>1. \A v \in Users : /\ ws'[v] = IF v = u THEN w ELSE ws[v]
                       /\ job'[v] = IF v = u THEN j ELSE job[v]
  BY DEF IInv, Shape
<1>2. Shape' /\ CachedUnderConfig'
  BY DEF IInv, Shape, CachedUnderConfig, Grows
<1>3. ASSUME NEW v \in Users, v # u
      PROVE  Explained(ws[v], runs') /\ LastRegistered(ws[v], runs')
  <2>1. ws[v] \in Session /\ Explained(ws[v], runs) /\ LastRegistered(ws[v], runs)
    BY DEF IInv, Shape
  <2>2. ws[v].loaded \in MaybeNone(Result) /\ ws[v].last \in MaybeNone(Result)
    BY <2>1 DEF Session
  <2> QED BY <2>1, <2>2 DEF Explained, LastRegistered, Grows, MaybeNone
<1> QED BY <1>1, <1>2, <1>3 DEF IInv

LEMMA RegistryStays ==
  ASSUME IInv PROVE Grows(runs)
  BY DEF IInv, Shape, Grows

LEMMA OneState ==
  ASSUME IInv, NEW u \in Users
  PROVE  /\ ws[u] \in Session /\ job[u] \in MaybeNone(Job)
         /\ ws = [ws EXCEPT ![u] = ws[u]] /\ job = [job EXCEPT ![u] = job[u]]
         /\ Explained(ws[u], runs) /\ OwnJob(ws[u], job[u]) /\ LastRegistered(ws[u], runs)
  BY DEF IInv, Shape

-----------------------------------------------------------------------------
(* compile_and_store *)

LEMMA ShowFields ==
  ASSUME NEW w \in Session, NEW d \in Inputs, NEW c \in Cfgs, NEW result \in Result
  PROVE  /\ Show(w, d, c, result) \in Session
         /\ Show(w, d, c, result).input = d /\ Show(w, d, c, result).cfg = c
         /\ Show(w, d, c, result).analysis = result
         /\ Show(w, d, c, result).loaded = None
         /\ Show(w, d, c, result).bytes = w.bytes /\ Show(w, d, c, result).last = w.last
  BY DEF Show, Session, MaybeNone

LEMMA CompileStep ==
  ASSUME IInv, NEW u \in Users, NEW w \in Session, NEW d \in Inputs, NEW c \in Cfgs,
         Idle(u), Compile(u, w, d, c),
         Explained(w, runs), LastRegistered(w, runs),
         FileOf[d] = w.bytes \/ w.input = d
  PROVE  IInv'
<1> DEFINE key == CacheKey(w.bytes, c)
           j == [df |-> d, cfg |-> c, key |-> key, stored |-> FALSE]
<1>1. key \in Keys /\ key = <<w.bytes, c>> /\ key[2] = c
  BY DEF CacheKey, Keys, Session
<1>2. cache' = cache /\ runs' = runs
  BY DEF Compile
<1>3. CASE cache[key] # None
  <2>1. /\ ws' = [ws EXCEPT ![u] = Show(w, d, c, cache[key])]
        /\ job' = [job EXCEPT ![u] = job[u]]
    BY <1>3, OneState DEF Compile
  <2>2. cache[key] \in Result /\ cache[key].cfg = c
    BY <1>1, <1>3 DEF IInv, Shape, CachedUnderConfig, MaybeNone
  <2> HIDE DEF key
  <2>3. /\ Explained(Show(w, d, c, cache[key]), runs)
        /\ OwnJob(Show(w, d, c, cache[key]), job[u])
        /\ LastRegistered(Show(w, d, c, cache[key]), runs)
    BY <2>2, ShowFields, WorkspaceAssumption DEF Explained, OwnJob, LastRegistered, Idle,
       WorkspaceAssumption
  <2>4. Show(w, d, c, cache[key]) \in Session
    BY <2>2, ShowFields
  <2> QED BY <1>2, <2>1, <2>3, <2>4, OneState, RegistryStays, OneSession
<1>4. CASE cache[key] = None
  <2>1. ws' = [ws EXCEPT ![u] = w] /\ job' = [job EXCEPT ![u] = j]
    BY <1>4 DEF Compile
  <2>2. j \in Job /\ j.key = key /\ j.cfg = c /\ j.df = d
    BY <1>1 DEF Job
  <2> HIDE DEF j, key
  <2>3. j \in MaybeNone(Job) /\ OwnJob(w, j)
    BY <1>1, <2>2 DEF OwnJob, MaybeNone
  <2> QED BY <1>2, <2>1, <2>3, RegistryStays, OneSession
<1> QED BY <1>3, <1>4

\* The cleaned-up workspace the Ingest page leaves before it compiles.
LEMMA UploadedFields ==
  ASSUME IInv, NEW u \in Users, NEW d \in Inputs
  PROVE  /\ Uploaded(u, d) \in Session
         /\ Explained(Uploaded(u, d), runs) /\ LastRegistered(Uploaded(u, d), runs)
         /\ Uploaded(u, d).bytes = FileOf[d] /\ Uploaded(u, d).bytes \in Files
         /\ Uploaded(u, d).input = ws[u].input /\ Uploaded(u, d).cfg = ws[u].cfg
         /\ Uploaded(u, d).analysis = ws[u].analysis
         /\ Uploaded(u, d).loaded = ws[u].loaded
<1>1. FileOf[d] \in Files
  BY DEF Files
<1>2. /\ Uploaded(u, d) \in Session
      /\ Uploaded(u, d).bytes = FileOf[d]
      /\ Uploaded(u, d).input = ws[u].input /\ Uploaded(u, d).cfg = ws[u].cfg
      /\ Uploaded(u, d).analysis = ws[u].analysis
      /\ Uploaded(u, d).loaded = ws[u].loaded /\ Uploaded(u, d).last = ws[u].last
  BY <1>1, OneState DEF Uploaded, Session, MaybeNone
<1> QED BY <1>1, <1>2, OneState DEF Explained, LastRegistered

LEMMA StoreSlots ==
  ASSUME IInv, NEW key \in Keys, NEW result \in Result, Store(key, result)
  PROVE  /\ cache' \in [Keys -> MaybeNone(Result)]
         /\ \A k \in Keys : cache'[k] \in {None, IF k = key THEN result ELSE cache[k]}
<1>1. cache \in [Keys -> MaybeNone(Result)] /\ None \in MaybeNone(Result)
      /\ result \in MaybeNone(Result)
  BY DEF IInv, Shape, MaybeNone
<1> DEFINE full == [cache EXCEPT ![key] = result]
<1>2. /\ full \in [Keys -> MaybeNone(Result)]
      /\ \A k \in Keys : full[k] = IF k = key THEN result ELSE cache[k]
  BY <1>1
<1>3. \/ cache' = full
      \/ \E e \in Cached(cache) \ {key} : cache' = [full EXCEPT ![e] = None]
  BY DEF Store
<1> HIDE DEF full
<1>4. CASE cache' = full
  BY <1>2, <1>4
<1>5. ASSUME NEW e \in Keys, cache' = [full EXCEPT ![e] = None]
      PROVE  /\ cache' \in [Keys -> MaybeNone(Result)]
             /\ \A k \in Keys : cache'[k] = IF k = e THEN None ELSE full[k]
  BY <1>1, <1>2, <1>5
<1> QED BY <1>2, <1>3, <1>4, <1>5 DEF Cached

\* The result is that of the compilation under way.
LEMMA JobResult ==
  ASSUME IInv, NEW u \in Users, ~Idle(u)
  PROVE  /\ job[u] \in Job /\ Computed(u) \in Result
         /\ Computed(u).df = job[u].df /\ Computed(u).cfg = job[u].cfg
         /\ job[u].key = <<ws[u].bytes, job[u].cfg>> /\ job[u].key \in Keys
         /\ FileOf[job[u].df] = ws[u].bytes \/ ws[u].input = job[u].df
<1>1. job[u] \in Job /\ OwnJob(ws[u], job[u]) /\ job[u] # None
  BY OneState DEF Idle, MaybeNone
<1>2. Computed(u) \in Result
  BY <1>1 DEF Computed, Job, Result
<1> QED BY <1>1, <1>2 DEF Computed, OwnJob, Job

LEMMA StoreStep ==
  ASSUME IInv, NEW u \in Users, StoreResult(u)
  PROVE  IInv'
<1> DEFINE j == [job[u] EXCEPT !.stored = TRUE]
<1>1. /\ job[u] \in Job /\ Computed(u) \in Result /\ job[u].key \in Keys
      /\ job[u].key = <<ws[u].bytes, job[u].cfg>> /\ Computed(u).cfg = job[u].cfg
  BY JobResult DEF StoreResult
<1>2. /\ Store(job[u].key, Computed(u)) /\ UNCHANGED <<ws, runs>>
      /\ job' = [job EXCEPT ![u] = j]
  BY DEF StoreResult
<1>3. j \in Job /\ j.df = job[u].df /\ j.cfg = job[u].cfg /\ j.key = job[u].key
  BY <1>1 DEF Job
<1>4. job[u] # None
  BY DEF StoreResult, Idle
<1> HIDE DEF j
<1>5. OwnJob(ws[u], j)
  BY <1>3, <1>4, OneState DEF OwnJob
<1>6. cache' \in [Keys -> MaybeNone(Result)] /\ CachedUnderConfig'
  BY <1>1, <1>2, StoreSlots DEF CachedUnderConfig, IInv
<1>7. \A v \in Users : job'[v] = IF v = u THEN j ELSE job[v]
  BY <1>2 DEF IInv, Shape
<1>8. Shape'
  BY <1>2, <1>3, <1>6 DEF IInv, Shape, MaybeNone
<1> QED BY <1>2, <1>5, <1>6, <1>7, <1>8 DEF IInv

\* What the session shows is what its compilation computed.
LEMMA FinishFields ==
  ASSUME IInv, NEW u \in Users, FinishCompile(u)
  PROVE  \E w \in Session :
           /\ ws' = [ws EXCEPT ![u] = w]
           /\ w.input = job[u].df /\ w.cfg = job[u].cfg /\ w.analysis = Computed(u)
           /\ w.loaded = None /\ w.last = ws[u].last
<1>1. job[u] \in Job /\ Computed(u) \in Result /\ ws[u] \in Session
  BY JobResult, OneState DEF FinishCompile
<1>2. job[u].df \in Inputs /\ job[u].cfg \in Cfgs
  BY <1>1 DEF Job
<1> DEFINE w == Show(ws[u], job[u].df, job[u].cfg, Computed(u))
<1>3. /\ w \in Session /\ w.input = job[u].df /\ w.cfg = job[u].cfg
      /\ w.analysis = Computed(u) /\ w.loaded = None /\ w.last = ws[u].last
  BY <1>1, <1>2, ShowFields
<1>4. ws' = [ws EXCEPT ![u] = w]
  BY DEF FinishCompile
<1> HIDE DEF w
<1> QED BY <1>3, <1>4

LEMMA FinishStep ==
  ASSUME IInv, NEW u \in Users, FinishCompile(u)
  PROVE  IInv'
<1>1. PICK w \in Session :
           /\ ws' = [ws EXCEPT ![u] = w]
           /\ w.input = job[u].df /\ w.cfg = job[u].cfg /\ w.analysis = Computed(u)
           /\ w.loaded = None /\ w.last = ws[u].last
  BY FinishFields
<1>2. /\ job[u] \in Job /\ Computed(u).cfg = job[u].cfg /\ job[u].df # None
      /\ LastRegistered(ws[u], runs)
  <2>1. job[u] \in Job /\ Computed(u).cfg = job[u].cfg
    BY JobResult DEF FinishCompile
  <2> QED BY <2>1, OneState, WorkspaceAssumption DEF Job, WorkspaceAssumption
<1>3. /\ cache' = cache /\ runs' = runs /\ job' = [job EXCEPT ![u] = None]
      /\ None \in MaybeNone(Job)
  BY DEF FinishCompile, MaybeNone
<1>4. Explained(w, runs) /\ LastRegistered(w, runs) /\ OwnJob(w, None)
  BY <1>1, <1>2 DEF Explained, LastRegistered, OwnJob
<1> QED BY <1>1, <1>3, <1>4, RegistryStays, OneSession

-----------------------------------------------------------------------------
(* The pages *)

LEMMA IngestStep ==
  ASSUME IInv, NEW u \in Users, NEW d \in Inputs,
         IngestEarlyReturn(u, d) \/ \E c \in Cfgs : Ingest(u, d, c)
  PROVE  IInv'
<1>1. CASE IngestEarlyReturn(u, d)
  <2>1. /\ ws' = [ws EXCEPT ![u] = Uploaded(u, d)] /\ job' = [job EXCEPT ![u] = job[u]]
        /\ cache' = cache /\ runs' = runs /\ job[u] = None
    BY <1>1, OneState DEF IngestEarlyReturn, Idle
  <2>2. OwnJob(Uploaded(u, d), job[u]) /\ job[u] \in MaybeNone(Job)
    BY <2>1 DEF OwnJob, MaybeNone
  <2> QED BY <2>1, <2>2, UploadedFields, RegistryStays, OneSession
<1>2. ASSUME NEW c \in Cfgs, Ingest(u, d, c) PROVE IInv'
  BY <1>2, UploadedFields, CompileStep DEF Ingest
<1> QED BY <1>1, <1>2

LEMMA RecompileStep ==
  ASSUME IInv, NEW u \in Users, NEW c \in Cfgs, Recompile(u, c)
  PROVE  IInv'
<1>1. ws[u] \in Session /\ Explained(ws[u], runs) /\ LastRegistered(ws[u], runs)
  BY OneState
<1>2. ws[u].input \in Inputs
  BY <1>1 DEF Recompile, Session, MaybeNone
<1> QED BY <1>1, <1>2, CompileStep DEF Recompile

LEMMA ClearStep ==
  ASSUME IInv, NEW u \in Users, Clear(u)
  PROVE  IInv'
<1>1. ws[u] \in Session /\ LastRegistered(ws[u], runs) /\ job[u] \in MaybeNone(Job)
      /\ job' = [job EXCEPT ![u] = job[u]] /\ job[u] = None
  BY OneState DEF Clear, Idle
<1>2. /\ Cleared(u) \in Session /\ Cleared(u).analysis = None
      /\ Cleared(u).last = ws[u].last
  BY <1>1 DEF Cleared, Session, MaybeNone
<1>3. Explained(Cleared(u), runs) /\ OwnJob(Cleared(u), job[u]) /\ LastRegistered(Cleared(u), runs)
  BY <1>1, <1>2 DEF Explained, OwnJob, LastRegistered
<1> QED BY <1>1, <1>2, <1>3, RegistryStays, OneSession DEF Clear

LEMMA LoadStep ==
  ASSUME IInv, NEW u \in Users, NEW r \in Result, LoadApproved(u, r)
  PROVE  IInv'
<1> DEFINE w == [ws[u] EXCEPT !.analysis = r, !.loaded = r]
<1>1. ws[u] \in Session /\ LastRegistered(ws[u], runs) /\ job[u] \in MaybeNone(Job)
      /\ job' = [job EXCEPT ![u] = job[u]] /\ job[u] = None
  BY OneState DEF LoadApproved, Idle
<1>2. w \in Session /\ w.analysis = r /\ w.loaded = r /\ w.last = ws[u].last
  BY <1>1 DEF Session, MaybeNone
<1>3. ws' = [ws EXCEPT ![u] = w] /\ cache' = cache /\ runs' = runs
      /\ runs[r] # None /\ runs[r].approved
  BY DEF LoadApproved, Approved, Registered
<1> HIDE DEF w
<1>4. Explained(w, runs) /\ OwnJob(w, job[u]) /\ LastRegistered(w, runs)
  BY <1>1, <1>2, <1>3 DEF Explained, OwnJob, LastRegistered
<1> QED BY <1>1, <1>2, <1>3, <1>4, RegistryStays, OneSession

\* Registering content twice returns the row there is.
LEMMA InsertGrows ==
  ASSUME IInv, NEW r \in Result, NEW h \in Result
  PROVE  Grows(Insert(r, h)) /\ Insert(r, h)[r] # None
<1> DEFINE row == [headline |-> h, approved |-> FALSE]
<1>1. row \in Row
  BY DEF Row
<1> HIDE DEF row
<1>4. row # None
  BY <1>1, WorkspaceAssumption DEF WorkspaceAssumption
<1>2. CASE Registered(r)
  BY <1>2 DEF Insert, Grows, IInv, Shape, Registered
<1>3. CASE ~Registered(r)
  <2>1. Insert(r, h) = [runs EXCEPT ![r] = row]
    BY <1>3 DEF Insert, row
  <2> QED BY <1>1, <1>4, <1>3, <2>1 DEF Grows, IInv, Shape, Registered, MaybeNone
<1> QED BY <1>2, <1>3

\* The run the session's data and configuration register as is a run.
LEMMA ActiveRun ==
  ASSUME IInv, NEW u \in Users, ws[u].analysis # None, ws[u].input # None
  PROVE  /\ ws[u].analysis \in Result /\ Active(u) \in Result
         /\ Active(u).df = ws[u].input /\ Active(u).cfg = ws[u].analysis.cfg
<1>1. ws[u].analysis \in Result /\ ws[u].input \in Inputs
  BY OneState DEF Session, MaybeNone
<1> QED BY <1>1 DEF Active, Result

\* Register and Correct: the run the session's data names is in the registry.
LEMMA EnterStep ==
  ASSUME IInv, NEW u \in Users, NEW h \in Result, Idle(u),
         ws[u].analysis # None, ws[u].input # None,
         runs' = Insert(Active(u), h), ws' = [ws EXCEPT ![u].last = Active(u)],
         job' = job, cache' = cache
  PROVE  IInv'
<1> DEFINE r == Active(u)
           w == [ws[u] EXCEPT !.last = r]
<1>1. /\ ws[u] \in Session /\ Explained(ws[u], runs) /\ job[u] = None
      /\ job[u] \in MaybeNone(Job) /\ job' = [job EXCEPT ![u] = job[u]]
  BY OneState DEF Idle
<1>2. r \in Result
  BY ActiveRun
<1> HIDE DEF r
<1>3. Grows(runs') /\ runs'[r] # None
  BY <1>2, InsertGrows DEF r
<1>4. /\ w \in Session /\ w.last = r
      /\ w.analysis = ws[u].analysis /\ w.loaded = ws[u].loaded
      /\ w.input = ws[u].input /\ w.cfg = ws[u].cfg
  BY <1>1, <1>2 DEF Session, MaybeNone
<1>5. ws' = [ws EXCEPT ![u] = w]
  BY DEF r
<1> HIDE DEF w
<1>6. w.loaded \in MaybeNone(Result)
  BY <1>4 DEF Session
<1>7. Explained(w, runs')
  BY <1>1, <1>3, <1>4, <1>6 DEF Explained, Grows, MaybeNone
<1>8. OwnJob(w, job[u]) /\ LastRegistered(w, runs')
  BY <1>1, <1>3, <1>4 DEF OwnJob, LastRegistered
<1> QED BY <1>1, <1>3, <1>4, <1>5, <1>7, <1>8, OneSession

\* Approval and the registration of a projection change the registry alone.
LEMMA RegistryStep ==
  ASSUME IInv, NEW u \in Users, Grows(runs'), UNCHANGED <<ws, job, cache>>
  PROVE  IInv'
<1>1. /\ ws[u] \in Session /\ Explained(ws[u], runs) /\ LastRegistered(ws[u], runs)
      /\ OwnJob(ws[u], job[u]) /\ job[u] \in MaybeNone(Job)
      /\ ws' = [ws EXCEPT ![u] = ws[u]] /\ job' = [job EXCEPT ![u] = job[u]]
  BY OneState
<1>2. ws[u].loaded \in MaybeNone(Result) /\ ws[u].last \in MaybeNone(Result)
  BY <1>1 DEF Session
<1>3. Explained(ws[u], runs') /\ LastRegistered(ws[u], runs')
  BY <1>1, <1>2 DEF Explained, LastRegistered, Grows, MaybeNone
<1> QED BY <1>1, <1>3, OneSession

LEMMA ApprovedRow ==
  ASSUME IInv, NEW u \in Users, Approve(u)
  PROVE  \E r \in Result, row \in Row :
           /\ runs[r] \in Row /\ row.headline = runs[r].headline /\ row.approved
           /\ runs' = [runs EXCEPT ![r] = row]
<1>1. ws[u].last \in Result /\ runs[ws[u].last] # None
  BY OneState DEF Approve, Session, MaybeNone, LastRegistered
<1>2. runs[ws[u].last] \in Row
  BY <1>1 DEF IInv, Shape, MaybeNone
<1>3. ASSUME NEW x \in Row
      PROVE  /\ [x EXCEPT !.approved = TRUE] \in Row
             /\ [x EXCEPT !.approved = TRUE].headline = x.headline
             /\ [x EXCEPT !.approved = TRUE].approved
  BY DEF Row
<1>4. runs' = [runs EXCEPT ![ws[u].last] = [runs[ws[u].last] EXCEPT !.approved = TRUE]]
  BY DEF Approve
<1> QED BY <1>1, <1>2, <1>3, <1>4

LEMMA ApproveStep ==
  ASSUME IInv, NEW u \in Users, Approve(u)
  PROVE  IInv'
<1>1. PICK r \in Result, row \in Row :
             row.approved /\ runs' = [runs EXCEPT ![r] = row]
  BY ApprovedRow
<1>2. row # None
  BY WorkspaceAssumption DEF WorkspaceAssumption
<1>3. Grows(runs')
  BY <1>1, <1>2 DEF Grows, IInv, Shape, MaybeNone
<1> QED BY <1>3, RegistryStep DEF Approve

LEMMA ProjectionRun ==
  ASSUME IInv, NEW u \in Users, RegisterProjection(u)
  PROVE  \E r \in Result : runs' = Insert(r, r)
<1>1. /\ ws[u] \in Session /\ ws[u].analysis \in Result
      /\ ws[u].input # None /\ ws[u].cfg = ws[u].analysis.cfg
  BY OneState DEF RegisterProjection, Explained, Session, MaybeNone
<1>2. ws[u].input \in Inputs /\ ws[u].cfg \in Cfgs
  BY <1>1 DEF Session, Result, MaybeNone
<1> DEFINE r == [df |-> ws[u].input, cfg |-> ws[u].cfg]
<1>3. r \in Result /\ runs' = Insert(r, r)
  BY <1>2 DEF RegisterProjection, Result
<1> HIDE DEF r
<1> QED BY <1>3

LEMMA ProjectionStep ==
  ASSUME IInv, NEW u \in Users, RegisterProjection(u)
  PROVE  IInv'
BY ProjectionRun, InsertGrows, RegistryStep DEF RegisterProjection

LEMMA EmptyFields ==
  /\ Empty \in Session /\ OwnJob(Empty, None)
  /\ \A R : Explained(Empty, R) /\ LastRegistered(Empty, R)
BY DEF Empty, Session, MaybeNone, Explained, OwnJob, LastRegistered

LEMMA LeavingStep ==
  ASSUME IInv, NEW u \in Users, Interrupt(u) \/ NewSession(u)
  PROVE  IInv'
<1>1. None \in MaybeNone(Job) /\ job' = [job EXCEPT ![u] = None]
      /\ cache' = cache /\ runs' = runs
  BY DEF Interrupt, NewSession, MaybeNone
<1>2. CASE Interrupt(u)
  <2>1. /\ ws[u] \in Session /\ Explained(ws[u], runs) /\ LastRegistered(ws[u], runs)
        /\ ws' = [ws EXCEPT ![u] = ws[u]] /\ OwnJob(ws[u], None)
    BY <1>2, OneState DEF Interrupt, OwnJob
  <2> QED BY <1>1, <2>1, RegistryStays, OneSession
<1>3. CASE NewSession(u)
  BY <1>1, <1>3, EmptyFields, RegistryStays, OneSession DEF NewSession
<1> QED BY <1>2, <1>3

LEMMA RestartStep ==
  ASSUME IInv, Restart
  PROVE  IInv'
<1>1. /\ ws' = [u \in Users |-> Empty] /\ job' = [u \in Users |-> None]
      /\ cache' = [k \in Keys |-> None] /\ runs' = runs
  BY DEF Restart
<1>2. Shape' /\ CachedUnderConfig'
  BY <1>1, EmptyFields DEF Shape, IInv, MaybeNone, CachedUnderConfig
<1> QED BY <1>1, <1>2, EmptyFields DEF IInv

LEMMA InvariantStarts == Init => IInv
<1> SUFFICES ASSUME Init PROVE IInv
  OBVIOUS
<1>1. Shape /\ CachedUnderConfig
  BY EmptyFields DEF Init, Shape, MaybeNone, CachedUnderConfig
<1> QED BY <1>1, EmptyFields DEF IInv, Init

LEMMA InvariantHolds == IInv /\ [Next]_vars => IInv'
<1> SUFFICES ASSUME IInv, [Next]_vars PROVE IInv'
  OBVIOUS
<1>1. CASE UNCHANGED vars
  BY <1>1 DEF vars, IInv, Shape, CachedUnderConfig, Explained, OwnJob, LastRegistered
<1>2. ASSUME NEW u \in Users, Register(u) PROVE IInv'
  BY <1>2, ActiveRun, EnterStep DEF Register
<1>3. ASSUME NEW u \in Users, NEW o \in Result, Correct(u, o) PROVE IInv'
  BY <1>3, ActiveRun, EnterStep DEF Correct, CorrectedHeadline
<1> QED BY <1>1, <1>2, <1>3, IngestStep, RecompileStep, StoreStep, FinishStep, ClearStep, LoadStep,
           ApproveStep, ProjectionStep, LeavingStep, RestartStep DEF Next

\* A session that says it shows a registered run shows that approved run's figures;
\* any other shows its own, under the configuration it names (load_approved_run_picker
\* and compile_and_store of pages/common.py).
THEOREM ScreenIsExplained == Spec => []ScreenExplained
<1>1. IInv => ScreenExplained
  BY DEF IInv, ScreenExplained, Explained, Approved, Registered
<1> QED BY <1>1, InvariantStarts, InvariantHolds, PTL DEF Spec

-----------------------------------------------------------------------------
(* What a wrong figure needs *)

LEMMA OneCacheStep ==
  ASSUME [Next]_vars
  PROVE  \/ cache' = cache \/ cache' = [k \in Keys |-> None]
         \/ \E u \in Users : StoreResult(u)
BY DEF Next, vars, IngestEarlyReturn, Ingest, Compile, Recompile, FinishCompile, Interrupt,
   Clear, LoadApproved, Register, Approve, Correct, RegisterProjection, NewSession, Restart

LEMMA PoisonStep ==
  ASSUME IInv, [Next]_vars, NEW k \in Keys, Poisoned(k)', ~Poisoned(k)
  PROVE  \E u \in Users : Detoured(u)
<1>1. cache' # cache /\ cache'[k] # None /\ cache'[k] # cache[k]
  BY DEF Poisoned
<1>2. cache' # [e \in Keys |-> None]
  BY <1>1
<1>3. PICK u \in Users : StoreResult(u)
  BY <1>1, <1>2, OneCacheStep
<1>4. /\ job[u] \in Job /\ Computed(u) \in Result
      /\ Computed(u).df = job[u].df /\ Computed(u).cfg = job[u].cfg
      /\ job[u].key = <<ws[u].bytes, job[u].cfg>> /\ job[u].key \in Keys
      /\ FileOf[job[u].df] = ws[u].bytes \/ ws[u].input = job[u].df
      /\ Store(job[u].key, Computed(u))
  BY <1>3, JobResult DEF StoreResult
<1>5. k = job[u].key /\ cache'[k] = Computed(u)
  BY <1>1, <1>4, StoreSlots
<1>6. k[1] = ws[u].bytes /\ k[2] = Computed(u).cfg
  BY <1>4, <1>5
<1>7. FileOf[job[u].df] # ws[u].bytes
  BY <1>4, <1>5, <1>6 DEF Poisoned
<1>8. ws[u].input = job[u].df /\ job[u].df # None
  BY <1>4, <1>7, WorkspaceAssumption DEF Job, WorkspaceAssumption
<1> QED BY <1>7, <1>8 DEF Detoured

\* A cached analysis is wrong for its key only if a session whose bytes had changed
\* under its collection put it there (compile_and_store of pages/common.py keys the
\* bytes of the upload, computes the collection it is given).
THEOREM PoisonNeedsADetour == Spec => PoisonedByDetour
<1>1. IInv /\ [Next]_vars =>
        [\A k \in Keys : Poisoned(k)' =>
           Poisoned(k) \/ \E u \in Users : Detoured(u)]_vars
  BY PoisonStep
<1> QED BY <1>1, InvariantStarts, InvariantHolds, PTL DEF Spec, PoisonedByDetour

\* The headline of a run, once entered, is never another result's.
LEMMA EnterHeadline ==
  ASSUME IInv, NEW a \in Result, NEW h \in Result, runs' = Insert(a, h),
         NEW r \in Result, Misreported(r)', ~Misreported(r)
  PROVE  r = a /\ h # a
<1> DEFINE row == [headline |-> h, approved |-> FALSE]
<1>1. row.headline = h
  OBVIOUS
<1>2. runs' = runs \/ runs' = [runs EXCEPT ![a] = row]
  BY DEF Insert
<1> HIDE DEF row
<1> QED BY <1>1, <1>2 DEF Misreported, Registered, IInv, Shape

LEMMA MisreportStep ==
  ASSUME IInv, [Next]_vars, NEW r \in Result, Misreported(r)', ~Misreported(r)
  PROVE  \E u \in Users : Stale(u) /\ Active(u) = r
<1>1. runs' # runs
  BY DEF Misreported, Registered
<1>2. ASSUME NEW u \in Users, Register(u) PROVE Stale(u) /\ Active(u) = r
  BY <1>2, ActiveRun, EnterHeadline DEF Register, Stale
<1>3. ASSUME NEW u \in Users, NEW o \in Result, Correct(u, o) PROVE FALSE
  BY <1>3, ActiveRun, EnterHeadline DEF Correct, CorrectedHeadline
<1>4. ASSUME NEW u \in Users, RegisterProjection(u) PROVE FALSE
  BY <1>4, ProjectionRun, EnterHeadline
<1>5. ASSUME NEW u \in Users, Approve(u) PROVE FALSE
  <2>1. PICK a \in Result, row \in Row :
           /\ runs[a] \in Row /\ row.headline = runs[a].headline
           /\ runs' = [runs EXCEPT ![a] = row]
    BY <1>5, ApprovedRow
  <2>2. runs[a] # None
    BY <2>1, WorkspaceAssumption DEF WorkspaceAssumption
  <2> QED BY <2>1, <2>2 DEF Misreported, Registered, IInv, Shape
<1> QED
  BY <1>1, <1>2, <1>3, <1>4, <1>5 DEF Next, vars, IngestEarlyReturn, Ingest, Compile,
     Recompile, StoreResult, FinishCompile, Interrupt, Clear, LoadApproved, NewSession,
     Restart

\* A run is entered with another result's figure only by a session that shows that
\* figure beside its own data (the Register button of pages/reports.py takes the run
\* from the session's data and the headline from the analysis on the screen).
THEOREM MisreportNeedsStale == Spec => MisreportedOnlyStale
<1>1. IInv /\ [Next]_vars =>
        [\A r \in Result : Misreported(r)' =>
           Misreported(r) \/ \E u \in Users : Stale(u) /\ Active(u) = r]_vars
  BY MisreportStep
<1> QED BY <1>1, InvariantStarts, InvariantHolds, PTL DEF Spec, MisreportedOnlyStale

\* A workspace w shows another collection's figures beside its own.
StaleIn(w) == w.analysis # None /\ w.input # None
              /\ w.analysis # [df |-> w.input, cfg |-> w.analysis.cfg]

OneSheetPerFile == \A d, e \in Inputs : FileOf[d] = FileOf[e] => d = e

\* A hit on an entry that is right for its key shows the collection asked for.
LEMMA CompileFresh ==
  ASSUME IInv, OneSheetPerFile, NEW u \in Users, NEW w \in Session, NEW d \in Inputs,
         NEW c \in Cfgs, Compile(u, w, d, c), FileOf[d] = w.bytes,
         \A k \in Keys : ~Poisoned(k),
         StaleIn(ws'[u])
  PROVE  StaleIn(w) /\ ws'[u] = w
<1> DEFINE key == CacheKey(w.bytes, c)
           hit == cache[key]
<1>1. key \in Keys /\ key[1] = w.bytes /\ key[2] = c
  BY DEF CacheKey, Keys, Session
<1>2. CASE hit = None
  <2>1. ws' = [ws EXCEPT ![u] = w]
    BY <1>2 DEF Compile
  <2>2. ws'[u] = w
    BY <2>1 DEF IInv, Shape
  <2> QED BY <2>2
<1>3. CASE hit # None
  <2>1. ws' = [ws EXCEPT ![u] = Show(w, d, c, hit)]
    BY <1>3 DEF Compile
  <2>2. ws'[u] = Show(w, d, c, hit)
    BY <2>1 DEF IInv, Shape
  <2>3. hit \in Result /\ FileOf[hit.df] = w.bytes /\ hit.df \in Inputs
    BY <1>1, <1>3 DEF IInv, Shape, MaybeNone, Poisoned, Result
  <2>4. hit.df = d
    BY <2>3 DEF OneSheetPerFile
  <2>5. hit = [df |-> hit.df, cfg |-> hit.cfg]
    BY <2>3 DEF Result
  <2> HIDE DEF hit
  <2>6. ws'[u].analysis = hit /\ ws'[u].input = d
    BY <2>2, <2>3, ShowFields
  <2> QED BY <2>4, <2>5, <2>6 DEF StaleIn
<1> QED BY <1>2, <1>3

LEMMA StaleStep ==
  ASSUME IInv, OneSheetPerFile, [Next]_vars, NEW u \in Users,
         Stale(u)', ~Stale(u), ws'[u].loaded = None, ~Detoured(u),
         \A k \in Keys : ~Poisoned(k)
  PROVE  FALSE
<1>1. StaleIn(ws'[u]) /\ ~StaleIn(ws[u])
  BY DEF Stale, StaleIn, Active
<1>2. ws'[u] # ws[u]
  BY <1>1
<1>3. ASSUME NEW d \in Inputs, IngestEarlyReturn(u, d) PROVE FALSE
  <2>1. ws'[u] = Uploaded(u, d)
    BY <1>3 DEF IngestEarlyReturn, IInv, Shape
  <2> QED BY <1>1, <2>1, UploadedFields DEF StaleIn
<1>4. ASSUME NEW d \in Inputs, NEW c \in Cfgs, Ingest(u, d, c) PROVE FALSE
  <2>1. Compile(u, Uploaded(u, d), d, c)
    BY <1>4 DEF Ingest
  <2>2. StaleIn(Uploaded(u, d))
    BY <1>1, <2>1, UploadedFields, CompileFresh
  <2> QED BY <1>1, <2>2, UploadedFields DEF StaleIn
<1>5. ASSUME NEW c \in Cfgs, Recompile(u, c) PROVE FALSE
  <2>1. /\ ws[u] \in Session /\ ws[u].input \in Inputs
        /\ Compile(u, ws[u], ws[u].input, c) /\ FileOf[ws[u].input] = ws[u].bytes
    BY <1>5, OneState DEF Recompile, Session, MaybeNone, Detoured
  <2> QED BY <1>1, <2>1, CompileFresh
<1>6. ASSUME FinishCompile(u) PROVE FALSE
  <2>1. PICK w \in Session :
           ws' = [ws EXCEPT ![u] = w] /\ w.input = job[u].df /\ w.analysis = Computed(u)
    BY <1>6, FinishFields
  <2>2. ws'[u] = w
    BY <2>1 DEF IInv, Shape
  <2> QED BY <1>1, <2>1, <2>2 DEF StaleIn, Computed
<1>7. ASSUME Clear(u) PROVE FALSE
  <2>1. ws'[u] = Cleared(u) /\ ws[u] \in Session
    BY <1>7 DEF Clear, IInv, Shape
  <2> QED BY <1>1, <2>1 DEF StaleIn, Cleared, Session
<1>8. ASSUME NEW r \in Result, LoadApproved(u, r) PROVE FALSE
  <2>1. ws'[u].loaded = r
    BY <1>8 DEF LoadApproved, IInv, Shape, Session
  <2> QED BY <2>1, WorkspaceAssumption DEF WorkspaceAssumption
<1>9. ASSUME Register(u) \/ \E r \in Result : Correct(u, r) PROVE FALSE
  <2>1. ws'[u] = [ws[u] EXCEPT !.last = Active(u)] /\ ws[u] \in Session
    BY <1>9 DEF Register, Correct, IInv, Shape
  <2> QED BY <1>1, <2>1 DEF StaleIn, Session
<1>10. CASE ws'[u] = Empty
  BY <1>1, <1>10 DEF StaleIn, Empty
<1>11. ASSUME NEW v \in Users, v # u, NEW w, ws' = [ws EXCEPT ![v] = w] PROVE FALSE
  BY <1>2, <1>11 DEF IInv, Shape
<1>12. ASSUME NEW v \in Users, NEW w \in Session, NEW d, NEW c, Compile(v, w, d, c), v # u
       PROVE  FALSE
  BY <1>11, <1>12 DEF Compile
<1>13. ASSUME NEW v \in Users, v # u,
              \/ \E d \in Inputs : IngestEarlyReturn(v, d) \/ \E c \in Cfgs : Ingest(v, d, c)
              \/ \E c \in Cfgs : Recompile(v, c)
       PROVE  FALSE
  BY <1>11, <1>12, <1>13, UploadedFields, OneState DEF IngestEarlyReturn, Ingest, Recompile
<1>14. ASSUME NEW v \in Users, v # u, FinishCompile(v) \/ Clear(v) \/ NewSession(v)
       PROVE  FALSE
  BY <1>11, <1>14 DEF FinishCompile, Clear, NewSession
<1>15. ASSUME NEW v \in Users, v # u, NEW r \in Result,
              LoadApproved(v, r) \/ Correct(v, r) \/ Register(v)
       PROVE  FALSE
  BY <1>2, <1>15 DEF LoadApproved, Correct, Register, IInv, Shape
<1>16. ASSUME NEW v \in Users,
              StoreResult(v) \/ Interrupt(v) \/ Approve(v) \/ RegisterProjection(v)
       PROVE  FALSE
  BY <1>2, <1>16 DEF StoreResult, Interrupt, Approve, RegisterProjection
<1>17. ASSUME NewSession(u) \/ Restart PROVE FALSE
  <2>1. ws'[u] = Empty
    BY <1>17 DEF NewSession, Restart, IInv, Shape
  <2> QED BY <1>10, <2>1
<1>18. ws[u] \in Session /\ \E r \in Result : TRUE
  <2>1. ws'[u] \in Session
    BY InvariantHolds DEF IInv, Shape
  <2>2. ws'[u].analysis \in Result
    BY <1>1, <2>1 DEF StaleIn, Session, MaybeNone
  <2> QED BY <2>2 DEF IInv, Shape
<1> QED
  BY <1>2, <1>3, <1>4, <1>5, <1>6, <1>7, <1>8, <1>9, <1>13, <1>14, <1>15, <1>16, <1>17,
     <1>18 DEF Next, vars

\* Where a workbook has one worksheet, a session comes to show another collection's
\* figures as its own only by a cache hit: on an entry a detour left, or after a detour
\* of its own (compile_and_store of pages/common.py).
THEOREM StaleNeedsTheCache == ASSUME OneSheetPerFile PROVE Spec => StaleFromCache
<1>1. IInv /\ [Next]_vars =>
        [\A u \in Users : Stale(u)' =>
           \/ Stale(u) \/ ws'[u].loaded # None
           \/ Detoured(u) \/ \E k \in Keys : Poisoned(k)]_vars
  BY StaleStep
<1> QED BY <1>1, InvariantStarts, InvariantHolds, PTL DEF Spec, StaleFromCache
=================================================================================
