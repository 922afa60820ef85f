# Verification of PriceLab

TLA+ models of PriceLab, a Streamlit application with which a statistics office
compiles consumer price indices, the TLC runs that check them, and theorems
about them that TLAPS proves. Everything is translated from the Python source;
`PROJECT.json` ("map") names the lines each definition stands for.

## 1. The system

Streamlit runs one script (`app.py`) per browser interaction. Every browser tab
is a *session* with its own `st.session_state` and its own thread; all sessions
of a process share one SQL database (SQLite by default, PostgreSQL under
`docker-compose.yml`), one in-memory analysis cache and one data directory.

| Component | Where | State | Operations | What makes it correct |
|---|---|---|---|---|
| Audit log | `core/audit.py`, `core/db.py` | table `audit_events`, a hash chain | `record_event`, `verify_chain`, the unit of work around them | nothing recorded is lost or rewritten; the chain breaks only where two units of work raced; an outside edit is located |
| Run registry | `core/registry.py`, `pages/reports.py` | table `index_runs` | register, approve, correct, reproduce | approved runs are immutable; lineage leads through approved runs; the log tells the truth |
| Revision vintages | `core/registry.py:vintage_chain`, `engine/revision.py` | none (reads the registry) | the walk along the lineage, the triangle, its measures | terminates, loses no vintage; revisions add up |
| Session workspace and analysis cache | `pages/common.py`, `pages/ingest.py`, `pages/outliers.py`, `core/cache.py` | `st.session_state`, the LRU cache | ingest, recompile, clear, load an approved run, register | the figures shown, exported and registered belong to the data and the method they are shown with |
| Approval ledgers | `core/ledger.py`, `pages/quality_adjustment.py`, `pages/outliers.py` | two tables keyed by content hash | approve, withdraw, decide, re-apply | one live decision per quote; what is applied was approved |
| Sign-in and sessions | `app.py`, `core/security.py` | user and session tables, the token in the tab | sign in, resolve a token, open a page, sign out | everybody who is let in is current, under the role of the moment |
| Upload rate limit | `core/ratelimit.py` | a sliding window per user | acquire, announce the wait | no more than the limit in any window; the wait is exact |
| Validation and overrides | `data/validation.py`, `data/upload.py`, `pages/ingest.py` | table `validation_overrides` | assess, decide, compile | only a decision opens the gate |
| Raw and cleaned store | `data/store.py` | parquet files and a table of uploads | write layers, replay, record an upload | a cleaned layer can be rebuilt from the raw one and its log |
| Backup and restore | `core/backup.py` | an archive, the data directory | backup, verify, restore | a restore yields what was backed up or leaves what was there |
| Connectors | `data/connectors/*` | a cache file and an audit row per fetch | fetch with retries and back-off | bounded attempts, stale answers are marked |
| Forecasts, scenarios, projections | `engine/forecasting.py`, `scenarios.py`, `projection.py`, their pages, `core/registry.py` | held projections, table `projection_runs` | fit, backtest, export, register, reproduce | a registered projection can be made again; a backtest sees the past only |
| Index engine | `engine/*`, `pricelab/__init__.py` | none: pure functions of data and configuration | clean, screen, impute, index, aggregate, splice, season, multilateral, housing, deflate... | the identities of index theory |
| Configuration and classification | `core/config.py`, `data/classification.py` | saved files | validate, migrate, build the tree | a saved configuration means what it meant |
| Reporting | `reporting/*` | none | Excel, Word, slides, SDMX, bulletin | what is printed carries the stamp of the run it came from |

**How they interact.** Ingest reads a file, asks the ledgers for the approvals
recorded against the file's content hash, compiles through the cache and puts
the analysis in `st.session_state`; every other page reads it from there.
Reports registers, approves and corrects runs from what `st.session_state`
holds, and after each commit records an audit event in a *second* unit of work.
Outliers and Quality adjustment write to a ledger and recompile. Forecasting and
Scenarios register projections, and the run they were made from, in one unit of
work.

**What is hard.** SQL statements of different sessions interleave; handlers read
a row, compute, and write it back; every handler has at least two commits with a
crash possible in between; `st.session_state` keys are set and reset by
different pages; the cache is shared and keyed by part of what determines its
content; external services fail, throttle and answer late. In the engine it is
the data: gaps, items that come and go, zero weights, series that do not overlap.

## 2. The modules

State machines:

* **AuditTrail** - the abstract promise: numbered events of which none is lost or
  rewritten; a commit adds the events of its unit of work, after all earlier ones.
* **AuditLog** - `record_event` and `session_scope`, one action per SQL
  statement: `Open`, `WriteOther`, `ReadLast`, `Insert`, `Commit`, `Rollback`.
  `rows` is the table, `pending[s]` what session s has flushed but not
  committed, `writer` SQLite's write lock, which a SELECT neither takes nor waits
  for. A unit of work either only records, as `record` of `pages/common.py` does for
  nearly every page, or writes other rows first (`Open` chooses); only the second
  kind holds the lock when it reads the last hash. `crossed` remembers the sessions
  which another unit's commit came upon between the two statements of
  `record_event`, `overtaken` the rows they inserted. A row's hash is modelled as
  the sequence of everything hashed into it, i.e. SHA-256 has no collisions.
* **AuditTamper** - AuditLog with edits and deletions made from outside.
* **Registry** - the index_runs table under concurrent Register, Approve and
  Register-correction handlers. A run identifier is the hash of data and
  configuration, so a run *is* its content. SELECTs are steps of their own
  (`RegisterLookup`, `CorrectRead`, `CorrectLookup`); a flush and its commit are
  one step. `Column` is SQLAlchemy's dirty tracking: only columns whose value
  differs from the loaded one are written.
* **Vintages** - `vintage_chain` and the columns of `revision_triangle`, evaluated
  on every registry state. Each loop of `vintage_chain` is a function of the number
  of its turns, which the number of runs bounds: a turn adds a run not yet seen.
* **Workspace** - `st.session_state`, the cache and the registry's headline. A
  pipeline result is identified with what it was computed from (a collection and
  a configuration), so "the wrong figure" is a result whose origin is not the
  data beside it. `job[u]` is the compilation a script run is computing. Its result
  enters the cache first (`StoreResult`) and the screen later (`FinishCompile`): in
  between the audit record or the write of the cleaned layer may fail, or the user
  navigate away (`Interrupt`), which leaves an analysis cached that nobody has seen.
  `Capacity` is the cache's size; the least recently
  used entry is *any* entry.
* **Ledger** - the tables of quality adjustments and outlier decisions, with the
  content hash, the screen and the configuration of each session (`sess`) and
  its handler between two statements (`tx`). The validator of
  `QualityAdjustmentConfig` is `OneToOne`/`CanAdd`; it sees a session's own
  configuration when a valuation is approved and the table at the next upload.
* **Limiter** - the sliding window of uploads of one user, whose browser tabs
  share it, against a clock.
* **Connector** - `BaseConnector.fetch` for one query: retries, the entry that
  expires, the last good response, the page's unit of work. The agency may
  answer, throttle, time out, fail or change at every attempt.
* **Store** - the raw layer, the receipts beside it, the cleaned layer and its
  log, for one uploaded content. Opening a file for writing truncates it and is
  a step of its own, so a crash or an I/O error leaves it torn.
* **Backup** - backup, verification and restore, one step per file operation,
  while the application registers runs or the administrator kills the script.
* **SignIn** - the token in a tab, its row with the moment it was last seen, the
  account whose role is read again at every script run (`Resolve`) before a page
  is drawn (`Page`), sign-out, and an administrator who changes roles and removes
  users meanwhile. `handed` remembers the tabs in which a sign-in ended.
* **Gate** - the critical findings of a collection in the order the two checkers
  raise them, the decisions recorded per content hash and dimension, the forms a
  blocked page draws, and the second validation of the pipeline behind it.
* **ProjectionDesk** - the pages that make, hold, export and register
  projections, behind `compile_and_store` with its cache: an analysis is looked up
  under the tab's bytes, the configuration and the label, and a hit is shown as it
  is, whatever worksheet was read. A projection is identified with the analysis it
  was made from; `careless` remembers whether a tab ever showed another analysis
  than the run it registered last, or gave two analyses one title, and `mistaken`
  whether the cache ever gave a tab the analysis of other data than it had read.
* **Services** - one specification over the last seven and AuditTamper. They
  share no state, so `Init` chooses which of them moves and the states are the
  sum of theirs.

Pure functions of the engine:

| Module | Source | Data |
|---|---|---|
| **IndexSeries** | `engine/imputation.py`, `index.py` (Jevons) | log prices in units every mean divides |
| **Multilateral** | `engine/splicing.py`, `multilateral.py` | log prices; equal expenditures; TPD on at most three periods |
| **Aggregation**, **Headline**, **Decomposition** | `engine/aggregation.py`, `index.py` (`build_all`), `data/classification.py`, `engine/decomposition.py` | small integers and exact fractions |
| **Quality** | `engine/quality.py`, `outliers.py`, findings of `data/validation.py` | integers; powers of two for relatives |
| **Adjustments**, **Valuation** | `engine/quality_adjustment.py` and its page | ids; log prices |
| **Seasonal** | `engine/seasonal.py` | log prices; the filters of STL and X-13 are not modelled |
| **Formulae**, **Comparison** | `engine/bilateral.py`, `elementary.py`, `spatial.py`, `deflation.py` | powers of two; an index that is a root is given by its square |
| **Housing** | `engine/housing.py`, `asset.py` | powers of two |
| **Revisions** | `engine/revision.py` | integers |
| **Disclosure**, **Clause** | `core/security.py`, `engine/escalation.py` | integers, tenths of a percent |
| **Configuration** | `core/config.py`, the choice of formula in `engine/index.py` | the fields a validator reads |
| **Projections** | `engine/forecasting.py`, `scenarios.py`, `projection.py` | log levels; a stand-in extrapolates for the statistical models |
| **Pipeline** | `pricelab/__init__.py`, `engine/auto.py` | composes Quality, Adjustments, IndexSeries and Valuation in run_pipeline's order |

**Ratios** is exact arithmetic on fractions. **Algorithms** is one specification
over these modules: a behaviour calls one algorithm with one input after the other
out of the sets of **AlgorithmInputs** (`Choose`), and the properties are evaluated
on the step that returns (`Return`).

**AuditLog_proofs**, **Registry_proofs**, **Workspace_proofs**,
**Ledger_proofs**, **SignIn_proofs**, **ProjectionDesk_proofs**, **Services_proofs**
and **Algorithms_proofs** hold the theorems; **MCWorkspace** and **MCLedger** the
constants and symmetry sets of their runs.

Definitions named `X_Variant` are plausible wrong versions of `X`; nothing refers
to them. They are listed in `PROJECT.json` ("mutants"): with the variant in the
place of `X`, TLC finds the property beside it violated.

## 3. What is checked

| Run | Instance | Result |
|---|---|---|
| AuditLog | 3 sessions, 4 events, units of work of both kinds | The rows that do not follow are exactly those another unit's commit overtook between `record_event`'s SELECT and its INSERT (ForksNeedARace): no rollback, no second event of a unit and no unit that held the lock breaks the chain. Forked or not, the log implements AuditTrail (TrailSpec). Four events let two units of two events, or three of different sizes, interleave with every rollback. |
| AuditLogFork | 2 sessions, 2 events | **Violated.** Two pages that only record read the same last hash; `verify_chain` then accuses somebody of tampering. |
| RegistryAny | 2 sessions, 3 runs, vintages to 3, corrections may name registered content | Lineage leads through approved runs, no event claims what did not happen, `vintage_chain` terminates even on a circular lineage and loses no ancestor. Three runs are the shortest cycle with a tail. |
| RegistryFresh | 2 sessions, 4 runs, vintages to 4, corrections bring new content | Approved runs are immutable, vintages grow by one, the triangle holds the latest vintage and a column for every one. |
| RegistryCorrectExisting | as RegistryAny | **Violated.** A correction onto approved content rewrites that row. |
| Workspace | 2 sessions, 2 workbooks of one sheet, 1 configuration, cache of 2 | The screen is what the session says it is, also after a script run that failed between cache and screen; every wrong figure is traced to its cause (below). Capacity 2 with 3 keys evicts. |
| WorkspaceStamp | 1 session | **Violated.** Exports of a second compilation carry the first one's stamp. |
| WorkspaceSheets | 1 session, one workbook of 2 sheets | **Violated.** The second sheet shows the first one's figures. |
| Ledger | 2 sessions, 1 collection, replacements that clash on the old item, the new item or neither, 3 rows | Nothing is applied that was never approved; clashing rows appear only when a session approves under a configuration that lags behind the ledger; a second live decision only when two sessions raced. Three rows are what a clash left by a withdrawal needs. |
| Services | see below | see below |
| ConnectorAudit | 1 session, 2 calls | **Violated.** A fetch that raises rolls back the event it recorded. |
| Algorithms | see below | see below |

Symmetry is used in the configurations of Registry, Workspace and Ledger, with
safety properties only. `CHECK_DEADLOCK FALSE` stands where a bound (`MaxEvents`,
`MaxVintage`, `MaxRows`, `MaxCalls`, ...) really stops the model, or a session may
sit idle.

**Services.** The bounds of each part, and what it shows:

| Part | Bounds | Property |
|---|---|---|
| Limiter | 2 tabs, 2 files, 2 uploads per 3 ticks, 7 ticks: two full windows and a boundary | WindowIsExact: no window holds more than the limit, and the wait announced is exact |
| Connector | 2 sessions, 2 retries, 2 versions, 3 calls | FiguresTraced: what a fetch shows has its committed event; CallEnds: a call ends |
| Store | 2 configurations, 3 uploads, 1 failure: a third upload meets a raw layer another one is writing | StoreKept: raw layers, receipts and the log survive all but the races and cuts named |
| Backup | 2 contents, 2 interruptions | BackupIsComplete: no database without its raw layers, and a restore that succeeds leaves the backup and nothing else |
| AuditTamper | 3 events, 2 outside edits: an edit before, between and after two units that race | EditsLocated: while an outside edit is visible `verify_chain` answers no and names no row after the first one it damaged; it names nothing else but a row that another unit or an edit overtook while it was recorded |
| SignIn | 2 tabs, 2 users, 2 sign-ins, timeout 1, clock to 2: a session that ends before, at and after the timeout | AccessIsCurrent: all and only current users are let in, under the role of that moment; no token is in two tabs; there are no more session rows than sign-ins that have not ended |
| Gate | 2 tabs, 4 collections: two of one content, one with two findings of a dimension, one with empty columns only | DecisionsOpenTheGate |
| ProjectionDesk | 1 tab, 2 worksheets of one file, 1 configuration, a typed title and those of loaded runs, a cache of 1: a second worksheet that hits the first one's entry, and one that does not after an eviction | ProjectionsReproduce: unless `careless` or `mistaken`, a registered projection is rebuilt from its run and an exported one bears its own stamp; none is registered against a run that is missing |

**Fairness.** Only CallEnds is a liveness property. It assumes that a call of
`fetch` that is under way takes its next step (`WF` of `Respond`), which the code
justifies: every GET has a timeout and every delay between attempts is a finite
`time.sleep`. Nothing is assumed of the agency or of other sessions.

**Algorithms.** Every property is a conjunction over the inputs named.

| Property | Inputs | What it shows |
|---|---|---|
| ImputationIsTraceable | panels of 3 items and 3 periods over {missing, 0, 36}, one or two categories, every fill method; the same with a ledger and outlier decisions; one replacement among 3 items; 2 chains of replacements | a quote is flagged exactly when it was imputed; the period-by-period cascade ends where a fill anchored at the last observed price ends; a rejected quote counts as never collected, through every stage behind it; what is chosen automatically fills the gaps it can; the price change approved is the one recorded, on the cell it is in; the impact report leaves interactions only |
| SeriesHoldTogether | constant prices with every pattern of gaps; complete panels; two finished series of 3 periods that meet in 1 to 4 | items that come and go at constant prices move no index; chained and direct Jevons agree; a published series reads its base where its labels say; a join changes no movement |
| AggregatesAddUp | 3 columns at 2 periods; the tree R(P(a,b), Q(c)); classification files, flawed ones included; 2 components in 3 years | contributions add up exactly where nothing is missing, along a tree and to an annual rate; a root is the weighted mean of the columns it stands for; loading a file twice changes nothing; the tree moves no headline |
| SuppressionExact | tables of 4 rows in 1 or 2 groups, `MinCount` 2 | a hidden cell is not the total less the rest, and no more is hidden than that takes |
| ScreensAreFair | cells of 4 or 5 relatives; decisions on 4 items in 4 periods; slips in 5 quotes; gaps over 1 to 3 years; 2 rows of quantities; tables of characteristics | a screen has no direction and no currency; a decision reaches its quote and the next one only; a slip of the unit is undone; gaps are read from the systemic periods; every item left out is counted |
| RevisionsAddUp | 2 or 3 vintages of up to 3 periods, in any order; chains of 3 runs of which some lost a column | the steps add up to how far a figure has moved; the chain compares one series |
| LevelIsRecovered | sales of 4 properties in 3 or 4 periods; rents of 3 dwellings in 4; owner-occupied costs over 5 periods | each method recovers the level of a market in which only the level moves; repeat-sale pairs are accounted for and revise history only through loops; thin strata are hidden; rents follow as far as their chains hold |
| ProjectionsHoldUp | histories of 10 to 12 months, shocks of up to 3 drivers, 1 to 3 origins and horizons | shocks add up; the baseline repeats a pattern; a backtest sees only the past and its verdict follows the errors; an export states every assumption |
| PaymentsFollowIndex | 5 index readings, some missing, 3 payments, every clause form | every limited payment is announced; the price stays within trigger, cap and collar of the index |
| LinksLoseNothing | 2 ledger entries on 4 items | links neither lose nor duplicate a quote and depend on the order of approval only when chained |
| WindowsHoldTogether | 2 items in 4 periods, quoted, missing or unsold; 3 years of 4 seasons | a further period revises nothing published (except where the method says so); splices differ as the spread says; a season observed a year before shows the annual rate, and one seen once nothing |
| FormulaeReverse | 2 items at 2 periods with quantities; 3 products in 3 regions; series of months against deflators of another frequency; saved configurations of 3 versions | each formula behaves under time reversal as index theory says; updating a weight is the difference between Young and Lowe; base region and reference period are units; a saved configuration means what it meant and every category gets the formula it names |
| GapIsTheSeason | 3 items in 2 years of 2 seasons; every place X-13 may be | the treatments differ by the season alone, an item reappears in line, a fallback of the adjustment is announced exactly where demanding the engine fails |
| MiddleIsStable | changes of 3 components with weights and 4 trims; what a collection offers | the measures of the middle ignore the tails and are offered only where they can be computed |

Three periods are the shortest in which a fill feeds a fill and an item
disappears and returns; four items let two ledger entries share none, one or both
items; four periods let a window of two be extended twice. Two years of two
seasons are the shortest in which a season returns. The exact conditions (what
"published" or "a loop" is) stand with each property in its module.

**Causes of a wrong figure.** In Workspace a figure can be shown beside the
wrong data. The run does not claim it cannot; it shows the only way it happens.
`Detoured(u)`: Ingest stored the bytes of a new file and returned early (or
"Clear data" popped them), so the session's bytes are not those its collection
was read from. A later recompile caches the old collection's analysis under the
new file's key (PoisonedByDetour), the next upload of that file hits it
(StaleFromCache), and only such a session registers another run's headline
(MisreportedOnlyStale). ProjectionDesk does the same for projections: a registered one need not reproduce
after a tab was `careless`, or `mistaken` because the cache gave it the analysis of
another worksheet of the file (what WorkspaceSheets shows) or that of a detour.

### Behaviour described here and not claimed as a property

* **Registry.** A crash between the commit of an approval and the unit of work
  that records its event leaves an approval nobody logged (`Fail` in state
  "record"). Two sessions correcting the same approved run both become vintage
  n+1; the forward walk of `vintage_chain` shows one of them. TriangleComplete
  says what remains true: the walk does not stop early on the branch it takes.
* **Audit log.** Only SQLite is modelled. On PostgreSQL (`docker-compose.yml`) no
  unit of work holds a lock that makes another's SELECT wait, so units that write
  before they record race as well, and ids come from a sequence: the last by id need
  not be the last committed.
* **Ledgers.** Two live decisions made by a race reach a configuration through
  `model_copy`, which runs no validator, and `RunConfig.from_dict` refuses it when
  the run is reproduced. Clashing replacements make every later upload of that
  collection raise. A replacement of a replacement (B by C, approved after A by B)
  applies newest first only; in the order of approval `apply_adjustments` refuses
  it. Decisions are filed under the hash of the file last read, compiled or not.
  A session that compiled before a withdrawal applies the valuation again when it
  approves its next one. Two sessions that withdraw one row overwrite each
  other's name and reason.
* **Store.** Two overlapping uploads lose a receipt; a crash inside the sidecar
  write loses the earlier ones and makes later uploads of the content fail on the
  JSON; a raw file torn by a crash is kept, because it exists. The cleaned layer is
  keyed by the raw hash alone: after another configuration compiles, the replay
  check of the first run compares with the wrong layer, and a cache hit rewrites
  nothing. The analysis is cached before the layer is written, so a failed write is
  not tried again.
* **Backup.** A raw file that is being written is copied as it is. Damage between
  verification and copying is not detected. A run seeded by the demonstration has
  no raw file to back up.
* **Cache.** `BoundedCache` has no lock: an entry evicted between lookup and
  `move_to_end` raises in the reader. Other queries can push a connector's last
  good response out of the 64 entries.
* **Sign-in.** Sign-out and expiry remove the token but leave the analysis in the
  tab. The session rows of closed tabs are never removed, and the row of a removed
  user is still touched.
* **Gate.** `run_pipeline` validates again and builds no index for a structural
  finding, so accepting one of uniqueness, validity or consistency opens the gate
  and compiles nothing (docs/backlog.md:94-96 says otherwise). The analysis
  without an index replaces the session's, is cached and recorded as a
  calculation. Two findings of one dimension share a form key: the page raises at
  the second, and the first form's decision covers both. "Exclude", "correct" and
  "justify" do what "accept" does. The content hash leaves out column names, so one
  file mapped to weights, quantities or expenditures has one hash, one raw layer
  and shared overrides.
* **Projections.** `last_run_id` is never reset, so a projection made from
  analysis B is registered against run A (registry.py:417 says otherwise). A held
  projection is recognised by its title; under a reused title the old one is
  shown, exported with the new stamp and registered. Its key leaves out the data,
  so the first registration stays. Two shocks of one driver overwrite each other in
  `build_scenario`; a tree node offered for `coefficient_from_weights` has share 0.
  A gap in the headline raises a ForecastError the Scenarios page does not catch.
  Whether a series is seasonal is judged on all of it, the backtest window
  included. The fan need not contain the point.
* **Imputation and pipeline.** The docstring of `targeted_mean` says that a gap
  whose cell has no matched pairs is left; the code holds the level, and fills
  unless the whole cell is without a price. That of `class_mean` says that it
  compounds; it does so only over links without a matched pair. `auto_configure`
  announces that the gap of a whole category moves with its priced peers, of which
  there are none. A category without gaps gets the method "none", so a quote
  excluded later stays a hole. With the screen disabled recorded rejections have no
  effect. A failing multilateral stage is left out, a failing seasonal one aborts.
  The page's outlier scan runs on the data after the decisions, the pipeline's
  before them.
* **Data quality.** Where most of a quote's neighbours slipped, the right quote is
  repaired, and a movement of a factor near three is taken for a slip. A systemic
  gap in a single year reads as seasonal. `ratio_screen` ignores the dead band
  config.py promises, and its documentation of `hb_u` is not what the code does.
* **Classification and aggregation.** A code in two schemes takes the parent of
  the row read last; a parent that is no node counts as a root; one unknown
  category sets the tree aside; a category above another is counted once by the
  tree and twice by the flat aggregate. A category without a level keeps its weight
  in the denominator of `weighted_aggregate`, so the contributions do not sum to
  it. A column supplied at an inner node takes the place of its children, and
  without a weight they disappear unnamed. A category that starts late enters the
  equally weighted headline at the base value.
* **Formulae and configuration.** `formula_availability` looks at the whole panel
  while `build_index` refuses one category without quantities; Laspeyres may be
  three formulae across the categories of one run. A version-1 file that names
  reference periods is read again by `_migrate`. Index points are relative to the
  link under Jevons and differences under Carli and Dutot; the valuation page
  treats Dutot as Jevons and counts one item more than matched.
* **Multilateral.** Fixed-base splices republish the first window once the
  collection outgrows it. A period whose quotes all have zero quantity makes GEKS
  refuse the window. On a window its products do not connect the
  time-product dummy silently gets the solver's minimum-norm answer
  (multilateral.py:573); the model has no level there. `seasonal_multilateral`
  promises a comparison "against the same month a year earlier"
  (multilateral.py:1340-1341) and the difference "one year earlier" (1433-1434), but
  takes the last year in which the month was observed: after a gap of one year it
  shows the growth of two years as an annual rate. SeasonsKeepTheRate claims the
  rate only where the year before was observed. `rolling_year` compounds an annual rate each
  period. Seasons by day of year shift after February in leap years.
* **Seasonal.** `counter_seasonal` fills any gap after the first observation (its
  docstring says out of season only). The single treatment is unguarded while
  "both" is guarded. X13PATH set without the executable hides one on PATH.
* **Decomposition.** `TreeContributions` keeps a residual of 0 where it is unknown
  (`max(residual, nan)`); a component that leaves the basket leaves a residual;
  excluding a code that is itself a column keeps the leaves beneath it; a component
  without two consecutive observations counts as sticky; availability counts
  weights the measures refuse.
* **Housing.** SPAR's default base is the first period with an *appraised* sale.
  A rent stratum in which no dwelling is rented twice in succession loses its level
  for good and keeps its weight. The user cost jumps when the first expected gain
  appears after a year. `suppress_strata` counts a stratum without sales as small.
  Pairs depend on the file's order when a property sells twice in a period.
* **Comparison and revisions.** Spatial indices never withhold the base, nor a
  cluster of regions that shares one product with it. Real growth of a partial
  deflation compares across dropped periods. `vintages_from_registry` without a
  series may compare different headlines, and the note that no reference period is
  published twice is also given when a gap separates them.
* **Disclosure.** A small cell without a value counts as a second unknown, and a
  group whose remaining cells have no value raises (`idxmin`). The totals of
  parents in a tree are further totals, which the function does not look at.

## 4. What is proved

TLC checks the instances above; these hold for any number of sessions, runs,
events, files or users, from the named assumptions. Every invariant below is one
that is inductive; the property alone is not.

* **AuditLog_proofs.** No assumption on how sessions use the log: units of work that
  only record are included. `AuditTypes` and `ImplementsTrail` rest on `Base`: only the
  holder of the lock has flushed rows, with ids above every committed one, and one who
  was overtaken has not got the lock (`Locked`); the hash a session has read is still
  the last one of what it sees unless it was overtaken (`Read`); no two rows have one id
  or one stamp, the content a row was inserted with, which its hash ends in
  (`Numbered`). `BreaksAreRaces` adds `Exact`: in the committed rows and in what any
  session sees a row follows the one before it exactly if it was not overtaken; that
  needs an overtaken session's hash to be the last one no longer, which holds because
  the commit that came upon it added rows with other hashes. `TamperLocated` adds the
  edits from outside, which leave `Base` but not `Exact`. In its place is what survives
  them (`Accounted`): a row that was neither damaged nor overtaken follows, and a damaged
  one can never follow again (`Lost`), whatever is appended, altered or removed later.
* **Registry_proofs.** `RegistryTypes`, `LineageAlwaysSound`, `LogIsTruthful` and
  `ApprovalsPersist` hold for both values of `ReRegister`; `VintagesAlwaysGrow` and
  `ApprovedNeverChanges` assume `~ReRegister`. The invariant adds `OpenCorrection`:
  what an open correction has read about its original - registered, approved, of
  the vintage it is about to increment - still holds when it writes, although
  other sessions have committed in between. For `~ReRegister` it needs
  `NextVintage`: that vintage is one above its original's *current* one.
  `ApprovalsPersist` has no run of its own; where corrections bring new content
  ApprovedImmutable says more. `ChainIsWhole` and `TriangleIsComplete` are about the
  two loops of `vintage_chain`: a turn that adds nothing is the last to add
  anything, a turn that adds something adds a run not seen before, so after as many
  turns as there are runs (`IsFiniteSet(Runs)`) each loop has ended, and its chain
  is closed under the links it follows. The first holds of any lineage; the second
  needs the vintages to grow along it.
* **Workspace_proofs.** A cached analysis has its key's configuration; a screen is
  explained; a compilation under way has the key of the session's bytes and
  computes the collection they hold unless it is the session's own (`OwnJob`); the
  run registered last exists. `StaleNeedsTheCache` assumes `OneSheetPerFile`;
  WorkspaceSheets shows that it must.
* **Ledger_proofs.** No assumption on the constants. What is applied was approved
  also of the configuration an approval is about to apply. `ClashesNeedLag` and
  `DoublesNeedARace` compare the rows of two states: fewer rows stay one-to-one,
  so only the action that adds one can break it.
* **SignIn_proofs, ProjectionDesk_proofs** assume `Sound`: the constants are
  what their names say (a none that is nobody, a timeout that is a number).
  SignIn: a token has its row, two tabs have two tokens, and what a run may do
  is what its tab was told. ProjectionDesk: until `careless`, what a tab holds
  under the title it shows was made from what it shows; until `mistaken`, what it shows
  and did not load was made from its input.
* **Services_proofs.** A step of Services is a step of the component or leaves it
  alone, so the two theorems above and `TamperLocated` hold of the composition the
  run checks. Five components are proved in it directly. *Limiter* (`Allowance`: the limit is at
  least one): the deque is what was granted last, what it lacks is a window old,
  and the uploads a refusal was counted against still fill the window until its
  wait is over. *Connector* (no assumption): events are only added. *Backup*
  (`Told`: a missing file is neither torn nor whole, no database is no set of files):
  a restore runs beside no application, and what the snapshot refers to stays
  whole until it is copied. *Store* (`Distinct`: a missing file, a torn one and
  what files hold are different): who writes a file no two sessions have written
  at a time is alone in it; who is past the raw layer finds it whole; receipts
  acknowledged or about to be are in the sidecar, or in what its writer has read;
  the cleaned layer is that of the session about to write its log. *Gate*
  (`Described`: findings are finite lists): overrides were decided and outcomes
  follow from them; a blocked page has a form, that of the first finding that
  blocks.
* **Algorithms_proofs.** Four algorithms for every input, and from the first three the
  property of the run. *Disclosure* (`NothingIsDisclosed`; `Distinct`: a missing value is no
  number): a secondary cell is chosen among the rest of its own group and has a
  value, so what is hidden in a group is its small cells and at most that one.
  *Clause* (`PaymentsAreRight`; `IsClause` is what `__post_init__` lets through,
  escalation.py:76-92): a line of the schedule is right if the size held before it is a number,
  whatever number, so only the type of the state goes through the fold.
  *Adjustments* (`NothingIsLost`, `OrderMatters`; `IsEntry`: the page offers as the
  new item any but the old, src/pages/quality_adjustment.py:256; `Raised`: a call
  that raises returns no table): one price per item and period is not kept by itself.
  `Accounted` adds that every quote is still told apart by the item and period it
  was collected at, and that those in the table and those in the log are together
  the ones collected. The folds are those of the community modules, over a set of
  positions: `FoldExists` says that the function they choose exists, `FoldStays`
  that a fold that starts in a set and does not leave it in one step ends in it.
  *Aggregation* (`ContributionsAreExact`, `ContributionsAreComplete`): the change of
  the aggregate is what the stated contributions add up to less what the columns
  without a level at the end stood for at the start (`LeftOut`). The second theorem
  takes weights and levels that are not negative: with others two missing columns
  can cancel, and only aggregate_tree raises on a negative weight
  (aggregation.py:175). Sums are folds over a set in the order CHOOSE takes;
  `SumRemove` says that any member may be taken first, from which follow the sum of
  differences, the split of a sum and when one vanishes.

**Only model-checked.** The other algorithms of the engine: what their folds compute
is checked on the inputs of AlgorithmInputs. CallEnds is a liveness property, which
the prover does not reach. The induction theorems of the library take an operator as
a parameter, which it cannot instantiate; where a proof needs induction over a number
(the rows of a log, the turns of a loop, the steps of a fold) it takes the least
counterexample (`LeastNumber`).

## 5. Plan

Built: every module of section 2 and the theorems of section 4. What is left, in
order:

1. Theorems about the rest of the engine: the root of a tree in Aggregation (the fold
   of `aggregate_tree` over the sums), the chain of Revisions.
2. Reporting: which stamp each exporter prints, beside Workspace and
   ProjectionDesk.
3. The tree's tables in Disclosure: one cell under two totals.
4. Trade indices and the remaining formulae over several periods.

## 6. Not modelled

* What floating point decides: regressions (hedonic, weighted), the fits of the
  forecasting models, the filters of STL and X-13, the bootstrap, sensitivities and
  tests of significance. TLC has integers; the models stop at the call and take
  its outcome as a choice.
* Charts, documents and their layout, the narrative, logging, HTTP and file
  formats, the detection of columns by name, the formula parser and the escape of
  exported strings: conversions without state.
* Migrations of the schema, the demonstration data and the scripts that generate
  data: run once, by hand, outside the running system.
* Passwords and the script that creates accounts: SignIn takes changes of an
  account from outside.

`PROJECT.json` gives the reason beside each component.
