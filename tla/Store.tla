---------------------------------- MODULE Store ----------------------------------
(***************************************************************************)
(* The Parquet store (pricelab/data/store.py) for one content hash, under  *)
(* concurrent uploads and compilations.  Every write is Path.write_bytes:  *)
(* the file is truncated when it is opened, and whole only when the write  *)
(* has ended.  A process crash or an I/O error may come in between.        *)
(***************************************************************************)
EXTENDS Naturals

CONSTANTS Sessions,
          Configs,     \* configurations the data is compiled with
          MaxUploads,  \* bound: uploads of the content
          MaxFailures, \* bound: crashes and I/O errors
          Torn,        \* content of a file opened and not yet written
          None

VARIABLES raw,       \* raw/<hash>.parquet: None, Torn or "whole"
          sidecar,   \* raw/<hash>.vintage.json: Torn or the receipts in it
          cleaned,   \* cleaned/<hash>.parquet: the configuration it came from
          log,       \* cleaned/<hash>.log.json: the configuration it names
          cache,     \* configurations whose analysis the process has cached
          loaded,    \* sessions whose "data_vintage_hash" is this content
          job,       \* what each session's script run is about to do
          acked,     \* receipts whose DATA_LOAD event is committed
          uploads, failures,
          raced,     \* history: files two sessions were writing at a time
          broken     \* history: files a write of which was cut short

vars == <<raw, sidecar, cleaned, log, cache, loaded, job, acked, uploads, failures,
          raced, broken>>

Init ==
  /\ raw = None /\ sidecar = {} /\ cleaned = None /\ log = None
  /\ cache = {} /\ loaded = {} /\ acked = {}
  /\ job = [u \in Sessions |-> None]
  /\ uploads = 0 /\ failures = 0
  /\ raced = {} /\ broken = {}

\* The files a step belongs to, and the step that follows.
At(u, step) == job[u] # None /\ job[u].step = step
Goto(u, step) == job' = [job EXCEPT ![u] = [@ EXCEPT !.step = step]]
Stop(u) == job' = [job EXCEPT ![u] = None]
Steps(file) ==
  CASE file = "raw" -> {"rawOpen", "rawWrite"}
    [] file = "sidecar" -> {"sidecarOpen", "sidecarWrite"}
    [] file = "layer" -> {"cleanOpen", "cleanWrite", "logOpen", "logWrite"}
Busy(file) == {u \in Sessions : job[u] # None /\ job[u].step \in Steps(file)}
Enter(u, file) == raced' = raced \cup {f \in {file} : Busy(f) \ {u} # {}}

-----------------------------------------------------------------------------
\* record_upload.  A raw layer that is there already is read back and kept; one
\* that cannot be read raises, and so does a sidecar that is not JSON.
StartUpload(u) ==
  /\ job[u] = None /\ u \notin loaded /\ uploads < MaxUploads
  /\ uploads' = uploads + 1
  /\ \/ /\ raw = None
        /\ job' = [job EXCEPT ![u] = [step |-> "rawOpen", receipt |-> uploads, read |-> {}]]
        /\ Enter(u, "raw")
     \/ /\ raw = "whole"
        /\ job' = [job EXCEPT ![u] = [step |-> "sidecarRead", receipt |-> uploads, read |-> {}]]
        /\ UNCHANGED raced
     \/ /\ raw = Torn
        /\ UNCHANGED <<job, raced>>
  /\ UNCHANGED <<raw, sidecar, cleaned, log, cache, loaded, acked, failures, broken>>

RawOpen(u) ==
  /\ At(u, "rawOpen")
  /\ raw' = Torn /\ Goto(u, "rawWrite")
  /\ UNCHANGED <<sidecar, cleaned, log, cache, loaded, acked, uploads, failures, raced, broken>>

RawWrite(u) ==
  /\ At(u, "rawWrite")
  /\ raw' = "whole" /\ Goto(u, "sidecarRead")
  /\ UNCHANGED <<sidecar, cleaned, log, cache, loaded, acked, uploads, failures, raced, broken>>

SidecarRead(u) ==
  /\ At(u, "sidecarRead")
  /\ IF sidecar = Torn
     THEN Stop(u) /\ UNCHANGED raced
     ELSE /\ job' = [job EXCEPT ![u] = [@ EXCEPT !.step = "sidecarOpen", !.read = sidecar]]
          /\ Enter(u, "sidecar")
  /\ UNCHANGED <<raw, sidecar, cleaned, log, cache, loaded, acked, uploads, failures, broken>>

SidecarOpen(u) ==
  /\ At(u, "sidecarOpen")
  /\ sidecar' = Torn /\ Goto(u, "sidecarWrite")
  /\ UNCHANGED <<raw, cleaned, log, cache, loaded, acked, uploads, failures, raced, broken>>

SidecarWrite(u) ==
  /\ At(u, "sidecarWrite")
  /\ sidecar' = job[u].read \cup {job[u].receipt} /\ Goto(u, "event")
  /\ UNCHANGED <<raw, cleaned, log, cache, loaded, acked, uploads, failures, raced, broken>>

Acknowledge(u) ==
  /\ At(u, "event")
  /\ acked' = acked \cup {job[u].receipt}
  /\ loaded' = loaded \cup {u}
  /\ Stop(u)
  /\ UNCHANGED <<raw, sidecar, cleaned, log, cache, uploads, failures, raced, broken>>

-----------------------------------------------------------------------------
\* A compilation that misses the cache: the analysis is cached first, then the
\* cleaned layer and its log are written, under the hash of the raw data alone.
Compile(u, c) ==
  /\ job[u] = None /\ u \in loaded /\ c \notin cache
  /\ cache' = cache \cup {c}
  /\ job' = [job EXCEPT ![u] = [step |-> "cleanOpen", config |-> c]]
  /\ Enter(u, "layer")
  /\ UNCHANGED <<raw, sidecar, cleaned, log, loaded, acked, uploads, failures, broken>>

CleanOpen_Once(u) ==   \* mutant: a cleaned layer that exists is kept, like a raw one
  /\ At(u, "cleanOpen")
  /\ IF cleaned = None THEN cleaned' = Torn /\ Goto(u, "cleanWrite")
                       ELSE Goto(u, "logOpen") /\ UNCHANGED cleaned
  /\ UNCHANGED <<raw, sidecar, log, cache, loaded, acked, uploads, failures, raced, broken>>
CleanOpen(u) ==
  /\ At(u, "cleanOpen")
  /\ cleaned' = Torn /\ Goto(u, "cleanWrite")
  /\ UNCHANGED <<raw, sidecar, log, cache, loaded, acked, uploads, failures, raced, broken>>

CleanWrite(u) ==
  /\ At(u, "cleanWrite")
  /\ cleaned' = job[u].config /\ Goto(u, "logOpen")
  /\ UNCHANGED <<raw, sidecar, log, cache, loaded, acked, uploads, failures, raced, broken>>

LogOpen(u) ==
  /\ At(u, "logOpen")
  /\ log' = Torn /\ Goto(u, "logWrite")
  /\ UNCHANGED <<raw, sidecar, cleaned, cache, loaded, acked, uploads, failures, raced, broken>>

LogWrite(u) ==
  /\ At(u, "logWrite")
  /\ log' = job[u].config /\ Stop(u)
  /\ UNCHANGED <<raw, sidecar, cleaned, cache, loaded, acked, uploads, failures, raced, broken>>

-----------------------------------------------------------------------------
Reload(u) ==
  /\ job[u] = None /\ u \in loaded
  /\ loaded' = loaded \ {u}
  /\ UNCHANGED <<raw, sidecar, cleaned, log, cache, job, acked, uploads, failures, raced, broken>>

\* A file operation raises: the script run ends, the cache keeps its entry.
WriteFails(u) ==
  /\ failures < MaxFailures
  /\ \E f \in {"raw", "sidecar", "layer"} :
       u \in Busy(f) /\ broken' = broken \cup {f}
  /\ Stop(u) /\ failures' = failures + 1
  /\ UNCHANGED <<raw, sidecar, cleaned, log, cache, loaded, acked, uploads, raced>>

\* The process dies and is started again.
Crash ==
  /\ failures < MaxFailures
  /\ broken' = broken \cup {f \in {"raw", "sidecar", "layer"} : Busy(f) # {}}
  /\ job' = [u \in Sessions |-> None]
  /\ cache' = {} /\ loaded' = {}
  /\ failures' = failures + 1
  /\ UNCHANGED <<raw, sidecar, cleaned, log, acked, uploads, raced>>

Next ==
  \/ \E u \in Sessions :
       \/ StartUpload(u) \/ RawOpen(u) \/ RawWrite(u)
       \/ SidecarRead(u) \/ SidecarOpen(u) \/ SidecarWrite(u) \/ Acknowledge(u)
       \/ \E c \in Configs : Compile(u, c)
       \/ CleanOpen(u) \/ CleanWrite(u) \/ LogOpen(u) \/ LogWrite(u)
       \/ Reload(u) \/ WriteFails(u)
  \/ Crash

Spec == Init /\ [][Next]_vars

-----------------------------------------------------------------------------
\* "The raw layer must never be overwritten": once an upload is acknowledged,
\* its raw file stays whole through re-uploads, failures and crashes.  The one
\* way to lose it is two first uploads of the content at a time.
RawKept == acked # {} => raw = "whole" \/ "raw" \in raced

\* "Re-uploading the same file tomorrow adds a receipt rather than losing
\* today's": only overlapping uploads, or a write cut short, lose a receipt.
ReceiptsKept ==
  \/ sidecar # Torn /\ acked \subseteq sidecar
  \/ Busy("sidecar") # {}
  \/ "sidecar" \in raced \cup broken

\* The log names the configuration the cleaned layer was made with, whatever
\* sequence of compilations wrote them, unless two overlapped or one was cut.
LogExplains ==
  cleaned = log \/ Busy("layer") # {} \/ "layer" \in raced \cup broken
===================================================================================
