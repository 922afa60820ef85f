-------------------------------- MODULE Connector --------------------------------
(***************************************************************************)
(* BaseConnector.fetch (pricelab/data/connectors/base.py) for one query,   *)
(* called from the Sources page by several browser sessions over one       *)
(* process-wide cache, against an agency that publishes new versions, is   *)
(* slow, throttles, fails and changes its schema.                          *)
(*                                                                         *)
(* The page opens a unit of work around fetch: the audit event fetch       *)
(* records is committed if fetch returns and rolled back if it raises.     *)
(***************************************************************************)
EXTENDS Naturals

CONSTANTS Tabs,         \* browser sessions
          MaxRetries,   \* retries after the first attempt
          MaxVersion,   \* bound: versions the agency publishes
          MaxCalls,     \* bound: calls of fetch
          None

VARIABLES published,   \* the agency's current version
          fresh,       \* cache entry that expires
          lastGood,    \* cache entry without a lifetime
          call,        \* each session's call of fetch
          shown,       \* st.session_state["source_result"]
          calls,       \* calls of fetch that ended
          events       \* committed audit events: call number, outcome, version

vars == <<published, fresh, lastGood, call, shown, calls, events>>

Versions == 1..MaxVersion

Init ==
  /\ published = 1
  /\ fresh = None /\ lastGood = None
  /\ call = [t \in Tabs |-> None]
  /\ shown = [t \in Tabs |-> None]
  /\ calls = 0
  /\ events = {}

\* fetch returns a result: the page's unit of work commits its event.
Outcome(how) == IF how = "stale" THEN "failure" ELSE "success"
Return_SilentHit(t, how, version) ==   \* mutant: a cache hit is not audited
  /\ shown' = [shown EXCEPT ![t] = [how |-> how, version |-> version, call |-> calls]]
  /\ events' = events \cup {[call |-> calls, outcome |-> Outcome(h), version |-> version] :
                              h \in {how} \ {"cached"}}
  /\ calls' = calls + 1
Return(t, how, version) ==
  /\ shown' = [shown EXCEPT ![t] = [how |-> how, version |-> version, call |-> calls]]
  /\ events' = events \cup {[call |-> calls, outcome |-> Outcome(how), version |-> version]}
  /\ calls' = calls + 1

\* fetch raises: the unit of work is rolled back, its event with it.
Raise(t) ==
  /\ shown' = [shown EXCEPT ![t] = None]
  /\ calls' = calls + 1
  /\ UNCHANGED events

-----------------------------------------------------------------------------
Hit(t) ==
  /\ call[t] = None /\ calls < MaxCalls
  /\ fresh # None
  /\ Return(t, "cached", fresh)
  /\ UNCHANGED <<published, fresh, lastGood, call>>

Miss(t, allowStale) ==
  /\ call[t] = None /\ calls < MaxCalls
  /\ fresh = None
  /\ call' = [call EXCEPT ![t] = [attempt |-> 0, allowStale |-> allowStale, got |-> None]]
  /\ UNCHANGED <<published, fresh, lastGood, shown, calls, events>>

Asking(t) == call[t] # None /\ call[t].got = None

\* A response that decodes, validates and parses.
Answer(t) ==
  /\ Asking(t)
  /\ call' = [call EXCEPT ![t].got = published]
  /\ UNCHANGED <<published, fresh, lastGood, shown, calls, events>>

\* A timeout or a 429: the attempt is repeated after a delay while any is left.
MayRetry_Always(t) == TRUE   \* mutant: the attempts are not counted
MayRetry(t) == call[t].attempt < MaxRetries
Retry(t) ==
  /\ Asking(t) /\ MayRetry(t)
  /\ call' = [call EXCEPT ![t].attempt = (@ + 1) % (MaxRetries + 1)]
  /\ UNCHANGED <<published, fresh, lastGood, shown, calls, events>>

\* The last attempt timed out or was throttled, or any attempt met another
\* error: the last good response is served if there is one and it may be.
Fail(t) ==
  /\ Asking(t)
  /\ IF call[t].allowStale /\ lastGood # None
     THEN Return(t, "stale", lastGood)
     ELSE Raise(t)
  /\ call' = [call EXCEPT ![t] = None]
  /\ UNCHANGED <<published, fresh, lastGood>>

\* An exception that is no ConnectorError (a parser's KeyError): the script ends
\* with a traceback, and the page keeps the result it held.
Escape(t) ==
  /\ Asking(t)
  /\ call' = [call EXCEPT ![t] = None]
  /\ calls' = calls + 1
  /\ UNCHANGED <<published, fresh, lastGood, shown, events>>

Keep(t) ==
  /\ call[t] # None /\ ~Asking(t)
  /\ fresh' = call[t].got /\ lastGood' = call[t].got
  /\ Return(t, "live", call[t].got)
  /\ call' = [call EXCEPT ![t] = None]
  /\ UNCHANGED published

-----------------------------------------------------------------------------
Publish ==
  /\ published < MaxVersion
  /\ published' = published + 1
  /\ UNCHANGED <<fresh, lastGood, call, shown, calls, events>>

Expire ==
  /\ fresh # None
  /\ fresh' = None
  /\ UNCHANGED <<published, lastGood, call, shown, calls, events>>

\* Other queries fill the cache and push this one's entries out.
Evict ==
  /\ \/ fresh' = None /\ UNCHANGED lastGood
     \/ lastGood' = None /\ UNCHANGED fresh
  /\ UNCHANGED <<published, call, shown, calls, events>>

Respond(t) == Answer(t) \/ Retry(t) \/ Fail(t) \/ Escape(t) \/ Keep(t)
Next ==
  \/ \E t \in Tabs : \/ Hit(t) \/ \E allow \in BOOLEAN : Miss(t, allow)
                     \/ Answer(t) \/ Retry(t) \/ Fail(t) \/ Escape(t) \/ Keep(t)
  \/ Publish \/ Expire \/ Evict

\* Every GET has a timeout and every delay is finite: a call that is under way
\* takes its next step.
Fairness == \A t \in Tabs : WF_vars(Respond(t))

Spec == Init /\ [][Next]_vars /\ Fairness

-----------------------------------------------------------------------------
\* Whatever the agency does, a call of fetch ends: retries are bounded.
CallEnds == \A t \in Tabs : call[t] # None ~> call[t] = None

\* Every figure on a screen can be traced, cache hits included: the event of the
\* call that brought it is committed, with its version, and marked a failure
\* exactly if the figure is marked stale.
FiguresTraced ==
  \A t \in Tabs : shown[t] # None =>
    [call |-> shown[t].call, outcome |-> Outcome(shown[t].how), version |-> shown[t].version]
      \in events

\* "audit_session gets an event for every call" (docstring of fetch).
EveryCallAudited == \A n \in 0..(calls - 1) : \E e \in events : e.call = n
===================================================================================
