--------------------------------- MODULE Limiter ---------------------------------
(***************************************************************************)
(* SlidingWindowLimiter (pricelab/core/ratelimit.py) and the Ingest page   *)
(* that consults it: one allowance per signed-in user, shared by all of    *)
(* the user's browser sessions, one event per distinct upload.  acquire    *)
(* and wait_time hold the lock, so each is one step.                       *)
(***************************************************************************)
EXTENDS Integers, Sequences, FiniteSets

CONSTANTS Tabs,      \* browser sessions of one user: one key of the limiter
          Files,     \* uploads, told apart by name and size
          Limit,     \* events per window
          Window,    \* in ticks of the clock
          MaxTime,   \* bound: ticks in a behaviour
          None

VARIABLES clock,     \* time.monotonic
          events,    \* the deque of the user's key
          counted,   \* each session's "counted_upload"
          granted,   \* history: when each upload was accepted
          refusal    \* the last refusal: when, and the wait it announced

vars == <<clock, events, counted, granted, refusal>>

Init ==
  /\ clock = 0
  /\ events = <<>> /\ granted = <<>>
  /\ counted = [t \in Tabs |-> None]
  /\ refusal = None

\* _prune: the oldest events are popped while they are a window old.
Old_Strict(t) == clock - t > Window   \* mutant: an event expires one tick late
Old(t) == clock - t >= Window
Expired(s) == CHOOSE n \in 0..Len(s) :
                /\ \A i \in 1..n : Old(s[i])
                /\ n < Len(s) => ~Old(s[n + 1])
Prune(s) == SubSeq(s, Expired(s) + 1, Len(s))

Wait(s) == Window - (clock - s[1])

Full(s) == Len(s) >= Limit

Acquire(t, f) ==
  /\ counted[t] # f
  /\ ~Full(Prune(events))
  /\ events' = Append(Prune(events), clock)
  /\ granted' = Append(granted, clock)
  /\ counted' = [counted EXCEPT ![t] = f]
  /\ UNCHANGED <<clock, refusal>>

\* RateLimited: nothing is recorded; the next upload of the tab counts anew.
Refuse(t, f) ==
  /\ counted[t] # f
  /\ Full(Prune(events))
  /\ events' = Prune(events)
  /\ refusal' = [at |-> clock, wait |-> Wait(Prune(events))]
  /\ UNCHANGED <<clock, counted, granted>>

\* A reload of the browser forgets which upload was counted.
Reload(t) ==
  /\ counted' = [counted EXCEPT ![t] = None]
  /\ UNCHANGED <<clock, events, granted, refusal>>

Tick ==
  /\ clock < MaxTime
  /\ clock' = clock + 1
  /\ UNCHANGED <<events, counted, granted, refusal>>

Next ==
  \/ \E t \in Tabs : Reload(t) \/ \E f \in Files : Acquire(t, f) \/ Refuse(t, f)
  \/ Tick

Spec == Init /\ [][Next]_vars

-----------------------------------------------------------------------------

InWindow(time) ==
  Cardinality({i \in DOMAIN granted : /\ granted[i] <= refusal.at
                                      /\ time - granted[i] < Window})

\* "At most limit events per window_seconds", and no fewer: whatever the
\* interleaving of the user's sessions, limit + 1 accepted uploads span at least
\* a window; and the wait a refusal announces is exact: one tick earlier the
\* accepted uploads still fill a window, and when it is over they no longer do.
WindowIsExact ==
  /\ \A i \in DOMAIN granted :
       i + Limit \in DOMAIN granted => granted[i + Limit] - granted[i] >= Window
  /\ refusal # None =>
       LET free == refusal.at + refusal.wait
       IN /\ refusal.wait > 0
          /\ InWindow(free) < Limit
          /\ InWindow(free - 1) >= Limit
===================================================================================
