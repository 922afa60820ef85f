------------------------------ MODULE SignIn_proofs ------------------------------
(***************************************************************************)
(* Access is current for any number of tabs, users and sign-ins, and any   *)
(* timeout.                                                                *)
(***************************************************************************)
EXTENDS SignIn, FiniteSetTheorems, TLAPS

Spec == Init /\ [][Next]_vars

Tokens == 1..MaxLogins
SessionRow == [user : Users, seen : Nat]
TabState ==
  [token : Tokens \cup {None}, name : Users \cup {None}, role : Roles \cup {None},
   analysis : Users \cup {None}]
Verdict == [in : BOOLEAN, role : Roles \cup {None}, late : BOOLEAN]

\* The constants are what their names say, and None is none of them.
Sound ==
  /\ MaxTime \in Nat /\ MaxLogins \in Nat
  /\ Timeout \in Int
  /\ None \notin Users \cup Roles \cup Nat
  /\ None \notin SessionRow \cup Verdict

Shape ==
  /\ account \in [Users -> Roles \cup {None}]
  /\ sessions \in [Tokens -> SessionRow \cup {None}]
  /\ tab \in [Tabs -> TabState]
  /\ running \in [Tabs -> Users \cup {None}]
  /\ time \in Nat /\ issued \in Nat /\ closed \in Nat
  /\ began \in [Tabs -> Nat]
  /\ verdict \in [Tabs -> Verdict \cup {None}]

\* A tab's token has a row, of the tab's user, seen when the tab last began a run;
\* it was issued, and no other tab has it.
TokenHasRow ==
  \A t \in Tabs : tab[t].token # None =>
    /\ tab[t].token <= issued
    /\ tab[t].name # None
    /\ sessions[tab[t].token] # None
    /\ sessions[tab[t].token].user = tab[t].name
    /\ sessions[tab[t].token].seen = began[t]
TokensApart ==
  \A s, t \in Tabs : s # t => tab[s].token = None \/ tab[s].token # tab[t].token

\* A run past the check of app.py is that of the tab's user, under the role found.
RunIsOwn ==
  \A t \in Tabs : ~Idle(t) =>
    /\ tab[t].token # None
    /\ running[t] = tab[t].name
    /\ verdict[t] # None /\ tab[t].role = verdict[t].role

\* An analysis in a tab is of its user unless a sign-in ended in the tab since.
AnalysisIsOwn ==
  \A t \in Tabs :
    /\ tab[t].analysis # None /\ tab[t].token = None => t \in handed
    /\ tab[t].analysis \notin {None, tab[t].name} => t \in handed

Told ==
  \A t \in Tabs : verdict[t] # None =>
    (verdict[t].in <=> ~verdict[t].late /\ verdict[t].role # None)

Live == {k \in Tokens : sessions[k] # None}
LiveIsOpen ==
  /\ Live \subseteq 1..issued
  /\ Cardinality(Live) <= issued - closed

IInv ==
  /\ Shape /\ TokenHasRow /\ TokensApart /\ RunIsOwn /\ AnalysisIsOwn /\ Told /\ LiveIsOpen

LEMMA LiveIsFinite ==
  ASSUME Sound PROVE IsFiniteSet(Live) /\ Cardinality(Live) \in Nat
<1>1. IsFiniteSet(Tokens)
  BY FS_Interval DEF Sound, Tokens
<1> QED BY <1>1, FS_Subset, FS_CardinalityType DEF Live

LEMMA LoginStep ==
  ASSUME Sound, IInv, NEW t \in Tabs, NEW u \in Users, Login(t, u)
  PROVE  IInv'
<1> DEFINE row == [user |-> u, seen |-> time]
           k == issued + 1
<1>1. /\ k \in Tokens /\ issued' = k /\ row \in SessionRow
      /\ sessions' = [sessions EXCEPT ![k] = row]
      /\ tab[t].token = None /\ row # None
  BY DEF Login, Sound, IInv, Shape, Tokens, SessionRow
<1>2. /\ tab' \in [Tabs -> TabState]
      /\ tab'[t].token = k /\ tab'[t].name = u
      /\ tab'[t].analysis = tab[t].analysis
      /\ \A s \in Tabs \ {t} : tab'[s] = tab[s]
  BY <1>1 DEF Login, IInv, Shape, TabState
<1>3. Shape'
  BY <1>1, <1>2 DEF Login, IInv, Shape
<1>4. TokenHasRow'
  BY <1>1, <1>2 DEF Login, Sound, IInv, Shape, TokenHasRow, Tokens, TabState, SessionRow
<1>5. TokensApart'
  BY <1>1, <1>2 DEF IInv, Shape, TokenHasRow, TokensApart, Tokens, TabState
<1>6. RunIsOwn' /\ Told'
  BY <1>1, <1>2 DEF Login, IInv, Shape, RunIsOwn, Told, Idle
<1>7. AnalysisIsOwn'
  BY <1>1, <1>2 DEF Login, Sound, IInv, AnalysisIsOwn, Tokens
<1>8. LiveIsOpen'
  <2>1. Live' = Live \cup {k} /\ k \notin Live
    BY <1>1 DEF Live, IInv, Shape, LiveIsOpen
  <2>2. Cardinality(Live \cup {k}) = Cardinality(Live) + 1
    BY <2>1, LiveIsFinite, FS_AddElement
  <2>3. closed' = closed /\ issued \in Nat /\ closed \in Nat
    BY DEF Login, IInv, Shape
  <2> QED BY <1>1, <2>1, <2>2, <2>3, LiveIsFinite DEF IInv, LiveIsOpen
<1> QED BY <1>3, <1>4, <1>5, <1>6, <1>7, <1>8 DEF IInv

\* A row that goes, or stays with another moment, leaves no more rows live.
LEMMA FewerLive ==
  ASSUME Sound, IInv, NEW k \in Tokens, issued' = issued, closed' = closed,
         Live' = Live \/ Live' = Live \ {k}
  PROVE  LiveIsOpen'
<1>1. IsFiniteSet(Live) /\ Live' \subseteq Live
  BY LiveIsFinite
<1>2. Cardinality(Live') <= Cardinality(Live) /\ Cardinality(Live') \in Nat
  BY <1>1, FS_Subset, FS_CardinalityType
<1> QED BY <1>1, <1>2, LiveIsFinite DEF IInv, LiveIsOpen, Shape

\* What a tab without a sign-in is left with.
LEMMA SignedOutTab ==
  ASSUME IInv, NEW t \in Tabs, tab' = SignedOut(t), handed' = HandedOver(t)
  PROVE  /\ tab' \in [Tabs -> TabState]
         /\ tab'[t].token = None /\ tab'[t].name = None
         /\ tab'[t].analysis = tab[t].analysis
         /\ \A s \in Tabs \ {t} : tab'[s] = tab[s]
         /\ tab[t].analysis # None => t \in handed'
         /\ handed \subseteq handed'
<1>1. /\ [Blank EXCEPT !.analysis = tab[t].analysis] \in TabState
      /\ [Blank EXCEPT !.analysis = tab[t].analysis].token = None
      /\ [Blank EXCEPT !.analysis = tab[t].analysis].name = None
      /\ [Blank EXCEPT !.analysis = tab[t].analysis].analysis = tab[t].analysis
  BY DEF Blank, TabState, IInv, Shape
<1>2. /\ tab' \in [Tabs -> TabState]
      /\ tab'[t] = [Blank EXCEPT !.analysis = tab[t].analysis]
      /\ \A s \in Tabs \ {t} : tab'[s] = tab[s]
  BY <1>1 DEF SignedOut, IInv, Shape
<1> QED BY <1>1, <1>2 DEF HandedOver

LEMMA ResolveStep ==
  ASSUME Sound, IInv, NEW t \in Tabs, Resolve(t)
  PROVE  IInv'
<1> DEFINE k == tab[t].token
           name == tab[t].name
           late == time - began[t] > Timeout
           touched == [sessions[k] EXCEPT !.seen = time]
           said == [in |-> Valid(k), role |-> account[name], late |-> late]
<1>1. /\ k \in Tokens /\ k # None /\ name \in Users /\ running[t] = None
      /\ sessions[k] \in SessionRow /\ sessions[k] # None
      /\ sessions[k].user = name /\ sessions[k].seen = began[t]
  BY DEF Resolve, Idle, IInv, Shape, TokenHasRow, TabState
<1>2. Valid(k) <=> ~late /\ account[name] # None
  BY <1>1 DEF Valid, Expired
<1>3. /\ touched \in SessionRow /\ touched.user = name /\ touched.seen = time /\ touched # None
  BY <1>1 DEF Sound, SessionRow, IInv, Shape
<1>4. /\ sessions' = [sessions EXCEPT ![k] = IF Expired(k) THEN None ELSE touched]
      /\ verdict' = [verdict EXCEPT ![t] = said]
      /\ began' = [began EXCEPT ![t] = time]
      /\ UNCHANGED <<account, time, issued, closed>>
  BY <1>1 DEF Resolve, ValidateSession
<1>5. said \in Verdict /\ said.in = Valid(k) /\ said.role = account[name] /\ said.late = late
  BY <1>1 DEF Verdict, IInv, Shape, Valid, Expired
<1>6. Told'
  <2> HIDE DEF said, late
  <2> QED BY <1>2, <1>4, <1>5 DEF IInv, Shape, Told
<1>7. LiveIsOpen'
  <2>1. Live' = Live \/ Live' = Live \ {k}
    BY <1>1, <1>3, <1>4 DEF Live, IInv, Shape
  <2> QED BY <1>1, <1>4, <2>1, FewerLive
<1>8. CASE Valid(k)
  <2>1. /\ tab' = [tab EXCEPT ![t].role = account[name]]
        /\ running' = [running EXCEPT ![t] = name]
        /\ handed' = handed
        /\ sessions' = [sessions EXCEPT ![k] = touched]
    BY <1>1, <1>4, <1>8 DEF Resolve, Valid
  <2>2. /\ tab' \in [Tabs -> TabState]
        /\ tab'[t].token = k /\ tab'[t].name = name /\ tab'[t].role = account[name]
        /\ tab'[t].analysis = tab[t].analysis
        /\ \A s \in Tabs \ {t} : tab'[s] = tab[s]
    BY <1>1, <2>1 DEF IInv, Shape, TabState
  <2> HIDE DEF touched, said
  <2>3. Shape'
    BY <1>1, <1>3, <1>4, <1>5, <2>1, <2>2 DEF IInv, Shape
  <2>4. TokenHasRow' /\ TokensApart'
    BY <1>1, <1>3, <1>4, <2>1, <2>2 DEF IInv, Shape, TokenHasRow, TokensApart
  <2>5. RunIsOwn'
    BY <1>1, <1>4, <1>5, <2>1, <2>2 DEF Sound, IInv, Shape, RunIsOwn, Idle, Verdict
  <2>6. AnalysisIsOwn'
    BY <2>1, <2>2 DEF IInv, AnalysisIsOwn
  <2> QED BY <1>6, <1>7, <2>3, <2>4, <2>5, <2>6 DEF IInv
<1>9. CASE ~Valid(k)
  <2>1. tab' = SignedOut(t) /\ handed' = HandedOver(t) /\ running' = running
    BY <1>9 DEF Resolve
  <2>2. /\ tab' \in [Tabs -> TabState]
        /\ tab'[t].token = None /\ tab'[t].name = None
        /\ tab'[t].analysis = tab[t].analysis
        /\ \A s \in Tabs \ {t} : tab'[s] = tab[s]
        /\ tab[t].analysis # None => t \in handed'
        /\ handed \subseteq handed'
    BY <2>1, SignedOutTab
  <2> HIDE DEF touched, said
  <2>3. Shape'
    BY <1>1, <1>3, <1>4, <1>5, <2>1, <2>2 DEF IInv, Shape
  <2>4. TokenHasRow' /\ TokensApart'
    BY <1>1, <1>4, <2>2 DEF IInv, Shape, TokenHasRow, TokensApart
  <2>5. RunIsOwn'
    BY <1>1, <1>4, <2>1, <2>2 DEF IInv, Shape, RunIsOwn, Idle
  <2>6. AnalysisIsOwn'
    BY <2>2 DEF IInv, AnalysisIsOwn
  <2> QED BY <1>6, <1>7, <2>3, <2>4, <2>5, <2>6 DEF IInv
<1> QED BY <1>8, <1>9

LEMMA PageStep ==
  ASSUME Sound, IInv, NEW t \in Tabs, NEW page \in DOMAIN Allowed, Page(t, page)
  PROVE  IInv'
<1>1. /\ running[t] # None /\ running[t] \in Users
      /\ running[t] = tab[t].name /\ tab[t].token # None
  BY DEF Page, Idle, IInv, Shape, RunIsOwn
<1>2. /\ tab' \in [Tabs -> TabState]
      /\ tab'[t].token = tab[t].token /\ tab'[t].name = tab[t].name
      /\ tab'[t].analysis \in {running[t], tab[t].analysis}
      /\ \A s \in Tabs \ {t} : tab'[s] = tab[s]
  BY <1>1 DEF Page, IInv, Shape, TabState
<1>3. Shape' /\ Told'
  BY <1>2 DEF Page, IInv, Shape, Told
<1>4. TokenHasRow' /\ TokensApart'
  BY <1>2 DEF Page, IInv, TokenHasRow, TokensApart
<1>5. RunIsOwn'
  BY <1>2 DEF Page, IInv, Shape, RunIsOwn, Idle
<1>6. AnalysisIsOwn'
  <2>1. /\ tab'[t].analysis = running[t] => handed' = handed \ {t}
        /\ tab'[t].analysis # running[t] => handed' = handed
    BY DEF Page
  <2> QED BY <1>1, <1>2, <2>1 DEF IInv, AnalysisIsOwn
<1>7. LiveIsOpen'
  BY DEF Page, IInv, LiveIsOpen, Live
<1> QED BY <1>3, <1>4, <1>5, <1>6, <1>7 DEF IInv

LEMMA SignOutStep ==
  ASSUME Sound, IInv, NEW t \in Tabs, SignOut(t)
  PROVE  IInv'
<1> DEFINE k == tab[t].token
<1>1. /\ k \in Tokens /\ sessions[k] # None
      /\ sessions' = [sessions EXCEPT ![k] = None]
      /\ closed' = closed + 1 /\ running' = [running EXCEPT ![t] = None]
      /\ UNCHANGED <<account, time, issued, began, verdict>>
  BY DEF SignOut, Idle, IInv, Shape, TokenHasRow, RunIsOwn, TabState
<1>2. /\ tab' \in [Tabs -> TabState]
      /\ tab'[t].token = None /\ tab'[t].name = None
      /\ tab'[t].analysis = tab[t].analysis
      /\ \A s \in Tabs \ {t} : tab'[s] = tab[s]
      /\ tab[t].analysis # None => t \in handed'
      /\ handed \subseteq handed'
  BY SignedOutTab DEF SignOut
<1>3. Shape' /\ Told'
  <2>1. closed' \in Nat
    BY <1>1 DEF IInv, Shape
  <2>2. sessions' \in [Tokens -> SessionRow \cup {None}]
    BY <1>1 DEF IInv, Shape
  <2>3. Told'
    BY <1>1 DEF IInv, Told
  <2> QED BY <1>1, <1>2, <2>1, <2>2, <2>3 DEF IInv, Shape
<1>4. TokenHasRow' /\ TokensApart'
  BY <1>1, <1>2 DEF IInv, Shape, TokenHasRow, TokensApart
<1>5. RunIsOwn'
  BY <1>1, <1>2 DEF IInv, Shape, RunIsOwn, Idle
<1>6. AnalysisIsOwn'
  BY <1>2 DEF IInv, AnalysisIsOwn
<1>7. LiveIsOpen'
  <2>1. Live' = Live \ {k} /\ k \in Live
    BY <1>1 DEF Live, IInv, Shape
  <2>2. Cardinality(Live \ {k}) = Cardinality(Live) - 1
    BY <2>1, LiveIsFinite, FS_RemoveElement
  <2>3. /\ issued \in Nat /\ closed \in Nat
        /\ Live \subseteq 1..issued /\ Cardinality(Live) <= issued - closed
    BY DEF IInv, Shape, LiveIsOpen
  <2>4. Cardinality(Live) - 1 <= issued - (closed + 1)
    BY <2>3, LiveIsFinite
  <2> QED BY <1>1, <2>1, <2>2, <2>3, <2>4 DEF LiveIsOpen
<1> QED BY <1>3, <1>4, <1>5, <1>6, <1>7 DEF IInv

LEMMA ReloadStep ==
  ASSUME Sound, IInv, NEW t \in Tabs, Reload(t)
  PROVE  IInv'
<1>1. Blank \in TabState /\ Blank.token = None /\ Blank.analysis = None
  BY DEF Blank, TabState
<1>2. /\ tab' \in [Tabs -> TabState] /\ tab'[t] = Blank
      /\ \A s \in Tabs \ {t} : tab'[s] = tab[s]
      /\ running' = [running EXCEPT ![t] = None] /\ handed' = handed \ {t}
      /\ UNCHANGED <<account, sessions, time, issued, closed, began, verdict>>
  BY <1>1 DEF Reload, IInv, Shape
<1>3. Shape' /\ Told' /\ LiveIsOpen'
  BY <1>2 DEF IInv, Shape, Told, LiveIsOpen, Live
<1>4. TokenHasRow' /\ TokensApart' /\ RunIsOwn' /\ AnalysisIsOwn'
  BY <1>1, <1>2 DEF IInv, Shape, TokenHasRow, TokensApart, RunIsOwn, AnalysisIsOwn, Idle
<1> QED BY <1>3, <1>4 DEF IInv

LEMMA InvariantHolds ==
  ASSUME Sound, IInv, [Next]_vars
  PROVE  IInv'
<1>1. CASE UNCHANGED vars
  BY <1>1 DEF vars, IInv, Shape, TokenHasRow, TokensApart, RunIsOwn, AnalysisIsOwn, Told,
     LiveIsOpen, Live, Idle
<1>2. ASSUME NEW u \in Users, NEW role \in Roles \cup {None}, Administer(u, role)
      PROVE  IInv'
  <2>1. Shape' /\ UNCHANGED <<sessions, tab, running, issued, closed, began, verdict, handed>>
    BY <1>2 DEF Administer, IInv, Shape
  <2> QED BY <2>1 DEF IInv, TokenHasRow, TokensApart, RunIsOwn, AnalysisIsOwn, Told,
      LiveIsOpen, Live, Idle
<1>3. CASE Tick
  <2>1. Shape' /\ UNCHANGED <<sessions, tab, running, issued, closed, began, verdict, handed>>
    BY <1>3 DEF Tick, IInv, Shape
  <2> QED BY <2>1 DEF IInv, TokenHasRow, TokensApart, RunIsOwn, AnalysisIsOwn, Told,
      LiveIsOpen, Live, Idle
<1> QED
  BY <1>1, <1>2, <1>3, LoginStep, ResolveStep, PageStep, SignOutStep, ReloadStep DEF Next

LEMMA InvariantStarts ==
  ASSUME Sound, Init PROVE IInv
<1>1. Blank \in TabState /\ Blank.token = None /\ Blank.analysis = None
  BY DEF Blank, TabState
<1>2. Shape /\ TokenHasRow /\ TokensApart /\ RunIsOwn /\ AnalysisIsOwn /\ Told
  BY <1>1 DEF Init, Shape, TokenHasRow, TokensApart, RunIsOwn, AnalysisIsOwn, Told, Idle,
     Roles, Tokens
<1>3. Live = {}
  BY DEF Init, Live, Tokens
<1> QED BY <1>2, <1>3, FS_EmptySet DEF Init, IInv, LiveIsOpen

\* Whoever signs in where, and whatever an administrator changes meanwhile: a run of
\* the script is let in exactly when its user exists and the tab was last used within
\* the timeout, under the role the database holds; no token serves two tabs; and an
\* analysis is seen by another user only in a tab in which a sign-in ended
\* (_resolve_session of app.py, validate_session of core/security.py).
THEOREM OnlyCurrentUsers == ASSUME Sound PROVE Spec => []AccessIsCurrent
<1>1. IInv => AccessIsCurrent
  <2> SUFFICES ASSUME IInv PROVE AccessIsCurrent
    OBVIOUS
  <2>1. Live = {k \in DOMAIN sessions : sessions[k] # None}
    BY DEF IInv, Shape, Live
  <2> QED BY <2>1 DEF IInv, AccessIsCurrent, TokensApart, RunIsOwn, AnalysisIsOwn, Told,
      LiveIsOpen
<1> QED
  BY <1>1, InvariantStarts, InvariantHolds, PTL DEF Spec
=================================================================================
