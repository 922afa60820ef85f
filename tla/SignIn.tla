---------------------------------- MODULE SignIn ----------------------------------
(***************************************************************************)
(* Signing in and out (app.py, pricelab/core/security.py): the token in    *)
(* the session state of a tab, its row in the database with the moment it  *)
(* was last seen, and the role that is read again on every script run.     *)
(*                                                                         *)
(* A script run first resolves the token and then executes a page, whose   *)
(* decorator checks the role the tab was given when the run began.         *)
(***************************************************************************)
EXTENDS Integers, FiniteSets

CONSTANTS Tabs, Users,
          Timeout,    \* the idle timeout
          MaxTime,    \* bound: the clock
          MaxLogins,  \* bound: sign-ins, each of which issues a token
          None

Roles == {"compiler", "viewer"}

\* Who may open a page: Ingest names its roles, Reports has no decorator.
Allowed == [ingest |-> {"compiler"}, reports |-> Roles]

VARIABLES account,   \* users: the role of each, None when the row is gone
          sessions,  \* the sessions table: user and last_seen_at of each token
          tab,       \* st.session_state of each tab
          running,   \* the user whose script run is past the check of app.py
          time,
          issued,    \* tokens issued, each with a LOGIN event
          closed,    \* LOGOUT events
          \* History
          began,     \* the moment each tab last began a run or signed in
          verdict,   \* what the tab's last run was told, and what it deserved
          handed     \* tabs in which a sign-in ended and left an analysis

vars == <<account, sessions, tab, running, time, issued, closed, began, verdict, handed>>

Blank == [token |-> None, name |-> None, role |-> None, analysis |-> None]
Idle(t) == running[t] = None

Init ==
  /\ account = [u \in Users |-> "compiler"]
  /\ sessions = [k \in 1..MaxLogins |-> None]
  /\ tab = [t \in Tabs |-> Blank]
  /\ running = [t \in Tabs |-> None]
  /\ time = 0 /\ issued = 0 /\ closed = 0
  /\ began = [t \in Tabs |-> 0]
  /\ verdict = [t \in Tabs |-> None]
  /\ handed = {}

-----------------------------------------------------------------------------
\* The right password: the token's row and the LOGIN event are committed
\* together, then the tab is given the token.  The form is shown only to a tab
\* without one.
Login(t, u) ==
  /\ Idle(t) /\ tab[t].token = None
  /\ account[u] # None /\ issued < MaxLogins
  /\ issued' = issued + 1
  /\ sessions' = [sessions EXCEPT ![issued'] = [user |-> u, seen |-> time]]
  /\ tab' = [tab EXCEPT ![t] = [token |-> issued', name |-> u, role |-> account[u],
                                analysis |-> tab[t].analysis]]
  /\ began' = [began EXCEPT ![t] = time]
  /\ verdict' = [verdict EXCEPT ![t] = None]
  /\ UNCHANGED <<account, running, time, closed, handed>>

\* The token, the name and the role leave the tab; the analysis stays.
SignedOut(t) == [tab EXCEPT ![t] = [Blank EXCEPT !.analysis = tab[t].analysis]]
HandedOver(t) == handed \cup {s \in {t} : tab[s].analysis # None}

\* validate_session: a row idle for too long is deleted; any other is touched,
\* also when its user is gone.
Expired_Never(k) == FALSE   \* mutant: the row is touched before its age is read
Expired(k) == time - sessions[k].seen > Timeout
ValidateSession(k) ==
  IF sessions[k] = None THEN UNCHANGED sessions
  ELSE sessions' = [sessions EXCEPT ![k] = IF Expired(k) THEN None ELSE [@ EXCEPT !.seen = time]]
Valid(k) == sessions[k] # None /\ ~Expired(k) /\ account[sessions[k].user] # None

\* _resolve_session, at the start of every run of a tab that has a token.
Resolve(t) ==
  LET k == tab[t].token
  IN /\ Idle(t) /\ k # None
     /\ ValidateSession(k)
     /\ IF Valid(k)
        THEN /\ tab' = [tab EXCEPT ![t].role = account[sessions[k].user]]
             /\ running' = [running EXCEPT ![t] = sessions[k].user]
             /\ UNCHANGED handed
        ELSE /\ tab' = SignedOut(t)
             /\ handed' = HandedOver(t)
             /\ UNCHANGED running
     /\ verdict' = [verdict EXCEPT ![t] =
                      [in |-> Valid(k), role |-> account[tab[t].name], late |-> time - began[t] > Timeout]]
     /\ began' = [began EXCEPT ![t] = time]
     /\ UNCHANGED <<account, time, issued, closed>>

\* The page behind its decorator: Ingest leaves an analysis, Reports shows it.
Page(t, page) ==
  /\ ~Idle(t)
  /\ tab' = [tab EXCEPT ![t].analysis =
               IF page = "ingest" /\ tab[t].role \in Allowed[page] THEN running[t] ELSE @]
  /\ handed' = IF tab'[t].analysis = running[t] THEN handed \ {t} ELSE handed
  /\ running' = [running EXCEPT ![t] = None]
  /\ UNCHANGED <<account, sessions, time, issued, closed, began, verdict>>

SignOut(t) ==
  /\ ~Idle(t)
  /\ sessions' = [sessions EXCEPT ![tab[t].token] = None]
  /\ closed' = closed + 1
  /\ tab' = SignedOut(t)
  /\ handed' = HandedOver(t)
  /\ running' = [running EXCEPT ![t] = None]
  /\ UNCHANGED <<account, time, issued, began, verdict>>

\* A reload gives the tab a new session state; its token stays in the table.
Reload(t) ==
  /\ tab[t] # Blank
  /\ tab' = [tab EXCEPT ![t] = Blank]
  /\ running' = [running EXCEPT ![t] = None]
  /\ handed' = handed \ {t}
  /\ UNCHANGED <<account, sessions, time, issued, closed, began, verdict>>

\* An administrator changes a role or removes a user in the database.
Administer(u, role) ==
  /\ account[u] \notin {role, None}
  /\ account' = [account EXCEPT ![u] = role]
  /\ UNCHANGED <<sessions, tab, running, time, issued, closed, began, verdict, handed>>

Tick ==
  /\ time < MaxTime
  /\ time' = time + 1
  /\ UNCHANGED <<account, sessions, tab, running, issued, closed, began, verdict, handed>>

Next ==
  \/ \E t \in Tabs : \/ \E u \in Users : Login(t, u)
                     \/ Resolve(t)
                     \/ \E page \in DOMAIN Allowed : Page(t, page)
                     \/ SignOut(t)
                     \/ Reload(t)
  \/ \E u \in Users, role \in Roles \cup {None} : Administer(u, role)
  \/ Tick

-----------------------------------------------------------------------------
\* Only and all current users are let in: a run passes exactly when the tab began
\* its last run, or signed in, no longer ago than the timeout and its user still
\* exists, and it gets the role the database holds at that moment, not the one of
\* the sign-in (_resolve_session, validate_session).  A token is held by one tab
\* and every row was signed in and not signed out.  A tab shows a user the
\* analysis of another only if an earlier sign-in in it ended: sign-out and expiry
\* leave the analysis behind.
AccessIsCurrent ==
  /\ \A t \in Tabs :
       /\ verdict[t] # None =>
            (verdict[t].in <=> ~verdict[t].late /\ verdict[t].role # None)
       /\ ~Idle(t) => /\ running[t] = tab[t].name
                      /\ tab[t].role = verdict[t].role
                      /\ tab[t].analysis \notin {None, running[t]} => t \in handed
  /\ \A s, t \in Tabs : s # t => tab[s].token = None \/ tab[s].token # tab[t].token
  /\ Cardinality({k \in DOMAIN sessions : sessions[k] # None}) <= issued - closed
=================================================================================
