------------------------------- MODULE Sessions -------------------------------
(* The logins and sessions of the caster's web classes (RestSessionHandler,    *)
(* UserFormLoginHandler, UserSessionHandler) and the database connections that *)
(* they and SqlClientHelper use. Handlers run on one event loop, each piece up *)
(* to its next asynchronous call is one step; the session store, the pool of   *)
(* connections and the database answer in their own time, or fail.             *)
(*                                                                             *)
(* There are two kinds of sessions: those that handleLogin creates and whose   *)
(* number the client sends, and those of a cookie, which begin with nobody. A  *)
(* request to the second kind of handlers may also come with no session: there *)
(* is one only if a SessionHandler is routed before them.                      *)
EXTENDS Integers, Sequences, FiniteSets

CONSTANTS
  SsRequests,    \* requests
  SsUsers,       \* users
  SsCookies,     \* sessions of cookies
  SsPool         \* connections of the pool

ASSUME SsAssumption ==
  /\ IsFiniteSet(SsRequests) /\ SsPool \in Nat \ {0}
  /\ SsCookies \subseteq Nat /\ \A c \in SsCookies : c > Cardinality(SsRequests)

VARIABLES
  ssReq,         \* the requests
  ssStore,       \* the session store: whom a session is for, or SsNobody
  ssLogins,      \* sessions that were created, with the user each was for
  ssIdle,        \* connections in the pool
  ssLeft         \* sessions that were logged out and not logged in again

ssVars == <<ssReq, ssStore, ssLogins, ssIdle, ssLeft>>

SsNobody == "nobody"
SsTokens == 1..Cardinality(SsRequests)
SsSessions == SsTokens \cup SsCookies
SsNoSession == 0
SsOfCookie == SsCookies \cup {SsNoSession}
SsKinds == {"login", "form", "session", "logout", "page", "leave", "query"}
SsSteps == {"none", "authenticate", "connect", "execute", "close", "get", "delete", "done"}

\* claims: the user whose name a login holds, and right whether its password is; session:
\* the one of the request; given: whom the context was given; answers: how often an answer
\* was made; left: the sessions that had been left when the request came.
SsNew == [kind |-> "query", step |-> "none", claims |-> SsNobody, right |-> FALSE, session |-> SsNoSession,
          given |-> SsNobody, answers |-> 0, left |-> {}]

SsInit ==
  /\ ssReq = [r \in SsRequests |-> SsNew]
  /\ ssStore = [s \in SsCookies |-> SsNobody] /\ ssLogins = <<>>
  /\ ssIdle = SsPool /\ ssLeft = {}

SsGoes(r, step) == ssReq' = [ssReq EXCEPT ![r].step = step]
SsAnswers(r, step) == ssReq' = [ssReq EXCEPT ![r].step = step, ![r].answers = @ + 1]
SsGiven(r, user) == ssReq' = [ssReq EXCEPT ![r].step = "done", ![r].answers = @ + 1, ![r].given = user]
SsStart(r, kind, step, user, right, session) ==
  ssReq' = [ssReq EXCEPT ![r] = [SsNew EXCEPT !.kind = kind, !.step = step, !.claims = user, !.right = right,
                                               !.session = session, !.left = ssLeft]]
SsRefused(r, kind, session) ==
  ssReq' = [ssReq EXCEPT ![r] = [SsNew EXCEPT !.kind = kind, !.step = "done", !.session = session,
                                               !.answers = 1, !.left = ssLeft]]

\* handleLogin of a request with credentials; UserFormLoginHandler.handle of a form, with or
\* without a session. An authorization that is not "Basic", or a form without a name, is
\* refused at once.
SsLogin(r, form, user, right, cookie) ==
  LET kind == IF form THEN "form" ELSE "login"
  IN /\ ssReq[r].step = "none" /\ (form => cookie \in SsOfCookie)
     /\ \/ SsStart(r, kind, "authenticate", user, right, IF form THEN cookie ELSE SsNoSession)
        \/ SsRefused(r, kind, IF form THEN cookie ELSE SsNoSession)
     /\ UNCHANGED <<ssStore, ssLogins, ssIdle, ssLeft>>

\* A faulty variant: the login goes on when it was refused.
SsAuthenticateBoth(r) ==
  /\ ssReq[r].step = "authenticate"
  /\ IF ssReq[r].right THEN SsGoes(r, "connect") ELSE SsAnswers(r, "connect")
  /\ UNCHANGED <<ssStore, ssLogins, ssIdle, ssLeft>>

\* authenticate's answer. A form is answered at once, and its query (onLogin) goes on; without
\* a session onLogin throws when it has made the query, and nobody answers.
SsAuthenticate(r) ==
  /\ ssReq[r].step = "authenticate"
  /\ IF ~ssReq[r].right
     THEN SsAnswers(r, "done") /\ UNCHANGED <<ssStore, ssLeft>>
     ELSE IF ssReq[r].kind = "form" /\ ssReq[r].session # SsNoSession
     THEN /\ SsAnswers(r, "connect")
          /\ ssStore' = [ssStore EXCEPT ![ssReq[r].session] = ssReq[r].claims]
          /\ ssLeft' = ssLeft \ {ssReq[r].session}
     ELSE SsGoes(r, "connect") /\ UNCHANGED <<ssStore, ssLeft>>
  /\ UNCHANGED <<ssLogins, ssIdle>>

\* A request that uses SqlClientHelper.
SsQuery(r) ==
  /\ ssReq[r].step = "none"
  /\ SsStart(r, "query", "connect", SsNobody, FALSE, SsNoSession)
  /\ UNCHANGED <<ssStore, ssLogins, ssIdle, ssLeft>>

\* What the result of a query is for: a login creates its session and goes on, whether the
\* query found the user, nobody, or failed; a form is answered already, or never.
SsResult(r, step) ==
  IF ssReq[r].kind = "login"
  THEN LET s == Len(ssLogins) + 1
       IN /\ ssLogins' = Append(ssLogins, ssReq[r].claims)
          /\ ssStore' = [t \in DOMAIN ssStore \cup {s} |-> IF t = s THEN ssReq[r].claims ELSE ssStore[t]]
          /\ ssReq' = [ssReq EXCEPT ![r].step = step, ![r].answers = @ + 1,
                                    ![r].given = ssReq[r].claims, ![r].session = s]
  ELSE /\ IF ssReq[r].kind = "form" THEN SsGoes(r, step) ELSE SsAnswers(r, step)
       /\ UNCHANGED <<ssStore, ssLogins>>

\* getConnection gives one when the pool has one, or fails; the failure is a result.
SsConnect(r) ==
  /\ ssReq[r].step = "connect"
  /\ ssIdle > 0 /\ ssIdle' = ssIdle - 1
  /\ SsGoes(r, "execute")
  /\ UNCHANGED <<ssStore, ssLogins, ssLeft>>

\* A faulty variant: the connection that it did not get is given back.
SsConnectFailsGives(r) ==
  /\ ssReq[r].step = "connect"
  /\ SsResult(r, "done") /\ ssIdle' = ssIdle + 1
  /\ UNCHANGED ssLeft

SsConnectFails(r) ==
  /\ ssReq[r].step = "connect"
  /\ SsResult(r, "done")
  /\ UNCHANGED <<ssIdle, ssLeft>>

\* A faulty variant: a query that failed keeps its connection.
SsExecuteKeeps(r) ==
  /\ ssReq[r].step = "execute"
  /\ \E step \in {"close", "done"} : SsResult(r, step)
  /\ UNCHANGED <<ssIdle, ssLeft>>

\* The query's result is handled first, then the connection is closed.
SsExecute(r) ==
  /\ ssReq[r].step = "execute"
  /\ SsResult(r, "close")
  /\ UNCHANGED <<ssIdle, ssLeft>>

SsClose(r) ==
  /\ ssReq[r].step = "close"
  /\ SsGoes(r, "done") /\ ssIdle' = ssIdle + 1
  /\ UNCHANGED <<ssStore, ssLogins, ssLeft>>

\* handleSession, alone or before handleLogout; without a session it refuses.
SsWithSession(r, kind, session) ==
  /\ ssReq[r].step = "none"
  /\ SsStart(r, kind, "get", SsNobody, FALSE, session) \/ SsRefused(r, kind, session)
  /\ UNCHANGED <<ssStore, ssLogins, ssIdle, ssLeft>>

\* sessionStore.get gives the session, or nothing; the store may fail.
SsGet(r) ==
  /\ ssReq[r].step = "get"
  /\ \/ SsAnswers(r, "done")
     \/ /\ ssReq[r].session \in DOMAIN ssStore
        /\ IF ssReq[r].kind = "session" THEN SsGiven(r, ssStore[ssReq[r].session])
           ELSE ssReq' = [ssReq EXCEPT ![r].step = "delete", ![r].given = ssStore[ssReq[r].session]]
  /\ UNCHANGED <<ssStore, ssLogins, ssIdle, ssLeft>>

\* A faulty variant: the session stays in the store.
SsDeleteNot(r) ==
  /\ ssReq[r].step = "delete"
  /\ SsAnswers(r, "done") /\ ssLeft' = ssLeft \cup {ssReq[r].session}
  /\ UNCHANGED <<ssStore, ssLogins, ssIdle>>

\* handleLogout's delete.
SsDelete(r) ==
  /\ ssReq[r].step = "delete"
  /\ SsAnswers(r, "done") /\ ssLeft' = ssLeft \cup {ssReq[r].session}
  /\ ssStore' = [s \in DOMAIN ssStore \ {ssReq[r].session} |-> ssStore[s]]
  /\ UNCHANGED <<ssLogins, ssIdle>>

\* UserSessionHandler: a page, with the user of its session if it has one, and the logout.
SsPage(r, cookie) ==
  /\ ssReq[r].step = "none"
  /\ LET user == IF cookie = SsNoSession THEN SsNobody ELSE ssStore[cookie]
     IN ssReq' = [ssReq EXCEPT ![r] = [SsNew EXCEPT !.kind = "page", !.step = "done", !.session = cookie,
                                                    !.answers = 1, !.given = user, !.left = ssLeft]]
  /\ UNCHANGED <<ssStore, ssLogins, ssIdle, ssLeft>>

SsLeave(r, cookie) ==
  /\ ssReq[r].step = "none"
  /\ SsRefused(r, "leave", cookie)
  /\ IF cookie = SsNoSession THEN UNCHANGED <<ssStore, ssLeft>>
     ELSE ssStore' = [ssStore EXCEPT ![cookie] = SsNobody] /\ ssLeft' = ssLeft \cup {cookie}
  /\ UNCHANGED <<ssLogins, ssIdle>>

\* A session that was not accessed for its timeout is dropped.
SsExpire(s) ==
  /\ s \in SsTokens \cap DOMAIN ssStore
  /\ ssStore' = [t \in DOMAIN ssStore \ {s} |-> ssStore[t]]
  /\ UNCHANGED <<ssReq, ssLogins, ssIdle, ssLeft>>

SsArrive(r) ==
  \/ \E form, right \in BOOLEAN, u \in SsUsers, c \in SsOfCookie : SsLogin(r, form, u, right, c)
  \/ SsQuery(r)
  \/ \E kind \in {"session", "logout"}, s \in SsTokens : SsWithSession(r, kind, s)
  \/ \E c \in SsOfCookie : SsPage(r, c) \/ SsLeave(r, c)
SsStep(r) == SsAuthenticate(r) \/ SsConnect(r) \/ SsExecute(r) \/ SsClose(r) \/ SsGet(r) \/ SsDelete(r)
SsNext == (\E r \in SsRequests : SsArrive(r) \/ SsStep(r) \/ SsConnectFails(r)) \/ (\E s \in SsTokens : SsExpire(s))

\* Store and database answer every call, and the pool when it has a connection; that a call
\* for a connection fails is not to be relied on.
SsSpec == SsInit /\ [][SsNext]_ssVars
SsFairness == \A r \in SsRequests : WF_ssVars(SsStep(r))

-----------------------------------------------------------------------------
(* Properties *)

SsTypeOK ==
  /\ \A r \in SsRequests : ssReq[r].kind \in SsKinds /\ ssReq[r].step \in SsSteps /\ ssReq[r].left \subseteq SsSessions
  /\ DOMAIN ssStore \subseteq SsSessions /\ ssIdle \in 0..SsPool /\ ssLeft \subseteq SsSessions

\* A form that came without a session and whose password was right.
SsThrows(q) == q.kind = "form" /\ q.session = SsNoSession /\ q.right /\ q.step # "authenticate"

\* No request is answered twice; and of those that are done, whichever of their calls failed,
\* none was left without an answer but a form that logs in where there is no session, which
\* never gets one (handleLogin, handleSession, handleLogout, onLogin, handleQuery).
SsOnce ==
  \A r \in SsRequests :
    /\ ssReq[r].answers <= 1
    /\ ssReq[r].step = "done" => (ssReq[r].answers = 0 <=> SsThrows(ssReq[r]))

\* Whoever a session is for, and whoever a request is given, was authenticated by a request
\* with the right password (authenticate, createSession, session.get).
SsProved == {r \in SsRequests : ssReq[r].right /\ ssReq[r].step # "authenticate"}
SsKnown == {ssReq[r].claims : r \in SsProved} \cup {SsNobody}
SsOwnUser ==
  /\ \A s \in DOMAIN ssStore : ssStore[s] \in SsKnown
  /\ \A r \in SsRequests : ssReq[r].given \in SsKnown

\* A request that comes after the logout of its session is not given the user, unless
\* somebody logged in there again (handleLogout, handleSession, UserSessionHandler).
SsLeftBehind ==
  \A r \in SsRequests : ssReq[r].session \in ssReq[r].left \cap ssLeft => ssReq[r].given = SsNobody

\* Every request is answered, although more of them than the pool has connections want one
\* and any may fail: each connection is given back (handleUpdate, handleQuery, handleCall,
\* executeQuery), by a form that is not answered for want of a session too.
SsAnswered ==
  \A r \in SsRequests :
    ssReq[r].step # "none" ~> ssReq[r].answers = 1 \/ (SsThrows(ssReq[r]) /\ ssReq[r].step = "done")

\* Each request is answered once, but for a form without a session, and as the user who
\* logged in (handleLogin, handleSession, handleLogout, authenticate).
SsSafe == SsTypeOK /\ SsOnce /\ SsOwnUser /\ SsLeftBehind
=============================================================================
