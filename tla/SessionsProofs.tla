---------------------------- MODULE SessionsProofs ----------------------------
(* Proofs about the sessions of the caster, for any number of requests, users, *)
(* cookies and connections: each request is answered once, but for the form    *)
(* that logs in without a session, and as a user whose password was right; who *)
(* logged out is not given the user again; and the pool gets back every        *)
(* connection it gave, and no other.                                           *)
EXTENDS Sessions, TLAPS, FiniteSetTheorems, SequenceTheorems

USE DEF SsNoSession, SsOfCookie, SsThrows

SsNames == SsUsers \cup {SsNobody}
SsRecords ==
  [kind : SsKinds, step : SsSteps, claims : SsNames, right : BOOLEAN, session : SsSessions \cup {0},
   given : SsNames, answers : {0, 1}, left : SUBSET SsSessions]

(* Which steps a request of each kind takes, what it holds at each of them, and *)
(* when it is answered.                                                         *)
SsAnsweredAt(q) ==
  /\ ~SsThrows(q)
  /\ q.step \in {"close", "done"} \/ (q.kind = "form" /\ q.step \in {"connect", "execute"})
SsPath(q) ==
  /\ q.answers = IF SsAnsweredAt(q) THEN 1 ELSE 0
  /\ q.step = "none" => q.kind = "query" /\ ~q.right
  /\ q.step = "authenticate" => q.kind \in {"login", "form"}
  /\ q.step \in {"connect", "execute", "close"} => q.kind \in {"login", "form", "query"} /\ (q.kind # "query" => q.right)
  /\ q.step \in {"get", "delete"} => q.kind \in {"session", "logout"} /\ q.session \in SsTokens
  /\ q.kind = "login" /\ q.step \in {"authenticate", "connect", "execute"} => q.session = 0
  /\ q.kind = "form" => q.session \in SsOfCookie

SsValues ==
  /\ ssReq \in [SsRequests -> SsRecords] /\ \A r \in SsRequests : SsPath(ssReq[r])
  /\ SsCookies \subseteq DOMAIN ssStore /\ DOMAIN ssStore \subseteq SsSessions
  /\ ssLogins \in Seq(SsNames)
  /\ ssLeft \subseteq SsSessions

(* The connections: those of the pool and those that requests hold. *)
SsHolds(q) == q.step \in {"execute", "close"}
SsHolders == {r \in SsRequests : SsHolds(ssReq[r])}
SsPoolInv == ssIdle \in Nat /\ ssIdle + Cardinality(SsHolders) = SsPool

(* The sessions of logins are numbered in the order they were made, one for a  *)
(* request at most.                                                            *)
SsHasMade(q) == q.kind = "login" /\ q.session # 0
SsMade == {r \in SsRequests : SsHasMade(ssReq[r])}
SsMadeInv == Len(ssLogins) = Cardinality(SsMade)

(* The sessions that were ever there, and those that were left: of the first   *)
(* kind for good, of the second for nobody.                                    *)
SsNumbered(s) == s \in SsTokens => s <= Len(ssLogins)
SsLeftInv ==
  /\ \A s \in DOMAIN ssStore \cup ssLeft : SsNumbered(s)
  /\ \A s \in ssLeft \cap DOMAIN ssStore : s \in SsCookies /\ ssStore[s] = SsNobody
  /\ \A r \in SsRequests :
       /\ ssReq[r].left \cap SsTokens \subseteq ssLeft
       /\ ssReq[r].step = "delete" => SsNumbered(ssReq[r].session)
       /\ ssReq[r].given # SsNobody => ssReq[r].session \notin ssReq[r].left

(* The inductive invariant. *)
SsInv == SsValues /\ SsPoolInv /\ SsMadeInv /\ SsOwnUser /\ SsLeftInv

(* A step gives one request a new record. *)
SsTurns(r, q) == ssReq' = [ssReq EXCEPT ![r] = q]

LEMMA SsTurned ==
  ASSUME SsValues, NEW r \in SsRequests, NEW q \in SsRecords, SsTurns(r, q), SsPath(q)
  PROVE  /\ ssReq' \in [SsRequests -> SsRecords] /\ \A t \in SsRequests : SsPath(ssReq'[t])
         /\ ssReq'[r] = q /\ \A t \in SsRequests \ {r} : ssReq'[t] = ssReq[t]
BY DEF SsValues, SsTurns

LEMMA SsSeparate == /\ SsTokens \cap SsCookies = {} /\ 0 \notin SsSessions /\ SsTokens \subseteq Nat \ {0}
                    /\ Cardinality(SsRequests) \in Nat /\ SsTokens = 1..Cardinality(SsRequests)
<1>1. Cardinality(SsRequests) \in Nat
  BY SsAssumption, FS_CardinalityType
<1> QED
  BY <1>1, SsAssumption DEF SsTokens, SsSessions

(* The account of the connections. *)
SsWeight(q) == IF SsHolds(q) THEN 1 ELSE 0

LEMMA SsPoolStep ==
  ASSUME SsInv, NEW r \in SsRequests, NEW q \in SsRecords, SsTurns(r, q), SsPath(q), ssIdle' \in Nat,
         ssIdle' + SsWeight(q) = ssIdle + SsWeight(ssReq[r])
  PROVE  SsPoolInv'
<1>1. ssReq'[r] = q /\ \A t \in SsRequests \ {r} : ssReq'[t] = ssReq[t]
  BY SsTurned DEF SsInv
<1>2. ssIdle \in Nat /\ ssIdle + Cardinality(SsHolders) = SsPool
  BY DEF SsInv, SsPoolInv
<1>3. IsFiniteSet(SsHolders) /\ Cardinality(SsHolders) \in Nat
  <2>1. SsHolders \in SUBSET SsRequests
    BY DEF SsHolders
  <2>2. IsFiniteSet(SsHolders)
    BY <2>1, SsAssumption, FS_Subset
  <2> QED
    BY <2>2, FS_CardinalityType
<1>4. SsHolders' = {t \in SsRequests : IF t = r THEN SsHolds(q) ELSE SsHolds(ssReq[t])}
  BY <1>1 DEF SsHolders
<1>5. ASSUME SsHolds(q) <=> SsHolds(ssReq[r])
      PROVE  SsHolders' = SsHolders /\ SsWeight(q) = SsWeight(ssReq[r]) /\ SsWeight(q) \in Nat
  BY <1>4, <1>5 DEF SsHolders, SsWeight
<1>6. ASSUME SsHolds(q), ~SsHolds(ssReq[r])
      PROVE  /\ SsHolders' = SsHolders \cup {r} /\ r \notin SsHolders
             /\ SsWeight(q) = 1 /\ SsWeight(ssReq[r]) = 0
  BY <1>4, <1>6 DEF SsHolders, SsWeight
<1>7. ASSUME ~SsHolds(q), SsHolds(ssReq[r])
      PROVE  /\ SsHolders' = SsHolders \ {r} /\ r \in SsHolders
             /\ SsWeight(q) = 0 /\ SsWeight(ssReq[r]) = 1
  BY <1>4, <1>7 DEF SsHolders, SsWeight
<1>8. ASSUME NEW a \in Nat, NEW b \in Nat, NEW u \in Nat, NEW v \in Nat, NEW h \in Nat,
             b + u = a + v, a + h = SsPool
      PROVE  b + (h + u - v) = SsPool
  BY <1>8
<1>9. Cardinality(SsHolders') = Cardinality(SsHolders) + SsWeight(q) - SsWeight(ssReq[r])
  <2>1. CASE SsHolds(q) <=> SsHolds(ssReq[r])
    BY <2>1, <1>3, <1>5
  <2>2. CASE SsHolds(q) /\ ~SsHolds(ssReq[r])
    <3>1. Cardinality(SsHolders \cup {r}) = Cardinality(SsHolders) + 1
      BY <2>2, <1>3, <1>6, FS_AddElement
    <3> QED
      BY <3>1, <2>2, <1>3, <1>6
  <2>3. CASE ~SsHolds(q) /\ SsHolds(ssReq[r])
    <3>1. Cardinality(SsHolders \ {r}) = Cardinality(SsHolders) - 1
      BY <2>3, <1>3, <1>7, FS_RemoveElement
    <3> QED
      BY <3>1, <2>3, <1>3, <1>7
  <2> QED
    BY <2>1, <2>2, <2>3
<1>10. SsWeight(q) \in Nat /\ SsWeight(ssReq[r]) \in Nat
  BY DEF SsWeight
<1>11. ssIdle' + (Cardinality(SsHolders) + SsWeight(q) - SsWeight(ssReq[r])) = SsPool
  BY <1>2, <1>3, <1>8, <1>10
<1>12. Cardinality(SsHolders)' = Cardinality(SsHolders')
  OBVIOUS
<1> QED
  BY <1>9, <1>11, <1>12 DEF SsPoolInv

(* Who was authenticated remains so. *)
LEMMA SsKnownStep ==
  ASSUME SsInv, NEW r \in SsRequests, NEW q \in SsRecords, SsTurns(r, q), SsPath(q),
         ssReq[r].right /\ ssReq[r].step # "authenticate"
           => q.right /\ q.step # "authenticate" /\ q.claims = ssReq[r].claims
  PROVE  /\ SsKnown \subseteq SsKnown'
         /\ q.right /\ q.step # "authenticate" => q.claims \in SsKnown'
<1>1. ssReq'[r] = q /\ \A t \in SsRequests \ {r} : ssReq'[t] = ssReq[t]
  BY SsTurned DEF SsInv
<1>2. SsProved \subseteq SsProved' /\ \A t \in SsProved : ssReq'[t].claims = ssReq[t].claims
  BY <1>1 DEF SsProved
<1> QED
  BY <1>1, <1>2 DEF SsKnown, SsProved

(* A step of a request that makes no session: what its new record must keep. *)
SsMayTurn(r, q) ==
  /\ q \in SsRecords /\ SsPath(q) /\ (SsHasMade(q) <=> SsHasMade(ssReq[r]))
  /\ ssReq[r].right /\ ssReq[r].step # "authenticate"
       => q.right /\ q.step # "authenticate" /\ q.claims = ssReq[r].claims
  /\ q.left \cap SsTokens \subseteq ssLeft
  /\ q.step = "delete" => SsNumbered(q.session)
  /\ q.given # SsNobody => q.session \notin q.left

LEMMA SsTurnStep ==
  ASSUME SsInv, NEW r \in SsRequests, NEW q, SsTurns(r, q), SsMayTurn(r, q),
         ssLogins' = ssLogins, ssIdle' \in Nat, ssIdle' + SsWeight(q) = ssIdle + SsWeight(ssReq[r]),
         SsCookies \subseteq DOMAIN ssStore', DOMAIN ssStore' \subseteq DOMAIN ssStore,
         \A s \in DOMAIN ssStore' : ssStore'[s] \in SsKnown',
         q.given \in SsKnown',
         ssLeft' \subseteq SsSessions, ssLeft \cap SsTokens \subseteq ssLeft',
         \A s \in ssLeft' : SsNumbered(s),
         \A s \in ssLeft' \cap DOMAIN ssStore' : s \in SsCookies /\ ssStore'[s] = SsNobody
  PROVE  SsInv'
<1>1. /\ ssReq' \in [SsRequests -> SsRecords] /\ \A t \in SsRequests : SsPath(ssReq'[t])
      /\ ssReq'[r] = q /\ \A t \in SsRequests \ {r} : ssReq'[t] = ssReq[t]
  BY SsTurned DEF SsInv, SsMayTurn
<1>2. SsValues'
  <2>1. DOMAIN ssStore' \subseteq SsSessions
    BY DEF SsInv, SsValues
  <2> QED
    BY <1>1, <2>1 DEF SsInv, SsValues, SsPath, SsAnsweredAt
<1>3. SsPoolInv'
  BY SsPoolStep DEF SsMayTurn
<1>4. SsMadeInv'
  <2>1. SsMade' = SsMade
    BY <1>1 DEF SsMade, SsMayTurn
  <2> QED
    BY <2>1 DEF SsInv, SsMadeInv
<1>5. SsOwnUser'
  <2>1. SsKnown \subseteq SsKnown'
    BY SsKnownStep DEF SsMayTurn
  <2>2. \A t \in SsRequests \ {r} : ssReq'[t].given \in SsKnown'
    BY <1>1, <2>1 DEF SsInv, SsOwnUser
  <2> QED
    BY <1>1, <2>2 DEF SsOwnUser
<1>6. SsLeftInv'
  <2>1. \A s \in DOMAIN ssStore' \cup ssLeft' : SsNumbered(s)'
    BY DEF SsInv, SsLeftInv, SsNumbered
  <2>2. ASSUME NEW t \in SsRequests
        PROVE  /\ ssReq'[t].left \cap SsTokens \subseteq ssLeft'
               /\ ssReq'[t].step = "delete" => SsNumbered(ssReq[t].session)'
               /\ ssReq'[t].given # SsNobody => ssReq'[t].session \notin ssReq'[t].left
    <3>1. CASE t = r
      BY <1>1, <3>1 DEF SsMayTurn, SsNumbered
    <3>2. CASE t # r
      BY <1>1, <3>2 DEF SsInv, SsLeftInv, SsNumbered
    <3> QED
      BY <3>1, <3>2
  <2> QED
    BY <2>1, <2>2 DEF SsLeftInv
<1> QED
  BY <1>2, <1>3, <1>4, <1>5, <1>6 DEF SsInv

(* The same of a step that leaves the store alone and what was left. *)
LEMMA SsQuietStep ==
  ASSUME SsInv, NEW r \in SsRequests, NEW q, SsTurns(r, q), SsMayTurn(r, q),
         UNCHANGED <<ssStore, ssLogins, ssLeft>>,
         ssIdle' \in Nat, ssIdle' + SsWeight(q) = ssIdle + SsWeight(ssReq[r]), q.given \in SsKnown
  PROVE  SsInv'
<1>1. SsKnown \subseteq SsKnown'
  BY SsKnownStep DEF SsMayTurn
<1>2. SsCookies \subseteq DOMAIN ssStore' /\ DOMAIN ssStore' \subseteq DOMAIN ssStore /\ ssLeft' \subseteq SsSessions
  BY DEF SsInv, SsValues
<1>3. (\A s \in DOMAIN ssStore' : ssStore'[s] \in SsKnown') /\ q.given \in SsKnown'
  BY <1>1 DEF SsInv, SsOwnUser
<1>4. /\ \A s \in ssLeft' : SsNumbered(s)
      /\ \A s \in ssLeft' \cap DOMAIN ssStore' : s \in SsCookies /\ ssStore'[s] = SsNobody
  BY DEF SsInv, SsLeftInv
<1>5. ssLeft \cap SsTokens \subseteq ssLeft'
  OBVIOUS
<1>6. ssLogins' = ssLogins
  OBVIOUS
<1> QED
  BY <1>2, <1>3, <1>4, <1>5, <1>6, SsTurnStep

LEMMA SsRecordFields ==
  ASSUME SsInv, NEW r \in SsRequests
  PROVE  /\ ssReq[r] \in SsRecords /\ SsPath(ssReq[r]) /\ SsNew \in SsRecords
         /\ ssReq[r].left \cap SsTokens \subseteq ssLeft
         /\ ssReq[r].step = "delete" => SsNumbered(ssReq[r].session)
         /\ ssReq[r].given # SsNobody => ssReq[r].session \notin ssReq[r].left
         /\ ssReq[r].given \in SsKnown /\ ssReq[r].claims \in SsNames
<1>1. SsNew \in SsRecords
  BY DEF SsNew, SsRecords, SsKinds, SsSteps, SsNames
<1>2. ssReq[r] \in SsRecords /\ SsPath(ssReq[r])
  BY DEF SsInv, SsValues
<1>3. ssReq[r].claims \in SsNames
  BY <1>2 DEF SsRecords
<1> QED
  BY <1>1, <1>2, <1>3 DEF SsInv, SsLeftInv, SsOwnUser

(* A step that only moves a request on, and may answer it. *)
LEMMA SsMoves ==
  ASSUME SsInv, NEW r \in SsRequests, NEW step \in SsSteps, NEW n \in {0, 1},
         NEW q, q = [ssReq[r] EXCEPT !.step = step, !.answers = n],
         SsPath(q), step \notin {"delete", "authenticate"}
  PROVE  SsMayTurn(r, q) /\ q.given \in SsKnown
<1>1. q \in SsRecords
  BY SsRecordFields DEF SsRecords
<1>2. /\ q.kind = ssReq[r].kind /\ q.session = ssReq[r].session /\ q.right = ssReq[r].right /\ q.claims = ssReq[r].claims
      /\ q.left = ssReq[r].left /\ q.given = ssReq[r].given /\ q.step = step
  BY SsRecordFields DEF SsRecords
<1> QED
  BY <1>1, <1>2, SsRecordFields DEF SsMayTurn, SsHasMade

(* A request that comes in. *)
LEMMA SsComes ==
  ASSUME SsInv, NEW r \in SsRequests, NEW q \in SsRecords, SsPath(q), ssReq[r].step = "none",
         q.left = ssLeft, q.given \in SsKnown, q.step # "delete", q.kind = "login" => q.session = 0,
         q.given # SsNobody => q.session \notin ssLeft
  PROVE  SsMayTurn(r, q)
<1>1. ssReq[r].kind = "query" /\ ~ssReq[r].right
  BY SsRecordFields DEF SsPath
<1>2. ~SsHasMade(q) /\ ~SsHasMade(ssReq[r])
  BY <1>1 DEF SsHasMade
<1>3. q.left \cap SsTokens \subseteq ssLeft
  OBVIOUS
<1> QED
  BY <1>1, <1>2, <1>3 DEF SsMayTurn

LEMMA SsArrives ==
  ASSUME SsInv, NEW r \in SsRequests, ssReq[r].step = "none", ssIdle' = ssIdle,
         UNCHANGED <<ssStore, ssLogins, ssLeft>>,
         NEW q \in SsRecords, SsTurns(r, q), SsPath(q), q.left = ssLeft, q.given = SsNobody,
         q.step \in {"authenticate", "connect", "get", "done"}, q.kind = "login" => q.session = 0
  PROVE  SsInv'
<1>1. SsNobody \in SsKnown
  BY DEF SsKnown
<1>2. SsMayTurn(r, q)
  BY <1>1, SsComes
<1>3. SsWeight(q) = 0 /\ SsWeight(ssReq[r]) = 0
  BY DEF SsWeight, SsHolds
<1>4. ssIdle' \in Nat /\ ssIdle' + SsWeight(q) = ssIdle + SsWeight(ssReq[r])
  BY <1>3 DEF SsInv, SsPoolInv
<1> QED
  BY <1>1, <1>2, <1>4, SsQuietStep

LEMMA SsLoginStep ==
  ASSUME SsInv, NEW r \in SsRequests, NEW form \in BOOLEAN, NEW u \in SsUsers, NEW right \in BOOLEAN,
         NEW c \in SsOfCookie, SsLogin(r, form, u, right, c)
  PROVE  SsInv'
<1> DEFINE kind == IF form THEN "form" ELSE "login"
           session == IF form THEN c ELSE 0
           goes == [SsNew EXCEPT !.kind = kind, !.step = "authenticate", !.claims = u, !.right = right,
                                 !.session = session, !.left = ssLeft]
           refused == [SsNew EXCEPT !.kind = kind, !.step = "done", !.session = session,
                                    !.answers = 1, !.left = ssLeft]
<1>1. ssLeft \subseteq SsSessions /\ session \in SsSessions \cup {0} /\ u \in SsNames
  BY DEF SsInv, SsValues, SsSessions, SsNames
<1>2. /\ goes \in SsRecords /\ SsPath(goes) /\ goes.left = ssLeft /\ goes.given = SsNobody
      /\ goes.step = "authenticate" /\ (goes.kind = "login" => goes.session = 0)
  BY <1>1, SsRecordFields DEF SsNew, SsRecords, SsPath, SsAnsweredAt, SsKinds, SsSteps
<1>3. /\ refused \in SsRecords /\ SsPath(refused) /\ refused.left = ssLeft /\ refused.given = SsNobody
      /\ refused.step = "done" /\ (refused.kind = "login" => refused.session = 0)
  BY <1>1, SsRecordFields DEF SsNew, SsRecords, SsPath, SsAnsweredAt, SsKinds, SsSteps
<1>4. /\ ssReq[r].step = "none" /\ UNCHANGED <<ssStore, ssLogins, ssIdle, ssLeft>>
      /\ SsTurns(r, goes) \/ SsTurns(r, refused)
  BY DEF SsLogin, SsStart, SsRefused, SsTurns
<1> HIDE DEF goes, refused
<1> QED
  BY <1>2, <1>3, <1>4, SsArrives

LEMMA SsQueryStep ==
  ASSUME SsInv, NEW r \in SsRequests, SsQuery(r)
  PROVE  SsInv'
<1> DEFINE q == [SsNew EXCEPT !.kind = "query", !.step = "connect", !.claims = SsNobody, !.right = FALSE,
                              !.session = 0, !.left = ssLeft]
<1>1. ssLeft \subseteq SsSessions
  BY DEF SsInv, SsValues
<1>2. /\ q \in SsRecords /\ SsPath(q) /\ q.left = ssLeft /\ q.given = SsNobody
      /\ q.step = "connect" /\ q.kind = "query"
  BY <1>1, SsRecordFields DEF SsNew, SsRecords, SsPath, SsAnsweredAt, SsKinds, SsSteps, SsNames
<1>3. ssReq[r].step = "none" /\ UNCHANGED <<ssStore, ssLogins, ssIdle, ssLeft>> /\ SsTurns(r, q)
  BY DEF SsQuery, SsStart, SsTurns
<1> HIDE DEF q
<1> QED
  BY <1>2, <1>3, SsArrives

LEMMA SsWithSessionStep ==
  ASSUME SsInv, NEW r \in SsRequests, NEW kind \in {"session", "logout"}, NEW s \in SsTokens,
         SsWithSession(r, kind, s)
  PROVE  SsInv'
<1> DEFINE goes == [SsNew EXCEPT !.kind = kind, !.step = "get", !.claims = SsNobody, !.right = FALSE,
                                 !.session = s, !.left = ssLeft]
           refused == [SsNew EXCEPT !.kind = kind, !.step = "done", !.session = s,
                                    !.answers = 1, !.left = ssLeft]
<1>1. ssLeft \subseteq SsSessions /\ s \in SsSessions \cup {0}
  BY DEF SsInv, SsValues, SsSessions
<1>2. /\ goes \in SsRecords /\ SsPath(goes) /\ goes.left = ssLeft /\ goes.given = SsNobody
      /\ goes.step = "get" /\ goes.kind # "login"
  BY <1>1, SsRecordFields DEF SsNew, SsRecords, SsPath, SsAnsweredAt, SsKinds, SsSteps, SsNames
<1>3. /\ refused \in SsRecords /\ SsPath(refused) /\ refused.left = ssLeft /\ refused.given = SsNobody
      /\ refused.step = "done" /\ refused.kind # "login"
  BY <1>1, SsRecordFields DEF SsNew, SsRecords, SsPath, SsAnsweredAt, SsKinds, SsSteps
<1>4. /\ ssReq[r].step = "none" /\ UNCHANGED <<ssStore, ssLogins, ssIdle, ssLeft>>
      /\ SsTurns(r, goes) \/ SsTurns(r, refused)
  BY DEF SsWithSession, SsStart, SsRefused, SsTurns
<1> HIDE DEF goes, refused
<1> QED
  BY <1>2, <1>3, <1>4, SsArrives

LEMMA SsPageStep ==
  ASSUME SsInv, NEW r \in SsRequests, NEW c \in SsOfCookie, SsPage(r, c)
  PROVE  SsInv'
<1> DEFINE user == IF c = 0 THEN SsNobody ELSE ssStore[c]
           q == [SsNew EXCEPT !.kind = "page", !.step = "done", !.session = c,
                              !.answers = 1, !.given = user, !.left = ssLeft]
<1>1. ssLeft \subseteq SsSessions /\ c \in SsSessions \cup {0} /\ (c # 0 => c \in DOMAIN ssStore)
  BY DEF SsInv, SsValues, SsSessions
<1>2. user \in SsKnown /\ (c \in ssLeft => user = SsNobody)
  BY <1>1 DEF SsInv, SsOwnUser, SsLeftInv, SsKnown
<1>3. SsKnown \subseteq SsNames
  BY SsRecordFields DEF SsKnown, SsProved, SsNames
<1>4. /\ q \in SsRecords /\ SsPath(q) /\ q.left = ssLeft /\ q.given = user /\ q.session = c
      /\ q.step = "done" /\ q.kind = "page"
  BY <1>1, <1>2, <1>3, SsRecordFields DEF SsNew, SsRecords, SsPath, SsAnsweredAt, SsKinds, SsSteps
<1>5. ssReq[r].step = "none" /\ UNCHANGED <<ssStore, ssLogins, ssIdle, ssLeft>> /\ SsTurns(r, q)
  BY DEF SsPage, SsTurns
<1> HIDE DEF q, user
<1>6. SsMayTurn(r, q)
  BY <1>2, <1>4, <1>5, SsComes
<1>7. SsWeight(q) = 0 /\ SsWeight(ssReq[r]) = 0
  BY <1>4, <1>5 DEF SsWeight, SsHolds
<1>8. ssIdle' \in Nat /\ ssIdle' + SsWeight(q) = ssIdle + SsWeight(ssReq[r])
  BY <1>5, <1>7 DEF SsInv, SsPoolInv
<1> QED
  BY <1>2, <1>4, <1>5, <1>6, <1>8, SsQuietStep

LEMMA SsConnectStep ==
  ASSUME SsInv, NEW r \in SsRequests, SsConnect(r)
  PROVE  SsInv'
<1>1. PICK q : q = [ssReq[r] EXCEPT !.step = "execute", !.answers = ssReq[r].answers]
  OBVIOUS
<1>2. /\ ssReq[r].step = "connect" /\ ssIdle > 0 /\ ssIdle' = ssIdle - 1
      /\ UNCHANGED <<ssStore, ssLogins, ssLeft>>
  BY DEF SsConnect
<1>3. SsTurns(r, q)
  BY <1>1, SsRecordFields DEF SsConnect, SsGoes, SsTurns, SsRecords
<1>4. SsPath(q) /\ q.step = "execute"
  BY <1>1, <1>2, SsRecordFields DEF SsPath, SsAnsweredAt, SsRecords
<1>5. SsMayTurn(r, q) /\ q.given \in SsKnown
  BY <1>1, <1>4, SsRecordFields, SsMoves DEF SsRecords, SsSteps
<1>6. SsWeight(q) = 1 /\ SsWeight(ssReq[r]) = 0
  BY <1>2, <1>4 DEF SsWeight, SsHolds
<1>7. ssIdle' \in Nat /\ ssIdle' + SsWeight(q) = ssIdle + SsWeight(ssReq[r])
  BY <1>2, <1>6 DEF SsInv, SsPoolInv
<1> QED
  BY <1>2, <1>3, <1>5, <1>7, SsQuietStep

LEMMA SsCloseStep ==
  ASSUME SsInv, NEW r \in SsRequests, SsClose(r)
  PROVE  SsInv'
<1>1. PICK q : q = [ssReq[r] EXCEPT !.step = "done", !.answers = ssReq[r].answers]
  OBVIOUS
<1>2. ssReq[r].step = "close" /\ ssIdle' = ssIdle + 1 /\ UNCHANGED <<ssStore, ssLogins, ssLeft>>
  BY DEF SsClose
<1>3. SsTurns(r, q)
  BY <1>1, SsRecordFields DEF SsClose, SsGoes, SsTurns, SsRecords
<1>4. SsPath(q) /\ q.step = "done"
  BY <1>1, <1>2, SsRecordFields DEF SsPath, SsAnsweredAt, SsRecords
<1>5. SsMayTurn(r, q) /\ q.given \in SsKnown
  BY <1>1, <1>4, SsRecordFields, SsMoves DEF SsRecords, SsSteps
<1>6. SsWeight(q) = 0 /\ SsWeight(ssReq[r]) = 1
  BY <1>2, <1>4 DEF SsWeight, SsHolds
<1>7. ssIdle' \in Nat /\ ssIdle' + SsWeight(q) = ssIdle + SsWeight(ssReq[r])
  BY <1>2, <1>6 DEF SsInv, SsPoolInv
<1> QED
  BY <1>2, <1>3, <1>5, <1>7, SsQuietStep

(* What an answer does to the record of the request. *)
LEMMA SsAnswerTurns ==
  ASSUME SsInv, NEW r \in SsRequests, NEW step, ssReq[r].answers = 0
  PROVE  /\ SsAnswers(r, step) => SsTurns(r, [ssReq[r] EXCEPT !.step = step, !.answers = 1])
         /\ \A u : SsGiven(r, u) => SsTurns(r, [ssReq[r] EXCEPT !.step = "done", !.answers = 1, !.given = u])
<1>1. PICK one : one = ssReq[r].answers + 1
  OBVIOUS
<1>2. one = 1
  BY <1>1
<1>3. ssReq \in [SsRequests -> SsRecords]
  BY DEF SsInv, SsValues
<1>4. SsAnswers(r, step) => ssReq' = [ssReq EXCEPT ![r].step = step, ![r].answers = one]
  BY <1>1, <1>3 DEF SsAnswers, SsRecords
<1>5. \A u : SsGiven(r, u) => ssReq' = [ssReq EXCEPT ![r].step = "done", ![r].answers = one, ![r].given = u]
  BY <1>1, <1>3 DEF SsGiven, SsRecords
<1>6. SsAnswers(r, step) => SsTurns(r, [ssReq[r] EXCEPT !.step = step, !.answers = one])
  BY <1>3, <1>4 DEF SsTurns, SsRecords
<1>7. \A u : SsGiven(r, u) => SsTurns(r, [ssReq[r] EXCEPT !.step = "done", !.answers = one, !.given = u])
  BY <1>3, <1>5 DEF SsTurns, SsRecords
<1> QED
  BY <1>2, <1>6, <1>7

LEMMA SsGetStep ==
  ASSUME SsInv, NEW r \in SsRequests, SsGet(r)
  PROVE  SsInv'
<1>1. /\ ssReq[r].step = "get" /\ UNCHANGED <<ssStore, ssLogins, ssIdle, ssLeft>>
      /\ ssReq[r].answers = 0 /\ ssReq[r].kind \in {"session", "logout"} /\ ssReq[r].session \in SsTokens
  BY SsRecordFields DEF SsGet, SsPath, SsAnsweredAt
<1>2. ASSUME NEW q, SsTurns(r, q), SsMayTurn(r, q), q.given \in SsKnown, q.step \in {"done", "delete"}
      PROVE  SsInv'
  <2>1. SsWeight(q) = 0 /\ SsWeight(ssReq[r]) = 0
    BY <1>1, <1>2 DEF SsWeight, SsHolds
  <2>2. ssIdle' \in Nat /\ ssIdle' + SsWeight(q) = ssIdle + SsWeight(ssReq[r])
    BY <1>1, <2>1 DEF SsInv, SsPoolInv
  <2> QED
    BY <1>1, <1>2, <2>2, SsQuietStep
<1>3. CASE SsAnswers(r, "done")
  <2>1. PICK q : q = [ssReq[r] EXCEPT !.step = "done", !.answers = 1]
    OBVIOUS
  <2>2. SsTurns(r, q)
    BY <1>1, <1>3, <2>1, SsAnswerTurns
  <2>3. SsPath(q) /\ q.step = "done"
    BY <1>1, <2>1, SsRecordFields DEF SsPath, SsAnsweredAt, SsRecords
  <2>4. SsMayTurn(r, q) /\ q.given \in SsKnown
    BY <2>1, <2>3, SsMoves DEF SsSteps
  <2> QED
    BY <1>2, <2>2, <2>3, <2>4
<1>4. CASE ssReq[r].session \in DOMAIN ssStore
  <2>1. PICK u : u = ssStore[ssReq[r].session]
    OBVIOUS
  <2>2. u \in SsKnown
    BY <1>4, <2>1 DEF SsInv, SsOwnUser
  <2>3. u \in SsNames
    BY <2>2, SsRecordFields DEF SsKnown, SsProved, SsNames
  <2>4. ssReq[r].session \notin ssReq[r].left
    <3>1. ssReq[r].session \notin SsCookies
      BY <1>1, SsSeparate
    <3>2. ssReq[r].session \notin ssLeft
      BY <1>4, <3>1 DEF SsInv, SsLeftInv
    <3> QED
      BY <1>1, <3>2, SsRecordFields
  <2>5. SsNumbered(ssReq[r].session)
    BY <1>4 DEF SsInv, SsLeftInv
  <2>6. CASE ssReq[r].kind = "session" /\ SsGiven(r, u)
    <3>1. PICK q : q = [ssReq[r] EXCEPT !.step = "done", !.answers = 1, !.given = u]
      OBVIOUS
    <3>2. SsTurns(r, q)
      BY <1>1, <2>6, <3>1, SsAnswerTurns
    <3>3. /\ q \in SsRecords /\ q.step = "done" /\ q.given = u /\ q.kind = ssReq[r].kind
          /\ q.session = ssReq[r].session /\ q.right = ssReq[r].right /\ q.claims = ssReq[r].claims
          /\ q.left = ssReq[r].left /\ q.answers = 1
      BY <2>3, <3>1, SsRecordFields DEF SsRecords, SsSteps
    <3>4. SsPath(q)
      BY <1>1, <3>3 DEF SsPath, SsAnsweredAt
    <3>5. SsMayTurn(r, q)
      BY <1>1, <2>4, <3>3, <3>4, SsRecordFields DEF SsMayTurn, SsHasMade
    <3> QED
      BY <1>2, <2>2, <3>2, <3>3, <3>5
  <2>7. CASE ssReq[r].kind = "logout" /\ ssReq' = [ssReq EXCEPT ![r].step = "delete", ![r].given = u]
    <3>1. PICK q : q = [ssReq[r] EXCEPT !.step = "delete", !.given = u]
      OBVIOUS
    <3>2. SsTurns(r, q)
      BY <1>1, <2>7, <3>1, SsRecordFields DEF SsTurns, SsRecords
    <3>3. /\ q \in SsRecords /\ q.step = "delete" /\ q.given = u /\ q.kind = ssReq[r].kind
          /\ q.session = ssReq[r].session /\ q.right = ssReq[r].right /\ q.claims = ssReq[r].claims
          /\ q.left = ssReq[r].left /\ q.answers = 0
      BY <1>1, <2>3, <3>1, SsRecordFields DEF SsRecords, SsSteps
    <3>4. SsPath(q)
      BY <1>1, <3>3 DEF SsPath, SsAnsweredAt
    <3>5. SsMayTurn(r, q)
      BY <1>1, <2>4, <2>5, <3>3, <3>4, SsRecordFields DEF SsMayTurn, SsHasMade
    <3> QED
      BY <1>2, <2>2, <3>2, <3>3, <3>5
  <2> QED
    BY <1>1, <1>3, <2>1, <2>6, <2>7 DEF SsGet
<1> QED
  BY <1>3, <1>4 DEF SsGet

(* A login that makes its session: the session is one that nobody had, nor left. *)
LEMMA SsLogged ==
  ASSUME SsInv, NEW r \in SsRequests, NEW step \in {"close", "done"}, ssReq[r].kind = "login",
         ssReq[r].step \in {"connect", "execute"}, step = "close" <=> ssReq[r].step = "execute",
         SsResult(r, step), ssLeft' = ssLeft, ssIdle' = ssIdle
  PROVE  SsInv'
<1>1. PICK s : s = Len(ssLogins) + 1
  OBVIOUS
<1>2. PICK u : u = ssReq[r].claims
  OBVIOUS
<1>3. /\ ssReq[r].answers = 0 /\ ssReq[r].right /\ ssReq[r].session = 0 /\ u \in SsNames
      /\ u \in SsKnown
  BY <1>2, SsRecordFields DEF SsPath, SsAnsweredAt, SsKnown, SsProved
<1>4. PICK q : q = [ssReq[r] EXCEPT !.step = step, !.answers = 1, !.given = u, !.session = s]
  OBVIOUS
<1>5. /\ ssLogins' = Append(ssLogins, u)
      /\ ssStore' = [t \in DOMAIN ssStore \cup {s} |-> IF t = s THEN u ELSE ssStore[t]]
      /\ ssReq' = [ssReq EXCEPT ![r].step = step, ![r].answers = @ + 1, ![r].given = u, ![r].session = s]
  BY <1>1, <1>2 DEF SsResult
<1>6. SsTurns(r, q)
  <2>1. ssReq \in [SsRequests -> SsRecords]
    BY DEF SsInv, SsValues
  <2>2. PICK one : one = ssReq[r].answers + 1
    OBVIOUS
  <2>3. one = 1
    BY <1>3, <2>2
  <2>4. ssReq' = [ssReq EXCEPT ![r].step = step, ![r].answers = one, ![r].given = u, ![r].session = s]
    BY <1>5, <2>1, <2>2 DEF SsRecords
  <2>5. SsTurns(r, [ssReq[r] EXCEPT !.step = step, !.answers = one, !.given = u, !.session = s])
    BY <2>1, <2>4 DEF SsTurns, SsRecords
  <2> QED
    BY <1>4, <2>3, <2>5
<1>7. ssLogins \in Seq(SsNames) /\ Len(ssLogins) \in Nat
  BY DEF SsInv, SsValues
<1>8. ssLogins' \in Seq(SsNames) /\ Len(ssLogins') = s
  BY <1>1, <1>3, <1>5, <1>7
<1>9. r \notin SsMade /\ SsMade \in SUBSET SsRequests
  BY <1>3 DEF SsMade, SsHasMade
<1>10. Cardinality(SsMade \cup {r}) = Cardinality(SsMade) + 1
  <2>1. IsFiniteSet(SsMade)
    BY <1>9, SsAssumption, FS_Subset
  <2> QED
    BY <1>9, <2>1, FS_AddElement
<1>11. s \in SsTokens
  <2>1. SsMade \cup {r} \in SUBSET SsRequests
    BY <1>9
  <2>2. Cardinality(SsMade \cup {r}) <= Cardinality(SsRequests)
    BY <2>1, SsAssumption, FS_Subset
  <2>3. s = Cardinality(SsMade \cup {r})
    BY <1>1, <1>10 DEF SsInv, SsMadeInv
  <2>4. s <= Cardinality(SsRequests)
    BY <2>2, <2>3
  <2>5. s \in 1..Cardinality(SsRequests)
    BY <1>1, <1>7, <2>4, SsSeparate
  <2> QED
    BY <2>5, SsSeparate
<1>12. s \notin SsCookies /\ s # 0 /\ s \in SsSessions
  BY <1>11, SsSeparate DEF SsSessions
<1>13. ~SsNumbered(s)
  BY <1>1, <1>7, <1>11 DEF SsNumbered
<1>14. /\ q \in SsRecords /\ q.step = step /\ q.given = u /\ q.kind = "login" /\ q.session = s
       /\ q.right /\ q.claims = u /\ q.left = ssReq[r].left /\ q.answers = 1
  BY <1>2, <1>3, <1>4, <1>12, SsRecordFields DEF SsRecords, SsSteps
<1>15. SsPath(q)
  BY <1>14 DEF SsPath, SsAnsweredAt
<1>16. /\ ssReq' \in [SsRequests -> SsRecords] /\ \A t \in SsRequests : SsPath(ssReq'[t])
       /\ ssReq'[r] = q /\ \A t \in SsRequests \ {r} : ssReq'[t] = ssReq[t]
  BY <1>6, <1>14, <1>15, SsTurned DEF SsInv
<1>17. SsValues'
  <2>1. SsCookies \subseteq DOMAIN ssStore' /\ DOMAIN ssStore' \subseteq SsSessions /\ ssLeft' \subseteq SsSessions
    BY <1>5, <1>12 DEF SsInv, SsValues
  <2> QED
    BY <1>8, <1>16, <2>1 DEF SsValues, SsPath, SsAnsweredAt
<1>18. SsPoolInv'
  <2>1. SsWeight(q) = SsWeight(ssReq[r])
    BY <1>14 DEF SsWeight, SsHolds
  <2>2. ssIdle' + SsWeight(q) = ssIdle + SsWeight(ssReq[r])
    BY <2>1
  <2> QED
    BY <1>6, <1>14, <1>15, <2>2, SsPoolStep DEF SsInv, SsPoolInv
<1>19. SsMadeInv'
  <2>1. SsMade' = SsMade \cup {r}
    BY <1>12, <1>14, <1>16 DEF SsMade, SsHasMade
  <2> QED
    BY <1>1, <1>8, <1>10, <2>1 DEF SsInv, SsMadeInv
<1>20. SsOwnUser'
  <2>1. SsKnown \subseteq SsKnown'
    BY <1>2, <1>6, <1>14, <1>15, SsKnownStep
  <2>2. \A t \in SsRequests \ {r} : ssReq'[t].given \in SsKnown'
    BY <1>16, <2>1 DEF SsInv, SsOwnUser
  <2>3. \A t \in DOMAIN ssStore' : ssStore'[t] \in SsKnown'
    BY <1>3, <1>5, <2>1 DEF SsInv, SsOwnUser
  <2> QED
    BY <1>3, <1>14, <1>16, <2>1, <2>2, <2>3 DEF SsOwnUser
<1>21. SsLeftInv'
  <2>1. \A t : SsNumbered(t) => SsNumbered(t)'
    BY <1>1, <1>7, <1>8, SsSeparate DEF SsNumbered
  <2>2. SsNumbered(s)'
    BY <1>1, <1>7, <1>8 DEF SsNumbered
  <2>3. \A t \in DOMAIN ssStore' \cup ssLeft' : SsNumbered(t)'
    BY <1>5, <2>1, <2>2 DEF SsInv, SsLeftInv
  <2>4. s \notin ssLeft /\ s \notin DOMAIN ssStore
    BY <1>13 DEF SsInv, SsLeftInv
  <2>5. \A t \in ssLeft' \cap DOMAIN ssStore' : t \in SsCookies /\ ssStore'[t] = SsNobody
    BY <1>5, <2>4 DEF SsInv, SsLeftInv
  <2>6. s \notin q.left
    BY <1>11, <1>14, <2>4 DEF SsInv, SsLeftInv
  <2>7. ASSUME NEW t \in SsRequests
        PROVE  /\ ssReq'[t].left \cap SsTokens \subseteq ssLeft'
               /\ (ssReq[t].step = "delete" => SsNumbered(ssReq[t].session))'
               /\ ssReq'[t].given # SsNobody => ssReq'[t].session \notin ssReq'[t].left
    <3>1. CASE t = r
      BY <1>14, <1>16, <2>6, <3>1 DEF SsInv, SsLeftInv
    <3>2. CASE t # r
      <4>1. ssReq'[t] = ssReq[t]
        BY <1>16, <3>2
      <4> QED
        BY <2>1, <4>1 DEF SsInv, SsLeftInv
    <3> QED
      BY <3>1, <3>2
  <2> QED
    BY <2>3, <2>5, <2>7 DEF SsLeftInv
<1> QED
  BY <1>17, <1>18, <1>19, <1>20, <1>21 DEF SsInv

(* The result of a query of another kind, of a failed call or of one that came. *)
LEMMA SsResultStep ==
  ASSUME SsInv, NEW r \in SsRequests, NEW step \in {"close", "done"},
         ssReq[r].step \in {"connect", "execute"}, step = "close" <=> ssReq[r].step = "execute",
         SsResult(r, step), ssLeft' = ssLeft, ssIdle' = ssIdle
  PROVE  SsInv'
<1>1. CASE ssReq[r].kind = "login"
  BY <1>1, SsLogged
<1>2. CASE ssReq[r].kind # "login"
  <2>1. UNCHANGED <<ssStore, ssLogins, ssLeft>>
    BY <1>2 DEF SsResult
  <2>2. ASSUME NEW n \in {0, 1}, n = IF SsThrows(ssReq[r]) THEN 0 ELSE 1,
               SsTurns(r, [ssReq[r] EXCEPT !.step = step, !.answers = n])
        PROVE  SsInv'
    <3>1. PICK q : q = [ssReq[r] EXCEPT !.step = step, !.answers = n]
      OBVIOUS
    <3>2. SsPath(q) /\ q.step = step
      BY <2>2, <3>1, SsRecordFields DEF SsPath, SsAnsweredAt, SsRecords
    <3>3. SsMayTurn(r, q) /\ q.given \in SsKnown
      BY <3>1, <3>2, SsMoves DEF SsSteps
    <3>4. SsWeight(q) = SsWeight(ssReq[r])
      BY <3>2 DEF SsWeight, SsHolds
    <3>5. ssIdle' \in Nat /\ ssIdle' + SsWeight(q) = ssIdle + SsWeight(ssReq[r])
      BY <3>4 DEF SsInv, SsPoolInv
    <3> QED
      BY <2>1, <2>2, <3>1, <3>3, <3>5, SsQuietStep
  <2>3. CASE ssReq[r].kind = "form"
    <3>1. SsGoes(r, step) /\ ssReq[r].answers = IF SsThrows(ssReq[r]) THEN 0 ELSE 1
      BY <1>2, <2>3, SsRecordFields DEF SsResult, SsPath, SsAnsweredAt
    <3>2. PICK n \in {0, 1} : n = ssReq[r].answers
      BY <3>1
    <3>3. SsTurns(r, [ssReq[r] EXCEPT !.step = step, !.answers = n])
      BY <3>1, <3>2, SsRecordFields DEF SsGoes, SsTurns, SsRecords
    <3> QED
      BY <2>2, <3>1, <3>2, <3>3
  <2>4. CASE ssReq[r].kind # "form"
    <3>1. SsAnswers(r, step) /\ ssReq[r].answers = 0
      BY <1>2, <2>4, SsRecordFields DEF SsResult, SsPath, SsAnsweredAt
    <3>2. SsTurns(r, [ssReq[r] EXCEPT !.step = step, !.answers = 1])
      BY <3>1, SsAnswerTurns
    <3> QED
      BY <2>2, <2>4, <3>2
  <2> QED
    BY <2>3, <2>4
<1> QED
  BY <1>1, <1>2

LEMMA SsConnectFailsStep == ASSUME SsInv, NEW r \in SsRequests, SsConnectFails(r) PROVE SsInv'
BY SsResultStep DEF SsConnectFails

LEMMA SsExecuteStep == ASSUME SsInv, NEW r \in SsRequests, SsExecute(r) PROVE SsInv'
BY SsResultStep DEF SsExecute

LEMMA SsAuthenticateStep ==
  ASSUME SsInv, NEW r \in SsRequests, SsAuthenticate(r)
  PROVE  SsInv'
<1>1. /\ ssReq[r].step = "authenticate" /\ ssReq[r].answers = 0 /\ ssReq[r].kind \in {"login", "form"}
      /\ ssLogins' = ssLogins /\ ssIdle' = ssIdle
      /\ (ssReq[r].kind = "form" => ssReq[r].session \in SsOfCookie)
      /\ (ssReq[r].kind = "login" => ssReq[r].session = 0)
  BY SsRecordFields DEF SsAuthenticate, SsPath, SsAnsweredAt
<1>2. ASSUME NEW q, q.step \in {"done", "connect"}
      PROVE  ssIdle' \in Nat /\ ssIdle' + SsWeight(q) = ssIdle + SsWeight(ssReq[r])
  <2>1. SsWeight(q) = 0 /\ SsWeight(ssReq[r]) = 0
    BY <1>1, <1>2 DEF SsWeight, SsHolds
  <2> QED
    BY <1>1, <2>1 DEF SsInv, SsPoolInv
<1>3. CASE ~ssReq[r].right
  <2>1. SsAnswers(r, "done") /\ UNCHANGED <<ssStore, ssLeft>>
    BY <1>3 DEF SsAuthenticate
  <2>2. PICK q : q = [ssReq[r] EXCEPT !.step = "done", !.answers = 1]
    OBVIOUS
  <2>3. SsTurns(r, q)
    BY <1>1, <2>1, <2>2, SsAnswerTurns
  <2>4. SsPath(q) /\ q.step = "done"
    BY <1>1, <1>3, <2>2, SsRecordFields DEF SsPath, SsAnsweredAt, SsRecords
  <2>5. SsMayTurn(r, q) /\ q.given \in SsKnown
    BY <2>2, <2>4, SsMoves DEF SsSteps
  <2> QED
    BY <1>1, <1>2, <2>1, <2>3, <2>4, <2>5, SsQuietStep
<1>4. CASE ssReq[r].right /\ (ssReq[r].kind = "login" \/ ssReq[r].session = 0)
  <2>1. SsGoes(r, "connect") /\ UNCHANGED <<ssStore, ssLeft>>
    BY <1>4 DEF SsAuthenticate
  <2>2. PICK q : q = [ssReq[r] EXCEPT !.step = "connect", !.answers = 0]
    OBVIOUS
  <2>3. SsTurns(r, q)
    BY <1>1, <2>1, <2>2, SsRecordFields DEF SsGoes, SsTurns, SsRecords
  <2>4. SsPath(q) /\ q.step = "connect"
    BY <1>1, <1>4, <2>2, SsRecordFields DEF SsPath, SsAnsweredAt, SsRecords
  <2>5. SsMayTurn(r, q) /\ q.given \in SsKnown
    BY <2>2, <2>4, SsMoves DEF SsSteps
  <2> QED
    BY <1>1, <1>2, <2>1, <2>3, <2>4, <2>5, SsQuietStep
<1>5. CASE ssReq[r].right /\ ssReq[r].kind = "form" /\ ssReq[r].session # 0
  <2>1. PICK c \in SsCookies : c = ssReq[r].session
    BY <1>1, <1>5
  <2>2. PICK u : u = ssReq[r].claims
    OBVIOUS
  <2>3. /\ SsAnswers(r, "connect") /\ ssStore' = [ssStore EXCEPT ![c] = u] /\ ssLeft' = ssLeft \ {c}
    BY <1>5, <2>1, <2>2 DEF SsAuthenticate
  <2>4. PICK q : q = [ssReq[r] EXCEPT !.step = "connect", !.answers = 1]
    OBVIOUS
  <2>5. SsTurns(r, q)
    BY <1>1, <2>3, <2>4, SsAnswerTurns
  <2>6. SsPath(q) /\ q.step = "connect" /\ q.right /\ q.claims = u
    BY <1>1, <1>5, <2>2, <2>4, SsRecordFields DEF SsPath, SsAnsweredAt, SsRecords
  <2>7. SsMayTurn(r, q) /\ q.given \in SsKnown
    BY <2>4, <2>6, SsMoves DEF SsSteps
  <2>8. SsKnown \subseteq SsKnown' /\ u \in SsKnown'
    BY <2>2, <2>5, <2>6, <2>7, SsKnownStep DEF SsMayTurn
  <2>9. SsCookies \subseteq DOMAIN ssStore' /\ DOMAIN ssStore' \subseteq DOMAIN ssStore /\ ssLeft' \subseteq SsSessions
    BY <2>3 DEF SsInv, SsValues
  <2>10. \A s \in DOMAIN ssStore' : ssStore'[s] \in SsKnown'
    BY <2>3, <2>8 DEF SsInv, SsOwnUser
  <2>11. ssLeft \cap SsTokens \subseteq ssLeft' /\ \A s \in ssLeft' : SsNumbered(s)
    BY <2>1, <2>3, SsSeparate DEF SsInv, SsLeftInv
  <2>12. \A s \in ssLeft' \cap DOMAIN ssStore' : s \in SsCookies /\ ssStore'[s] = SsNobody
    BY <2>3 DEF SsInv, SsLeftInv
  <2>13. ssIdle' \in Nat /\ ssIdle' + SsWeight(q) = ssIdle + SsWeight(ssReq[r])
    BY <1>2, <2>6
  <2>14. q.given \in SsKnown'
    BY <2>7, <2>8
  <2> QED
    BY <1>1, <2>5, <2>7, <2>9, <2>10, <2>11, <2>12, <2>13, <2>14, SsTurnStep
<1> QED
  BY <1>1, <1>3, <1>4, <1>5, SsRecordFields DEF SsRecords

LEMMA SsDeleteStep ==
  ASSUME SsInv, NEW r \in SsRequests, SsDelete(r)
  PROVE  SsInv'
<1>1. PICK s : s = ssReq[r].session
  OBVIOUS
<1>2. /\ ssReq[r].step = "delete" /\ ssReq[r].answers = 0 /\ ssReq[r].kind \in {"session", "logout"}
      /\ s \in SsTokens /\ SsNumbered(s)
  BY <1>1, SsRecordFields DEF SsDelete, SsPath, SsAnsweredAt
<1>3. /\ SsAnswers(r, "done") /\ ssLeft' = ssLeft \cup {s} /\ ssLogins' = ssLogins /\ ssIdle' = ssIdle
      /\ ssStore' = [t \in DOMAIN ssStore \ {s} |-> ssStore[t]]
  BY <1>1 DEF SsDelete
<1>4. PICK q : q = [ssReq[r] EXCEPT !.step = "done", !.answers = 1]
  OBVIOUS
<1>5. SsTurns(r, q)
  BY <1>2, <1>3, <1>4, SsAnswerTurns
<1>6. SsPath(q) /\ q.step = "done"
  BY <1>2, <1>4, SsRecordFields DEF SsPath, SsAnsweredAt, SsRecords
<1>7. SsMayTurn(r, q) /\ q.given \in SsKnown
  BY <1>4, <1>6, SsMoves DEF SsSteps
<1>8. SsKnown \subseteq SsKnown'
  BY <1>5, <1>7, SsKnownStep DEF SsMayTurn
<1>9. SsCookies \subseteq DOMAIN ssStore' /\ DOMAIN ssStore' \subseteq DOMAIN ssStore /\ ssLeft' \subseteq SsSessions
  BY <1>2, <1>3, SsSeparate DEF SsInv, SsValues, SsSessions
<1>10. (\A t \in DOMAIN ssStore' : ssStore'[t] \in SsKnown') /\ q.given \in SsKnown'
  BY <1>3, <1>7, <1>8 DEF SsInv, SsOwnUser
<1>11. ssLeft \cap SsTokens \subseteq ssLeft' /\ \A t \in ssLeft' : SsNumbered(t)
  BY <1>2, <1>3 DEF SsInv, SsLeftInv
<1>12. \A t \in ssLeft' \cap DOMAIN ssStore' : t \in SsCookies /\ ssStore'[t] = SsNobody
  BY <1>3 DEF SsInv, SsLeftInv
<1>13. ssIdle' \in Nat /\ ssIdle' + SsWeight(q) = ssIdle + SsWeight(ssReq[r])
  <2>1. SsWeight(q) = 0 /\ SsWeight(ssReq[r]) = 0
    BY <1>2, <1>6 DEF SsWeight, SsHolds
  <2> QED
    BY <1>3, <2>1 DEF SsInv, SsPoolInv
<1> QED
  BY <1>3, <1>5, <1>7, <1>9, <1>10, <1>11, <1>12, <1>13, SsTurnStep

LEMMA SsLeaveStep ==
  ASSUME SsInv, NEW r \in SsRequests, NEW c \in SsOfCookie, SsLeave(r, c)
  PROVE  SsInv'
<1> DEFINE q == [SsNew EXCEPT !.kind = "leave", !.step = "done", !.session = c, !.answers = 1, !.left = ssLeft]
           gone == IF c = 0 THEN {} ELSE {c}
<1>1. ssLeft \subseteq SsSessions /\ c \in SsSessions \cup {0} /\ gone \subseteq SsCookies
  BY DEF SsInv, SsValues, SsSessions
<1>2. /\ q \in SsRecords /\ SsPath(q) /\ q.left = ssLeft /\ q.given = SsNobody
      /\ q.step = "done" /\ q.kind = "leave"
  BY <1>1, SsRecordFields DEF SsNew, SsRecords, SsPath, SsAnsweredAt, SsKinds, SsSteps
<1>3. /\ ssReq[r].step = "none" /\ SsTurns(r, q) /\ ssLogins' = ssLogins /\ ssIdle' = ssIdle
      /\ ssLeft' = ssLeft \cup gone /\ DOMAIN ssStore' = DOMAIN ssStore
      /\ \A t \in DOMAIN ssStore : ssStore'[t] = IF t \in gone THEN SsNobody ELSE ssStore[t]
  BY SsSeparate DEF SsLeave, SsRefused, SsTurns, SsInv, SsValues
<1> HIDE DEF q, gone
<1>4. SsNobody \in SsKnown
  BY DEF SsKnown
<1>5. SsMayTurn(r, q)
  BY <1>2, <1>3, <1>4, SsComes
<1>6. SsKnown \subseteq SsKnown'
  BY <1>3, <1>5, SsKnownStep DEF SsMayTurn
<1>7. SsCookies \subseteq DOMAIN ssStore' /\ DOMAIN ssStore' \subseteq DOMAIN ssStore /\ ssLeft' \subseteq SsSessions
  BY <1>1, <1>3 DEF SsInv, SsValues
<1>8. (\A t \in DOMAIN ssStore' : ssStore'[t] \in SsKnown') /\ q.given \in SsKnown'
  BY <1>2, <1>3, <1>4, <1>6 DEF SsInv, SsOwnUser
<1>9. ssLeft \cap SsTokens \subseteq ssLeft' /\ \A t \in ssLeft' : SsNumbered(t)
  BY <1>1, <1>3, SsSeparate DEF SsInv, SsLeftInv, SsNumbered
<1>10. \A t \in ssLeft' \cap DOMAIN ssStore' : t \in SsCookies /\ ssStore'[t] = SsNobody
  BY <1>1, <1>3 DEF SsInv, SsLeftInv
<1>11. ssIdle' \in Nat /\ ssIdle' + SsWeight(q) = ssIdle + SsWeight(ssReq[r])
  <2>1. SsWeight(q) = 0 /\ SsWeight(ssReq[r]) = 0
    BY <1>2, <1>3 DEF SsWeight, SsHolds
  <2> QED
    BY <1>3, <2>1 DEF SsInv, SsPoolInv
<1> QED
  BY <1>3, <1>5, <1>7, <1>8, <1>9, <1>10, <1>11, SsTurnStep

LEMMA SsExpireStep ==
  ASSUME SsInv, NEW s \in SsTokens, SsExpire(s)
  PROVE  SsInv'
<1>1. UNCHANGED <<ssReq, ssLogins, ssIdle, ssLeft>> /\ ssStore' = [t \in DOMAIN ssStore \ {s} |-> ssStore[t]]
  BY DEF SsExpire
<1>2. SsValues'
  BY <1>1, SsSeparate DEF SsInv, SsValues, SsPath, SsAnsweredAt
<1>3. SsPoolInv' /\ SsMadeInv'
  BY <1>1 DEF SsInv, SsPoolInv, SsMadeInv, SsHolders, SsHolds, SsMade, SsHasMade
<1>4. SsOwnUser'
  BY <1>1 DEF SsInv, SsOwnUser, SsKnown, SsProved
<1>5. SsLeftInv'
  BY <1>1 DEF SsInv, SsLeftInv, SsNumbered
<1> QED
  BY <1>2, <1>3, <1>4, <1>5 DEF SsInv

LEMMA SsBegins == SsInit => SsInv
<1> SUFFICES ASSUME SsInit PROVE SsInv
  OBVIOUS
<1>1. SsNew \in SsRecords /\ SsPath(SsNew)
  BY DEF SsNew, SsRecords, SsPath, SsAnsweredAt, SsKinds, SsSteps, SsNames
<1>2. SsValues
  BY <1>1 DEF SsInit, SsValues, SsSessions
<1>3. SsHolders = {} /\ SsMade = {}
  BY DEF SsInit, SsHolders, SsHolds, SsMade, SsHasMade, SsNew
<1>4. SsPoolInv /\ SsMadeInv
  BY <1>3, SsAssumption, FS_EmptySet DEF SsInit, SsPoolInv, SsMadeInv
<1>5. SsOwnUser
  BY DEF SsInit, SsOwnUser, SsKnown, SsNew
<1>6. SsLeftInv
  BY SsSeparate DEF SsInit, SsLeftInv, SsNumbered, SsNew
<1> QED
  BY <1>2, <1>4, <1>5, <1>6 DEF SsInv

LEMMA SsInvStep == SsInv /\ [SsNext]_ssVars => SsInv'
<1> SUFFICES ASSUME SsInv, [SsNext]_ssVars PROVE SsInv'
  OBVIOUS
<1>1. ASSUME NEW r \in SsRequests, SsArrive(r) PROVE SsInv'
  BY <1>1, SsLoginStep, SsQueryStep, SsWithSessionStep, SsPageStep, SsLeaveStep DEF SsArrive
<1>2. ASSUME NEW r \in SsRequests, SsStep(r) PROVE SsInv'
  BY <1>2, SsAuthenticateStep, SsConnectStep, SsExecuteStep, SsCloseStep, SsGetStep, SsDeleteStep DEF SsStep
<1>3. ASSUME NEW r \in SsRequests, SsConnectFails(r) PROVE SsInv'
  BY <1>3, SsConnectFailsStep
<1>4. ASSUME NEW s \in SsTokens, SsExpire(s) PROVE SsInv'
  BY <1>4, SsExpireStep
<1>5. CASE UNCHANGED ssVars
  BY <1>5 DEF ssVars, SsInv, SsValues, SsPath, SsAnsweredAt, SsPoolInv, SsHolders, SsHolds, SsMadeInv, SsMade,
              SsHasMade, SsOwnUser, SsKnown, SsProved, SsLeftInv, SsNumbered
<1> QED
  BY <1>1, <1>2, <1>3, <1>4, <1>5 DEF SsNext

LEMMA SsInvSafe == SsInv => SsSafe
<1> SUFFICES ASSUME SsInv PROVE SsSafe
  OBVIOUS
<1>1. ssIdle \in 0..SsPool
  <2>1. SsHolders \in SUBSET SsRequests
    BY DEF SsHolders
  <2>2. IsFiniteSet(SsHolders)
    BY <2>1, SsAssumption, FS_Subset
  <2>3. Cardinality(SsHolders) \in Nat
    BY <2>2, FS_CardinalityType
  <2> QED
    BY <2>3, SsAssumption DEF SsInv, SsPoolInv
<1>2. SsTypeOK
  BY <1>1 DEF SsTypeOK, SsInv, SsValues, SsRecords
<1>3. SsOnce
  BY DEF SsOnce, SsInv, SsValues, SsPath, SsAnsweredAt
<1>4. SsLeftBehind
  BY DEF SsLeftBehind, SsInv, SsLeftInv
<1> QED
  BY <1>2, <1>3, <1>4 DEF SsSafe, SsInv

\* In every execution each request is answered at most once; one that is done has been
\* answered, unless it is a form that logs in where there is no session, which never is. Who
\* is given is a user whose password was right; whoever logged out is not given the user
\* again; and the pool never has more connections than it was made with (handleLogin,
\* onLogin, handleSession, handleLogout, authenticate, getConnection, close).
THEOREM SessionsAreSafe == SsSpec => []SsSafe
<1>1. SsInit => SsInv
  BY SsBegins
<1>2. SsInv /\ [SsNext]_ssVars => SsInv'
  BY SsInvStep
<1>3. SsInv => SsSafe
  BY SsInvSafe
<1> QED
  BY <1>1, <1>2, <1>3, PTL DEF SsSpec
=============================================================================
