-------------------------- MODULE AgnssCaptureProofs --------------------------
(***************************************************************************)
(* The raw pointers libevent holds, TcpConnection* in each bufferevent,    *)
(* always lead to a connection m_connMap owns, and AgnssServer is told of  *)
(* every connection ONLINE, its bytes and OFFLINE, for any number of       *)
(* descriptors, connections and interruptions.                             *)
(***************************************************************************)
EXTENDS AgnssCapture, SequenceTheorems, TLAPS

(***************************************************************************)
(* TargetsAlive needs to know that no two live connections share a         *)
(* descriptor, which follows from it, and that -1, which internalClose     *)
(* passes on, is never a key of the map.                                   *)
(***************************************************************************)
MapInv ==
  /\ accepted \in Nat
  /\ m_fd \in [Conns -> Fds \cup {-1}]
  /\ bev \subseteq Conns
  /\ connMap = [fd \in DOMAIN connMap |-> connMap[fd]] /\ DOMAIN connMap \subseteq Fds
  /\ TargetsAlive

LEMMA InitMap == Init => MapInv
BY DEF Init, MapInv, TargetsAlive

(* A new connection takes a descriptor that no other has; the entry that   *)
(* Registered replaces is that of a closed connection.                     *)
LEMMA AcceptMap ==
  ASSUME MapInv, NEW fd \in Fds, Accept(fd)
  PROVE  MapInv'
<1> DEFINE c == accepted + 1
<1>1. c \in Conns /\ fd \notin Range(m_fd) /\ accepted' = c /\ m_fd' = [m_fd EXCEPT ![c] = fd]
        /\ bev' = bev \cup {c} /\ connMap' = Registered(fd, c)
  BY DEF Accept
<1>2. /\ DOMAIN connMap' = DOMAIN connMap \cup {fd}
      /\ connMap'[fd] = c
      /\ \A g \in DOMAIN connMap : g # fd => connMap'[g] = connMap[g]
      /\ connMap' = [g \in DOMAIN connMap' |-> connMap'[g]]
  BY <1>1 DEF Registered
<1>3. accepted' \in Nat /\ m_fd' \in [Conns -> Fds \cup {-1}] /\ bev' \subseteq Conns
  BY <1>1 DEF MapInv
<1>4. TargetsAlive'
  <2> SUFFICES ASSUME NEW d \in bev'
               PROVE  m_fd'[d] \in DOMAIN connMap' /\ connMap'[m_fd'[d]] = d
    BY DEF TargetsAlive
  <2>1. CASE d = c
    BY <2>1, <1>1, <1>2 DEF MapInv
  <2>2. CASE d # c
    <3>1. d \in bev /\ m_fd'[d] = m_fd[d] /\ m_fd[d] # fd
      BY <2>2, <1>1 DEF MapInv, Range
    <3>2. m_fd[d] \in DOMAIN connMap /\ connMap[m_fd[d]] = d
      BY <3>1 DEF MapInv, TargetsAlive
    <3> QED
      BY <3>1, <3>2, <1>2
  <2> QED
    BY <2>1, <2>2
<1> QED
  BY <1>2, <1>3, <1>4 DEF MapInv

(* A connection that ends leaves the callbacks of the others alone; its    *)
(* entry stays.                                                            *)
LEMMA EventMap ==
  ASSUME MapInv, NEW c \in Conns, Event(c)
  PROVE  MapInv'
<1>1. /\ c \in bev /\ bev' = bev \ {c} /\ m_fd' = [m_fd EXCEPT ![c] = -1]
      /\ UNCHANGED accepted
      /\ connMap' = Restrict(connMap, DOMAIN connMap \ {-1})
  BY DEF Event, FdPassed
<1>2. -1 \notin DOMAIN connMap
  BY CaptureAssumption DEF MapInv
<1>3. connMap' = connMap
  <2>1. DOMAIN connMap \ {-1} = DOMAIN connMap
    BY <1>2
  <2> QED
    BY <1>1, <2>1 DEF Restrict, MapInv
<1>4. m_fd' \in [Conns -> Fds \cup {-1}] /\ \A d \in bev' : m_fd'[d] = m_fd[d]
  BY <1>1 DEF MapInv
<1> QED
  BY <1>1, <1>3, <1>4 DEF MapInv, TargetsAlive

LEMMA NextMap == MapInv /\ [Next]_vars => MapInv'
<1> SUFFICES ASSUME MapInv, [Next]_vars
             PROVE  MapInv'
  OBVIOUS
<1>1. ASSUME NEW fd \in Fds, Accept(fd)
      PROVE  MapInv'
  BY <1>1, AcceptMap
<1>2. ASSUME NEW c \in Conns, Event(c)
      PROVE  MapInv'
  BY <1>2, EventMap
<1>3. ASSUME NEW n \in 0..HWM, Exit(n)
      PROVE  MapInv'
  BY <1>3 DEF Exit, MapInv, TargetsAlive
<1>4. CASE UNCHANGED <<accepted, m_fd, bev, connMap>>
  BY <1>4 DEF MapInv, TargetsAlive
<1>5. ASSUME \/ \E fd \in Fds : Finalize(fd)
             \/ \E c \in Conns : Read(c) \/ Peer(c)
             \/ Receive \/ Start \/ UNCHANGED vars
      PROVE  UNCHANGED <<accepted, m_fd, bev, connMap>>
  BY <1>5 DEF Finalize, Read, Peer, Send, Hangup, Receive, Start, vars, connVars
<1> QED
  BY <1>1, <1>2, <1>3, <1>4, <1>5 DEF Next, EventThread

(***************************************************************************)
(* A callback never runs on a connection that was destroyed: the rule      *)
(* listenerCallback keeps by replacing the stale entry of a descriptor.    *)
(***************************************************************************)
THEOREM CallbackTargetsAlive == Spec => []TargetsAlive
<1>1. MapInv => TargetsAlive
  BY DEF MapInv
<1> QED
  BY <1>1, InitMap, NextMap, PTL DEF Spec

-----------------------------------------------------------------------------
(***************************************************************************)
(* What AgnssServer is told depends on the state of the connection: of one *)
(* that is to be accepted nothing has been said, of one that has callbacks *)
(* ONLINE and all that was read of it, of one that ended OFFLINE last.     *)
(***************************************************************************)
Begun(s, c) == \E i \in DOMAIN s : s[i].conn = c

FlowInv ==
  /\ TypeOK /\ MapInv /\ SessionProtocol /\ StreamIsKept
  /\ \A c \in Conns :
       /\ read[c] <= wire[c]
       /\ c > accepted => peer[c] = "none" /\ wire[c] = 0 /\ ~Begun(Stream, c) /\ c \notin bev
       /\ c \in bev => Begun(Stream, c) /\ ~Closed(Stream, c) /\ m_fd[c] # -1
       /\ Closed(Stream, c) => peer[c] \in {"eof", "reset"}
       /\ \A x \in 1..MaxChunks :
            /\ Carries(Stream, c, x) => x <= read[c]
            /\ c \in bev /\ x <= read[c] => Carries(Stream, c, x)

-----------------------------------------------------------------------------
(* One more message, or a prefix: what is told afterwards. *)

LEMMA OneMore ==
  ASSUME NEW s \in Seq(Messages), NEW m \in Messages, NEW c, NEW x
  PROVE  LET t == Append(s, m) IN
         /\ Begun(t, c) <=> Begun(s, c) \/ m.conn = c
         /\ Closed(t, c) <=> Closed(s, c) \/ (m.conn = c /\ m.tag = "offline")
         /\ Carries(t, c, x) <=> Carries(s, c, x) \/ (m.conn = c /\ x \in Range(m.data))
<1>1. PICK t : t = Append(s, m)
  OBVIOUS
<1>2. /\ Len(t) = Len(s) + 1 /\ t[Len(s) + 1] = m /\ \A i \in 1..Len(s) : t[i] = s[i]
      /\ DOMAIN t = 1..Len(t) /\ DOMAIN s = 1..Len(s) /\ Len(s) \in Nat
  BY <1>1, AppendProperties, LenProperties
<1>3. DOMAIN t = DOMAIN s \cup {Len(s) + 1} /\ \A i \in DOMAIN s : t[i] = s[i]
  BY <1>2
<1> QED
  BY <1>1, <1>2, <1>3 DEF Begun, Closed, Carries

LEMMA OneMoreInTurn ==
  ASSUME NEW s \in Seq(Messages), NEW m \in Messages, ToldInTurn(s),
         m.tag = "online" <=> ~Begun(s, m.conn), ~Closed(s, m.conn)
  PROVE  ToldInTurn(Append(s, m))
<1>1. PICK t : t = Append(s, m)
  OBVIOUS
<1>2. /\ Len(t) = Len(s) + 1 /\ t[Len(s) + 1] = m /\ \A i \in 1..Len(s) : t[i] = s[i]
      /\ DOMAIN t = 1..Len(t) /\ DOMAIN s = 1..Len(s) /\ Len(s) \in Nat
  BY <1>1, AppendProperties, LenProperties
<1>3. ASSUME NEW i \in 1..Len(s)
      PROVE  /\ t[i].tag = "online" <=> \A j \in 1..(i - 1) : t[j].conn # t[i].conn
             /\ t[i].tag = "offline" => \A j \in (i + 1)..Len(t) : t[j].conn # t[i].conn
  <2>1. \A j \in 1..(i - 1) : j \in 1..Len(s) /\ t[j] = s[j]
    BY <1>2
  <2>2. \A j \in (i + 1)..Len(t) : (j \in (i + 1)..Len(s) /\ t[j] = s[j]) \/ t[j] = m
    BY <1>2
  <2>3. t[i] = s[i] /\ i \in DOMAIN s
    BY <1>2
  <2>4. s[i].tag = "offline" => m.conn # s[i].conn
    BY <2>3 DEF Closed
  <2> QED
    BY <2>1, <2>2, <2>3, <2>4 DEF ToldInTurn
<1>4. /\ m.tag = "online" <=> \A j \in 1..Len(s) : t[j].conn # m.conn
      /\ (Len(s) + 1 + 1)..Len(t) = {} /\ Len(s) + 1 - 1 = Len(s)
  BY <1>2 DEF Begun
<1>5. ASSUME NEW i \in DOMAIN t
      PROVE  /\ t[i].tag = "online" <=> \A j \in 1..(i - 1) : t[j].conn # t[i].conn
             /\ t[i].tag = "offline" => \A j \in (i + 1)..Len(t) : t[j].conn # t[i].conn
  <2>1. CASE i \in 1..Len(s)
    BY <2>1, <1>3
  <2>2. CASE i = Len(s) + 1
    BY <2>2, <1>2, <1>4
  <2> QED
    BY <2>1, <2>2, <1>2
<1> QED
  BY <1>1, <1>5 DEF ToldInTurn

LEMMA OneMoreRising ==
  ASSUME NEW s \in Seq(Messages), NEW m \in Messages, Rising(s),
         \A k, l \in DOMAIN m.data : k < l => m.data[k] < m.data[l],
         \A x \in 1..MaxChunks, k \in DOMAIN m.data : Carries(s, m.conn, x) => x < m.data[k]
  PROVE  Rising(Append(s, m))
<1>1. PICK t : t = Append(s, m)
  OBVIOUS
<1>2. /\ Len(t) = Len(s) + 1 /\ t[Len(s) + 1] = m /\ \A i \in 1..Len(s) : t[i] = s[i]
      /\ DOMAIN t = 1..Len(t) /\ DOMAIN s = 1..Len(s) /\ Len(s) \in Nat
  BY <1>1, AppendProperties, LenProperties
<1>3. \A i \in 1..Len(s) : s[i].data \in Seq(1..MaxChunks)
  <2>1. \A i \in 1..Len(s) : s[i] \in Messages
    BY ElementOfSeq
  <2> QED
    BY <2>1 DEF Messages
<1>4. ASSUME NEW i \in 1..Len(t), NEW j \in 1..Len(t), t[i].conn = t[j].conn,
             NEW k \in DOMAIN t[i].data, NEW l \in DOMAIN t[j].data, i < j \/ (i = j /\ k < l)
      PROVE  t[i].data[k] < t[j].data[l]
  <2>1. CASE j \in 1..Len(s)
    <3>1. i \in 1..Len(s) /\ t[i] = s[i] /\ t[j] = s[j] /\ i \in DOMAIN s /\ j \in DOMAIN s
      BY <2>1, <1>2, <1>4
    <3> QED
      BY <3>1, <1>4 DEF Rising
  <2>2. CASE j = Len(s) + 1 /\ i = j
    BY <2>2, <1>2, <1>4
  <2>3. CASE j = Len(s) + 1 /\ i < j
    <3>1. i \in 1..Len(s) /\ t[i] = s[i] /\ t[j] = m /\ i \in DOMAIN s
      BY <2>3, <1>2
    <3>2. s[i].data[k] \in 1..MaxChunks
      BY <3>1, <1>3, ElementOfSeq, LenProperties
    <3>3. Carries(s, m.conn, s[i].data[k])
      BY <3>1, <1>4 DEF Carries, Range
    <3> QED
      BY <3>1, <3>2, <3>3
  <2> QED
    BY <2>1, <2>2, <2>3, <1>2, <1>4
<1> QED
  BY <1>1, <1>2, <1>4 DEF Rising

(* What is still told of a connection when the last messages are lost is   *)
(* a beginning of what was told.                                           *)
LEMMA LastLost ==
  ASSUME NEW s \in Seq(Messages), NEW n \in 0..Len(s), ToldInTurn(s), Rising(s)
  PROVE  LET t == SubSeq(s, 1, n) IN
         /\ t \in Seq(Messages) /\ ToldInTurn(t) /\ Rising(t)
         /\ \A c : (Begun(t, c) => Begun(s, c)) /\ (Closed(t, c) => Closed(s, c))
         /\ \A c, x : Carries(t, c, x) => Carries(s, c, x)
         /\ \A c \in Conns, x, y \in 1..MaxChunks :
              Carries(t, c, x) /\ y <= x /\ Carries(s, c, y) => Carries(t, c, y)
         /\ \A c \in Conns : \A y : Closed(t, c) /\ Carries(s, c, y) => Carries(t, c, y)
<1>1. PICK t : t = SubSeq(s, 1, n)
  OBVIOUS
<1>2. \A i \in 1..Len(s) : s[i] \in Messages
  BY ElementOfSeq
<1>3. Len(s) \in Nat /\ DOMAIN s = 1..Len(s)
  BY LenProperties
<1>4. t \in Seq(Messages) /\ Len(t) = n /\ \A i \in 1..n : t[i] = s[i]
  <2>1. \A i \in 1..n : s[i] \in Messages
    BY <1>2, <1>3
  <2>2. /\ t \in Seq(Messages) /\ Len(t) = IF 1 <= n THEN n - 1 + 1 ELSE 0
        /\ \A i \in 1..(n - 1 + 1) : t[i] = s[1 + i - 1]
    BY <2>1, <1>1, SubSeqProperties, <1>3
  <2> QED
    BY <2>2, <1>3
<1>5. DOMAIN t = 1..n /\ 1..n \subseteq 1..Len(s)
  BY <1>3, <1>4, LenProperties
<1>6. ToldInTurn(t)
  <2> SUFFICES ASSUME NEW i \in 1..n
               PROVE  /\ t[i].tag = "online" <=> \A j \in 1..(i - 1) : t[j].conn # t[i].conn
                      /\ t[i].tag = "offline" => \A j \in (i + 1)..n : t[j].conn # t[i].conn
    BY <1>4, <1>5 DEF ToldInTurn
  <2>1. t[i] = s[i] /\ i \in DOMAIN s
    BY <1>3, <1>4, <1>5
  <2>2. \A j \in 1..(i - 1) : t[j] = s[j]
    BY <1>4
  <2>3. \A j \in (i + 1)..n : t[j] = s[j] /\ j \in (i + 1)..Len(s)
    BY <1>3, <1>4
  <2> QED
    BY <2>1, <2>2, <2>3 DEF ToldInTurn
<1>7. Rising(t)
  BY <1>3, <1>4, <1>5 DEF Rising
<1>8. \A c : (Begun(t, c) => Begun(s, c)) /\ (Closed(t, c) => Closed(s, c))
  BY <1>3, <1>4, <1>5 DEF Begun, Closed
<1>9. \A c, x : Carries(t, c, x) => Carries(s, c, x)
  BY <1>3, <1>4, <1>5 DEF Carries
<1>10. ASSUME NEW c \in Conns, NEW x \in 1..MaxChunks, NEW y \in 1..MaxChunks,
              Carries(t, c, x), y <= x, Carries(s, c, y)
       PROVE  Carries(t, c, y)
  <2>1. PICK i \in 1..n : t[i].conn = c /\ x \in Range(t[i].data)
    BY <1>10, <1>5 DEF Carries
  <2>2. PICK j \in 1..Len(s) : s[j].conn = c /\ y \in Range(s[j].data)
    BY <1>10, <1>3 DEF Carries
  <2>3. PICK k \in DOMAIN s[i].data, l \in DOMAIN s[j].data : s[i].data[k] = x /\ s[j].data[l] = y
    BY <2>1, <2>2, <1>4 DEF Range
  <2>4. i \in DOMAIN s /\ j \in DOMAIN s /\ s[i].conn = s[j].conn
    BY <2>1, <2>2, <1>3, <1>4, <1>5
  <2>5. i < j => x < y
    BY <2>3, <2>4 DEF Rising
  <2>6. j \in 1..n
    BY <2>5, <1>3, <1>10
  <2> QED
    BY <2>2, <2>6, <1>4, <1>5 DEF Carries
<1>11. ASSUME NEW c \in Conns, NEW y, Closed(t, c), Carries(s, c, y)
       PROVE  Carries(t, c, y)
  <2>1. PICK i \in 1..n : t[i].conn = c /\ t[i].tag = "offline"
    BY <1>11, <1>5 DEF Closed
  <2>2. PICK j \in 1..Len(s) : s[j].conn = c /\ y \in Range(s[j].data)
    BY <1>11, <1>3 DEF Carries
  <2>3. i \in DOMAIN s /\ s[i].tag = "offline" /\ s[i].conn = c
    BY <2>1, <1>3, <1>4, <1>5
  <2>4. j \notin (i + 1)..Len(s)
    BY <2>2, <2>3 DEF ToldInTurn
  <2>5. j \in 1..n
    BY <2>4, <1>3
  <2> QED
    BY <2>2, <2>5, <1>4, <1>5 DEF Carries
<1> QED
  BY <1>1, <1>4, <1>6, <1>7, <1>8, <1>9, <1>10, <1>11

-----------------------------------------------------------------------------
(* What the steps do to what AgnssServer is told. *)

LEMMA StreamType == TypeOK => Stream \in Seq(Messages)
BY DEF TypeOK, Stream

LEMMA PushTells ==
  ASSUME TypeOK, NEW m \in Messages, pipe' = Append(pipe, m), received' = received
  PROVE  Stream' = Append(Stream, m) /\ pipe' \in Seq(Messages) /\ Len(pipe') = Len(pipe) + 1
<1>1. received \in Seq(Messages) /\ pipe \in Seq(Messages) /\ <<m>> \in Seq(Messages)
  BY DEF TypeOK
<1>2. pipe' = pipe \o <<m>>
  BY <1>1, AppendIsConcat
<1>3. received \o pipe' = (received \o pipe) \o <<m>>
  BY <1>1, <1>2, ConcatAssociative
<1>4. (received \o pipe) \o <<m>> = Append(received \o pipe, m)
  BY <1>1, ConcatProperties, AppendIsConcat
<1>5. pipe' \in Seq(Messages) /\ Len(pipe') = Len(pipe) + 1
  BY <1>1, AppendProperties
<1> QED
  BY <1>3, <1>4, <1>5 DEF Stream

(* Taking a message from the pipe changes nothing of it. *)
LEMMA ReceiveTells ==
  ASSUME TypeOK, Receive
  PROVE  /\ Stream' = Stream /\ received' \in Seq(Messages)
         /\ pipe' \in Seq(Messages) /\ Len(pipe') <= HWM
<1>1. received \in Seq(Messages) /\ pipe \in Seq(Messages) /\ pipe # <<>>
  BY DEF TypeOK, Receive
<1>2. PICK h, p : h = Head(pipe) /\ p = Tail(pipe)
  OBVIOUS
<1>3. h \in Messages /\ p \in Seq(Messages) /\ Len(p) = Len(pipe) - 1
  BY <1>1, <1>2, HeadTailProperties
<1>4. Len(pipe) \in Nat \ {0} /\ h = pipe[1]
  BY <1>1, <1>2, EmptySeq
<1>5. pipe = <<h>> \o p
  <2>1. 1 \in 1..Len(pipe) /\ Len(pipe) \in 1..Len(pipe)
    BY <1>4
  <2>2. SubSeq(pipe, 1, Len(pipe)) = <<pipe[1]>> \o SubSeq(pipe, 1 + 1, Len(pipe))
    BY <1>1, <2>1, SubSeqRecursiveFirst
  <2>3. SubSeq(pipe, 1, Len(pipe)) = pipe /\ p = SubSeq(pipe, 2, Len(pipe)) /\ 1 + 1 = 2
    BY <1>1, <1>2, SubSeqFull, TailIsSubSeq
  <2> QED
    BY <2>2, <2>3, <1>4
<1>6. /\ <<h>> \in Seq(Messages) /\ Append(received, h) \in Seq(Messages)
      /\ Append(received, h) = received \o <<h>>
  BY <1>1, <1>3, AppendIsConcat, AppendProperties
<1>7. (received \o <<h>>) \o p = received \o (<<h>> \o p)
  BY <1>1, <1>3, <1>6, ConcatAssociative
<1>8. received' = Append(received, h) /\ pipe' = p
  BY <1>2 DEF Receive
<1>9. Len(p) <= HWM
  BY <1>3, <1>4, CaptureAssumption DEF TypeOK
<1> QED
  BY <1>3, <1>5, <1>6, <1>7, <1>8, <1>9 DEF Stream

LEMMA ExitTells ==
  ASSUME TypeOK, NEW n \in 0..HWM, n <= Len(pipe), Exit(n)
  PROVE  /\ Stream' = SubSeq(Stream, 1, Len(received) + n)
         /\ Len(received) + n \in 0..Len(Stream)
         /\ pipe' \in Seq(Messages) /\ Len(pipe') <= HWM
<1>1. received \in Seq(Messages) /\ pipe \in Seq(Messages) /\ n \in Nat
  BY CaptureAssumption DEF TypeOK
<1>2. PICK s : s = received \o pipe
  OBVIOUS
<1>3. /\ s \in Seq(Messages) /\ Len(s) = Len(received) + Len(pipe)
      /\ \A i \in 1..Len(received) + Len(pipe) :
           s[i] = IF i <= Len(received) THEN received[i] ELSE pipe[i - Len(received)]
      /\ Len(received) \in Nat /\ Len(pipe) \in Nat
      /\ \A i \in 1..Len(s) : s[i] \in Messages
      /\ \A i \in 1..Len(pipe) : pipe[i] \in Messages
  BY <1>1, <1>2, ConcatProperties, LenProperties, ElementOfSeq
<1>4. PICK p : p = SubSeq(pipe, 1, n)
  OBVIOUS
<1>5. p \in Seq(Messages) /\ Len(p) = n /\ \A i \in 1..n : p[i] = pipe[i]
  <2>1. \A i \in 1..n : pipe[i] \in Messages
    BY <1>1, <1>3
  <2>2. /\ p \in Seq(Messages) /\ Len(p) = IF 1 <= n THEN n - 1 + 1 ELSE 0
        /\ \A i \in 1..(n - 1 + 1) : p[i] = pipe[1 + i - 1]
    BY <2>1, <1>1, <1>4, SubSeqProperties
  <2> QED
    BY <2>2, <1>1
<1>6. PICK k : k = Len(received) + n
  OBVIOUS
<1>7. PICK t, u : t = received \o p /\ u = SubSeq(s, 1, k)
  OBVIOUS
<1>8. /\ t \in Seq(Messages) /\ Len(t) = Len(received) + Len(p)
      /\ \A i \in 1..Len(received) + Len(p) :
           t[i] = IF i <= Len(received) THEN received[i] ELSE p[i - Len(received)]
  BY <1>1, <1>5, <1>7, ConcatProperties
<1>9. u \in Seq(Messages) /\ Len(u) = k /\ \A i \in 1..k : u[i] = s[i]
  <2>1. k \in Nat /\ \A i \in 1..k : s[i] \in Messages
    BY <1>1, <1>3, <1>6
  <2>2. /\ u \in Seq(Messages) /\ Len(u) = IF 1 <= k THEN k - 1 + 1 ELSE 0
        /\ \A i \in 1..(k - 1 + 1) : u[i] = s[1 + i - 1]
    BY <2>1, <1>7, SubSeqProperties
  <2> QED
    BY <2>1, <2>2
<1>10. Len(t) = Len(u) /\ \A i \in 1..Len(t) : t[i] = u[i]
  <2>1. Len(t) = Len(u)
    BY <1>5, <1>6, <1>8, <1>9
  <2>2. ASSUME NEW i \in 1..Len(t)
        PROVE  t[i] = u[i]
    <3>0. i \in Nat /\ i >= 1 /\ i <= Len(received) + n /\ i \in 1..k
      BY <1>1, <1>3, <1>5, <1>6, <1>8
    <3>1. CASE i <= Len(received)
      <4>1. t[i] = received[i]
        BY <3>0, <3>1, <1>1, <1>3, <1>5, <1>8
      <4>2. u[i] = s[i]
        BY <3>0, <1>9
      <4>3. s[i] = received[i]
        BY <3>0, <3>1, <1>1, <1>3
      <4> QED
        BY <4>1, <4>2, <4>3
    <3>2. CASE i > Len(received)
      <4>1. i - Len(received) \in 1..n
        BY <3>0, <3>2, <1>1, <1>3
      <4>2. t[i] = p[i - Len(received)]
        BY <3>0, <3>2, <1>1, <1>3, <1>5, <1>8
      <4>3. p[i - Len(received)] = pipe[i - Len(received)]
        BY <4>1, <1>5
      <4>4. s[i] = pipe[i - Len(received)]
        BY <3>0, <3>2, <1>1, <1>3
      <4>5. u[i] = s[i]
        BY <3>0, <1>9
      <4> QED
        BY <4>2, <4>3, <4>4, <4>5
    <3> QED
      BY <3>1, <3>2, <1>3, <1>8
  <2> QED
    BY <2>1, <2>2
<1>11. t = u
  BY <1>8, <1>9, <1>10, SeqEqual
<1>12. pipe' = p /\ received' = received
  BY <1>4 DEF Exit
<1>13. Len(p) <= HWM
  BY <1>5, CaptureAssumption
<1>14. k \in 0..Len(s)
  BY <1>1, <1>3, <1>6
<1> QED
  BY <1>2, <1>5, <1>6, <1>7, <1>11, <1>12, <1>13, <1>14 DEF Stream

-----------------------------------------------------------------------------
(* The values the variables range over. *)

LEMMA InitType == Init => TypeOK
<1>1. <<>> \in Seq(Messages) /\ Len(<<>>) = 0
  BY EmptySeq
<1>2. 0 \in 0..MaxExits /\ 0 \in 0..MaxConns /\ 0 \in 0..MaxChunks /\ 0 <= HWM
  BY CaptureAssumption
<1>3. Init => DOMAIN connMap = {} /\ Range(connMap) = {}
  BY DEF Init, Range
<1> QED
  BY <1>1, <1>2, <1>3 DEF Init, TypeOK

LEMMA PushType ==
  ASSUME TypeOK, NEW m \in Messages, Push(m), received' = received
  PROVE  Stream' = Append(Stream, m) /\ pipe' \in Seq(Messages) /\ Len(pipe') <= HWM
<1>1. pipe' = Append(pipe, m) /\ Len(pipe) < HWM
  BY DEF Push
<1>2. Stream' = Append(Stream, m) /\ pipe' \in Seq(Messages) /\ Len(pipe') = Len(pipe) + 1
  BY <1>1, PushTells
<1>3. Len(pipe) \in Nat
  BY LenProperties DEF TypeOK
<1> QED
  BY <1>1, <1>2, <1>3, CaptureAssumption

LEMMA AcceptType ==
  ASSUME TypeOK, NEW fd \in Fds, Accept(fd)
  PROVE  TypeOK' /\ Stream' = Append(Stream, Message("online", accepted + 1, <<>>))
                 /\ Message("online", accepted + 1, <<>>) \in Messages
<1>1. accepted + 1 \in Conns
  BY DEF Accept
<1>2. Message("online", accepted + 1, <<>>) \in Messages
  BY <1>1 DEF Message, Messages
<1>3. Stream' = Append(Stream, Message("online", accepted + 1, <<>>)) /\ pipe' \in Seq(Messages) /\ Len(pipe') <= HWM
  BY <1>2, PushType DEF Accept
<1>4. DOMAIN connMap' \subseteq Fds /\ Range(connMap') \subseteq Conns
  BY <1>1 DEF Accept, Registered, TypeOK, Range
<1>5. accepted' \in 0..MaxConns
  BY <1>1, CaptureAssumption DEF Accept, Conns
<1> QED
  BY <1>1, <1>2, <1>3, <1>4, <1>5 DEF Accept, TypeOK, processVars

LEMMA ReadType ==
  ASSUME TypeOK, NEW c \in Conns, Read(c)
  PROVE  /\ TypeOK' /\ Stream' = Append(Stream, Message("data", c, Unread(c)))
         /\ Message("data", c, Unread(c)) \in Messages
         /\ Len(Unread(c)) = wire[c] - read[c] /\ DOMAIN Unread(c) = 1..Len(Unread(c))
         /\ \A i \in 1..Len(Unread(c)) : Unread(c)[i] = read[c] + i
<1>1. read[c] \in Nat /\ wire[c] \in Nat /\ read[c] < wire[c] /\ wire[c] <= MaxChunks
  BY CaptureAssumption DEF TypeOK, Read
<1>2. PICK n \in Nat : n = wire[c] - read[c]
  BY <1>1
<1>3. Unread(c) = [i \in 1..n |-> read[c] + i]
  BY <1>2 DEF Unread
<1>4. \A i \in 1..n : read[c] + i \in 1..MaxChunks
  BY <1>1, <1>2, CaptureAssumption
<1>5. Unread(c) \in Seq(1..MaxChunks) /\ Len(Unread(c)) = n /\ DOMAIN Unread(c) = 1..n
  BY <1>3, <1>4
<1>6. Message("data", c, Unread(c)) \in Messages
  BY <1>5 DEF Message, Messages
<1>7. Stream' = Append(Stream, Message("data", c, Unread(c))) /\ pipe' \in Seq(Messages) /\ Len(pipe') <= HWM
  BY <1>6, PushType DEF Read
<1> QED
  BY <1>2, <1>3, <1>5, <1>6, <1>7 DEF TypeOK, Read, processVars, peerVars

LEMMA EventType ==
  ASSUME TypeOK, MapInv, NEW c \in Conns, Event(c), m_fd[c] # -1
  PROVE  /\ TypeOK' /\ Stream' = Append(Stream, Message("offline", c, <<>>))
         /\ Message("offline", c, <<>>) \in Messages
<1>1. ClosedAgain(FdPassed(c)) = <<>> /\ connMap' = connMap
  <2>1. -1 \notin DOMAIN connMap
    BY CaptureAssumption DEF MapInv
  <2>2. DOMAIN connMap \ {-1} = DOMAIN connMap
    BY <2>1
  <2> QED
    BY <2>1, <2>2 DEF Event, ClosedAgain, FdPassed, Restrict, MapInv
<1>2. Message("offline", c, <<>>) \in Messages
  BY DEF Message, Messages
<1>3. pipe' = Append(pipe, Message("offline", c, <<>>))
  <2>1. pipe \in Seq(Messages) /\ <<Message("offline", c, <<>>)>> \in Seq(Messages)
    BY <1>2 DEF TypeOK
  <2>2. pipe \o <<Message("offline", c, <<>>)>> \in Seq(Messages)
    BY <2>1, ConcatProperties
  <2>3. (pipe \o <<Message("offline", c, <<>>)>>) \o <<>> = pipe \o <<Message("offline", c, <<>>)>>
    BY <2>2, ConcatEmptySeq
  <2>4. pipe' = (pipe \o <<Message("offline", c, <<>>)>>) \o <<>>
    BY <1>1 DEF Event
  <2> QED
    BY <1>2, <2>1, <2>3, <2>4, AppendIsConcat
<1>4. Push(Message("offline", c, <<>>)) /\ received' = received
  BY <1>3 DEF Event, Push
<1>5. Stream' = Append(Stream, Message("offline", c, <<>>)) /\ pipe' \in Seq(Messages) /\ Len(pipe') <= HWM
  BY <1>2, <1>4, PushType
<1>6. m_fd[c] \in Fds
  BY DEF TypeOK
<1> QED
  BY <1>1, <1>2, <1>5, <1>6 DEF TypeOK, Event, processVars, peerVars

LEMMA ExitType ==
  ASSUME TypeOK, NEW n \in 0..HWM, n <= Len(pipe), Exit(n)
  PROVE  TypeOK'
<1>1. pipe' \in Seq(Messages) /\ Len(pipe') <= HWM
  BY ExitTells
<1>2. exits' \in 0..MaxExits
  BY CaptureAssumption DEF Exit, TypeOK
<1>3. DOMAIN connMap' = {} /\ Range(connMap') = {}
  BY DEF Exit, Range
<1> QED
  BY <1>1, <1>2, <1>3 DEF Exit, TypeOK

(* The steps that tell nothing new. *)
Silent ==
  \/ \E c \in Conns : Peer(c)
  \/ \E fd \in Fds : Finalize(fd)
  \/ Receive \/ Start \/ UNCHANGED vars

LEMMA SilentType == TypeOK /\ Silent => TypeOK' /\ Stream' = Stream
<1> SUFFICES ASSUME TypeOK, Silent
             PROVE  TypeOK' /\ Stream' = Stream
  OBVIOUS
<1>1. ASSUME NEW c \in Conns, Send(c)
      PROVE  TypeOK' /\ Stream' = Stream
  BY <1>1, CaptureAssumption DEF Send, TypeOK, Stream, processVars, connVars
<1>2. ASSUME NEW c \in Conns, NEW how \in {"eof", "reset"}, Hangup(c, how)
      PROVE  TypeOK' /\ Stream' = Stream
  BY <1>2 DEF Hangup, TypeOK, Stream, processVars, connVars
<1>3. ASSUME NEW fd \in Fds, Finalize(fd)
      PROVE  TypeOK' /\ Stream' = Stream
  BY <1>3 DEF Finalize, TypeOK, Stream, processVars, peerVars
<1>4. CASE Receive
  <2>1. UNCHANGED <<processVars, peerVars, connVars>>
    BY <1>4 DEF Receive
  <2> QED
    BY <1>4, <2>1, ReceiveTells DEF TypeOK, processVars, peerVars, connVars
<1>5. CASE Start
  BY <1>5 DEF Start, TypeOK, Stream, peerVars, connVars
<1>6. CASE UNCHANGED vars
  BY <1>6 DEF vars, TypeOK, Stream, processVars, peerVars, connVars
<1> QED
  BY <1>1, <1>2, <1>3, <1>4, <1>5, <1>6 DEF Silent, Peer

-----------------------------------------------------------------------------
(* The flow of messages, step by step. *)

LEMMA InitFlow == Init => FlowInv
<1> SUFFICES ASSUME Init
             PROVE  FlowInv
  OBVIOUS
<1>1. TypeOK /\ MapInv
  BY InitType, InitMap
<1>2. Stream = <<>>
  BY EmptySeq, ConcatEmptySeq DEF Init, Stream
<1>3. DOMAIN Stream = {}
  BY <1>2
<1>4. \A c, x : ~Carries(Stream, c, x) /\ ~Closed(Stream, c) /\ ~Begun(Stream, c)
  BY <1>3 DEF Carries, Closed, Begun
<1>5. SessionProtocol /\ StreamIsKept
  <2>1. SessionProtocol /\ Rising(Stream)
    BY <1>3 DEF SessionProtocol, ToldInTurn, Rising
  <2> QED
    BY <1>4, <2>1 DEF StreamIsKept
<1>6. \A c \in Conns : read[c] = 0 /\ wire[c] = 0 /\ peer[c] = "none" /\ c \notin bev
  BY DEF Init
<1> QED
  BY <1>1, <1>4, <1>5, <1>6 DEF FlowInv

(* ONLINE is the first that is told of a connection. *)
LEMMA AcceptFlow ==
  ASSUME FlowInv, NEW fd \in Fds, Accept(fd)
  PROVE  FlowInv'
<1> DEFINE new == accepted + 1
           m == Message("online", new, <<>>)
<1>1. TypeOK' /\ Stream' = Append(Stream, m) /\ m \in Messages
  BY AcceptType DEF FlowInv
<1>2. MapInv'
  BY AcceptMap DEF FlowInv
<1>3. /\ new \in Conns /\ accepted' = new /\ peer' = [peer EXCEPT ![new] = "open"]
      /\ m_fd' = [m_fd EXCEPT ![new] = fd] /\ bev' = bev \cup {new}
      /\ wire' = wire /\ read' = read
  BY DEF Accept
<1>4. /\ peer[new] = "none" /\ wire[new] = 0 /\ ~Begun(Stream, new) /\ read[new] = 0
      /\ ~Closed(Stream, new) /\ \A x : ~Carries(Stream, new, x)
  <2>1. new > accepted
    BY DEF FlowInv, TypeOK
  <2>2. wire[new] = 0 /\ ~Begun(Stream, new) /\ peer[new] = "none" /\ read[new] <= wire[new]
    BY <1>3, <2>1 DEF FlowInv
  <2>3. read[new] = 0
    BY <2>2, <1>3 DEF FlowInv, TypeOK
  <2> QED
    BY <2>2, <2>3 DEF Begun, Closed, Carries
<1>5. Stream \in Seq(Messages) /\ m.conn = new /\ m.tag = "online" /\ m.data = <<>>
  BY StreamType DEF FlowInv, Message
<1>6. /\ \A c : Begun(Stream', c) <=> Begun(Stream, c) \/ c = new
      /\ \A c : Closed(Stream', c) <=> Closed(Stream, c)
      /\ \A c, x : Carries(Stream', c, x) <=> Carries(Stream, c, x)
  <2>1. \A x : x \notin Range(m.data)
    BY <1>5, EmptySeq DEF Range
  <2>2. ASSUME NEW c, NEW x
        PROVE  /\ Begun(Stream', c) <=> Begun(Stream, c) \/ m.conn = c
               /\ Closed(Stream', c) <=> Closed(Stream, c) \/ (m.conn = c /\ m.tag = "offline")
               /\ Carries(Stream', c, x) <=> Carries(Stream, c, x) \/ (m.conn = c /\ x \in Range(m.data))
    BY <1>1, <1>5, OneMore
  <2> HIDE DEF m
  <2> QED
    BY <1>5, <2>1, <2>2
<1>7. ToldInTurn(Stream')
  BY <1>1, <1>4, <1>5, OneMoreInTurn DEF FlowInv, SessionProtocol
<1>8. Rising(Stream')
  BY <1>1, <1>4, <1>5, OneMoreRising DEF FlowInv, StreamIsKept
<1>9. StreamIsKept'
  <2>1. \A c \in Conns : peer'[c] = peer[c] \/ (c = new /\ peer'[c] = "open")
    BY <1>3 DEF FlowInv, TypeOK
  <2> QED
    BY <1>3, <1>4, <1>6, <1>8, <2>1 DEF FlowInv, StreamIsKept
<1>10. ASSUME NEW c \in Conns
       PROVE  /\ read'[c] <= wire'[c]
              /\ c > accepted' => peer'[c] = "none" /\ wire'[c] = 0 /\ ~Begun(Stream', c) /\ c \notin bev'
              /\ c \in bev' => Begun(Stream', c) /\ ~Closed(Stream', c) /\ m_fd'[c] # -1
              /\ Closed(Stream', c) => peer'[c] \in {"eof", "reset"}
              /\ \A x \in 1..MaxChunks :
                   /\ Carries(Stream', c, x) => x <= read'[c]
                   /\ c \in bev' /\ x <= read'[c] => Carries(Stream', c, x)
  <2>1. CASE c = new
    BY <2>1, <1>3, <1>4, <1>6, CaptureAssumption DEF FlowInv, TypeOK, Conns
  <2>2. CASE c # new
    <3>1. c > new => c > accepted
      BY <1>3 DEF FlowInv, TypeOK, Conns
    <3>2. peer'[c] = peer[c] /\ m_fd'[c] = m_fd[c] /\ (c \in bev' <=> c \in bev)
      BY <2>2, <1>3 DEF FlowInv, TypeOK
    <3> QED
      BY <2>2, <3>1, <3>2, <1>3, <1>6 DEF FlowInv
  <2> QED
    BY <2>1, <2>2
<1> QED
  BY <1>1, <1>2, <1>7, <1>9, <1>10 DEF FlowInv, SessionProtocol

(* What is read goes on where the last message ended. *)
LEMMA ReadFlow ==
  ASSUME FlowInv, NEW c \in Conns, Read(c)
  PROVE  FlowInv'
<1> DEFINE m == Message("data", c, Unread(c))
<1>1. /\ TypeOK' /\ Stream' = Append(Stream, m) /\ m \in Messages
      /\ Len(Unread(c)) = wire[c] - read[c] /\ DOMAIN Unread(c) = 1..Len(Unread(c))
      /\ \A i \in 1..Len(Unread(c)) : Unread(c)[i] = read[c] + i
  BY ReadType DEF FlowInv
<1>2. /\ c \in bev /\ read[c] < wire[c] /\ read' = [read EXCEPT ![c] = wire[c]]
      /\ UNCHANGED <<accepted, peer, wire, m_fd, bev, connMap>>
  BY DEF Read, peerVars
<1>3. MapInv'
  BY <1>2 DEF FlowInv, MapInv, TargetsAlive
<1>4. m.conn = c /\ m.tag = "data" /\ m.data = Unread(c) /\ Stream \in Seq(Messages)
  BY StreamType DEF FlowInv, Message
<1>5. read[c] \in Nat /\ wire[c] \in Nat /\ wire[c] <= MaxChunks /\ MaxChunks \in Nat
  BY CaptureAssumption DEF FlowInv, TypeOK
<1>6. \A x : x \in Range(Unread(c)) <=> x \in (read[c] + 1)..wire[c]
  <2>1. ASSUME NEW x \in (read[c] + 1)..wire[c]
        PROVE  x \in Range(Unread(c))
    <3>1. x - read[c] \in 1..Len(Unread(c)) /\ read[c] + (x - read[c]) = x
      BY <1>1, <1>5
    <3>2. Unread(c)[x - read[c]] = x
      BY <3>1, <1>1
    <3> QED
      BY <3>1, <3>2, <1>1 DEF Range
  <2>2. ASSUME NEW i \in 1..Len(Unread(c))
        PROVE  Unread(c)[i] \in (read[c] + 1)..wire[c]
    BY <1>1, <1>5
  <2> QED
    BY <2>1, <2>2, <1>1 DEF Range
<1>7. Begun(Stream, c) /\ ~Closed(Stream, c)
  BY <1>2 DEF FlowInv
<1>8. /\ \A d : Begun(Stream', d) <=> Begun(Stream, d)
      /\ \A d : Closed(Stream', d) <=> Closed(Stream, d)
      /\ \A d, x : Carries(Stream', d, x) <=> Carries(Stream, d, x) \/ (d = c /\ x \in (read[c] + 1)..wire[c])
  BY <1>1, <1>4, <1>6, <1>7, OneMore
<1>9. ToldInTurn(Stream')
  BY <1>1, <1>4, <1>7, OneMoreInTurn DEF FlowInv, SessionProtocol
<1>10. Rising(Stream')
  <2>1. PICK u : u = Unread(c)
    OBVIOUS
  <2>2. PICK n \in Nat : n = Len(u)
    BY <1>1, <1>2, <1>5, <2>1
  <2>3. DOMAIN u = 1..n /\ \A k \in 1..n : u[k] = read[c] + k
    BY <1>1, <2>1, <2>2
  <2>4. \A k, l \in DOMAIN u : k < l => u[k] < u[l]
    BY <1>5, <2>3
  <2>5. \A x \in 1..MaxChunks, k \in DOMAIN u : Carries(Stream, c, x) => x < u[k]
    <3>1. \A x \in 1..MaxChunks : Carries(Stream, c, x) => x <= read[c]
      BY DEF FlowInv
    <3> QED
      BY <3>1, <1>5, <2>3
  <2>6. m.data = u /\ m.conn = c
    BY <1>4, <2>1
  <2> HIDE DEF m
  <2> QED
    BY <2>4, <2>5, <2>6, <1>1, <1>4, OneMoreRising DEF FlowInv, StreamIsKept
<1>11. ASSUME NEW d \in Conns, NEW x \in 1..MaxChunks
       PROVE  /\ Carries(Stream', d, x) => x <= read'[d] /\ x <= wire'[d] /\ \A y \in 1..x : Carries(Stream', d, y)
              /\ d \in bev' /\ x <= read'[d] => Carries(Stream', d, x)
              /\ peer'[d] = "eof" /\ Closed(Stream', d) /\ x <= wire'[d] => Carries(Stream', d, x)
  <2>1. \A y \in 1..x : y \in 1..MaxChunks
    BY <1>5
  <2>2. CASE d = c
    <3>1. \A y \in 1..MaxChunks : Carries(Stream', c, y) <=> y <= wire[c]
      <4>1. \A y \in 1..MaxChunks : Carries(Stream, c, y) <=> y <= read[c]
        BY <1>2 DEF FlowInv
      <4> QED
        BY <4>1, <1>2, <1>5, <1>8
    <3>2. read'[c] = wire[c] /\ wire' = wire
      BY <1>2 DEF FlowInv, TypeOK
    <3> QED
      BY <2>1, <2>2, <3>1, <3>2, <1>5
  <2>3. CASE d # c
    <3>1. read'[d] = read[d] /\ wire'[d] = wire[d] /\ peer'[d] = peer[d] /\ bev' = bev
      BY <2>3, <1>2 DEF FlowInv, TypeOK
    <3>2. \A y : Carries(Stream', d, y) <=> Carries(Stream, d, y)
      BY <2>3, <1>8
    <3> QED
      BY <3>1, <3>2, <1>8 DEF FlowInv, StreamIsKept
  <2> QED
    BY <2>2, <2>3
<1>12. \A d \in Conns : read'[d] <= wire'[d]
  BY <1>2, <1>5 DEF FlowInv, TypeOK
<1>13. ASSUME NEW d \in Conns
       PROVE  /\ d > accepted' => peer'[d] = "none" /\ wire'[d] = 0 /\ ~Begun(Stream', d) /\ d \notin bev'
              /\ d \in bev' => Begun(Stream', d) /\ ~Closed(Stream', d) /\ m_fd'[d] # -1
              /\ Closed(Stream', d) => peer'[d] \in {"eof", "reset"}
  BY <1>2, <1>8 DEF FlowInv
<1> QED
  BY <1>1, <1>3, <1>9, <1>10, <1>11, <1>12, <1>13 DEF FlowInv, SessionProtocol, StreamIsKept

(* OFFLINE is the last that is told of a connection, and after an orderly  *)
(* end all its bytes have been read.                                       *)
LEMMA EventFlow ==
  ASSUME FlowInv, NEW c \in Conns, Event(c)
  PROVE  FlowInv'
<1> DEFINE m == Message("offline", c, <<>>)
<1>1. /\ c \in bev /\ bev' = bev \ {c} /\ m_fd' = [m_fd EXCEPT ![c] = -1] /\ Ended(c)
      /\ UNCHANGED <<accepted, peer, wire, read>>
  BY DEF Event, peerVars
<1>2. m_fd[c] # -1 /\ Begun(Stream, c) /\ ~Closed(Stream, c)
  BY <1>1 DEF FlowInv
<1>3. TypeOK' /\ Stream' = Append(Stream, m) /\ m \in Messages
  BY <1>2, EventType DEF FlowInv
<1>4. MapInv'
  BY EventMap DEF FlowInv
<1>5. m.conn = c /\ m.tag = "offline" /\ m.data = <<>> /\ Stream \in Seq(Messages)
  BY StreamType DEF FlowInv, Message
<1>6. /\ \A d : Begun(Stream', d) <=> Begun(Stream, d)
      /\ \A d : Closed(Stream', d) <=> Closed(Stream, d) \/ d = c
      /\ \A d, x : Carries(Stream', d, x) <=> Carries(Stream, d, x)
  <2>1. \A x : x \notin Range(m.data)
    BY <1>5, EmptySeq DEF Range
  <2>2. ASSUME NEW d, NEW x
        PROVE  /\ Begun(Stream', d) <=> Begun(Stream, d) \/ m.conn = d
               /\ Closed(Stream', d) <=> Closed(Stream, d) \/ (m.conn = d /\ m.tag = "offline")
               /\ Carries(Stream', d, x) <=> Carries(Stream, d, x) \/ (m.conn = d /\ x \in Range(m.data))
    BY <1>3, <1>5, OneMore
  <2> HIDE DEF m
  <2> QED
    BY <1>2, <1>5, <2>1, <2>2
<1>7. ToldInTurn(Stream')
  BY <1>2, <1>3, <1>5, OneMoreInTurn DEF FlowInv, SessionProtocol
<1>8. Rising(Stream')
  BY <1>3, <1>5, OneMoreRising DEF FlowInv, StreamIsKept
<1>9. peer[c] = "eof" => \A x \in 1..MaxChunks : x <= wire[c] => Carries(Stream, c, x)
  BY <1>1 DEF Ended, FlowInv
<1>10. StreamIsKept'
  BY <1>1, <1>6, <1>8, <1>9 DEF FlowInv, StreamIsKept
<1>11. ASSUME NEW d \in Conns
       PROVE  /\ read'[d] <= wire'[d]
              /\ d > accepted' => peer'[d] = "none" /\ wire'[d] = 0 /\ ~Begun(Stream', d) /\ d \notin bev'
              /\ d \in bev' => Begun(Stream', d) /\ ~Closed(Stream', d) /\ m_fd'[d] # -1
              /\ Closed(Stream', d) => peer'[d] \in {"eof", "reset"}
              /\ \A x \in 1..MaxChunks :
                   /\ Carries(Stream', d, x) => x <= read'[d]
                   /\ d \in bev' /\ x <= read'[d] => Carries(Stream', d, x)
  <2>1. peer[c] \in {"eof", "reset"}
    BY <1>1 DEF Ended
  <2>2. d \in bev' => d \in bev /\ d # c /\ m_fd'[d] = m_fd[d]
    BY <1>1 DEF FlowInv, TypeOK
  <2> QED
    BY <1>1, <1>6, <2>1, <2>2 DEF FlowInv
<1> QED
  BY <1>3, <1>4, <1>7, <1>10, <1>11 DEF FlowInv, SessionProtocol

(* An interruption ends every connection, and what is lost is what was     *)
(* told last.                                                              *)
LEMMA ExitFlow ==
  ASSUME FlowInv, NEW n \in 0..HWM, n <= Len(pipe), Exit(n)
  PROVE  FlowInv'
<1>1. /\ bev' = {} /\ peer' = [c \in Conns |-> IF c \in bev THEN "reset" ELSE peer[c]]
      /\ UNCHANGED <<accepted, wire, read>>
      /\ m_fd' = [c \in Conns |-> -1] /\ connMap' = << >>
  BY DEF Exit
<1>2. PICK k : k = Len(received) + n
  OBVIOUS
<1>3. TypeOK' /\ Stream' = SubSeq(Stream, 1, k) /\ k \in 0..Len(Stream) /\ Stream \in Seq(Messages)
  BY <1>2, ExitTells, ExitType, StreamType DEF FlowInv
<1>4. MapInv'
  BY <1>1 DEF FlowInv, MapInv, TargetsAlive
<1>5. ToldInTurn(Stream) /\ Rising(Stream)
  BY DEF FlowInv, SessionProtocol, StreamIsKept
<1>6. /\ ToldInTurn(Stream') /\ Rising(Stream')
      /\ \A c : (Begun(Stream', c) => Begun(Stream, c)) /\ (Closed(Stream', c) => Closed(Stream, c))
      /\ \A c, x : Carries(Stream', c, x) => Carries(Stream, c, x)
      /\ \A c \in Conns, x, y \in 1..MaxChunks :
           Carries(Stream', c, x) /\ y <= x /\ Carries(Stream, c, y) => Carries(Stream', c, y)
      /\ \A c \in Conns : \A y : Closed(Stream', c) /\ Carries(Stream, c, y) => Carries(Stream', c, y)
  BY <1>3, <1>5, LastLost
<1>7. \A c \in Conns : /\ peer'[c] = peer[c] \/ peer'[c] = "reset"
                       /\ c \notin bev => peer'[c] = peer[c]
  BY <1>1
<1>8. StreamIsKept'
  <2> SUFFICES ASSUME NEW c \in Conns, NEW x \in 1..MaxChunks
               PROVE  /\ Carries(Stream', c, x) => x <= wire[c] /\ \A y \in 1..x : Carries(Stream', c, y)
                      /\ peer'[c] = "eof" /\ Closed(Stream', c) /\ x <= wire[c] => Carries(Stream', c, x)
    BY <1>1, <1>6 DEF StreamIsKept
  <2>1. ASSUME Carries(Stream', c, x)
        PROVE  x <= wire[c] /\ \A y \in 1..x : Carries(Stream', c, y)
    <3>1. x <= wire[c] /\ \A y \in 1..x : Carries(Stream, c, y)
      BY <1>6, <2>1 DEF FlowInv, StreamIsKept
    <3>2. \A y \in 1..x : y \in 1..MaxChunks /\ y <= x
      BY CaptureAssumption
    <3> QED
      BY <3>1, <3>2, <2>1, <1>6
  <2>2. ASSUME peer'[c] = "eof", Closed(Stream', c), x <= wire[c]
        PROVE  Carries(Stream', c, x)
    <3>1. peer[c] = "eof" /\ Closed(Stream, c)
      BY <2>2, <1>6, <1>7
    <3>2. Carries(Stream, c, x)
      BY <3>1, <2>2 DEF FlowInv, StreamIsKept
    <3> QED
      BY <3>2, <2>2, <1>6
  <2> QED
    BY <2>1, <2>2
<1>9. ASSUME NEW c \in Conns
      PROVE  /\ read'[c] <= wire'[c]
             /\ c > accepted' => peer'[c] = "none" /\ wire'[c] = 0 /\ ~Begun(Stream', c) /\ c \notin bev'
             /\ c \in bev' => Begun(Stream', c) /\ ~Closed(Stream', c) /\ m_fd'[c] # -1
             /\ Closed(Stream', c) => peer'[c] \in {"eof", "reset"}
             /\ \A x \in 1..MaxChunks :
                  /\ Carries(Stream', c, x) => x <= read'[c]
                  /\ c \in bev' /\ x <= read'[c] => Carries(Stream', c, x)
  BY <1>1, <1>6, <1>7 DEF FlowInv
<1> QED
  BY <1>3, <1>4, <1>6, <1>8, <1>9 DEF FlowInv, SessionProtocol

(* A receiver sends, or ends its stream, while its connection is open: no  *)
(* OFFLINE has been told of it.                                            *)
LEMMA SilentFlow ==
  ASSUME FlowInv, Silent
  PROVE  FlowInv'
<1>1. TypeOK' /\ Stream' = Stream
  BY SilentType DEF FlowInv
<1>2. MapInv'
  <2>1. UNCHANGED <<accepted, m_fd, bev, connMap>>
    BY DEF Silent, Finalize, Peer, Send, Hangup, Receive, Start, vars, connVars
  <2> QED
    BY <2>1 DEF FlowInv, MapInv, TargetsAlive
<1>3. UNCHANGED <<accepted, m_fd, bev, read>>
  BY DEF Silent, Finalize, Peer, Send, Hangup, Receive, Start, vars, connVars
<1>4. ASSUME NEW c \in Conns
      PROVE  /\ wire'[c] >= wire[c] /\ (peer'[c] = peer[c] \/ (peer[c] = "open" /\ peer'[c] \in {"eof", "reset"}))
             /\ wire'[c] # wire[c] => peer[c] = "open"
  <2>1. wire[c] \in Nat
    BY DEF FlowInv, TypeOK
  <2>2. CASE UNCHANGED <<wire, peer>>
    BY <2>1, <2>2
  <2>3. ASSUME NEW d \in Conns, Send(d)
        PROVE  /\ wire'[c] >= wire[c] /\ peer' = peer
               /\ wire'[c] # wire[c] => peer[c] = "open"
    BY <2>1, <2>3 DEF Send, FlowInv, TypeOK
  <2>4. ASSUME NEW d \in Conns, NEW how \in {"eof", "reset"}, Hangup(d, how)
        PROVE  wire' = wire /\ (peer'[c] = peer[c] \/ (peer[c] = "open" /\ peer'[c] \in {"eof", "reset"}))
    BY <2>4 DEF Hangup, FlowInv, TypeOK
  <2>5. UNCHANGED <<wire, peer>> \/ \E d \in Conns : Send(d) \/ \E how \in {"eof", "reset"} : Hangup(d, how)
    BY DEF Silent, Finalize, Peer, Receive, Start, vars, peerVars
  <2> QED
    BY <2>1, <2>2, <2>3, <2>4, <2>5
<1>5. \A c \in Conns : Closed(Stream, c) => peer'[c] = peer[c] /\ wire'[c] = wire[c]
  BY <1>4 DEF FlowInv
<1>6. \A c \in Conns : c > accepted => peer'[c] = "none" /\ wire'[c] = 0
  BY <1>4 DEF FlowInv
<1>7. \A c \in Conns : wire[c] \in Nat /\ wire'[c] \in Nat /\ read[c] \in Nat /\ read[c] <= wire[c]
  BY <1>1, <1>3 DEF FlowInv, TypeOK
<1>8. StreamIsKept'
  BY <1>1, <1>4, <1>5, <1>7 DEF FlowInv, StreamIsKept
<1>9. ASSUME NEW c \in Conns
      PROVE  /\ read'[c] <= wire'[c]
             /\ c > accepted' => peer'[c] = "none" /\ wire'[c] = 0 /\ ~Begun(Stream', c) /\ c \notin bev'
             /\ c \in bev' => Begun(Stream', c) /\ ~Closed(Stream', c) /\ m_fd'[c] # -1
             /\ Closed(Stream', c) => peer'[c] \in {"eof", "reset"}
             /\ \A x \in 1..MaxChunks :
                  /\ Carries(Stream', c, x) => x <= read'[c]
                  /\ c \in bev' /\ x <= read'[c] => Carries(Stream', c, x)
  <2>1. read'[c] <= wire'[c]
    BY <1>3, <1>4, <1>7
  <2> QED
    BY <2>1, <1>1, <1>3, <1>5, <1>6 DEF FlowInv
<1> QED
  BY <1>1, <1>2, <1>8, <1>9 DEF FlowInv, SessionProtocol

LEMMA NextFlow == FlowInv /\ [Next]_vars => FlowInv'
BY AcceptFlow, ReadFlow, EventFlow, ExitFlow, SilentFlow DEF Next, EventThread, Silent

(***************************************************************************)
(* AgnssServer is told of each connection ONLINE, its bytes in their order *)
(* and without a gap, and OFFLINE, once each (listenerCallback, onRead,    *)
(* onEvent), whatever breaks and whenever the process is interrupted.      *)
(***************************************************************************)
THEOREM ConnectionsAreTold == Spec => []CaptureInv
<1>1. FlowInv => CaptureInv
  BY DEF FlowInv, CaptureInv
<1> QED
  BY <1>1, InitFlow, NextFlow, PTL DEF Spec
=============================================================================
