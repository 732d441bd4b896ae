---------------------------- MODULE AgnssCapture ----------------------------
(***************************************************************************)
(* AgnssCapture: a libevent server that accepts the connections of the     *)
(* receivers and pushes what they send, with an ONLINE and an OFFLINE      *)
(* status around it, to AgnssServer.                                       *)
(*                                                                         *)
(* All callbacks run in the event thread, one after the other, and each is *)
(* one step.  m_connMap owns the connections (shared_ptr), a bufferevent   *)
(* only points to one; the entry of a closed connection stays in the map   *)
(* until its descriptor is used again, because internalClose asks the      *)
(* server to close descriptor -1.  libevent closes the descriptor after    *)
(* the callback that frees the bufferevent has returned.                   *)
(*                                                                         *)
(* The receivers' data are numbered chunks; each message names the         *)
(* connection that caused it, where the code's has the peer's address.     *)
(* The device type of the header, the same in all, is left out.            *)
(***************************************************************************)
EXTENDS Integers, Sequences, SequencesExt, FiniteSets, Functions

CONSTANTS
  Fds,          \* socket descriptors the kernel gives to connections
  HWM,          \* messages the pipe to AgnssServer holds (ZMQ_SNDHWM, 1000)
  MaxConns,     \* bound: connections accepted
  MaxChunks,    \* bound: chunks a receiver sends
  MaxExits      \* bound: times the process is interrupted

ASSUME CaptureAssumption ==
  /\ -1 \notin Fds /\ IsFiniteSet(Fds)
  /\ HWM \in Nat \ {0} /\ MaxConns \in Nat
  /\ MaxChunks \in Nat /\ MaxExits \in Nat

Conns == 1..MaxConns

VARIABLES
  accepted,     \* connections so far: 1..accepted
  alive,        \* the process runs
  exits,        \* interruptions so far
  peer,         \* peer[c]: "none" before it is accepted, then "open", "eof", "reset"
  wire,         \* wire[c]: chunks the peer has sent
  read,         \* read[c]: chunks onRead has forwarded
  m_fd,         \* m_fd[c]: the descriptor, -1 when closed
  toFree,       \* descriptors of the bufferevents freed, still to be closed
  bev,          \* connections whose bufferevent has them as its callbacks' target
  connMap,      \* m_connMap: descriptor -> connection
  pipe,         \* messages on their way to AgnssServer
  received      \* messages AgnssServer has received

peerVars == <<peer, wire>>
connVars == <<accepted, read, m_fd, bev, toFree, connMap>>
processVars == <<alive, exits>>
vars == <<processVars, peerVars, connVars, pipe, received>>

Message(t, c, chunks) == [tag |-> t, conn |-> c, data |-> chunks]

Init ==
  /\ alive = TRUE /\ exits = 0
  /\ accepted = 0
  /\ peer = [c \in Conns |-> "none"]
  /\ wire = [c \in Conns |-> 0] /\ read = [c \in Conns |-> 0]
  /\ m_fd = [c \in Conns |-> -1]
  /\ bev = {} /\ toFree = {}
  /\ connMap = << >>
  /\ pipe = <<>> /\ received = <<>>

-----------------------------------------------------------------------------
(* The receivers.  One that loses its connection opens another. *)

Send(c) ==
  /\ peer[c] = "open" /\ wire[c] < MaxChunks
  /\ wire' = [wire EXCEPT ![c] = @ + 1]
  /\ UNCHANGED <<processVars, peer, connVars, pipe, received>>

(* It closes the connection in order, or the connection breaks. *)
Hangup(c, how) ==
  /\ peer[c] = "open"
  /\ peer' = [peer EXCEPT ![c] = how]
  /\ UNCHANGED <<processVars, wire, connVars, pipe, received>>

-----------------------------------------------------------------------------
(* The event thread.  A callback that finds the pipe full waits in it. *)

(* CCaptureSink: the message goes into the pipe, when there is room. *)
Push(m) ==
  /\ alive /\ Len(pipe) < HWM
  /\ pipe' = Append(pipe, m)

(* A faulty variant: TMap::insert, which keeps the entry there was. *)
RegisteredOnce(fd, c) ==
  [g \in DOMAIN connMap \cup {fd} |-> IF g \in DOMAIN connMap THEN connMap[g] ELSE c]

(* m_connMap.set: the entry the descriptor had before goes. *)
Registered(fd, c) ==
  [g \in DOMAIN connMap \cup {fd} |-> IF g = fd THEN c ELSE connMap[g]]

(* listenerCallback: open (ONLINE), then m_connMap, then the callbacks. *)
Accept(fd) ==
  LET c == accepted + 1 IN
  /\ c \in Conns
  /\ fd \notin Range(m_fd) \cup toFree
  /\ Push(Message("online", c, <<>>))
  /\ accepted' = c
  /\ peer' = [peer EXCEPT ![c] = "open"]
  /\ m_fd' = [m_fd EXCEPT ![c] = fd]
  /\ bev' = bev \cup {c}
  /\ connMap' = Registered(fd, c)
  /\ UNCHANGED <<processVars, wire, read, toFree, received>>

(* Faulty variants: a buffer of fixed size takes the first chunk only; the *)
(* message holds more than was read.                                       *)
UnreadFirst(c) == <<read[c] + 1>>
UnreadBeyond(c) == [i \in 1..(wire[c] - read[c] + 1) |-> read[c] + i]

Unread(c) == [i \in 1..(wire[c] - read[c]) |-> read[c] + i]

(* onRead, handleRecv: all that has arrived is one message. *)
Read(c) ==
  /\ c \in bev /\ read[c] < wire[c]
  /\ Push(Message("data", c, Unread(c)))
  /\ read' = [read EXCEPT ![c] = wire[c]]
  /\ UNCHANGED <<processVars, peerVars, accepted, m_fd, bev, toFree, connMap,
                 received>>

(* A faulty variant: internalClose keeps m_fd until the server is called. *)
FdKept(c) == m_fd[c]

(* What internalClose passes to TcpServer::close: m_fd, after it was reset. *)
FdPassed(c) == -1

(* TcpServer::close closes the connection it finds, a second time. *)
ClosedAgain(fd) ==
  IF fd \in DOMAIN connMap THEN <<Message("offline", connMap[fd], <<>>)>> ELSE <<>>

(* A faulty variant: onEvent knows the end of the stream only. *)
EndedInOrder(c) == peer[c] = "eof" /\ read[c] = wire[c]

(* onEvent: BEV_EVENT_EOF, told after the bytes before it, or              *)
(* BEV_EVENT_ERROR, which may cost some of them.                           *)
Ended(c) ==
  \/ peer[c] = "eof" /\ read[c] = wire[c]
  \/ peer[c] = "reset"

(* close: OFFLINE, then internalClose frees the bufferevent. *)
Event(c) ==
  /\ c \in bev /\ Ended(c)
  /\ alive /\ Len(pipe) < HWM
  /\ pipe' = pipe \o <<Message("offline", c, <<>>)>> \o ClosedAgain(FdPassed(c))
  /\ connMap' = Restrict(connMap, DOMAIN connMap \ {FdPassed(c)})
  /\ bev' = bev \ {c}
  /\ toFree' = toFree \cup {m_fd[c]}
  /\ m_fd' = [m_fd EXCEPT ![c] = -1]
  /\ UNCHANGED <<processVars, peerVars, accepted, read, received>>

(* bufferevent_finalize_cb_: BEV_OPT_CLOSE_ON_FREE closes the descriptor. *)
Finalize(fd) ==
  /\ alive
  /\ fd \in toFree
  /\ toFree' = toFree \ {fd}
  /\ UNCHANGED <<processVars, peerVars, accepted, read, m_fd, bev, connMap,
                 pipe, received>>

-----------------------------------------------------------------------------
(* Application::exit, and exit(1): connections end without OFFLINE, and    *)
(* the messages that have not left yet are lost.                           *)
Exit(n) ==
  /\ alive /\ exits < MaxExits
  /\ alive' = FALSE /\ exits' = exits + 1
  /\ pipe' = SubSeq(pipe, 1, n)
  /\ peer' = [c \in Conns |-> IF c \in bev THEN "reset" ELSE peer[c]]
  /\ m_fd' = [c \in Conns |-> -1] /\ bev' = {} /\ toFree' = {} /\ connMap' = << >>
  /\ UNCHANGED <<wire, accepted, read, received>>

Start ==
  /\ ~alive
  /\ alive' = TRUE
  /\ UNCHANGED <<exits, peerVars, connVars, pipe, received>>

(* Application::run of AgnssServer takes the next message. *)
Receive ==
  /\ pipe # <<>>
  /\ received' = Append(received, Head(pipe))
  /\ pipe' = Tail(pipe)
  /\ UNCHANGED <<processVars, peerVars, connVars>>

Peer(c) == Send(c) \/ \E how \in {"eof", "reset"} : Hangup(c, how)

EventThread ==
  \/ \E fd \in Fds : Accept(fd) \/ Finalize(fd)
  \/ \E c \in Conns : Read(c) \/ Event(c)

Next ==
  \/ EventThread \/ Receive
  \/ \E c \in Conns : Peer(c)
  \/ \E n \in 0..HWM : n <= Len(pipe) /\ Exit(n)
  \/ Start

Spec == Init /\ [][Next]_vars

(***************************************************************************)
(* The event loop runs and AgnssServer takes messages; no receiver has to  *)
(* connect or send.                                                        *)
(***************************************************************************)
Fairness ==
  /\ \A c \in Conns : SF_vars(Read(c)) /\ SF_vars(Event(c))
  /\ WF_vars(Receive)

FairSpec == Spec /\ Fairness
-----------------------------------------------------------------------------
Messages == [tag : {"online", "data", "offline"}, conn : Conns, data : Seq(1..MaxChunks)]

(* The values the variables range over. *)
TypeOK ==
  /\ alive \in BOOLEAN /\ exits \in 0..MaxExits /\ accepted \in 0..MaxConns
  /\ peer \in [Conns -> {"none", "open", "eof", "reset"}]
  /\ wire \in [Conns -> 0..MaxChunks] /\ read \in [Conns -> 0..MaxChunks]
  /\ m_fd \in [Conns -> Fds \cup {-1}]
  /\ bev \subseteq Conns /\ toFree \subseteq Fds
  /\ DOMAIN connMap \subseteq Fds /\ Range(connMap) \subseteq Conns
  /\ pipe \in Seq(Messages) /\ Len(pipe) <= HWM
  /\ received \in Seq(Messages)

(***************************************************************************)
(* The callbacks of a bufferevent find their connection alive: it is owned *)
(* by m_connMap, under its own descriptor, although the map keeps closed   *)
(* connections and descriptors are used again (listenerCallback passes     *)
(* conn.get()).                                                            *)
(***************************************************************************)
TargetsAlive == \A c \in bev : m_fd[c] \in DOMAIN connMap /\ connMap[m_fd[c]] = c

(* What AgnssServer is told: what it has received and what is on its way.   *)
Stream == received \o pipe

(***************************************************************************)
(* What AgnssServer is told of a connection: ONLINE, then data, then       *)
(* OFFLINE, once each, even when the process is interrupted.               *)
(***************************************************************************)
ToldInTurn(s) ==
  \A i \in DOMAIN s :
    /\ s[i].tag = "online" <=> \A j \in 1..(i - 1) : s[j].conn # s[i].conn
    /\ s[i].tag = "offline" => \A j \in (i + 1)..Len(s) : s[j].conn # s[i].conn
SessionProtocol == ToldInTurn(Stream)

(***************************************************************************)
(* The bytes of a connection arrive once each and in their order, none is  *)
(* missing before one that arrives, and all of them do if the receiver     *)
(* ended the stream and OFFLINE has arrived.                               *)
(***************************************************************************)
Rising(s) ==
  \A i, j \in DOMAIN s : s[i].conn = s[j].conn =>
    \A k \in DOMAIN s[i].data, l \in DOMAIN s[j].data :
      i < j \/ (i = j /\ k < l) => s[i].data[k] < s[j].data[l]
Carries(s, c, x) == \E i \in DOMAIN s : s[i].conn = c /\ x \in Range(s[i].data)
Closed(s, c) == \E i \in DOMAIN s : s[i].conn = c /\ s[i].tag = "offline"
StreamIsKept ==
  /\ Rising(Stream)
  /\ \A c \in Conns, x \in 1..MaxChunks :
       /\ Carries(Stream, c, x) => x <= wire[c] /\ \A y \in 1..x : Carries(Stream, c, y)
       /\ peer[c] = "eof" /\ Closed(Stream, c) /\ x <= wire[c] => Carries(Stream, c, x)

(***************************************************************************)
(* A connection that ends is reported OFFLINE to AgnssServer, unless the   *)
(* process is interrupted: a full pipe delays it, nothing else.            *)
(***************************************************************************)
OfflineFollows ==
  \A c \in Conns : (c \in bev /\ peer[c] # "open") ~> (Closed(received, c) \/ exits > 0)

(* AgnssServer sees of a connection ONLINE, the bytes in order and OFFLINE *)
(* (listenerCallback, onRead, onEvent).                                    *)
CaptureInv == TypeOK /\ SessionProtocol /\ StreamIsKept
=============================================================================
