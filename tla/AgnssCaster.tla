---------------------------- MODULE AgnssCaster ----------------------------
(***************************************************************************)
(* AgnssCaster: subscribes to AgnssServer's corrections and answers HTTP   *)
(* requests with the last of them.                                         *)
(*                                                                         *)
(* The server's timer publishes at most one correction per device every    *)
(* ServerPeriod seconds; they queue in the SUB socket, of which one        *)
(* periodic handler takes one message a second and another drops what is   *)
(* out of date.  Handlers and requests run on one event loop, each is one  *)
(* step.  Time is counted in seconds; each handler is called once in every *)
(* second, in either order: the loop is never held up that long.           *)
(*                                                                         *)
(* A message is the device and the moment it was published.                *)
(***************************************************************************)
EXTENDS Integers, Sequences, SequencesExt, FiniteSets

CONSTANTS
  Devices,       \* devices, numbered as forEach orders them
  ServerPeriod,  \* seconds between two ticks of the server's timer (3)
  Timeout,       \* "timeout" of AgnssCaster.json, in seconds (30)
  CaHWM,           \* messages the SUB socket queues (1000)
  MaxTime        \* bound: last second

ASSUME CasterAssumption ==
  /\ Devices \subseteq Nat /\ IsFiniteSet(Devices)
  /\ ServerPeriod \in Nat \ {0} /\ Timeout \in Nat /\ CaHWM \in Nat \ {0} /\ MaxTime \in Nat

VARIABLES
  now,              \* the present second
  todo,             \* what is still to happen in it
  queue,            \* messages in the SUB socket
  dataMap,          \* dataMap: device -> message
  latestDataMap,    \* the entry of latestDataMap under "", in a set
  dataUpdatedTime,  \* when a message was handled last
  phase             \* the second of its period in which the server's timer ticks

caVars == <<now, phase, todo, queue, dataMap, latestDataMap, dataUpdatedTime>>

(* What happens in second t. *)
JobsAt(t, p) ==
  {"poll", "check"} \cup IF (t - p) % ServerPeriod = 0 THEN {"tick"} ELSE {}

CaMessages == [device : Devices, time : 0..MaxTime]

CaInit ==
  /\ now = 0
  /\ phase \in 0..(ServerPeriod - 1)
  /\ todo = JobsAt(0, phase)
  /\ queue = <<>> /\ dataMap = << >> /\ latestDataMap = {}
  /\ dataUpdatedTime = 0

-----------------------------------------------------------------------------
(* The devices that may have a correction in a tick, in the order of forEach. *)
Rounds ==
  {ds \in UNION {[1..n -> Devices] : n \in 0..Cardinality(Devices)} :
     \A i, j \in DOMAIN ds : i < j => ds[i] < ds[j]}

(* One tick of AgnssServer: the devices of ds have a correction.  PUB drops *)
(* what the queue cannot hold.                                             *)
ServerTick(ds) ==
  LET all == queue \o [i \in DOMAIN ds |-> [device |-> ds[i], time |-> now]]
  IN
  /\ "tick" \in todo
  /\ todo' = todo \ {"tick"}
  /\ queue' = SubSeq(all, 1, IF Len(all) < CaHWM THEN Len(all) ELSE CaHWM)
  /\ UNCHANGED <<now, phase, dataMap, latestDataMap, dataUpdatedTime>>

(* Faulty variants: the time of the message is not kept; it is kept in     *)
(* another unit.                                                           *)
HandleAssistDataUntimed(m) ==
  /\ dataMap' = [d \in DOMAIN dataMap \cup {m.device} |-> IF d = m.device THEN m ELSE dataMap[d]]
  /\ latestDataMap' = {m}
  /\ UNCHANGED dataUpdatedTime

HandleAssistDataMillis(m) ==
  /\ dataMap' = [d \in DOMAIN dataMap \cup {m.device} |-> IF d = m.device THEN m ELSE dataMap[d]]
  /\ latestDataMap' = {m}
  /\ dataUpdatedTime' = 1000 * (now + 1)

(* handleAssistData *)
HandleAssistData(m) ==
  /\ dataMap' = [d \in DOMAIN dataMap \cup {m.device} |-> IF d = m.device THEN m ELSE dataMap[d]]
  /\ latestDataMap' = {m}
  /\ dataUpdatedTime' = now

(* A faulty variant: the message stays in the socket. *)
TakenNot == queue

(* recv takes one message. *)
Taken == Tail(queue)

(* A faulty variant: the newest message is taken first. *)
PollNewest ==
  /\ "poll" \in todo
  /\ todo' = todo \ {"poll"}
  /\ IF queue = <<>> THEN UNCHANGED <<queue, dataMap, latestDataMap, dataUpdatedTime>>
     ELSE HandleAssistData(Last(queue)) /\ queue' = Front(queue)
  /\ UNCHANGED <<now, phase>>

(* The periodic handler of setupZeroMQ, *)
Poll ==
  /\ "poll" \in todo
  /\ todo' = todo \ {"poll"}
  /\ IF queue = <<>> THEN UNCHANGED <<queue, dataMap, latestDataMap, dataUpdatedTime>>
     ELSE HandleAssistData(Head(queue)) /\ queue' = Taken
  /\ UNCHANGED <<now, phase>>

(* A faulty variant: the list of devices is forgotten. *)
ClearedLatestOnly == latestDataMap' = {} /\ UNCHANGED dataMap

Cleared == latestDataMap' = {} /\ dataMap' = << >>

(* A faulty variant: milliseconds are compared with seconds. *)
ElapsedInMillis == now - dataUpdatedTime > Timeout * 1000

Elapsed == now - dataUpdatedTime > Timeout

(* and the other one, checkAndClearDataMap. *)
CheckAndClearDataMap ==
  /\ "check" \in todo
  /\ todo' = todo \ {"check"}
  /\ IF Elapsed /\ latestDataMap # {} THEN Cleared ELSE UNCHANGED <<dataMap, latestDataMap>>
  /\ UNCHANGED <<now, phase, queue, dataUpdatedTime>>

NextSecond ==
  /\ todo = {} /\ now < MaxTime
  /\ now' = now + 1
  /\ todo' = JobsAt(now + 1, phase)
  /\ UNCHANGED <<phase, queue, dataMap, latestDataMap, dataUpdatedTime>>

CaNext ==
  \/ \E ds \in Rounds : ServerTick(ds)
  \/ Poll \/ CheckAndClearDataMap \/ NextSecond

CaSpec == CaInit /\ [][CaNext]_caVars
-----------------------------------------------------------------------------
(* The values the variables range over. *)
CaTypeOK ==
  /\ now \in 0..MaxTime /\ phase \in 0..(ServerPeriod - 1)
  /\ todo \subseteq {"tick", "poll", "check"}
  /\ queue \in Seq(CaMessages) /\ Len(queue) <= CaHWM
  /\ DOMAIN dataMap \subseteq Devices /\ \A d \in DOMAIN dataMap : dataMap[d] \in CaMessages
  /\ latestDataMap \subseteq CaMessages /\ Cardinality(latestDataMap) <= 1
  /\ dataUpdatedTime \in 0..now

(***************************************************************************)
(* One message a second is enough for as many devices as the server's      *)
(* timer has seconds: none waits longer than there are devices.            *)
(***************************************************************************)
Prompt == \A i \in DOMAIN queue : now - queue[i].time <= Cardinality(Devices)

(***************************************************************************)
(* A request is never answered with a correction older than the timeout    *)
(* and the time it waited in the socket, although the timeout counts from  *)
(* the moment a message was taken and is checked once a second.            *)
(***************************************************************************)
GetLatestData == latestDataMap
NeverStale ==
  \A m \in GetLatestData : now - m.time <= Timeout + 1 + Cardinality(Devices)

(* handleGetData answers with data exactly when handleListDevice lists a   *)
(* device, and with the newest data of the device they are from.           *)
OneView ==
  /\ GetLatestData = {} <=> dataMap = << >>
  /\ \A m \in GetLatestData : m.device \in DOMAIN dataMap /\ dataMap[m.device] = m

(***************************************************************************)
(* A correction is dropped only when none was published in the last        *)
(* Timeout seconds: a live device is never cleared by a race of the two    *)
(* periodic handlers.                                                      *)
(***************************************************************************)
KeptWhileFresh ==
  [][latestDataMap # {} /\ latestDataMap' = {}
       => \A m \in latestDataMap : now - m.time > Timeout]_caVars

(* Messages wait no longer, and answers are no older, than the socket, the *)
(* timeout and the two periodic handlers make them (setupZeroMQ).          *)
Timely == Prompt /\ NeverStale
=============================================================================
