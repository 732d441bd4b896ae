------------------------- MODULE AgnssHandlerProofs --------------------------
(***************************************************************************)
(* Proofs about the caster and its answers, for any devices, period,       *)
(* timeout, length of the queue and requests: the order of the messages in *)
(* the socket is the order of the answers, and no correction is dropped    *)
(* before its time.                                                        *)
(***************************************************************************)
EXTENDS AgnssHandler, TLAPS, FiniteSetTheorems, SequenceTheorems

(* What is in the socket was published at a moment that is past, the older *)
(* messages first.                                                         *)
HpQueue ==
  /\ \E S : queue \in Seq(S)
  /\ \A i \in 1..Len(queue) : queue[i].time \in 0..now
  /\ \A i, j \in 1..Len(queue) : i <= j => queue[i].time <= queue[j].time

(* At most one message is kept, which was published before it was taken,   *)
(* and before those in the socket.                                         *)
HpLatest ==
  /\ now \in Nat /\ dataUpdatedTime \in 0..now
  /\ \A m \in latestDataMap :
       m.time \in 0..dataUpdatedTime /\ \A i \in 1..Len(queue) : m.time <= queue[i].time
  /\ \A m, n \in latestDataMap : m = n

(* The message of the last answer is older than all that can still be      *)
(* given, though it may have been dropped since.                           *)
HpGiven ==
  /\ \A m, n \in ahGiven : m = n
  /\ \A m \in ahGiven :
       /\ m.time \in 0..now
       /\ \A n \in latestDataMap : m.time <= n.time
       /\ \A i \in 1..Len(queue) : m.time <= queue[i].time

(* The inductive invariants, of the caster and of its answers. *)
HpCaster == HpQueue /\ HpLatest
HpInv == HpCaster /\ HpGiven

-----------------------------------------------------------------------------
(* What ServerTick and Poll do to the socket. *)

(* The longest beginning of the queue that the socket holds. *)
LEMMA HeldPart ==
  ASSUME NEW S, NEW s \in Seq(S)
  PROVE  LET n == IF Len(s) < CaHWM THEN Len(s) ELSE CaHWM
         IN  /\ SubSeq(s, 1, n) \in Seq(S) /\ Len(SubSeq(s, 1, n)) = n
             /\ n \in 0..Len(s) /\ \A i \in 1..n : SubSeq(s, 1, n)[i] = s[i]
  BY CasterAssumption

LEMMA RoundType ==
  ASSUME NEW ds \in Rounds
  PROVE  ds \in Seq(Devices) /\ Len(ds) \in Nat /\ Len(ds) <= Cardinality(Devices) /\ DOMAIN ds = 1..Len(ds)
<1>1. Cardinality(Devices) \in Nat
  BY CasterAssumption, FS_CardinalityType
<1>2. PICK n \in 0..Cardinality(Devices) : ds \in [1..n -> Devices]
  BY DEF Rounds
<1>3. n \in Nat /\ n <= Cardinality(Devices)
  BY <1>1
<1>4. ds \in Seq(Devices) /\ Len(ds) = n /\ DOMAIN ds = 1..n
  BY <1>2, <1>3
<1>q. QED
  BY <1>3, <1>4

(* A tick appends messages of the present second, as many as there is room. *)
LEMMA Ticked ==
  ASSUME HpCaster, NEW ds \in Rounds, ServerTick(ds)
  PROVE  /\ \E S : queue' \in Seq(S)
         /\ \A i \in 1..Len(queue') :
              \/ i \in 1..Len(queue) /\ queue'[i] = queue[i]
              \/ /\ i > Len(queue) /\ queue'[i].time = now
                 /\ queue'[i] \in [device : Devices, time : {now}]
         /\ Len(queue') \in Nat /\ Len(queue') <= Len(queue) + Cardinality(Devices)
         /\ Len(queue') <= CaHWM
<1> DEFINE msgs == [i \in 1..Len(ds) |-> [device |-> ds[i], time |-> now]]
           all == queue \o msgs
           held == IF Len(all) < CaHWM THEN Len(all) ELSE CaHWM
<1>1. /\ ds \in Seq(Devices) /\ Len(ds) \in Nat /\ Len(ds) <= Cardinality(Devices)
      /\ DOMAIN ds = 1..Len(ds) /\ Cardinality(Devices) \in Nat
  BY RoundType, CasterAssumption, FS_CardinalityType
<1>2. PICK S : queue \in Seq(S)
  BY DEF HpCaster, HpQueue
<1>3. \A i \in 1..Len(ds) : msgs[i].time = now /\ msgs[i] \in [device : Devices, time : {now}]
  BY <1>1
<1>6. queue' = SubSeq(all, 1, held)
  BY <1>1 DEF ServerTick
<1> DEFINE T == S \cup [device : Devices, time : {now}]
<1>4. queue \in Seq(T) /\ msgs \in Seq(T) /\ Len(msgs) = Len(ds)
  <2>1. msgs \in [1..Len(ds) -> T]
    BY <1>3
  <2>q. QED
    BY <1>1, <1>2, <2>1
<1> HIDE DEF msgs, T
<1>5. \A i \in 1..Len(msgs) : msgs[i].time = now /\ msgs[i] \in [device : Devices, time : {now}]
  BY <1>3, <1>4
<1>7. /\ all \in Seq(T) /\ Len(all) = Len(queue) + Len(msgs)
      /\ \A i \in 1..Len(queue) : all[i] = queue[i]
      /\ \A i \in 1..Len(all) : i > Len(queue) => all[i] = msgs[i - Len(queue)]
  BY <1>4
<1>8. \A i \in 1..Len(all) :
        i > Len(queue) => all[i].time = now /\ all[i] \in [device : Devices, time : {now}]
  <2> SUFFICES ASSUME NEW i \in 1..Len(all), i > Len(queue)
               PROVE  all[i].time = now /\ all[i] \in [device : Devices, time : {now}]
    OBVIOUS
  <2>1. i - Len(queue) \in 1..Len(msgs) /\ all[i] = msgs[i - Len(queue)]
    BY <1>4, <1>7
  <2>q. QED
    BY <1>5, <2>1
<1> HIDE DEF all
<1>9. /\ queue' \in Seq(T) /\ Len(queue') = held
      /\ held \in 0..Len(all) /\ \A i \in 1..held : queue'[i] = all[i]
  BY <1>6, <1>7, HeldPart
<1>10. Len(queue) \in Nat /\ Len(msgs) <= Cardinality(Devices)
  BY <1>1, <1>2, <1>4
<1>11. Len(queue') \in Nat /\ Len(queue') <= Len(queue) + Cardinality(Devices)
  BY <1>1, <1>4, <1>7, <1>9, <1>10
<1>12. Len(queue') <= CaHWM
  BY <1>7, <1>9, CasterAssumption
<1>13. ASSUME NEW i \in 1..Len(queue')
       PROVE  \/ i \in 1..Len(queue) /\ queue'[i] = queue[i]
              \/ /\ i > Len(queue) /\ queue'[i].time = now
                 /\ queue'[i] \in [device : Devices, time : {now}]
  <2>1. i \in 1..Len(all) /\ queue'[i] = all[i] /\ i \in Nat
    BY <1>7, <1>9, <1>10, <1>11
  <2>2. CASE i > Len(queue)
    BY <1>8, <2>1, <2>2
  <2>3. CASE ~(i > Len(queue))
    <3>1. i \in 1..Len(queue)
      BY <1>10, <2>1, <2>3
    <3>q. QED
      BY <1>7, <2>1, <3>1
  <2>q. QED
    BY <2>2, <2>3
<1>q. QED
  BY <1>9, <1>11, <1>12, <1>13

-----------------------------------------------------------------------------
(* The caster *)

LEMMA CasterInit == CaInit => HpCaster
<1> SUFFICES ASSUME CaInit PROVE HpCaster
  OBVIOUS
<1>1. queue \in Seq({}) /\ Len(queue) = 0
  BY DEF CaInit
<1>q. QED
  BY <1>1 DEF CaInit, HpCaster, HpQueue, HpLatest

LEMMA CasterNext == HpCaster /\ [CaNext]_caVars => HpCaster'
<1> SUFFICES ASSUME HpCaster, [CaNext]_caVars PROVE HpCaster'
  OBVIOUS
<1> USE DEF HpCaster
<1>0. PICK S : queue \in Seq(S)
  BY DEF HpQueue
<1>1. ASSUME NEW ds \in Rounds, ServerTick(ds) PROVE HpCaster'
  <2>1. UNCHANGED <<now, latestDataMap, dataUpdatedTime>>
    BY <1>1 DEF ServerTick
  <2>2. /\ \E T : queue' \in Seq(T)
        /\ \A i \in 1..Len(queue') :
             \/ i \in 1..Len(queue) /\ queue'[i] = queue[i]
             \/ i > Len(queue) /\ queue'[i].time = now
        /\ Len(queue') \in Nat
    BY <1>1, Ticked
  <2>3. \A i \in 1..Len(queue') : queue'[i].time \in 0..now
    BY <2>2 DEF HpQueue, HpLatest
  <2>4. ASSUME NEW i \in 1..Len(queue'), NEW j \in 1..Len(queue'), i <= j
        PROVE  queue'[i].time <= queue'[j].time
    <3>1. CASE j > Len(queue)
      BY <2>2, <2>3, <2>4, <3>1, <1>0
    <3>2. CASE ~(j > Len(queue))
      <4>1. i \in 1..Len(queue) /\ j \in 1..Len(queue)
        BY <1>0, <2>2, <2>4, <3>2
      <4>2. queue'[i] = queue[i] /\ queue'[j] = queue[j]
        BY <1>0, <2>2, <2>4, <4>1
      <4>q. QED
        BY <2>4, <4>1, <4>2 DEF HpQueue
    <3>q. QED
      BY <3>1, <3>2
  <2>5. HpLatest'
    <3>1. ASSUME NEW m \in latestDataMap, NEW i \in 1..Len(queue') PROVE m.time <= queue'[i].time
      BY <2>2, <3>1 DEF HpLatest
    <3>q. QED
      BY <2>1, <3>1 DEF HpLatest
  <2>q. QED
    BY <2>1, <2>2, <2>3, <2>4, <2>5 DEF HpQueue
<1>2. CASE Poll
  <2>1. CASE queue = <<>>
    BY <1>2, <2>1 DEF Poll, HpQueue, HpLatest
  <2>2. CASE queue # <<>>
    <3>1. /\ latestDataMap' = {Head(queue)} /\ dataUpdatedTime' = now
          /\ queue' = Tail(queue) /\ now' = now
      BY <1>2, <2>2 DEF Poll, HandleAssistData, Taken
    <3>2. /\ queue' \in Seq(S) /\ Len(queue') = Len(queue) - 1 /\ Len(queue) \in Nat \ {0}
          /\ Head(queue) = queue[1] /\ \A i \in 1..Len(queue') : queue'[i] = queue[i + 1]
      BY <1>0, <2>2, <3>1
    <3>3. HpQueue'
      BY <3>1, <3>2 DEF HpQueue
    <3>4. HpLatest'
      BY <3>1, <3>2 DEF HpQueue, HpLatest
    <3>q. QED
      BY <3>3, <3>4
  <2>q. QED
    BY <2>1, <2>2
<1>3. CASE CheckAndClearDataMap
  BY <1>3 DEF CheckAndClearDataMap, Cleared, HpQueue, HpLatest
<1>4. CASE NextSecond
  BY <1>4 DEF NextSecond, HpQueue, HpLatest
<1>5. CASE UNCHANGED caVars
  BY <1>5 DEF caVars, HpQueue, HpLatest
<1>q. QED
  BY <1>1, <1>2, <1>3, <1>4, <1>5 DEF CaNext

(* The caster's inductive invariant. *)
THEOREM CasterInvariant == CaSpec => []HpCaster
  BY CasterInit, CasterNext, PTL DEF CaSpec

(* A correction is dropped by checkAndClearDataMap only when none was      *)
(* published in the last Timeout seconds, whatever the order of the two    *)
(* periodic handlers.                                                      *)
THEOREM FreshIsKept == CaSpec => KeptWhileFresh
<1>1. ASSUME HpCaster, [CaNext]_caVars
      PROVE  [latestDataMap # {} /\ latestDataMap' = {}
                => \A m \in latestDataMap : now - m.time > Timeout]_caVars
  <2> SUFFICES ASSUME latestDataMap # {}, latestDataMap' = {}, NEW m \in latestDataMap
               PROVE  now - m.time > Timeout
    OBVIOUS
  <2>1. ~UNCHANGED caVars /\ ~NextSecond /\ \A ds \in Rounds : ~ServerTick(ds)
    BY DEF caVars, NextSecond, ServerTick
  <2>2. ~Poll
    BY DEF Poll, HandleAssistData
  <2>3. CheckAndClearDataMap
    BY <1>1, <2>1, <2>2 DEF CaNext
  <2>4. now - dataUpdatedTime > Timeout
    BY <2>3 DEF CheckAndClearDataMap, Elapsed
  <2>q. QED
    BY <1>1, <2>4, CasterAssumption DEF HpCaster, HpLatest
<1>q. QED
  BY <1>1, CasterInvariant, PTL DEF CaSpec, KeptWhileFresh

-----------------------------------------------------------------------------
(* Who has data and who is listed *)

(* The caster's inductive invariant with the view of handleListDevice. *)
HpView == HpCaster /\ OneView

LEMMA ViewNext == HpView /\ [CaNext]_caVars => HpView'
<1> SUFFICES ASSUME HpView, [CaNext]_caVars PROVE OneView'
  BY CasterNext DEF HpView
<1> USE DEF HpView, OneView, GetLatestData
<1>1. ASSUME NEW ds \in Rounds, ServerTick(ds) PROVE OneView'
  BY <1>1 DEF ServerTick
<1>2. CASE Poll
  <2>1. CASE queue = <<>>
    BY <1>2, <2>1 DEF Poll
  <2>2. CASE queue # <<>>
    <3> DEFINE m == Head(queue)
    <3>1. /\ latestDataMap' = {m}
          /\ dataMap' = [d \in DOMAIN dataMap \cup {m.device} |-> IF d = m.device THEN m ELSE dataMap[d]]
      BY <1>2, <2>2 DEF Poll, HandleAssistData
    <3> HIDE DEF m
    <3>2. m.device \in DOMAIN dataMap' /\ dataMap'[m.device] = m
      BY <3>1
    <3>3. dataMap' # << >>
      BY <3>2
    <3>q. QED
      BY <3>1, <3>2, <3>3
  <2>q. QED
    BY <2>1, <2>2
<1>3. CASE CheckAndClearDataMap
  BY <1>3 DEF CheckAndClearDataMap, Cleared
<1>4. CASE NextSecond \/ UNCHANGED caVars
  BY <1>4 DEF NextSecond, caVars
<1>q. QED
  BY <1>1, <1>2, <1>3, <1>4 DEF CaNext

(* There are data to give exactly when a device is listed, and they are the *)
(* newest of their device.                                                 *)
THEOREM ViewsAgree == CaSpec => []OneView
<1>1. CaInit => HpView
  BY CasterInit DEF HpView, CaInit, OneView, GetLatestData
<1>2. HpView => OneView
  BY DEF HpView
<1>q. QED
  BY <1>1, <1>2, ViewNext, PTL DEF CaSpec

-----------------------------------------------------------------------------
(* How long a message waits.  The server's timer ticks when the time since *)
(* its phase is a multiple of the period, so two ticks are a period apart. *)

LEMMA Quotient ==
  ASSUME NEW P \in Nat \ {0}, NEW a \in Int, a % P = 0
  PROVE  a \div P \in Int /\ a = P * (a \div P)
<1>1. a = P * (a \div P) + (a % P) /\ a \div P \in Int
  OBVIOUS
<1>q. QED
  BY <1>1

LEMMA MultiplesApart ==
  ASSUME NEW P \in Nat \ {0}, NEW q \in Int, NEW r \in Int, P * q < P * r
  PROVE  P * q + P <= P * r
<1>1. q < r
  OBVIOUS
<1>2. P * (q + 1) <= P * r
  BY <1>1
<1>q. QED
  BY <1>2

LEMMA TicksApart ==
  ASSUME NEW P \in Nat \ {0}, NEW a \in Int, NEW b \in Int, a % P = 0, b % P = 0, a < b
  PROVE  a + P <= b
<1>1. PICK q \in Int : a = P * q
  BY Quotient
<1>2. PICK r \in Int : b = P * r
  BY Quotient
<1>3. P * q < P * r
  BY <1>1, <1>2
<1>4. P * q + P <= P * r
  BY <1>3, MultiplesApart
<1>q. QED
  BY <1>1, <1>2, <1>4

(* The poll that is still to come in this second. *)
HpPolls == IF "poll" \in todo THEN 1 ELSE 0

(* Each message was published by a tick, and the tick that is still to come *)
(* in this second published none of them.                                  *)
HpTicks ==
  /\ phase \in Int
  /\ \A i \in 1..Len(queue) : (queue[i].time - phase) % ServerPeriod = 0
  /\ "tick" \in todo =>
       (now - phase) % ServerPeriod = 0 /\ \A i \in 1..Len(queue) : queue[i].time < now

(* At one poll a second a message is taken before it is as many seconds old *)
(* as there are devices.                                                   *)
HpWaits ==
  \A i \in 1..Len(queue) : (now - queue[i].time) + i - HpPolls <= Cardinality(Devices)

(* The inductive invariant. *)
HpTimely == HpCaster /\ HpTicks /\ HpWaits

FewDevices == Cardinality(Devices) <= ServerPeriod

(* What a tick finds in the socket is taken by the poll of its second. *)
LEMMA AlmostEmpty ==
  ASSUME FewDevices, HpTimely, "tick" \in todo
  PROVE  Len(queue) \in Nat /\ Len(queue) <= HpPolls
<1>1. Len(queue) \in Nat
  BY DEF HpTimely, HpCaster, HpQueue
<1>2. CASE Len(queue) = 0
  BY <1>1, <1>2 DEF HpPolls
<1>3. CASE Len(queue) # 0
  <2> DEFINE i == Len(queue)
             t == queue[i].time
  <2>1. i \in 1..Len(queue)
    BY <1>1, <1>3
  <2>2. t \in Int /\ now \in Int /\ phase \in Int /\ t < now
    BY <2>1 DEF HpTimely, HpCaster, HpQueue, HpLatest, HpTicks
  <2>3. (t - phase) % ServerPeriod = 0 /\ (now - phase) % ServerPeriod = 0
    BY <2>1 DEF HpTimely, HpTicks
  <2>4. (t - phase) + ServerPeriod <= now - phase
    <3> DEFINE a == t - phase
               b == now - phase
    <3>1. a \in Int /\ b \in Int /\ a < b
      BY <2>2
    <3>2. a % ServerPeriod = 0 /\ b % ServerPeriod = 0
      BY <2>3
    <3> HIDE DEF a, b
    <3>3. a + ServerPeriod <= b
      BY <3>1, <3>2, TicksApart, CasterAssumption
    <3>q. QED
      BY <3>3 DEF a, b
  <2>5. (now - t) + i - HpPolls <= Cardinality(Devices)
    BY <2>1 DEF HpTimely, HpWaits
  <2>6. Cardinality(Devices) \in Nat /\ ServerPeriod \in Nat /\ HpPolls \in {0, 1}
    BY CasterAssumption, FS_CardinalityType DEF HpPolls
  <2> HIDE DEF t
  <2>q. QED
    BY <1>1, <2>2, <2>4, <2>5, <2>6 DEF FewDevices
<1>q. QED
  BY <1>2, <1>3

LEMMA TimelyTick ==
  ASSUME FewDevices, HpTimely, NEW ds \in Rounds, ServerTick(ds)
  PROVE  HpTicks' /\ HpWaits'
<1> USE DEF HpTimely
<1>0. Len(queue) \in Nat /\ Len(queue) <= HpPolls /\ (now - phase) % ServerPeriod = 0
  BY AlmostEmpty DEF ServerTick, HpTicks
<1>1. todo' = todo \ {"tick"} /\ now' = now /\ phase' = phase
  BY DEF ServerTick
<1>2. /\ \A i \in 1..Len(queue') :
           \/ i \in 1..Len(queue) /\ queue'[i] = queue[i]
           \/ i > Len(queue) /\ queue'[i].time = now
      /\ Len(queue') \in Nat /\ Len(queue') <= Len(queue) + Cardinality(Devices)
  BY Ticked
<1>3. now \in Nat /\ Cardinality(Devices) \in Nat /\ HpPolls \in {0, 1} /\ HpPolls' = HpPolls
  BY <1>1, CasterAssumption, FS_CardinalityType DEF HpCaster, HpLatest, HpPolls
<1>4. HpTicks'
  <2>1. ASSUME NEW i \in 1..Len(queue') PROVE (queue'[i].time - phase) % ServerPeriod = 0
    <3>1. CASE i \in 1..Len(queue) /\ queue'[i] = queue[i]
      BY <3>1 DEF HpTicks
    <3>2. CASE queue'[i].time = now
      BY <1>0, <3>2
    <3>q. QED
      BY <1>2, <3>1, <3>2
  <2>2. "tick" \notin todo'
    BY <1>1
  <2>q. QED
    BY <1>1, <2>1, <2>2 DEF HpTicks
<1>5. ASSUME NEW i \in 1..Len(queue')
      PROVE  (now - queue'[i].time) + i - HpPolls <= Cardinality(Devices)
  <2>1. CASE i \in 1..Len(queue) /\ queue'[i] = queue[i]
    BY <2>1 DEF HpWaits
  <2>2. CASE queue'[i].time = now
    <3>1. i <= HpPolls + Cardinality(Devices)
      BY <1>0, <1>2, <1>3
    <3>q. QED
      BY <1>3, <2>2, <3>1
  <2>q. QED
    BY <1>2, <2>1, <2>2
<1>q. QED
  BY <1>1, <1>3, <1>4, <1>5 DEF HpWaits

LEMMA TimelyPoll ==
  ASSUME HpTimely, Poll
  PROVE  HpTicks' /\ HpWaits'
<1> USE DEF HpTimely
<1>0. now \in Nat /\ now' = now /\ phase' = phase /\ todo' = todo \ {"poll"} /\ "poll" \in todo
  BY DEF Poll, HpCaster, HpLatest
<1>1. HpPolls = 1 /\ HpPolls' = 0 /\ ("tick" \in todo' <=> "tick" \in todo)
  BY <1>0 DEF HpPolls
<1>2. Cardinality(Devices) \in Nat
  BY CasterAssumption, FS_CardinalityType
<1>3. CASE queue = <<>>
  <2>1. queue' = <<>> /\ Len(queue') = 0
    BY <1>3 DEF Poll
  <2>q. QED
    BY <1>0, <1>1, <1>3, <2>1 DEF HpTicks, HpWaits
<1>4. CASE queue # <<>>
  <2>1. queue' = Tail(queue)
    BY <1>4 DEF Poll, Taken
  <2>2. PICK S : queue \in Seq(S)
    BY DEF HpCaster, HpQueue
  <2>3. /\ Len(queue') = Len(queue) - 1 /\ Len(queue) \in Nat \ {0}
        /\ \A i \in 1..Len(queue') : queue'[i] = queue[i + 1]
    BY <1>4, <2>1, <2>2
  <2>4. \A i \in 1..Len(queue') : i + 1 \in 1..Len(queue) /\ queue'[i] = queue[i + 1]
    BY <2>3
  <2>5. HpTicks'
    BY <1>0, <1>1, <2>4 DEF HpTicks
  <2>6. ASSUME NEW i \in 1..Len(queue')
        PROVE  (now - queue'[i].time) + i <= Cardinality(Devices)
    <3>1. (now - queue[i + 1].time) + (i + 1) - 1 <= Cardinality(Devices) /\ queue[i + 1].time \in Int
      BY <1>1, <2>4 DEF HpWaits, HpCaster, HpQueue
    <3>q. QED
      BY <1>0, <1>2, <2>4, <3>1
  <2>7. HpWaits'
    <3>1. ASSUME NEW i \in 1..Len(queue')
          PROVE  (now' - queue'[i].time) + i - HpPolls' <= Cardinality(Devices)
      <4>1. queue'[i].time \in Int
        BY <2>4 DEF HpCaster, HpQueue
      <4>q. QED
        BY <1>0, <1>1, <1>2, <2>6, <4>1
    <3>q. QED
      BY <3>1 DEF HpWaits
  <2>q. QED
    BY <2>5, <2>7
<1>q. QED
  BY <1>3, <1>4

LEMMA TimelySecond ==
  ASSUME HpTimely, NextSecond
  PROVE  HpTicks' /\ HpWaits'
<1> USE DEF HpTimely
<1>1. now \in Nat /\ now' = now + 1 /\ queue' = queue /\ phase' = phase /\ todo = {}
  BY DEF NextSecond, HpCaster, HpLatest
<1>2. HpPolls = 0 /\ HpPolls' = 1
  BY <1>1 DEF NextSecond, JobsAt, HpPolls
<1>3. "tick" \in todo' => (now' - phase) % ServerPeriod = 0
  BY <1>1 DEF NextSecond, JobsAt
<1>4. \A i \in 1..Len(queue) : queue[i].time \in Int /\ queue[i].time < now + 1
  BY <1>1 DEF HpCaster, HpQueue
<1>5. HpTicks'
  BY <1>1, <1>3, <1>4 DEF HpTicks
<1>6. ASSUME NEW i \in 1..Len(queue')
      PROVE  (now' - queue'[i].time) + i - HpPolls' <= Cardinality(Devices)
  <2>1. (now - queue[i].time) + i - 0 <= Cardinality(Devices) /\ queue[i].time \in Int
    BY <1>1, <1>2, <1>4 DEF HpWaits
  <2>2. Cardinality(Devices) \in Nat /\ i \in Int
    BY CasterAssumption, FS_CardinalityType
  <2>q. QED
    BY <1>1, <1>2, <2>1, <2>2
<1>q. QED
  BY <1>5, <1>6 DEF HpWaits

LEMMA TimelyNext == FewDevices /\ HpTimely /\ [CaNext]_caVars => HpTimely'
<1> SUFFICES ASSUME FewDevices, HpTimely, [CaNext]_caVars PROVE HpTicks' /\ HpWaits'
  BY CasterNext DEF HpTimely
<1>1. CASE CheckAndClearDataMap
  <2>1. UNCHANGED <<now, phase, queue>> /\ todo' = todo \ {"check"}
    BY <1>1 DEF CheckAndClearDataMap
  <2>2. HpPolls' = HpPolls
    BY <2>1 DEF HpPolls
  <2>q. QED
    BY <2>1, <2>2 DEF HpTimely, HpTicks, HpWaits
<1>2. CASE UNCHANGED caVars
  BY <1>2 DEF caVars, HpTimely, HpTicks, HpWaits, HpPolls
<1>q. QED
  BY <1>1, <1>2, TimelyTick, TimelyPoll, TimelySecond DEF CaNext

LEMMA TimelyInit == CaInit => HpTimely
<1> SUFFICES ASSUME CaInit PROVE HpTimely
  OBVIOUS
<1>1. Len(queue) = 0 /\ phase \in Int /\ now = 0 /\ todo = JobsAt(0, phase)
  BY CasterAssumption DEF CaInit
<1>2. HpTicks
  BY <1>1 DEF HpTicks, JobsAt
<1>3. HpWaits
  BY <1>1 DEF HpWaits
<1>q. QED
  BY <1>2, <1>3, CasterInit DEF HpTimely

(* One message a second is enough for as many devices as the server's timer *)
(* has seconds, whatever their number and the phase of the timer.          *)
THEOREM NoneWaits ==
  ASSUME FewDevices
  PROVE  CaSpec => []Prompt
<1>1. HpTimely => Prompt
  <2> SUFFICES ASSUME HpTimely, NEW i \in DOMAIN queue
               PROVE  now - queue[i].time <= Cardinality(Devices)
    BY DEF Prompt
  <2>1. i \in 1..Len(queue) /\ Cardinality(Devices) \in Nat /\ HpPolls \in {0, 1}
    BY CasterAssumption, FS_CardinalityType DEF HpTimely, HpCaster, HpQueue, HpPolls
  <2>2. (now - queue[i].time) + i - HpPolls <= Cardinality(Devices)
    BY <2>1 DEF HpTimely, HpWaits
  <2>3. now \in Nat /\ queue[i].time \in Int
    BY <2>1 DEF HpTimely, HpCaster, HpQueue, HpLatest
  <2>q. QED
    BY <2>1, <2>2, <2>3
<1>2. HpTimely /\ [CaNext]_caVars => HpTimely'
  BY TimelyNext
<1>q. QED
  BY <1>1, <1>2, TimelyInit, PTL DEF CaSpec

-----------------------------------------------------------------------------
(* How old an answer is *)

(* The check that is still to come in this second. *)
HpChecks == IF "check" \in todo THEN 1 ELSE 0

(* The message that is kept was not old when it was taken, and the check   *)
(* has not found that it was taken too long ago.                           *)
HpFresh ==
  \A m \in latestDataMap :
    /\ dataUpdatedTime - m.time <= Cardinality(Devices)
    /\ now - dataUpdatedTime <= Timeout + HpChecks

HpStale == HpTimely /\ HpFresh

LEMMA StaleNext == FewDevices /\ HpStale /\ [CaNext]_caVars => HpStale'
<1> SUFFICES ASSUME FewDevices, HpStale, [CaNext]_caVars PROVE HpFresh'
  BY TimelyNext DEF HpStale
<1> USE DEF HpStale
<1>0. /\ now \in Nat /\ dataUpdatedTime \in 0..now /\ Timeout \in Nat
      /\ Cardinality(Devices) \in Nat /\ HpChecks \in {0, 1}
  BY CasterAssumption, FS_CardinalityType DEF HpTimely, HpCaster, HpLatest, HpChecks
<1>1. ASSUME NEW ds \in Rounds, ServerTick(ds) PROVE HpFresh'
  <2>1. UNCHANGED <<now, latestDataMap, dataUpdatedTime>> /\ todo' = todo \ {"tick"}
    BY <1>1 DEF ServerTick
  <2>2. HpChecks' = HpChecks
    BY <2>1 DEF HpChecks
  <2>q. QED
    BY <2>1, <2>2 DEF HpFresh
<1>2. CASE Poll
  <2>1. now' = now /\ todo' = todo \ {"poll"}
    BY <1>2 DEF Poll
  <2>2. HpChecks' = HpChecks
    BY <2>1 DEF HpChecks
  <2>3. CASE queue = <<>>
    <3>1. UNCHANGED <<latestDataMap, dataUpdatedTime>>
      BY <1>2, <2>3 DEF Poll
    <3>q. QED
      BY <2>1, <2>2, <3>1 DEF HpFresh
  <2>4. CASE queue # <<>>
    <3>1. latestDataMap' = {queue[1]} /\ dataUpdatedTime' = now /\ 1 \in 1..Len(queue)
      <4>1. PICK S : queue \in Seq(S)
        BY DEF HpTimely, HpCaster, HpQueue
      <4>2. Head(queue) = queue[1] /\ 1 \in 1..Len(queue)
        BY <2>4, <4>1
      <4>q. QED
        BY <1>2, <2>4, <4>2 DEF Poll, HandleAssistData
    <3>2. (now - queue[1].time) + 1 - HpPolls <= Cardinality(Devices) /\ queue[1].time \in Int
      BY <3>1 DEF HpTimely, HpWaits, HpCaster, HpQueue
    <3>3. HpPolls \in {0, 1}
      BY DEF HpPolls
    <3>4. now - queue[1].time <= Cardinality(Devices)
      BY <1>0, <3>2, <3>3
    <3>q. QED
      BY <1>0, <2>1, <2>2, <3>1, <3>4 DEF HpFresh
  <2>q. QED
    BY <2>3, <2>4
<1>3. CASE CheckAndClearDataMap
  <2>1. now' = now /\ dataUpdatedTime' = dataUpdatedTime /\ HpChecks' = 0
    BY <1>3 DEF CheckAndClearDataMap, HpChecks
  <2>2. CASE latestDataMap' = {}
    BY <2>2 DEF HpFresh
  <2>3. CASE latestDataMap' # {}
    <3>1. latestDataMap' = latestDataMap /\ now - dataUpdatedTime <= Timeout
      BY <1>0, <1>3, <2>3 DEF CheckAndClearDataMap, Cleared, Elapsed
    <3>q. QED
      BY <1>0, <2>1, <3>1 DEF HpFresh
  <2>q. QED
    BY <2>2, <2>3
<1>4. CASE NextSecond
  <2>1. now' = now + 1 /\ dataUpdatedTime' = dataUpdatedTime /\ latestDataMap' = latestDataMap
        /\ HpChecks = 0 /\ HpChecks' = 1
    BY <1>4 DEF NextSecond, JobsAt, HpChecks
  <2>q. QED
    BY <1>0, <2>1 DEF HpFresh
<1>5. CASE UNCHANGED caVars
  BY <1>5 DEF caVars, HpFresh, HpChecks
<1>q. QED
  BY <1>1, <1>2, <1>3, <1>4, <1>5 DEF CaNext

(* No request is answered with a correction older than the timeout, the    *)
(* second in which it is checked and the time it waited in the socket.     *)
THEOREM AnswersAreFresh ==
  ASSUME FewDevices
  PROVE  CaSpec => []NeverStale
<1>1. CaInit => HpStale
  BY TimelyInit DEF HpStale, HpFresh, CaInit
<1>2. HpStale /\ [CaNext]_caVars => HpStale'
  BY StaleNext
<1>3. HpStale => NeverStale
  <2> SUFFICES ASSUME HpStale, NEW m \in latestDataMap
               PROVE  now - m.time <= Timeout + 1 + Cardinality(Devices)
    BY DEF NeverStale, GetLatestData
  <2>1. /\ dataUpdatedTime - m.time <= Cardinality(Devices)
        /\ now - dataUpdatedTime <= Timeout + HpChecks
    BY DEF HpStale, HpFresh
  <2>2. HpChecks \in {0, 1} /\ Timeout \in Nat /\ Cardinality(Devices) \in Nat
    BY CasterAssumption, FS_CardinalityType DEF HpChecks
  <2>3. now \in Nat /\ dataUpdatedTime \in Nat /\ m.time \in Int
    BY DEF HpStale, HpTimely, HpCaster, HpLatest
  <2>q. QED
    BY <2>1, <2>2, <2>3
<1>q. QED
  BY <1>1, <1>2, <1>3, PTL DEF CaSpec

(* Messages wait in the socket, and answers are old, for as long as they   *)
(* must, for any devices, phase and timeout.                               *)
THEOREM CasterIsTimely ==
  ASSUME FewDevices
  PROVE  CaSpec => []Timely
<1>1. Prompt /\ NeverStale => Timely
  BY DEF Timely
<1>q. QED
  BY <1>1, NoneWaits, AnswersAreFresh, PTL

-----------------------------------------------------------------------------
(* The answers *)

LEMMA AnswersInit == AhInit => HpInv
  BY CasterInit DEF AhInit, HpInv, HpGiven

(* A step that puts nothing new in the socket or in the map. *)
LEMMA GivenStays ==
  ASSUME HpInv, ahGiven' = ahGiven, queue' = queue, latestDataMap' \subseteq latestDataMap,
         now' \in {now, now + 1}
  PROVE  HpGiven'
<1>1. now \in Nat
  BY DEF HpInv, HpCaster, HpLatest
<1>2. ASSUME NEW m \in ahGiven PROVE m.time \in 0..now'
  BY <1>1, <1>2 DEF HpInv, HpGiven
<1>3. ASSUME NEW m \in ahGiven, NEW n \in latestDataMap' PROVE m.time <= n.time
  BY <1>3 DEF HpInv, HpGiven
<1>4. ASSUME NEW m \in ahGiven, NEW i \in 1..Len(queue) PROVE m.time <= queue[i].time
  BY <1>4 DEF HpInv, HpGiven
<1>5. \A m, n \in ahGiven : m = n
  BY DEF HpInv, HpGiven
<1>q. QED
  BY <1>2, <1>3, <1>4, <1>5 DEF HpGiven

LEMMA AnswersNext == HpInv /\ [AhNext]_<<caVars, ahVars>> => HpInv'
<1> SUFFICES ASSUME HpInv, [AhNext]_<<caVars, ahVars>> PROVE HpInv'
  OBVIOUS
<1> USE DEF HpInv
<1>0. [CaNext]_caVars
  BY DEF AhNext
<1>1. HpCaster'
  BY <1>0, CasterNext
<1> SUFFICES HpGiven'
  BY <1>1
<1>2. PICK S : queue \in Seq(S)
  BY DEF HpCaster, HpQueue
<1>3. ASSUME NEW ds \in Rounds, ServerTick(ds), ahGiven' = ahGiven PROVE HpGiven'
  <2>1. UNCHANGED <<now, latestDataMap>>
    BY <1>3 DEF ServerTick
  <2>2. \A i \in 1..Len(queue') :
          \/ i \in 1..Len(queue) /\ queue'[i] = queue[i]
          \/ i > Len(queue) /\ queue'[i].time = now
    BY <1>3, Ticked
  <2>3. ASSUME NEW m \in ahGiven, NEW i \in 1..Len(queue') PROVE m.time <= queue'[i].time
    BY <2>2, <2>3 DEF HpGiven, HpCaster, HpLatest
  <2>q. QED
    BY <1>3, <2>1, <2>3 DEF HpGiven
<1>4. CASE Poll /\ ahGiven' = ahGiven
  <2>1. CASE queue = <<>>
    BY <1>4, <2>1 DEF Poll, HpGiven
  <2>2. CASE queue # <<>>
    <3>1. latestDataMap' = {Head(queue)} /\ queue' = Tail(queue) /\ now' = now
      BY <1>4, <2>2 DEF Poll, HandleAssistData, Taken
    <3>2. /\ Len(queue') = Len(queue) - 1 /\ Len(queue) \in Nat \ {0}
          /\ Head(queue) = queue[1] /\ \A i \in 1..Len(queue') : queue'[i] = queue[i + 1]
      BY <1>2, <2>2, <3>1
    <3>q. QED
      BY <1>4, <3>1, <3>2 DEF HpGiven
  <2>q. QED
    BY <2>1, <2>2
<1>5. CASE CheckAndClearDataMap /\ ahGiven' = ahGiven
  BY <1>5, GivenStays DEF CheckAndClearDataMap, Cleared
<1>6. CASE NextSecond /\ ahGiven' = ahGiven
  BY <1>6, GivenStays DEF NextSecond
<1>7. ASSUME NEW r \in AhRequests, HandleGetData(r), UNCHANGED caVars PROVE HpGiven'
  <2>1. latestDataMap' = latestDataMap /\ queue' = queue /\ now' = now
    BY <1>7 DEF caVars
  <2>2. CASE ahGiven' = ahGiven
    BY <2>1, <2>2, GivenStays
  <2>3. CASE ahGiven' = latestDataMap /\ latestDataMap # {}
    BY <2>1, <2>3 DEF HpGiven, HpCaster, HpLatest
  <2>q. QED
    BY <1>7, <2>2, <2>3 DEF HandleGetData, GetLatestData
<1>8. CASE UNCHANGED <<caVars, ahVars>>
  BY <1>8, GivenStays DEF caVars, ahVars
<1>q. QED
  BY <1>1, <1>3, <1>4, <1>5, <1>6, <1>7, <1>8 DEF AhNext, CaNext, ahVars

(* The inductive invariant of the caster and its answers. *)
THEOREM AnswersInvariant == AhSpec => []HpInv
  BY AnswersInit, AnswersNext, PTL DEF AhSpec
(* The data of a client never go back in time, whichever devices they are  *)
(* from and whether or not they were dropped in between.                   *)
THEOREM AnswersNeverBack == AhSpec => NeverBack
<1>1. ASSUME HpInv, [AhNext]_<<caVars, ahVars>>
      PROVE  [\A m \in ahGiven, n \in ahGiven' : m.time <= n.time]_<<caVars, ahVars>>
  <2> SUFFICES ASSUME [AhNext]_<<caVars, ahVars>>, NEW m \in ahGiven, NEW n \in ahGiven'
               PROVE  m.time <= n.time
    BY <1>1
  <2>1. m.time \in Nat
    BY <1>1 DEF HpInv, HpCaster, HpLatest, HpGiven
  <2>2. ahGiven' = ahGiven \/ ahGiven' = latestDataMap
    BY DEF AhNext, HandleGetData, GetLatestData, ahVars
  <2>3. CASE ahGiven' = ahGiven
    <3>1. m = n
      BY <1>1, <2>3 DEF HpInv, HpGiven
    <3>q. QED
      BY <2>1, <3>1
  <2>4. CASE ahGiven' = latestDataMap
    BY <1>1, <2>4 DEF HpInv, HpGiven
  <2>q. QED
    BY <2>2, <2>3, <2>4
<1>q. QED
  BY <1>1, AnswersInvariant, PTL DEF AhSpec, NeverBack

-----------------------------------------------------------------------------
(***************************************************************************)
(* What the caster keeps and gives.  That the present second is not before *)
(* any of the times that are kept is HpCaster's; the rest is CaTypeOK      *)
(* itself, but for the one message of latestDataMap, which is HpCaster's   *)
(* again.                                                                  *)
(***************************************************************************)
HpTyped ==
  /\ HpCaster
  /\ now \in 0..MaxTime /\ phase \in 0..(ServerPeriod - 1)
  /\ todo \subseteq {"tick", "poll", "check"}
  /\ queue \in Seq(CaMessages) /\ Len(queue) <= CaHWM
  /\ DOMAIN dataMap \subseteq Devices /\ \A d \in DOMAIN dataMap : dataMap[d] \in CaMessages
  /\ latestDataMap \subseteq CaMessages

LEMMA JobsType == \A t, p : JobsAt(t, p) \subseteq {"tick", "poll", "check"}
BY DEF JobsAt

LEMMA TypedInit == CaInit => HpTyped
<1> SUFFICES ASSUME CaInit PROVE HpTyped
  OBVIOUS
<1>1. HpCaster
  BY CasterInit
<1>2. queue = <<>> /\ dataMap = << >> /\ latestDataMap = {} /\ now = 0
      /\ phase \in 0..(ServerPeriod - 1) /\ todo = JobsAt(0, phase)
  BY DEF CaInit
<1>3. queue \in Seq(CaMessages) /\ Len(queue) <= CaHWM /\ now \in 0..MaxTime /\ DOMAIN dataMap = {}
  BY <1>2, CasterAssumption
<1>q. QED
  BY <1>1, <1>2, <1>3, JobsType DEF HpTyped

LEMMA TypedNext == HpTyped /\ [CaNext]_caVars => HpTyped'
<1> SUFFICES ASSUME HpTyped, [CaNext]_caVars PROVE HpTyped'
  OBVIOUS
<1>0. HpCaster /\ HpCaster' /\ now \in 0..MaxTime /\ queue \in Seq(CaMessages) /\ Len(queue) \in Nat
  BY CasterNext DEF HpTyped
<1>1. ASSUME NEW ds \in Rounds, ServerTick(ds) PROVE HpTyped'
  <2>1. UNCHANGED <<now, phase, dataMap, latestDataMap>> /\ todo' \subseteq todo
    BY <1>1 DEF ServerTick
  <2>2. PICK S : queue' \in Seq(S)
    BY <1>0, <1>1, Ticked
  <2>3. /\ \A i \in 1..Len(queue') :
             \/ i \in 1..Len(queue) /\ queue'[i] = queue[i]
             \/ queue'[i] \in [device : Devices, time : {now}]
        /\ Len(queue') <= CaHWM
    BY <1>0, <1>1, Ticked
  <2>4. \A i \in 1..Len(queue') : queue'[i] \in CaMessages
    <3>1. \A i \in 1..Len(queue) : queue[i] \in CaMessages
      BY <1>0, ElementOfSeq
    <3>2. [device : Devices, time : {now}] \subseteq CaMessages
      BY <1>0 DEF CaMessages
    <3>q. QED
      BY <2>3, <3>1, <3>2
  <2>5. queue' \in Seq(CaMessages)
    BY <2>2, <2>4
  <2>q. QED
    BY <1>0, <2>1, <2>3, <2>5 DEF HpTyped
<1>2. CASE Poll
  <2>1. now' = now /\ phase' = phase /\ todo' \subseteq todo
    BY <1>2 DEF Poll
  <2>2. CASE queue = <<>>
    BY <1>0, <1>2, <2>1, <2>2 DEF Poll, HpTyped
  <2>3. CASE queue # <<>>
    <3>1. PICK m : m = Head(queue)
      OBVIOUS
    <3>2. /\ latestDataMap' = {m} /\ queue' = Tail(queue)
          /\ dataMap' = [d \in DOMAIN dataMap \cup {m.device} |-> IF d = m.device THEN m ELSE dataMap[d]]
      BY <1>2, <2>3, <3>1 DEF Poll, HandleAssistData, Taken
    <3>3. m \in CaMessages /\ queue' \in Seq(CaMessages) /\ Len(queue') = Len(queue) - 1
      BY <1>0, <2>3, <3>1, <3>2, HeadTailProperties
    <3>4. m.device \in Devices
      BY <3>3 DEF CaMessages
    <3>5. DOMAIN dataMap' \subseteq Devices /\ \A d \in DOMAIN dataMap' : dataMap'[d] \in CaMessages
      BY <3>2, <3>3, <3>4 DEF HpTyped
    <3>6. Len(queue') <= CaHWM
      BY <1>0, <3>3, CasterAssumption DEF HpTyped
    <3>q. QED
      BY <1>0, <2>1, <3>2, <3>3, <3>5, <3>6 DEF HpTyped
  <2>q. QED
    BY <2>2, <2>3
<1>3. CASE CheckAndClearDataMap
  <2>1. UNCHANGED <<now, phase, queue>> /\ todo' \subseteq todo
    BY <1>3 DEF CheckAndClearDataMap
  <2>2. \/ latestDataMap' = {} /\ dataMap' = << >>
        \/ latestDataMap' = latestDataMap /\ dataMap' = dataMap
    BY <1>3 DEF CheckAndClearDataMap, Cleared
  <2>3. dataMap' = << >> => DOMAIN dataMap' = {}
    OBVIOUS
  <2>q. QED
    BY <1>0, <2>1, <2>2, <2>3 DEF HpTyped
<1>4. CASE NextSecond
  <2>1. now' = now + 1 /\ now < MaxTime /\ todo' = JobsAt(now + 1, phase)
        /\ UNCHANGED <<phase, queue, dataMap, latestDataMap>>
    BY <1>4 DEF NextSecond
  <2>2. now' \in 0..MaxTime
    BY <1>0, <2>1, CasterAssumption
  <2>q. QED
    BY <1>0, <2>1, <2>2, JobsType DEF HpTyped
<1>5. CASE UNCHANGED caVars
  BY <1>0, <1>5 DEF caVars, HpTyped
<1>q. QED
  BY <1>1, <1>2, <1>3, <1>4, <1>5 DEF CaNext

LEMMA Parts == \A r : "aideph_gpsbds" \in AhParts(r)
<1> SUFFICES ASSUME NEW r PROVE "aideph_gpsbds" \in AhParts(r)
  OBVIOUS
<1>1. {"gps", "bds"} \subseteq AhSystems(r)
  BY DEF AhSystems, GnssList
<1>2. AhParts(r) = {"AIDINI"} \cup ({"aidini_gpsbds", "aideph_gpsbds"} \cap AhFields)
  BY <1>1 DEF AhParts, AhFieldsOf
<1>q. QED
  BY <1>2 DEF AhFields

(* Whatever is asked, and however the answer falls between the caster's    *)
(* handlers: an answer with data holds the correction, and nothing unknown *)
(* is answered with data (handleGetData).                                  *)
THEOREM AnswersHold == AhSpec => []AnswersInv
<1> DEFINE Inv == HpTyped /\ HoldsCorrection /\ OnlyKnown
<1>1. AhInit => Inv
  BY TypedInit DEF AhInit, AhRefusal, HoldsCorrection, OnlyKnown
<1>2. Inv /\ [AhNext]_<<caVars, ahVars>> => Inv'
  <2> SUFFICES ASSUME Inv, [AhNext]_<<caVars, ahVars>> PROVE Inv'
    OBVIOUS
  <2>1. [CaNext]_caVars
    BY DEF AhNext
  <2>2. HpTyped'
    BY <2>1, TypedNext
  <2>3. CASE ahAnswer' = ahAnswer
    BY <2>2, <2>3 DEF HoldsCorrection, OnlyKnown
  <2>4. ASSUME NEW r \in AhRequests, HandleGetData(r) PROVE HoldsCorrection' /\ OnlyKnown'
    <3>1. CASE AhValid(r) /\ GetLatestData # {}
      <4>1. /\ ahAnswer'.parts = AhParts(r)
            /\ ahAnswer'.data_type = r.data_type /\ ahAnswer'.gnss = r.gnss
        BY <2>4, <3>1 DEF HandleGetData
      <4>2. r.data_type \subseteq {"eph", "alm"} /\ r.gnss \subseteq {"gps", "bds", "glo"}
        BY <3>1 DEF AhValid, CheckCombine, DataTypes, GnssList
      <4>q. QED
        BY <4>1, <4>2, Parts DEF HoldsCorrection, OnlyKnown
    <3>2. CASE ~(AhValid(r) /\ GetLatestData # {})
      <4>1. ahAnswer'.status = 500 \/ ahAnswer'.status = 400
        BY <2>4, <3>2 DEF HandleGetData, AhRefusal
      <4>q. QED
        BY <4>1 DEF HoldsCorrection, OnlyKnown
    <3>q. QED
      BY <3>1, <3>2
  <2>q. QED
    BY <2>2, <2>3, <2>4 DEF AhNext, ahVars
<1>3. HpTyped => CaTypeOK
  <2> SUFFICES ASSUME HpTyped PROVE CaTypeOK
    OBVIOUS
  <2>1. dataUpdatedTime \in 0..now /\ \A m, n \in latestDataMap : m = n
    BY DEF HpTyped, HpCaster, HpLatest
  <2>2. Cardinality(latestDataMap) <= 1
    <3>1. CASE latestDataMap = {}
      BY <3>1, FS_EmptySet
    <3>2. CASE latestDataMap # {}
      <4>1. PICK m : latestDataMap = {m}
        BY <2>1, <3>2
      <4>q. QED
        <5>1. Cardinality(latestDataMap) = 1
          BY <4>1, FS_Singleton, Zenon
        <5>q. QED
          BY <5>1
    <3>q. QED
      BY <3>1, <3>2
  <2>q. QED
    BY <2>1, <2>2 DEF HpTyped, CaTypeOK
<1>q. QED
  BY <1>1, <1>2, <1>3, PTL DEF AhSpec, AnswersInv
=============================================================================
