-------------------------- MODULE AgnssServerProofs --------------------------
(***************************************************************************)
(* Proofs about AgnssServer for every number of devices, satellites,       *)
(* epochs, messages and frames.                                            *)
(***************************************************************************)
EXTENDS AgnssServer, FiniteSetTheorems, TLAPS

Inside  == {"input", "flag", "copyGps", "copyBds"}
Encoded == {"flag", "copyGps", "copyBds"}
Taking  == {"take", "takeBds"}

(* Who holds which lock, told from the two program counters. *)
LockInv ==
  /\ \A d \in Devices :
       /\ procLock[d] = "main" <=> (mainDev = d /\ mainPc \in Inside)
       /\ procLock[d] = "timer" <=> (timerDev = d /\ timerPc \in Taking)
  /\ mapLock = "none" <=> timerPc = "wait"

(* The table of a device holds observations of one epoch, that of entry 0. *)
TableInv ==
  \A d \in Devices : \A o \in obs[d] : o.time = first[d] /\ o.meas = first[d]

(* From the encoding to the last copy the encoder buffers are whole. *)
EncInv == mainPc \in Encoded => Whole(enc[mainDev])

(* dgnssDat is whole while its flag is up, except while it is being filled. *)
DatInv ==
  /\ \A d \in Devices : dat[d].flag = 1 => Filling(d) \/ Whole(dat[d])
  /\ mainPc \in {"copyGps", "copyBds"} => dat[mainDev].flag = 1
  /\ mainPc = "copyBds" => dat[mainDev].gps = enc[mainDev].gps

(* What the timer thread carries. *)
CopyInv ==
  /\ timerPc = "takeBds" => /\ dat[timerDev].flag = 1
                            /\ copy.gps = dat[timerDev].gps
  /\ timerPc = "publish" => Whole(copy)

WholeInv == LockInv /\ TableInv /\ EncInv /\ DatInv /\ CopyInv /\ PublishedWhole
-----------------------------------------------------------------------------
(* The order of the corrections, by the number of the frame they come from. *)

TakenSeq(d) == IF timerPc = "publish" /\ timerDev = d
               THEN copy.gps.seq ELSE out[d].gps.seq

(* A device without a processor has no correction anywhere. *)
ProcsInv ==
  /\ mainPc = "put" => mainDev \notin procs
  /\ mainPc \in {"lock"} \cup Inside => mainDev \in procs
  /\ todo \subseteq procs
  /\ timerPc \in Taking \cup {"publish"} => timerDev \in procs
  /\ \A d \in Devices \ procs : dat[d] = NoDat

SeqInv ==
  /\ \A d \in Devices :
       /\ TakenSeq(d) <= frames[d]
       /\ dat[d].gps.seq <= frames[d]
       /\ dat[d].flag = 1 => Filling(d) \/ TakenSeq(d) < dat[d].gps.seq
  /\ mainPc \in Encoded => /\ enc[mainDev].gps.seq = frames[mainDev]
                           /\ TakenSeq(mainDev) < frames[mainDev]
  /\ mainPc = "flag" => dat[mainDev].gps.seq < frames[mainDev]
  /\ timerPc = "publish" => out[timerDev].gps.seq < copy.gps.seq

OrderInv == ProcsInv /\ SeqInv
IInv == TypeOK /\ WholeInv /\ OrderInv
-----------------------------------------------------------------------------
(* Type correctness. *)

(* obsindex keeps the table, or refreshes some entries and adds some. *)
LEMMA ObsindexCases ==
  ASSUME NEW O, NEW t, NEW S, NEW R \in Obsindex(O, t, S)
  PROVE  R = O \/ \E K, N \in SUBSET S : R = Remeasured(O, K, t) \cup Appended(N, t)
<1> DEFINE fresh == S \ Sats(O)
           room == MAXOBS - Cardinality(O)
           Full == {Remeasured(O, K, t) \cup Appended(N, t) :
                      K \in SUBSET (S \cap Sats(O)),
                      N \in {M \in SUBSET fresh : Cardinality(M) = room}}
<1>1. \/ R = O
      \/ R = Remeasured(O, S, t) \cup Appended(fresh, t)
      \/ R \in Full
  BY DEF Obsindex
<1>2. fresh \in SUBSET S /\ SUBSET (S \cap Sats(O)) \subseteq SUBSET S
  OBVIOUS
<1> HIDE DEF fresh, room
<1>3. ASSUME R \in Full
      PROVE  \E K, N \in SUBSET S : R = Remeasured(O, K, t) \cup Appended(N, t)
  BY <1>2, <1>3
<1> QED
  BY <1>1, <1>2, <1>3

LEMMA ObsindexType ==
  ASSUME NEW O \in SUBSET Observations, NEW t \in Epochs,
         NEW S \in SUBSET UsableSats, NEW R \in Obsindex(O, t, S)
  PROVE  R \in SUBSET Observations
<1>1. ASSUME NEW N \in SUBSET UsableSats PROVE Appended(N, t) \in SUBSET Observations
  BY DEF Observations, Appended
<1>2. ASSUME NEW K PROVE Remeasured(O, K, t) \in SUBSET Observations
  BY DEF Observations, Remeasured
<1> QED
  BY <1>1, <1>2, ObsindexCases

LEMMA DecodeType ==
  ASSUME NEW O \in SUBSET Observations, NEW e, NEW f \in Frames,
         NEW R \in DecodeRangeb(O, e, f)
  PROVE  R \in SUBSET Observations
<1>1. f.time \in Epochs /\ f.sats \cap UsableSats \in SUBSET UsableSats
  BY DEF Frames
<1>2. \/ R = O
      \/ R \in Obsindex({}, f.time, f.sats \cap UsableSats)
      \/ R \in Obsindex(O, f.time, f.sats \cap UsableSats)
  BY DEF DecodeRangeb
<1> QED
  BY <1>1, <1>2, ObsindexType

LEMMA MessageType ==
  ASSUME NEW O \in SUBSET Observations, NEW t \in Epochs, NEW n \in 0..MaxFrames
  PROVE  /\ GpsMessage(O, t, n) \in MessageSet
         /\ BdsMessage(O, t, n) \in MessageSet
<1>1. ASSUME NEW P \in SUBSET Observations PROVE RtcmTime(P, t) \in 0..MaxEpoch
  BY MaxEpochAssumption DEF RtcmTime, Observations, Epochs
<1>2. OfSystem(O, GpsSats) \in SUBSET Observations
  BY DEF OfSystem
<1>3. OfSystem(O, BdsSats) \in SUBSET Observations
  BY DEF OfSystem
<1> QED
  BY <1>1, <1>2, <1>3 DEF GpsMessage, BdsMessage, MessageSet

LEMMA NoPairType == NoMessage \in MessageSet /\ NoPair \in Pairs
BY MaxEpochAssumption, BoundsAssumption DEF NoMessage, NoPair, MessageSet, Pairs

LEMMA TypeInit == Init => TypeOK
BY NoPairType, BoundsAssumption, MaxEpochAssumption
DEF Init, TypeOK, Holders, NoDat, NoPair

LEMMA TypeStep == TypeOK /\ [Next]_vars => TypeOK'
<1> SUFFICES ASSUME TypeOK, [Next]_vars PROVE TypeOK'
  OBVIOUS
<1> USE DEF TypeOK
<1>1. ASSUME NEW d \in Devices, NEW tag \in {"status", "data"}, Receive(d, tag)
      PROVE  TypeOK'
  BY <1>1, BoundsAssumption DEF Receive, rawVars, timerVars
<1>2. CASE FindProcessor
  BY <1>2 DEF FindProcessor, rawVars, timerVars
<1>3. CASE PutProcessor
  BY <1>3, NoPairType, MaxEpochAssumption DEF PutProcessor, timerVars, NoDat
<1>4. CASE LockInput
  BY <1>4 DEF LockInput, rawVars, timerVars, Holders
<1>5. ASSUME NEW f \in Frames, RejectFrame(f) PROVE TypeOK'
  BY <1>5, BoundsAssumption, MaxEpochAssumption
  DEF RejectFrame, mainVars, timerVars, Frames, Epochs
<1>6. ASSUME NEW f \in Frames, DecodeFrame(f) PROVE TypeOK'
  <2>1. PICK O \in DecodeRangeb(obs[mainDev], first[mainDev], f) :
          /\ obs' = [obs EXCEPT ![mainDev] = O]
          /\ first' = [first EXCEPT ![mainDev] = DecodeFirst(@, f)]
          /\ enc' = [enc EXCEPT ![mainDev] =
                       [gps |-> GpsMessage(O, f.time, frames[mainDev] + 1),
                        bds |-> BdsMessage(O, f.time, frames[mainDev] + 1)]]
          /\ mainPc' = IF BothSystems(O) THEN "flag" ELSE "input"
    BY <1>6 DEF DecodeFrame
  <2>2. O \in SUBSET Observations
    BY DecodeType
  <2>3. f.time \in Epochs /\ f.time \in 0..MaxEpoch
    BY MaxEpochAssumption DEF Frames, Epochs
  <2>4. frames[mainDev] + 1 \in 0..MaxFrames
    BY <1>6, BoundsAssumption DEF DecodeFrame
  <2>5. [gps |-> GpsMessage(O, f.time, frames[mainDev] + 1),
         bds |-> BdsMessage(O, f.time, frames[mainDev] + 1)] \in Pairs
    BY <2>2, <2>3, <2>4, MessageType DEF Pairs
  <2>6. /\ frames' \in [Devices -> 0..MaxFrames]
        /\ time' \in [Devices -> 0..MaxEpoch]
        /\ first' \in [Devices -> 0..MaxEpoch]
    BY <1>6, <2>1, <2>3, <2>4 DEF DecodeFrame, DecodeFirst
  <2> QED
    BY <1>6, <2>1, <2>2, <2>5, <2>6 DEF DecodeFrame, timerVars
<1>7. CASE SetFlag
  BY <1>7 DEF SetFlag, rawVars, timerVars
<1>8. CASE CopyGps
  BY <1>8 DEF CopyGps, rawVars, timerVars, Pairs
<1>9. CASE CopyBds
  BY <1>9, NoPairType DEF CopyBds, timerVars, Pairs
<1>10. CASE UnlockInput
  BY <1>10 DEF UnlockInput, rawVars, timerVars, Holders
<1>11. CASE Tick
  BY <1>11 DEF Tick, mainVars, rawVars
<1>12. ASSUME NEW d \in Devices, LockOutput(d) PROVE TypeOK'
  BY <1>12, NoPairType DEF LockOutput, mainVars, rawVars, Holders
<1>13. CASE TakeNothing
  BY <1>13 DEF TakeNothing, mainVars, rawVars, Holders
<1>14. CASE TakeGps
  BY <1>14 DEF TakeGps, mainVars, rawVars, Pairs
<1>15. CASE TakeBds
  BY <1>15 DEF TakeBds, mainVars, rawVars, Pairs, Holders
<1>16. CASE Publish
  BY <1>16 DEF Publish, mainVars, rawVars
<1>17. CASE EndTick
  BY <1>17 DEF EndTick, mainVars, rawVars
<1>18. CASE UNCHANGED vars
  BY <1>18 DEF vars, mainVars, rawVars, timerVars
<1> QED
  BY <1>1, <1>2, <1>3, <1>4, <1>5, <1>6, <1>7, <1>8, <1>9, <1>10, <1>11, <1>12,
     <1>13, <1>14, <1>15, <1>16, <1>17, <1>18 DEF Next, Main, Timer

(***************************************************************************)
(* The variables of AgnssServer keep their types (TypeOK): the bounds on   *)
(* message and frame counts are the only ones, whatever they are.          *)
(***************************************************************************)
THEOREM TypeCorrect == Spec => []TypeOK
BY TypeInit, TypeStep, PTL DEF Spec
-----------------------------------------------------------------------------
(* What is published is whole. *)

(* A frame leaves a table of one epoch, the one entry 0 is stamped with. *)
LEMMA DecodeTable ==
  ASSUME NEW O \in SUBSET Observations, NEW e,
         \A o \in O : o.time = e /\ o.meas = e,
         NEW f \in Frames, NEW R \in DecodeRangeb(O, e, f)
  PROVE  \A o \in R : o.time = DecodeFirst(e, f) /\ o.meas = DecodeFirst(e, f)
<1> DEFINE S == f.sats \cap UsableSats
           B == IF e # f.time THEN {} ELSE O
<1>1. CASE S = {}
  BY <1>1 DEF DecodeRangeb, DecodeFirst
<1>2. CASE S # {}
  <2>1. R \in Obsindex(B, f.time, S) /\ DecodeFirst(e, f) = f.time
    BY <1>2 DEF DecodeRangeb, DecodeFirst
  <2>2. \A o \in B : o \in Observations /\ o.time = f.time /\ o.meas = f.time
    OBVIOUS
  <2> HIDE DEF S, B
  <2>3. R = B \/ \E K, N \in SUBSET S : R = Remeasured(B, K, f.time) \cup Appended(N, f.time)
    BY <2>1, ObsindexCases
  <2>4. ASSUME NEW K
        PROVE  \A o \in Remeasured(B, K, f.time) : o.time = f.time /\ o.meas = f.time
    <3>1. ASSUME NEW o \in B
          PROVE  [o EXCEPT !.meas = f.time] = o
      BY <2>2 DEF Observations
    <3>2. Remeasured(B, K, f.time) = B
      BY <3>1 DEF Remeasured
    <3> QED
      BY <2>2, <3>2
  <2>5. ASSUME NEW N
        PROVE  \A o \in Appended(N, f.time) : o.time = f.time /\ o.meas = f.time
    BY DEF Appended
  <2> QED
    BY <2>1, <2>2, <2>3, <2>4, <2>5
<1> QED
  BY <1>1, <1>2

LEMMA EncodeWhole ==
  ASSUME NEW O, NEW e, \A o \in O : o.time = e /\ o.meas = e,
         BothSystems(O), NEW t, NEW n
  PROVE  Whole([gps |-> GpsMessage(O, t, n), bds |-> BdsMessage(O, t, n)])
<1> DEFINE G == OfSystem(O, GpsSats)
           B == OfSystem(O, BdsSats)
           c == [gps |-> GpsMessage(O, t, n), bds |-> BdsMessage(O, t, n)]
<1>1. G # {} /\ B # {} /\ G \subseteq O /\ B \subseteq O
  BY DEF OfSystem, BothSystems
<1>2. RtcmTime(G, t) = e /\ RtcmTime(B, t) = e
  BY <1>1 DEF RtcmTime
<1>3. /\ c.gps.time = RtcmTime(G, t) /\ c.gps.obs = G /\ c.gps.seq = n
      /\ c.bds.time = RtcmTime(B, t) /\ c.bds.obs = B /\ c.bds.seq = n
  BY DEF GpsMessage, BdsMessage
<1> HIDE DEF G, B, c
<1>4. Whole(c)
  BY <1>1, <1>2, <1>3 DEF Whole
<1> QED
  BY <1>4 DEF c

LEMMA WholeInit == Init => WholeInv
BY DEF Init, WholeInv, LockInv, TableInv, EncInv, DatInv, CopyInv, PublishedWhole,
       Inside, Encoded, Taking, NoDat, Filling

LEMMA LockStep == TypeOK /\ LockInv /\ [Next]_vars => LockInv'
<1> SUFFICES ASSUME TypeOK, LockInv, [Next]_vars PROVE LockInv'
  OBVIOUS
<1> USE DEF TypeOK, LockInv, Inside, Taking, rawVars, mainVars, timerVars
<1>1. CASE Main
  BY <1>1 DEF Main, Receive, FindProcessor, PutProcessor, LockInput, RejectFrame,
              DecodeFrame, SetFlag, CopyGps, CopyBds, UnlockInput
<1>2. CASE Timer
  BY <1>2 DEF Timer, Tick, EndTick, LockOutput, TakeNothing, TakeGps, TakeBds, Publish
<1>3. CASE UNCHANGED vars
  BY <1>3 DEF vars
<1> QED
  BY <1>1, <1>2, <1>3 DEF Next
(***************************************************************************)
(* Each step keeps WholeInv.  Only DecodeFrame touches the tables; only    *)
(* the main thread inside a processor's lock touches enc; dat is written   *)
(* by SetFlag, CopyGps, CopyBds and TakeBds, whose owners LockInv keeps    *)
(* apart.                                                                  *)
(***************************************************************************)
LEMMA WholeStep == TypeOK /\ WholeInv /\ [Next]_vars => WholeInv'
<1> SUFFICES ASSUME TypeOK, WholeInv, [Next]_vars PROVE WholeInv'
  OBVIOUS
<1>0. LockInv'
  BY LockStep DEF WholeInv
<1> USE DEF WholeInv
<1>1. ASSUME NEW d \in Devices, NEW tag \in {"status", "data"}, Receive(d, tag)
      PROVE  WholeInv'
  BY <1>0, <1>1 DEF Receive, rawVars, timerVars, TableInv, EncInv, DatInv, CopyInv,
     PublishedWhole, Encoded, Filling, TypeOK
<1>2. CASE FindProcessor
  BY <1>0, <1>2 DEF FindProcessor, rawVars, timerVars, TableInv, EncInv, DatInv,
     CopyInv, PublishedWhole, Encoded, Filling, TypeOK
<1>3. CASE PutProcessor
  <2>1. ~(timerPc \in Taking /\ timerDev = mainDev)
    BY <1>3 DEF PutProcessor, LockInv, Taking, TypeOK
  <2> QED
    BY <1>0, <1>3, <2>1 DEF PutProcessor, timerVars, TableInv, EncInv, DatInv,
       CopyInv, PublishedWhole, Encoded, Filling, TypeOK, NoDat, Taking, LockInv
<1>4. CASE LockInput
  BY <1>0, <1>4 DEF LockInput, rawVars, timerVars, TableInv, EncInv, DatInv,
     CopyInv, PublishedWhole, Encoded, Filling, TypeOK
<1>5. ASSUME NEW f \in Frames, RejectFrame(f) PROVE WholeInv'
  BY <1>0, <1>5 DEF RejectFrame, mainVars, timerVars, TableInv, EncInv, DatInv,
     CopyInv, PublishedWhole, Encoded, Filling, TypeOK
<1>6. ASSUME NEW f \in Frames, DecodeFrame(f) PROVE WholeInv'
  <2>1. PICK O \in DecodeRangeb(obs[mainDev], first[mainDev], f) :
          /\ obs' = [obs EXCEPT ![mainDev] = O]
          /\ first' = [first EXCEPT ![mainDev] = DecodeFirst(@, f)]
          /\ enc' = [enc EXCEPT ![mainDev] =
                       [gps |-> GpsMessage(O, f.time, frames[mainDev] + 1),
                        bds |-> BdsMessage(O, f.time, frames[mainDev] + 1)]]
          /\ mainPc' = IF BothSystems(O) THEN "flag" ELSE "input"
    BY <1>6 DEF DecodeFrame
  <2>2. UNCHANGED <<mainDev, dat, timerVars, out>> /\ mainPc = "input"
    BY <1>6 DEF DecodeFrame
  <2>3. \A o \in O : /\ o.time = DecodeFirst(first[mainDev], f)
                     /\ o.meas = DecodeFirst(first[mainDev], f)
    BY DecodeTable DEF TableInv, TypeOK
  <2>4. TableInv'
    BY <2>1, <2>2, <2>3 DEF TableInv, TypeOK
  <2>5. BothSystems(O) => Whole([gps |-> GpsMessage(O, f.time, frames[mainDev] + 1),
                                 bds |-> BdsMessage(O, f.time, frames[mainDev] + 1)])
    BY <2>3, EncodeWhole
  <2>6. EncInv'
    BY <2>1, <2>2, <2>5 DEF EncInv, Encoded, TypeOK
  <2>7. DatInv' /\ CopyInv' /\ PublishedWhole'
    BY <2>1, <2>2 DEF DatInv, CopyInv, PublishedWhole, Filling, timerVars
  <2> QED
    BY <1>0, <2>4, <2>6, <2>7
<1>7. CASE SetFlag
  <2>1. /\ dat' = [dat EXCEPT ![mainDev].flag = 1] /\ mainPc = "flag" /\ mainPc' = "copyGps"
        /\ UNCHANGED <<mainDev, obs, first, enc, timerPc, timerDev, copy, out>>
    BY <1>7 DEF SetFlag, rawVars, timerVars
  <2>2. ~(timerPc \in Taking /\ timerDev = mainDev)
    BY <2>1 DEF LockInv, Taking, Inside, TypeOK
  <2>3. DatInv'
    BY <2>1 DEF DatInv, Filling, TypeOK, Whole
  <2> QED
    BY <1>0, <2>1, <2>2, <2>3 DEF TableInv, EncInv, CopyInv, PublishedWhole, Encoded,
       Taking, TypeOK
<1>8. CASE CopyGps
  <2>1. /\ dat' = [dat EXCEPT ![mainDev].gps = enc[mainDev].gps]
        /\ mainPc = "copyGps" /\ mainPc' = "copyBds"
        /\ UNCHANGED <<mainDev, obs, first, enc, timerPc, timerDev, copy, out>>
    BY <1>8 DEF CopyGps, rawVars, timerVars
  <2>2. ~(timerPc \in Taking /\ timerDev = mainDev)
    BY <2>1 DEF LockInv, Taking, Inside, TypeOK
  <2>3. DatInv'
    BY <2>1 DEF DatInv, Filling, TypeOK, Whole
  <2> QED
    BY <1>0, <2>1, <2>2, <2>3 DEF TableInv, EncInv, CopyInv, PublishedWhole, Encoded,
       Taking, TypeOK
<1>9. CASE CopyBds
  <2>1. /\ dat' = [dat EXCEPT ![mainDev].bds = enc[mainDev].bds]
        /\ mainPc = "copyBds" /\ mainPc' = "input"
        /\ UNCHANGED <<mainDev, obs, first, timerPc, timerDev, copy, out>>
    BY <1>9 DEF CopyBds, timerVars
  <2>2. ~(timerPc \in Taking /\ timerDev = mainDev)
    BY <2>1 DEF LockInv, Taking, Inside, TypeOK
  <2>3. dat'[mainDev].gps = enc[mainDev].gps /\ dat'[mainDev].bds = enc[mainDev].bds
    BY <2>1 DEF DatInv, TypeOK
  <2>4. Whole(dat'[mainDev])
    BY <2>1, <2>3 DEF EncInv, Encoded, Whole
  <2>5. \A d \in Devices : d # mainDev => dat'[d] = dat[d]
    BY <2>1 DEF TypeOK
  <2>6. DatInv'
    BY <2>1, <2>4, <2>5 DEF DatInv, Filling
  <2> QED
    BY <1>0, <2>1, <2>2, <2>5, <2>6 DEF TableInv, EncInv, CopyInv, PublishedWhole,
       Encoded, Taking, TypeOK
<1>10. CASE UnlockInput
  BY <1>0, <1>10 DEF UnlockInput, rawVars, timerVars, TableInv, EncInv, DatInv,
     CopyInv, PublishedWhole, Encoded, Filling, TypeOK
<1>11. CASE Tick
  BY <1>0, <1>11 DEF Tick, rawVars, mainVars, TableInv, EncInv, DatInv,
     CopyInv, PublishedWhole, Encoded, Filling, TypeOK
<1>12. ASSUME NEW d \in Devices, LockOutput(d) PROVE WholeInv'
  BY <1>0, <1>12 DEF LockOutput, rawVars, mainVars, TableInv, EncInv, DatInv,
     CopyInv, PublishedWhole, Encoded, Filling, TypeOK
<1>13. CASE TakeNothing
  BY <1>0, <1>13 DEF TakeNothing, rawVars, mainVars, TableInv, EncInv, DatInv,
     CopyInv, PublishedWhole, Encoded, Filling, TypeOK
<1>14. CASE TakeGps
  <2>1. dat[timerDev].flag = 1 /\ copy'.gps = dat[timerDev].gps
    BY <1>14 DEF TakeGps, TypeOK, Pairs
  <2> QED
    BY <1>0, <1>14, <2>1 DEF TakeGps, rawVars, mainVars, TableInv, EncInv, DatInv,
       CopyInv, PublishedWhole, Encoded, Filling, TypeOK
<1>15. CASE TakeBds
  <2>1. /\ dat' = [dat EXCEPT ![timerDev].flag = 0]
        /\ copy' = [copy EXCEPT !.bds = dat[timerDev].bds]
        /\ timerPc = "takeBds" /\ timerPc' = "publish"
        /\ UNCHANGED <<mainPc, mainDev, obs, first, enc, timerDev, out>>
    BY <1>15 DEF TakeBds, rawVars, mainVars
  <2>2. ~(mainPc \in Inside /\ timerDev = mainDev)
    BY <2>1 DEF LockInv, Taking, TypeOK
  <2>3. Whole(dat[timerDev])
    BY <2>1, <2>2 DEF CopyInv, DatInv, Filling, Inside, TypeOK
  <2>4. copy'.gps = dat[timerDev].gps /\ copy'.bds = dat[timerDev].bds
    BY <2>1 DEF CopyInv, TypeOK, Pairs
  <2>5. Whole(copy')
    BY <2>3, <2>4 DEF Whole
  <2>6. \A d \in Devices : d # timerDev => dat'[d] = dat[d]
    BY <2>1 DEF TypeOK
  <2>7. dat'[timerDev].flag = 0
    BY <2>1 DEF TypeOK
  <2>8. DatInv'
    BY <2>1, <2>2, <2>6, <2>7 DEF DatInv, Filling, Inside, TypeOK
  <2> QED
    BY <1>0, <2>1, <2>5, <2>8 DEF TableInv, EncInv, CopyInv, PublishedWhole, Encoded
<1>16. CASE Publish
  BY <1>0, <1>16 DEF Publish, rawVars, mainVars, TableInv, EncInv, DatInv,
     CopyInv, PublishedWhole, Encoded, Filling, TypeOK
<1>17. CASE EndTick
  BY <1>0, <1>17 DEF EndTick, rawVars, mainVars, TableInv, EncInv, DatInv,
     CopyInv, PublishedWhole, Encoded, Filling, TypeOK
<1>18. CASE UNCHANGED vars
  BY <1>0, <1>18 DEF vars, mainVars, rawVars, timerVars, TableInv, EncInv, DatInv,
     CopyInv, PublishedWhole, Encoded, Filling
<1> QED
  BY <1>1, <1>2, <1>3, <1>4, <1>5, <1>6, <1>7, <1>8, <1>9, <1>10, <1>11, <1>12,
     <1>13, <1>14, <1>15, <1>16, <1>17, <1>18 DEF Next, Main, Timer

LEMMA WholeAlways == Spec => []WholeInv
BY WholeInit, WholeStep, TypeCorrect, PTL DEF Spec

(***************************************************************************)
(* Every correction AgnssServer publishes was encoded from one range frame *)
(* and holds observations of one epoch, for both systems: no interleaving  *)
(* of input and getOutput tears it, and decode_rangeb mixes no epochs.     *)
(***************************************************************************)
THEOREM PublishedIsWhole == Spec => []PublishedWhole
<1>1. WholeInv => PublishedWhole
  BY DEF WholeInv
<1> QED
  BY <1>1, WholeAlways, PTL-----------------------------------------------------------------------------
(* The order of what is published. *)

LEMMA OrderInit == Init => OrderInv
BY BoundsAssumption
DEF Init, OrderInv, ProcsInv, SeqInv, Inside, Encoded, Taking, NoDat, NoPair,
    NoMessage, TakenSeq, Filling

LEMMA ProcsStep == TypeOK /\ LockInv /\ ProcsInv /\ [Next]_vars => ProcsInv'
<1> SUFFICES ASSUME TypeOK, LockInv, ProcsInv, [Next]_vars PROVE ProcsInv'
  OBVIOUS
<1> USE DEF TypeOK, ProcsInv, Inside, Taking, rawVars, mainVars, timerVars
<1>1. CASE Main
  BY <1>1 DEF Main, Receive, FindProcessor, PutProcessor, LockInput, RejectFrame,
              DecodeFrame, SetFlag, CopyGps, CopyBds, UnlockInput, LockInv
<1>2. CASE Timer
  BY <1>2 DEF Timer, Tick, EndTick, LockOutput, TakeNothing, TakeGps, TakeBds, Publish
<1>3. CASE UNCHANGED vars
  BY <1>3 DEF vars
<1> QED
  BY <1>1, <1>2, <1>3 DEF Next

LEMMA SeqStep == TypeOK /\ WholeInv /\ OrderInv /\ [Next]_vars => SeqInv'
<1> SUFFICES ASSUME TypeOK, WholeInv, OrderInv, [Next]_vars PROVE SeqInv'
  OBVIOUS
<1> USE DEF OrderInv
<1>a. \A d \in Devices :
        /\ enc[d].gps.seq \in Nat /\ dat[d].gps.seq \in Nat
        /\ out[d].gps.seq \in Nat /\ frames[d] \in Nat
  BY BoundsAssumption DEF TypeOK, Pairs, MessageSet
<1>b. copy.gps.seq \in Nat
  BY BoundsAssumption DEF TypeOK, Pairs, MessageSet
<1>c. mainDev \in Devices /\ timerDev \in Devices
  BY DEF TypeOK
<1>1. ASSUME NEW d \in Devices, NEW tag \in {"status", "data"}, Receive(d, tag)
      PROVE  SeqInv'
  BY <1>1 DEF Receive, rawVars, timerVars, SeqInv, TakenSeq, Filling, Encoded
<1>2. CASE FindProcessor
  BY <1>2 DEF FindProcessor, rawVars, timerVars, SeqInv, TakenSeq, Filling, Encoded
<1>3. CASE PutProcessor
  <2>1. dat[mainDev] = NoDat
    BY <1>3, <1>c DEF PutProcessor, ProcsInv
  <2>2. dat' = dat
    BY <1>3, <2>1 DEF PutProcessor, TypeOK
  <2> QED
    BY <1>3, <2>2 DEF PutProcessor, timerVars, SeqInv, TakenSeq, Filling, Encoded
<1>4. CASE LockInput
  BY <1>4 DEF LockInput, rawVars, timerVars, SeqInv, TakenSeq, Filling, Encoded
<1>5. ASSUME NEW f \in Frames, RejectFrame(f) PROVE SeqInv'
  <2>1. /\ mainPc = "input" /\ frames' = [frames EXCEPT ![mainDev] = @ + 1]
        /\ UNCHANGED <<mainPc, mainDev, enc, dat, timerPc, timerDev, copy, out>>
    BY <1>5 DEF RejectFrame, mainVars, timerVars
  <2>2. \A d \in Devices : frames'[d] \in Nat /\ frames[d] <= frames'[d]
    BY <2>1, <1>a DEF TypeOK
  <2> QED
    BY <2>1, <2>2, <1>a, <1>b, <1>c DEF SeqInv, TakenSeq, Filling, Encoded
<1>6. ASSUME NEW f \in Frames, DecodeFrame(f) PROVE SeqInv'
  <2>1. /\ mainPc = "input" /\ mainPc' \in {"input", "flag"}
        /\ frames' = [frames EXCEPT ![mainDev] = @ + 1]
        /\ \A d \in Devices : d = mainDev => enc'[d].gps.seq = frames[d] + 1
        /\ UNCHANGED <<mainDev, dat, timerPc, timerDev, copy, out>>
    BY <1>6, <1>c DEF DecodeFrame, timerVars, TypeOK, GpsMessage
  <2>2. \A d \in Devices : /\ frames'[d] \in Nat /\ frames[d] <= frames'[d]
                           /\ d = mainDev => frames'[d] = frames[d] + 1
    BY <2>1, <1>a DEF TypeOK
  <2> QED
    BY <2>1, <2>2, <1>a, <1>b, <1>c DEF SeqInv, TakenSeq, Filling, Encoded
<1>7. CASE SetFlag
  <2>1. /\ mainPc = "flag" /\ mainPc' = "copyGps"
        /\ UNCHANGED <<mainDev, frames, enc, timerPc, timerDev, copy, out>>
        /\ \A d \in Devices : /\ dat'[d].gps = dat[d].gps
                              /\ d # mainDev => dat'[d] = dat[d]
    BY <1>7 DEF SetFlag, rawVars, timerVars, TypeOK
  <2> QED
    BY <2>1, <1>c DEF SeqInv, TakenSeq, Filling, Encoded
<1>8. CASE CopyGps
  <2>1. /\ mainPc = "copyGps" /\ mainPc' = "copyBds"
        /\ UNCHANGED <<mainDev, frames, enc, timerPc, timerDev, copy, out>>
        /\ \A d \in Devices : IF d = mainDev THEN dat'[d].gps = enc[d].gps
                                             ELSE dat'[d] = dat[d]
    BY <1>8 DEF CopyGps, rawVars, timerVars, TypeOK
  <2> QED
    BY <2>1, <1>a, <1>c DEF SeqInv, TakenSeq, Filling, Encoded
<1>9. CASE CopyBds
  <2>1. /\ mainPc = "copyBds" /\ mainPc' = "input"
        /\ UNCHANGED <<mainDev, frames, timerPc, timerDev, copy, out>>
        /\ \A d \in Devices : /\ dat'[d].gps = dat[d].gps
                              /\ d # mainDev => dat'[d] = dat[d]
    BY <1>9 DEF CopyBds, timerVars, TypeOK
  <2>2. dat[mainDev].gps = enc[mainDev].gps
    BY <2>1 DEF WholeInv, DatInv
  <2> QED
    BY <2>1, <2>2, <1>a, <1>c DEF SeqInv, TakenSeq, Filling, Encoded
<1>10. CASE UnlockInput
  BY <1>10 DEF UnlockInput, rawVars, timerVars, SeqInv, TakenSeq, Filling, Encoded
<1>11. CASE Tick
  BY <1>11 DEF Tick, rawVars, mainVars, SeqInv, TakenSeq, Filling, Encoded
<1>12. ASSUME NEW d \in Devices, LockOutput(d) PROVE SeqInv'
  BY <1>12 DEF LockOutput, rawVars, mainVars, SeqInv, TakenSeq, Filling, Encoded
<1>13. CASE TakeNothing
  BY <1>13 DEF TakeNothing, rawVars, mainVars, SeqInv, TakenSeq, Filling, Encoded
<1>14. CASE TakeGps
  BY <1>14 DEF TakeGps, rawVars, mainVars, SeqInv, TakenSeq, Filling, Encoded
<1>15. CASE TakeBds
  <2>1. /\ timerPc = "takeBds" /\ timerPc' = "publish"
        /\ UNCHANGED <<mainPc, mainDev, frames, enc, timerDev, out>>
        /\ copy'.gps = copy.gps
        /\ \A d \in Devices : /\ dat'[d].gps = dat[d].gps
                              /\ IF d = timerDev THEN dat'[d].flag = 0
                                                 ELSE dat'[d] = dat[d]
    BY <1>15 DEF TakeBds, rawVars, mainVars, TypeOK, Pairs
  <2>2. ~(mainPc \in Inside /\ timerDev = mainDev)
    BY <2>1, <1>c DEF WholeInv, LockInv, Taking
  <2>3. dat[timerDev].flag = 1 /\ copy.gps = dat[timerDev].gps
    BY <2>1 DEF WholeInv, CopyInv
  <2>4. out[timerDev].gps.seq < dat[timerDev].gps.seq
    BY <2>1, <2>2, <2>3, <1>c DEF SeqInv, TakenSeq, Filling, Inside
  <2>5. \A d \in Devices : TakenSeq(d)' = IF d = timerDev THEN dat[d].gps.seq ELSE TakenSeq(d)
    BY <2>1, <2>3, <1>c DEF TakenSeq
  <2> QED
    BY <2>1, <2>2, <2>3, <2>4, <2>5, <1>a, <1>c DEF SeqInv, Filling, Encoded, Inside
<1>16. CASE Publish
  <2>1. /\ timerPc = "publish" /\ timerPc' = "each"
        /\ UNCHANGED <<mainPc, mainDev, frames, enc, dat, timerDev>>
        /\ \A d \in Devices : out'[d] = IF d = timerDev THEN copy ELSE out[d]
    BY <1>16 DEF Publish, rawVars, mainVars, TypeOK
  <2>2. \A d \in Devices : TakenSeq(d)' = TakenSeq(d)
    BY <2>1 DEF TakenSeq
  <2> QED
    BY <2>1, <2>2, <1>c DEF SeqInv, Filling, Encoded
<1>17. CASE EndTick
  BY <1>17 DEF EndTick, rawVars, mainVars, SeqInv, TakenSeq, Filling, Encoded
<1>18. CASE UNCHANGED vars
  BY <1>18 DEF vars, mainVars, rawVars, timerVars, SeqInv, TakenSeq, Filling, Encoded
<1> QED
  BY <1>1, <1>2, <1>3, <1>4, <1>5, <1>6, <1>7, <1>8, <1>9, <1>10, <1>11, <1>12,
     <1>13, <1>14, <1>15, <1>16, <1>17, <1>18 DEF Next, Main, Timer

LEMMA IInvAlways == Spec => []IInv
<1>1. Init => IInv
  BY TypeInit, WholeInit, OrderInit DEF IInv
<1>2. IInv /\ [Next]_vars => IInv'
  BY TypeStep, WholeStep, ProcsStep, SeqStep DEF IInv, WholeInv, OrderInv
<1> QED
  BY <1>1, <1>2, PTL DEF Spec
(***************************************************************************)
(* A device's corrections are published in the order of their frames and   *)
(* none twice: handleOutput publishes what getOutput took under the lock,  *)
(* and SeqInv says that it is newer than what was published before.        *)
(***************************************************************************)
THEOREM PublishesInOrder == Spec => PublishedInOrder
<1> DEFINE Newer == \A d \in Devices : out'[d] # out[d] => out'[d].gps.seq > out[d].gps.seq
<1>1. IInv /\ [Next]_vars => [Newer]_out
  <2> SUFFICES ASSUME IInv, [Next]_vars, out' # out PROVE Newer
    OBVIOUS
  <2>1. CASE Publish
    <3>1. out[timerDev].gps.seq < copy.gps.seq
      BY <2>1 DEF Publish, IInv, OrderInv, SeqInv
    <3>2. out[timerDev].gps.seq \in Nat /\ copy.gps.seq \in Nat
      BY BoundsAssumption DEF IInv, TypeOK, Pairs, MessageSet
    <3>3. \A d \in Devices : out'[d] = IF d = timerDev THEN copy ELSE out[d]
      BY <2>1 DEF Publish, IInv, TypeOK
    <3> QED
      BY <3>1, <3>2, <3>3
  <2>2. CASE Main
    BY <2>2 DEF Main, Receive, FindProcessor, PutProcessor, LockInput, RejectFrame,
                DecodeFrame, SetFlag, CopyGps, CopyBds, UnlockInput
  <2>3. CASE Timer /\ ~Publish
    BY <2>3 DEF Timer, Tick, EndTick, LockOutput, TakeNothing, TakeGps, TakeBds
  <2>4. CASE UNCHANGED vars
    BY <2>4 DEF vars
  <2> QED
    BY <2>1, <2>2, <2>3, <2>4 DEF Next
<1> QED
  BY <1>1, IInvAlways, PTL DEF Spec, PublishedInOrder
-----------------------------------------------------------------------------
(* The size of the table. *)

(* decode_rangeb appends one entry per satellite. *)
LEMMA AppendedSize ==
  ASSUME NEW N, IsFiniteSet(N), NEW t
  PROVE  IsFiniteSet(Appended(N, t)) /\ Cardinality(Appended(N, t)) <= Cardinality(N)
<1> DEFINE entry == [s \in N |-> [sat |-> s, time |-> t, meas |-> t]]
<1>1. entry \in Surjection(N, Appended(N, t))
  BY DEF Surjection, Appended
<1> QED
  BY <1>1, FS_Surjection

(* A table whose entries are of epoch t is left as it is by new measurements. *)
LEMMA RemeasuredSame ==
  ASSUME NEW O \in SUBSET Observations, NEW K, NEW t, \A o \in O : o.meas = t
  PROVE  Remeasured(O, K, t) = O
<1>1. ASSUME NEW o \in O PROVE [o EXCEPT !.meas = t] = o
  BY DEF Observations
<1> QED
  BY <1>1 DEF Remeasured

(* obsindex allocates nothing beyond MAXOBS. *)
LEMMA ObsindexSize ==
  ASSUME NEW O \in SUBSET Observations, NEW t, NEW S \in SUBSET UsableSats,
         IsFiniteSet(O), Cardinality(O) <= MAXOBS, \A o \in O : o.meas = t,
         NEW R \in Obsindex(O, t, S)
  PROVE  IsFiniteSet(R) /\ Cardinality(R) <= MAXOBS
<1> DEFINE fresh == S \ Sats(O)
           room == MAXOBS - Cardinality(O)
<1>1. Cardinality(O) \in Nat /\ MAXOBS \in Nat
  BY FS_CardinalityType, MaxObsAssumption
<1>2. IsFiniteSet(UsableSats)
  BY SatsAssumption, FS_Union DEF UsableSats
<1>3. IsFiniteSet(fresh)
  BY <1>2, FS_Subset
<1>4. R = O \/ \E N \in SUBSET fresh :
                 Cardinality(N) <= room /\ R = O \cup Appended(N, t)
  <2> DEFINE fillers == {M \in SUBSET fresh : Cardinality(M) = room}
             Full == {Remeasured(O, K, t) \cup Appended(N, t) :
                        K \in SUBSET (S \cap Sats(O)), N \in fillers}
  <2>1. \/ R = O
        \/ R = Remeasured(O, S, t) \cup Appended(fresh, t) /\ Cardinality(fresh) < room
        \/ R \in Full
    BY DEF Obsindex
  <2>2. Cardinality(fresh) \in Nat
    BY <1>3, FS_CardinalityType
  <2> HIDE DEF fresh, room
  <2>3. CASE R = Remeasured(O, S, t) \cup Appended(fresh, t) /\ Cardinality(fresh) < room
    BY <2>2, <2>3, <1>1, RemeasuredSame DEF room
  <2>4. CASE R \in Full
    <3> HIDE DEF fillers
    <3>1. PICK K \in SUBSET (S \cap Sats(O)), N \in fillers :
             R = Remeasured(O, K, t) \cup Appended(N, t)
      BY <2>4
    <3>2. N \in SUBSET fresh /\ Cardinality(N) = room
      BY DEF fillers
    <3> QED
      BY <3>1, <3>2, <1>1, RemeasuredSame DEF room
  <2> QED
    BY <2>1, <2>3, <2>4
<1>5. ASSUME NEW N \in SUBSET fresh, Cardinality(N) <= room, R = O \cup Appended(N, t)
      PROVE  IsFiniteSet(R) /\ Cardinality(R) <= MAXOBS
  <2> DEFINE A == Appended(N, t)
  <2>1. IsFiniteSet(N)
    BY <1>3, FS_Subset
  <2>2. IsFiniteSet(A) /\ Cardinality(A) <= Cardinality(N)
    BY <2>1, AppendedSize
  <2> HIDE DEF A
  <2>3. Cardinality(N) \in Nat /\ Cardinality(A) \in Nat
    BY <2>1, <2>2, FS_CardinalityType
  <2>4. /\ IsFiniteSet(O \cup A)
        /\ Cardinality(O \cup A) = Cardinality(O) + Cardinality(A) - Cardinality(O \cap A)
    BY <2>2, FS_Union
  <2>5. Cardinality(O \cap A) \in Nat
    BY FS_Subset, FS_CardinalityType
  <2> QED
    BY <2>2, <2>3, <2>4, <2>5, <1>1, <1>5 DEF A
<1> QED
  BY <1>4, <1>5

FitInv == \A d \in Devices : IsFiniteSet(obs[d]) /\ Cardinality(obs[d]) <= MAXOBS

LEMMA FitInit == Init => FitInv
BY FS_EmptySet, MaxObsAssumption DEF Init, FitInv

LEMMA FitStep == IInv /\ FitInv /\ [Next]_vars => FitInv'
<1> SUFFICES ASSUME IInv, FitInv, [Next]_vars PROVE FitInv'
  OBVIOUS
<1>1. ASSUME NEW f \in Frames, DecodeFrame(f) PROVE FitInv'
  <2>1. PICK O \in DecodeRangeb(obs[mainDev], first[mainDev], f) :
           obs' = [obs EXCEPT ![mainDev] = O]
    BY <1>1 DEF DecodeFrame
  <2> DEFINE S == f.sats \cap UsableSats
             B == IF first[mainDev] # f.time THEN {} ELSE obs[mainDev]
  <2>2. /\ obs[mainDev] \in SUBSET Observations
        /\ IsFiniteSet(obs[mainDev]) /\ Cardinality(obs[mainDev]) <= MAXOBS
    BY DEF IInv, TypeOK, FitInv
  <2>3. /\ B \in SUBSET Observations
        /\ IsFiniteSet(B) /\ Cardinality(B) <= MAXOBS
    BY <2>2, FS_EmptySet, MaxObsAssumption
  <2>4. \A o \in B : o.meas = f.time
    BY DEF IInv, TypeOK, WholeInv, TableInv
  <2>5. O = obs[mainDev] \/ O \in Obsindex(B, f.time, S)
    BY DEF DecodeRangeb
  <2> HIDE DEF B, S
  <2>6. S \in SUBSET UsableSats
    BY DEF S
  <2>7. IsFiniteSet(O) /\ Cardinality(O) <= MAXOBS
    BY <2>2, <2>3, <2>4, <2>5, <2>6, ObsindexSize
  <2> QED
    BY <2>1, <2>7 DEF FitInv, IInv, TypeOK
<1>2. CASE PutProcessor
  BY <1>2, FS_EmptySet, MaxObsAssumption DEF PutProcessor, FitInv, IInv, TypeOK
<1>3. CASE UNCHANGED obs
  BY <1>3 DEF FitInv
<1> QED
  BY <1>1, <1>2, <1>3
  DEF Next, Main, Timer, vars, rawVars, Receive, FindProcessor, LockInput,
      RejectFrame, SetFlag, CopyGps, CopyBds, UnlockInput, Tick, EndTick,
      LockOutput, TakeNothing, TakeGps, TakeBds, Publish

(***************************************************************************)
(* raw->obs.data never receives more than the MAXOBS entries AssistData_   *)
(* Init allocated, whatever the receiver sends: obsindex refuses the rest. *)
(***************************************************************************)
THEOREM ObservationsFit == Spec => []TableFits
<1>1. FitInv => TableFits
  BY DEF FitInv, TableFits
<1> QED
  BY <1>1, FitInit, FitStep, IInvAlways, PTL DEF Spec
-----------------------------------------------------------------------------
(***************************************************************************)
(* Only TakeBds lowers a flag: when createDataProcessor replaces the       *)
(* processor of a device there was none, hence nothing ready (ProcsInv).   *)
(***************************************************************************)
THEOREM ReadyLeavesOnlyTaken == Spec => ReadyLeavesTaken
<1> DEFINE Kept == \A d \in Devices : dat[d].flag = 1 /\ dat'[d].flag = 0
                                        => timerPc = "takeBds" /\ timerDev = d
<1>1. IInv /\ [Next]_vars => [Kept]_vars
  <2> SUFFICES ASSUME IInv, Next PROVE Kept
    OBVIOUS
  <2>1. CASE PutProcessor
    BY <2>1 DEF PutProcessor, IInv, TypeOK, OrderInv, ProcsInv, NoDat
  <2>2. CASE SetFlag \/ CopyGps \/ CopyBds
    <3>1. \A d \in Devices : dat'[d].flag = dat[d].flag \/ dat'[d].flag = 1
      BY <2>2 DEF SetFlag, CopyGps, CopyBds, IInv, TypeOK
    <3> QED
      BY <3>1
  <2>3. CASE TakeBds
    <3>1. timerPc = "takeBds" /\ \A d \in Devices \ {timerDev} : dat'[d] = dat[d]
      BY <2>3 DEF TakeBds, IInv, TypeOK
    <3> QED
      BY <3>1
  <2>4. CASE UNCHANGED dat
    BY <2>4
  <2> QED
    BY <2>1, <2>2, <2>3, <2>4
    DEF Next, Main, Timer, Receive, FindProcessor, LockInput, RejectFrame,
        DecodeFrame, UnlockInput, Tick, EndTick, LockOutput, TakeNothing,
        TakeGps, Publish
<1> QED
  BY <1>1, IInvAlways, PTL DEF Spec, ReadyLeavesTaken
-----------------------------------------------------------------------------
(* AgnssServer implements CorrectionMailbox. *)

mPosted == [d \in Devices |-> NewestSeq(d)]
mSlot   == [d \in Devices |-> IF dat[d].flag = 0 THEN 0 ELSE NewestSeq(d)]
mTaken  == [d \in Devices |-> TakenSeq(d)]

LEMMA MailboxInit == Init => Mailbox!Init
BY DEF Init, Mailbox!Init, NewestSeq, Filling, NoDat, NoPair, NoMessage

(* The steps that touch neither the flags nor the newest numbers stutter. *)
LEMMA MailboxStutter ==
  ASSUME \A d \in Devices : /\ NewestSeq(d)' = NewestSeq(d)
                            /\ dat'[d].flag = dat[d].flag
                            /\ TakenSeq(d)' = TakenSeq(d)
  PROVE  UNCHANGED Mailbox!vars
BY DEF Mailbox!vars, TakenSeq

LEMMA MailboxStep == IInv /\ IInv' /\ [Next]_vars => [Mailbox!Next]_(Mailbox!vars)
<1> SUFFICES ASSUME IInv, IInv', [Next]_vars
             PROVE  Mailbox!Next \/ UNCHANGED Mailbox!vars
  OBVIOUS
<1>a. mainDev \in Devices /\ timerDev \in Devices
  BY DEF IInv, TypeOK
<1>b. \A d \in Devices : /\ enc[d].gps.seq \in Nat /\ dat[d].gps.seq \in Nat
                         /\ frames[d] \in 0..MaxFrames /\ dat[d].flag \in {0, 1}
  BY BoundsAssumption DEF IInv, TypeOK, Pairs, MessageSet
<1>1. CASE SetFlag
  <2>1. /\ mainPc = "flag" /\ mainPc' = "copyGps"
        /\ UNCHANGED <<mainDev, enc, timerPc, timerDev, copy, out>>
        /\ dat'[mainDev].flag = 1
        /\ \A d \in Devices \ {mainDev} : dat'[d] = dat[d]
    BY <1>1, <1>a DEF SetFlag, rawVars, timerVars, IInv, TypeOK
  <2>2. /\ enc[mainDev].gps.seq = frames[mainDev]
        /\ dat[mainDev].gps.seq < frames[mainDev]
    BY <2>1 DEF IInv, OrderInv, SeqInv, Encoded
  <2>3. NewestSeq(mainDev) = dat[mainDev].gps.seq /\ NewestSeq(mainDev)' = frames[mainDev]
    BY <2>1, <2>2 DEF NewestSeq, Filling
  <2>4. frames[mainDev] \in (mPosted[mainDev] + 1)..MaxFrames
    BY <2>2, <2>3, <1>a, <1>b, BoundsAssumption DEF mPosted
  <2>5. \A d \in Devices \ {mainDev} : NewestSeq(d)' = NewestSeq(d)
    BY <2>1 DEF NewestSeq, Filling
  <2>6. mPosted' = [mPosted EXCEPT ![mainDev] = frames[mainDev]]
    BY <2>1, <2>2 DEF mPosted, NewestSeq, Filling
  <2>7. mSlot' = [mSlot EXCEPT ![mainDev] = frames[mainDev]]
    <3>1. \A d \in Devices : mSlot'[d] = IF d = mainDev THEN frames[mainDev]
                                                     ELSE mSlot[d]
      BY <2>1, <2>2, <1>a DEF mSlot, NewestSeq, Filling
    <3>2. mSlot' = [d \in Devices |-> mSlot'[d]] /\ mSlot = [d \in Devices |-> mSlot[d]]
      BY DEF mSlot
    <3> QED
      BY ONLY <3>1, <3>2, Zenon
  <2>8. UNCHANGED mTaken
    BY <2>1 DEF mTaken, TakenSeq
  <2> PICK d \in Devices : d = mainDev
    BY <1>a
  <2>9. Mailbox!Post(d)
    <3>1. \E m \in (mPosted[d] + 1)..MaxFrames :
            /\ mPosted' = [mPosted EXCEPT ![d] = m]
            /\ mSlot' = [mSlot EXCEPT ![d] = m]
            /\ UNCHANGED mTaken
      BY <2>4, <2>6, <2>7, <2>8
    <3> QED
      BY ONLY <3>1, Zenon DEF Mailbox!Post, mPosted, mSlot, mTaken, TakenSeq
  <2> QED
    BY <2>9 DEF Mailbox!Next
<1>2. CASE TakeBds
  <2>1. /\ timerPc = "takeBds" /\ timerPc' = "publish"
        /\ UNCHANGED <<mainPc, mainDev, enc, timerDev, out>>
        /\ copy'.gps = copy.gps
        /\ dat'[timerDev].flag = 0
        /\ \A d \in Devices : /\ dat'[d].gps = dat[d].gps
                              /\ d # timerDev => dat'[d] = dat[d]
    BY <1>2, <1>a DEF TakeBds, rawVars, mainVars, IInv, TypeOK, Pairs
  <2>2. ~Filling(timerDev)
    BY <2>1, <1>a DEF Filling, IInv, WholeInv, LockInv, Taking, Inside
  <2>3. dat[timerDev].flag = 1 /\ copy.gps = dat[timerDev].gps
    BY <2>1 DEF IInv, WholeInv, CopyInv
  <2>4. 0 < dat[timerDev].gps.seq
    <3>1. TakenSeq(timerDev) < dat[timerDev].gps.seq
      BY <2>2, <2>3, <1>a DEF IInv, OrderInv, SeqInv
    <3>2. TakenSeq(timerDev) = out[timerDev].gps.seq /\ out[timerDev].gps.seq \in Nat
      BY <2>1, BoundsAssumption DEF TakenSeq, IInv, TypeOK, Pairs, MessageSet
    <3> QED
      BY <3>1, <3>2, <1>a, <1>b
  <2>5. \A d \in Devices : NewestSeq(d)' = NewestSeq(d)
    BY <2>1 DEF NewestSeq, Filling
  <2>6. UNCHANGED mPosted
    BY <2>5 DEF mPosted
  <2>7. mSlot[timerDev] = dat[timerDev].gps.seq
    BY <2>2, <2>3, <1>a DEF mSlot, NewestSeq
  <2>8. mSlot' = [mSlot EXCEPT ![timerDev] = 0]
    BY <2>1, <2>5, <1>a DEF mSlot
  <2>9. mTaken' = [mTaken EXCEPT ![timerDev] = mSlot[timerDev]]
    BY <2>1, <2>3, <2>7, <1>a DEF mTaken, TakenSeq
  <2> PICK d \in Devices : d = timerDev
    BY <1>a
  <2>10. /\ mSlot[d] # 0
         /\ mTaken' = [mTaken EXCEPT ![d] = mSlot[d]]
         /\ mSlot' = [mSlot EXCEPT ![d] = 0]
         /\ UNCHANGED mPosted
    BY <2>4, <2>6, <2>7, <2>8, <2>9
  <2>11. Mailbox!Take(d)
    BY ONLY <2>10, Zenon DEF Mailbox!Take, mPosted, mSlot, mTaken, TakenSeq
  <2> QED
    BY <2>11 DEF Mailbox!Next
<1>3. CASE CopyGps \/ CopyBds
  <2>1. /\ UNCHANGED <<mainDev, timerPc, timerDev, copy, out>>
        /\ \A d \in Devices : /\ dat'[d].flag = dat[d].flag
                              /\ d # mainDev => dat'[d] = dat[d] /\ enc'[d] = enc[d]
    BY <1>3 DEF CopyGps, CopyBds, rawVars, timerVars, IInv, TypeOK
  <2>2. NewestSeq(mainDev)' = NewestSeq(mainDev)
    <3>1. CASE CopyGps
      BY <3>1, <1>a DEF CopyGps, rawVars, NewestSeq, Filling
    <3>2. CASE CopyBds
      <4>1. dat[mainDev].gps = enc[mainDev].gps /\ mainPc = "copyBds"
        BY <3>2 DEF CopyBds, IInv, WholeInv, DatInv
      <4>2. dat'[mainDev].gps = dat[mainDev].gps /\ mainPc' = "input" /\ mainDev' = mainDev
        BY <3>2, <1>a DEF CopyBds, IInv, TypeOK
      <4> QED
        BY <4>1, <4>2 DEF NewestSeq, Filling
    <3> QED
      BY <1>3, <3>1, <3>2
  <2>3. \A d \in Devices : NewestSeq(d)' = NewestSeq(d) /\ TakenSeq(d)' = TakenSeq(d)
    BY <2>1, <2>2 DEF NewestSeq, Filling, TakenSeq
  <2> QED
    BY <2>1, <2>3, MailboxStutter
<1>4. ASSUME NEW f \in Frames, DecodeFrame(f) PROVE UNCHANGED Mailbox!vars
  BY <1>4, MailboxStutter DEF DecodeFrame, timerVars, NewestSeq, Filling, TakenSeq
<1>5. CASE PutProcessor
  <2>1. dat[mainDev] = NoDat
    BY <1>5, <1>a DEF PutProcessor, IInv, OrderInv, ProcsInv
  <2>2. UNCHANGED <<dat, timerPc, timerDev, copy, out>> /\ mainPc = "put" /\ mainPc' = "lock"
    BY <1>5, <2>1 DEF PutProcessor, timerVars, IInv, TypeOK
  <2> QED
    BY <2>2, MailboxStutter DEF NewestSeq, Filling, TakenSeq
<1>6. CASE Publish
  <2>1. /\ timerPc = "publish" /\ timerPc' = "each"
        /\ UNCHANGED <<mainPc, mainDev, enc, dat, timerDev>>
        /\ \A d \in Devices : out'[d] = IF d = timerDev THEN copy ELSE out[d]
    BY <1>6 DEF Publish, rawVars, mainVars, IInv, TypeOK
  <2> QED
    BY <2>1, MailboxStutter DEF NewestSeq, Filling, TakenSeq
<1>7. ASSUME NEW d \in Devices, NEW tag \in {"status", "data"}, Receive(d, tag)
      PROVE  UNCHANGED Mailbox!vars
  BY <1>7, MailboxStutter DEF Receive, rawVars, timerVars, NewestSeq, Filling, TakenSeq
<1>8. CASE FindProcessor \/ LockInput \/ UnlockInput
  BY <1>8, MailboxStutter DEF FindProcessor, LockInput, UnlockInput, rawVars,
     timerVars, NewestSeq, Filling, TakenSeq
<1>9. ASSUME NEW f \in Frames, RejectFrame(f) PROVE UNCHANGED Mailbox!vars
  BY <1>9, MailboxStutter DEF RejectFrame, mainVars, timerVars, NewestSeq, Filling,
     TakenSeq
<1>10. CASE Tick \/ EndTick \/ TakeNothing \/ TakeGps
  BY <1>10, MailboxStutter DEF Tick, EndTick, TakeNothing, TakeGps, rawVars,
     mainVars, NewestSeq, Filling, TakenSeq
<1>11. ASSUME NEW d \in Devices, LockOutput(d) PROVE UNCHANGED Mailbox!vars
  BY <1>11, MailboxStutter DEF LockOutput, rawVars, mainVars, NewestSeq, Filling,
     TakenSeq
<1>12. CASE UNCHANGED vars
  BY <1>12, MailboxStutter DEF vars, mainVars, rawVars, timerVars, NewestSeq,
     Filling, TakenSeq
<1> QED
  BY <1>1, <1>2, <1>3, <1>4, <1>5, <1>6, <1>7, <1>8, <1>9, <1>10, <1>11, <1>12
  DEF Next, Main, Timer

(***************************************************************************)
(* AgnssServer hands corrections over as the mailbox promises: getOutput   *)
(* takes the newest one AssistData_Input flagged, whole, and at most once. *)
(***************************************************************************)
THEOREM ServerImplementsMailbox == Spec => ImplementsMailbox
BY MailboxInit, MailboxStep, IInvAlways, PTL DEF Spec, ImplementsMailbox, Mailbox!Spec

(***************************************************************************)
(* The inductive invariant, and with it: the table fits, the locks are     *)
(* held where the threads are, and nothing on its way out is torn or old.  *)
(***************************************************************************)
ServerInv == IInv /\ TableFits

(* AgnssServer keeps its inductive invariant. *)
THEOREM ServerInvariant == Spec => []ServerInv
BY IInvAlways, ObservationsFit, PTL DEF ServerInv

(* Corrections leave in order, once, and through the timer thread alone.   *)
THEOREM CorrectionsLeaveInTurn == Spec => CorrectionsInTurn
BY PublishesInOrder, ReadyLeavesOnlyTaken DEF CorrectionsInTurn
=============================================================================
