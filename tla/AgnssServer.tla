----------------------------- MODULE AgnssServer -----------------------------
(***************************************************************************)
(* AgnssServer: the two threads that share the data processors.            *)
(*                                                                         *)
(* The main thread (Application::run) receives messages from the captures, *)
(* finds or creates the processor of the device and feeds it the bytes     *)
(* under the processor's m_cs.  Every 3 s the timer thread                 *)
(* (Application::onTimer) walks the processor map, holding the map's m_cs  *)
(* all along, moves each processor's finished correction out under that    *)
(* processor's m_cs, and publishes it.                                     *)
(*                                                                         *)
(* AssistData_Input fills dgnssDat in several copies and raises dgnss_flag *)
(* before the first of them; only the lock keeps the timer thread away.    *)
(* The steps below are those copies, so that the lock has work to do.      *)
(*                                                                         *)
(* The payload of a message is not kept: the frames it completes are       *)
(* chosen when the parser reaches them (OemFramer models the bytes).       *)
(***************************************************************************)
EXTENDS AssistData

CONSTANTS
  Devices,      \* device names carried by the capture messages
  MaxMessages,  \* bound: messages the captures send in all
  MaxFrames     \* bound: frames completed per device

ASSUME BoundsAssumption == MaxMessages \in Nat /\ MaxFrames \in Nat

VARIABLES
  mainPc,       \* where the main thread is
  mainDev,      \* header.device of the message it handles
  received,     \* number of messages received (bounds the model)
  procs,        \* devices in m_processorMap
  mapLock,      \* holder of the map's m_cs
  procLock,     \* procLock[d]: holder of m_cs of the processor of d
  time,         \* time[d]: raw->time
  obs,          \* obs[d]: raw->obs.data[0 .. obs.n - 1]
  first,        \* first[d]: raw->obs.data[0].time, which outlives obs.n = 0
  frames,       \* frames[d]: frames completed so far, numbers the corrections
  enc,          \* enc[d]: gps_dgnssdata and bds_dgnssdata, the encoder output
  dat,          \* dat[d]: dgnssDat, the correction handed to the timer thread
  timerPc,      \* where the timer thread is
  timerDev,     \* the processor forEach is at
  todo,         \* the processors forEach has still to visit
  copy,         \* the DgnssDatAll on handleOutput's stack
  out           \* out[d]: the correction published last

mainVars  == <<mainPc, mainDev, received>>
rawVars   == <<time, obs, first, frames, enc>>
timerVars == <<timerPc, timerDev, todo, copy>>
vars == <<mainVars, procs, mapLock, procLock, rawVars, dat, timerVars, out>>

Holders == {"none", "main", "timer"}
NoMessage == [type |-> 0, time |-> 0, sync |-> 0, obs |-> {}, seq |-> 0]
NoPair == [gps |-> NoMessage, bds |-> NoMessage]
NoDat == [flag |-> 0, gps |-> NoMessage, bds |-> NoMessage]

Init ==
  /\ mainPc = "idle" /\ mainDev \in Devices /\ received = 0
  /\ procs = {}
  /\ mapLock = "none" /\ procLock = [d \in Devices |-> "none"]
  /\ time = [d \in Devices |-> 0]
  /\ obs = [d \in Devices |-> {}]
  /\ first = [d \in Devices |-> 0]
  /\ frames = [d \in Devices |-> 0]
  /\ enc = [d \in Devices |-> NoPair]
  /\ dat = [d \in Devices |-> NoDat]
  /\ timerPc = "wait" /\ timerDev \in Devices /\ todo = {} /\ copy = NoPair
  /\ out = [d \in Devices |-> NoPair]

-----------------------------------------------------------------------------
(* Faulty variants of some steps. *)

(* The map is not consulted: every message gets a new processor. *)
FindProcessorAlwaysNew ==
  /\ mainPc = "find" /\ mapLock = "none"
  /\ mainPc' = "put"
  /\ UNCHANGED <<mainDev, received, procs, mapLock, procLock, rawVars, dat,
                 timerVars, out>>

(* forEach stops after the first processor. *)
TickFirstOnly ==
  /\ timerPc = "wait" /\ mapLock = "none"
  /\ mapLock' = "timer" /\ timerPc' = "each"
  /\ todo' = IF procs = {} THEN {} ELSE {CHOOSE d \in procs : TRUE}
  /\ UNCHANGED <<mainVars, procs, procLock, rawVars, dat, timerDev, copy, out>>

(* getOutput does not take m_cs. *)
LockOutputUnlocked(d) ==
  /\ timerPc = "each" /\ d \in todo
  /\ todo' = todo \ {d} /\ timerDev' = d /\ copy' = NoPair /\ timerPc' = "take"
  /\ UNCHANGED <<mainVars, procs, mapLock, procLock, rawVars, dat, out>>

(* handleOutput ignores that getOutput returned false. *)
TakeNothingIgnored ==
  /\ timerPc = "take" /\ dat[timerDev].flag = 0
  /\ procLock' = [procLock EXCEPT ![timerDev] = "none"]
  /\ timerPc' = "publish"
  /\ UNCHANGED <<mainVars, procs, mapLock, rawVars, dat, timerDev, todo, copy, out>>

(* getOutput leaves dgnss_flag up. *)
TakeBdsKeepsFlag ==
  /\ timerPc = "takeBds"
  /\ copy' = [copy EXCEPT !.bds = dat[timerDev].bds]
  /\ procLock' = [procLock EXCEPT ![timerDev] = "none"]
  /\ timerPc' = "publish"
  /\ UNCHANGED <<mainVars, procs, mapLock, rawVars, dat, timerDev, todo, out>>

(* The timer thread keeps the map's lock over its pause. *)
EndTickKeepsMap ==
  /\ timerPc = "each" /\ todo = {}
  /\ todo' = procs
  /\ UNCHANGED <<mainVars, procs, mapLock, procLock, rawVars, dat, timerPc,
                 timerDev, copy, out>>
-----------------------------------------------------------------------------
(* The main thread. *)

(***************************************************************************)
(* run, handleCaptureMessage: a STATUS message (or one of another shape)   *)
(* is logged and forgotten; a DATA message goes to handleCaptureData.      *)
(***************************************************************************)
Receive(d, tag) ==
  /\ mainPc = "idle"
  /\ received < MaxMessages
  /\ received' = received + 1
  /\ mainDev' = d
  /\ mainPc' = IF tag = "data" THEN "find" ELSE "idle"
  /\ UNCHANGED <<procs, mapLock, procLock, rawVars, dat, timerVars, out>>

(* m_processorMap.find, a critical section of its own. *)
FindProcessor ==
  /\ mainPc = "find"
  /\ mapLock = "none"
  /\ mainPc' = IF mainDev \in procs THEN "lock" ELSE "put"
  /\ UNCHANGED <<mainDev, received, procs, mapLock, procLock, rawVars, dat,
                 timerVars, out>>

(***************************************************************************)
(* createDataProcessor and m_processorMap.put: a new raw_t, initialised by *)
(* AssistData_Init, replaces whatever the map held for the device.         *)
(***************************************************************************)
PutProcessor ==
  /\ mainPc = "put"
  /\ mapLock = "none"
  /\ procs' = procs \cup {mainDev}
  /\ time' = [time EXCEPT ![mainDev] = 0]
  /\ obs' = [obs EXCEPT ![mainDev] = {}]
  /\ first' = [first EXCEPT ![mainDev] = 0]
  /\ enc' = [enc EXCEPT ![mainDev] = NoPair]
  /\ dat' = [dat EXCEPT ![mainDev] = NoDat]
  /\ mainPc' = "lock"
  /\ UNCHANGED <<mainDev, received, mapLock, procLock, frames, timerVars, out>>

(* AssistDataProcessor::input enters m_cs ... *)
LockInput ==
  /\ mainPc = "lock"
  /\ procLock[mainDev] = "none"
  /\ procLock' = [procLock EXCEPT ![mainDev] = "main"]
  /\ mainPc' = "input"
  /\ UNCHANGED <<mainDev, received, procs, mapLock, rawVars, dat, timerVars, out>>

(***************************************************************************)
(* ... AssistData_Input completes frame f.  decode_oem4 rejects it on its  *)
(* CRC before touching anything; otherwise it sets raw->time, and for a    *)
(* RANGE of sufficient length decode_rangeb updates the table, raw2rtcm    *)
(* and gen_rtcm3 encode both systems.                                      *)
(***************************************************************************)
RejectFrame(f) ==
  /\ mainPc = "input" /\ f.kind # "range"
  /\ frames[mainDev] < MaxFrames
  /\ frames' = [frames EXCEPT ![mainDev] = @ + 1]
  /\ time' = [time EXCEPT ![mainDev] = IF f.kind = "badCrc" THEN @ ELSE f.time]
  /\ UNCHANGED <<mainVars, procs, mapLock, procLock, obs, first, enc, dat,
                 timerVars, out>>

DecodeFrame(f) ==
  /\ mainPc = "input" /\ f.kind = "range"
  /\ frames[mainDev] < MaxFrames
  /\ frames' = [frames EXCEPT ![mainDev] = @ + 1]
  /\ time' = [time EXCEPT ![mainDev] = f.time]
  /\ \E O \in DecodeRangeb(obs[mainDev], first[mainDev], f) :
       /\ obs' = [obs EXCEPT ![mainDev] = O]
       /\ first' = [first EXCEPT ![mainDev] = DecodeFirst(@, f)]
       /\ enc' = [enc EXCEPT ![mainDev] =
                    [gps |-> GpsMessage(O, f.time, frames[mainDev] + 1),
                     bds |-> BdsMessage(O, f.time, frames[mainDev] + 1)]]
       /\ mainPc' = IF BothSystems(O) THEN "flag" ELSE "input"
  /\ UNCHANGED <<mainDev, received, procs, mapLock, procLock, dat, timerVars, out>>

(* dgnss_flag = 1, then the copies of the reference station and the two     *)
(* messages, and the encoder buffers are cleared.                          *)
SetFlag ==
  /\ mainPc = "flag"
  /\ dat' = [dat EXCEPT ![mainDev].flag = 1]
  /\ mainPc' = "copyGps"
  /\ UNCHANGED <<mainDev, received, procs, mapLock, procLock, rawVars,
                 timerVars, out>>

CopyGps ==
  /\ mainPc = "copyGps"
  /\ dat' = [dat EXCEPT ![mainDev].gps = enc[mainDev].gps]
  /\ mainPc' = "copyBds"
  /\ UNCHANGED <<mainDev, received, procs, mapLock, procLock, rawVars,
                 timerVars, out>>

CopyBds ==
  /\ mainPc = "copyBds"
  /\ dat' = [dat EXCEPT ![mainDev].bds = enc[mainDev].bds]
  /\ enc' = [enc EXCEPT ![mainDev] = NoPair]
  /\ mainPc' = "input"
  /\ UNCHANGED <<mainDev, received, procs, mapLock, procLock, time, obs, first,
                 frames, timerVars, out>>

(* The end of the payload: input returns and releases m_cs. *)
UnlockInput ==
  /\ mainPc = "input"
  /\ procLock' = [procLock EXCEPT ![mainDev] = "none"]
  /\ mainPc' = "idle"
  /\ UNCHANGED <<mainDev, received, procs, mapLock, rawVars, dat, timerVars, out>>

-----------------------------------------------------------------------------
(* The timer thread. *)

(* onTimer calls forEach, which holds the map's m_cs until it returns. *)
Tick ==
  /\ timerPc = "wait"
  /\ mapLock = "none"
  /\ mapLock' = "timer"
  /\ todo' = procs
  /\ timerPc' = "each"
  /\ UNCHANGED <<mainVars, procs, procLock, rawVars, dat, timerDev, copy, out>>

(* handleOutput clears its DgnssDatAll; getOutput enters the processor's m_cs. *)
LockOutput(d) ==
  /\ timerPc = "each"
  /\ d \in todo
  /\ procLock[d] = "none"
  /\ procLock' = [procLock EXCEPT ![d] = "timer"]
  /\ todo' = todo \ {d}
  /\ timerDev' = d
  /\ copy' = NoPair
  /\ timerPc' = "take"
  /\ UNCHANGED <<mainVars, procs, mapLock, rawVars, dat, out>>

(* getOutput returns false: nothing new for this device. *)
TakeNothing ==
  /\ timerPc = "take"
  /\ dat[timerDev].flag = 0
  /\ procLock' = [procLock EXCEPT ![timerDev] = "none"]
  /\ timerPc' = "each"
  /\ UNCHANGED <<mainVars, procs, mapLock, rawVars, dat, timerDev, todo, copy, out>>

TakeGps ==
  /\ timerPc = "take"
  /\ dat[timerDev].flag # 0
  /\ copy' = [copy EXCEPT !.gps = dat[timerDev].gps]
  /\ timerPc' = "takeBds"
  /\ UNCHANGED <<mainVars, procs, mapLock, procLock, rawVars, dat, timerDev,
                 todo, out>>

TakeBds ==
  /\ timerPc = "takeBds"
  /\ copy' = [copy EXCEPT !.bds = dat[timerDev].bds]
  /\ dat' = [dat EXCEPT ![timerDev].flag = 0]
  /\ procLock' = [procLock EXCEPT ![timerDev] = "none"]
  /\ timerPc' = "publish"
  /\ UNCHANGED <<mainVars, procs, mapLock, rawVars, timerDev, todo, out>>

(* publish: the processor's m_cs is free again, the map's is still held. *)
Publish ==
  /\ timerPc = "publish"
  /\ out' = [out EXCEPT ![timerDev] = copy]
  /\ timerPc' = "each"
  /\ UNCHANGED <<mainVars, procs, mapLock, procLock, rawVars, dat, timerDev,
                 todo, copy>>

EndTick ==
  /\ timerPc = "each"
  /\ todo = {}
  /\ mapLock' = "none"
  /\ timerPc' = "wait"
  /\ UNCHANGED <<mainVars, procs, procLock, rawVars, dat, timerDev, todo, copy, out>>

-----------------------------------------------------------------------------
Main ==
  \/ \E d \in Devices, tag \in {"status", "data"} : Receive(d, tag)
  \/ FindProcessor \/ PutProcessor \/ LockInput
  \/ \E f \in Frames : RejectFrame(f) \/ DecodeFrame(f)
  \/ SetFlag \/ CopyGps \/ CopyBds \/ UnlockInput

Timer ==
  \/ Tick \/ EndTick
  \/ \E d \in Devices : LockOutput(d)
  \/ TakeNothing \/ TakeGps \/ TakeBds \/ Publish

Next == Main \/ Timer

Spec == Init /\ [][Next]_vars

(***************************************************************************)
(* Both threads keep running; the captures need not send anything.  The    *)
(* acquisitions of a lock are strongly fair: the timer thread lets go of   *)
(* the map for 3 s between two ticks, and the main thread leaves input     *)
(* whenever the payload ends.                                              *)
(***************************************************************************)
Fairness ==
  /\ SF_vars(FindProcessor) /\ SF_vars(PutProcessor) /\ SF_vars(LockInput)
  /\ WF_vars(SetFlag \/ CopyGps \/ CopyBds) /\ WF_vars(UnlockInput)
  /\ WF_vars(Tick) /\ WF_vars(EndTick)
  /\ \A d \in Devices : SF_vars(LockOutput(d))
  /\ WF_vars(TakeNothing \/ TakeGps \/ TakeBds \/ Publish)

FairSpec == Spec /\ Fairness
-----------------------------------------------------------------------------
MessageSet == [type : {0, 1074, 1124}, time : 0..MaxEpoch, sync : {0, 1},
               obs : SUBSET Observations, seq : 0..MaxFrames]
Pairs == [gps : MessageSet, bds : MessageSet]

(* The values the variables range over. *)
TypeOK ==
  /\ mainPc \in {"idle", "find", "put", "lock", "input", "flag", "copyGps", "copyBds"}
  /\ mainDev \in Devices
  /\ received \in 0..MaxMessages
  /\ procs \subseteq Devices
  /\ mapLock \in {"none", "timer"}
  /\ procLock \in [Devices -> Holders]
  /\ time \in [Devices -> 0..MaxEpoch]
  /\ obs \in [Devices -> SUBSET Observations]
  /\ first \in [Devices -> 0..MaxEpoch]
  /\ frames \in [Devices -> 0..MaxFrames]
  /\ enc \in [Devices -> Pairs]
  /\ dat \in [Devices -> [flag : {0, 1}, gps : MessageSet, bds : MessageSet]]
  /\ timerPc \in {"wait", "each", "take", "takeBds", "publish"}
  /\ timerDev \in Devices
  /\ todo \subseteq Devices
  /\ copy \in Pairs
  /\ out \in [Devices -> Pairs]

(***************************************************************************)
(* A correction is whole when its two messages were encoded from the same  *)
(* range frame, carry the same epoch, both have observations, and every    *)
(* observation in them was measured at that epoch.                         *)
(***************************************************************************)
Whole(c) ==
  /\ c.gps.seq = c.bds.seq
  /\ c.gps.time = c.bds.time
  /\ c.gps.obs # {} /\ c.bds.obs # {}
  /\ \A o \in c.gps.obs \cup c.bds.obs : o.time = c.gps.time /\ o.meas = c.gps.time

(***************************************************************************)
(* What is published is whole: decode_rangeb never leaves observations of  *)
(* two epochs in one table, and no timer tick reads dgnssDat while         *)
(* AssistData_Input is filling it.                                         *)
(***************************************************************************)
PublishedWhole == \A d \in Devices : out[d] = NoPair \/ Whole(out[d])

(***************************************************************************)
(* A device's corrections leave in the order of the frames they were made  *)
(* of and none leaves twice: handleOutput publishes only what getOutput    *)
(* moved out under the lock, clearing dgnss_flag.                          *)
(***************************************************************************)
PublishedInOrder ==
  [][\A d \in Devices : out'[d] # out[d] => out'[d].gps.seq > out[d].gps.seq]_out

(* The table of observations never outgrows the MAXOBS entries allocated. *)
TableFits == \A d \in Devices : Cardinality(obs[d]) <= MAXOBS

(***************************************************************************)
(* A processor the timer thread may be working on is never replaced: put   *)
(* finds no older processor of the device, so that no correction that is   *)
(* ready to go is dropped with it.                                         *)
(***************************************************************************)
ReadyLeavesTaken ==
  [][\A d \in Devices : dat[d].flag = 1 /\ dat'[d].flag = 0
                          => timerPc = "takeBds" /\ timerDev = d]_vars

(***************************************************************************)
(* A correction that is ready is published, or a newer one of the device   *)
(* is: the timer thread reaches every processor (onTimer).                 *)
(***************************************************************************)
ReadyIsPublished ==
  \A d \in Devices, n \in 1..MaxFrames :
    (dat[d].flag = 1 /\ dat[d].gps.seq = n) ~> (out[d].gps.seq >= n)

(***************************************************************************)
(* A message that was received is handled to its end: neither thread waits *)
(* for ever for the map's lock or a processor's, although forEach holds    *)
(* the first while getOutput takes the second.                             *)
(***************************************************************************)
MessageIsHandled == (mainPc # "idle") ~> (mainPc = "idle")

(***************************************************************************)
(* The comment of gen_rtcm3 (AssistData.c:2139) says of its argument:       *)
(* "sync flag (1:another message follows)".  In a published correction the *)
(* GPS message comes first and the BeiDou message, the last one, second.   *)
(***************************************************************************)
SyncAnnouncesNext ==
  \A d \in Devices : out[d] # NoPair => out[d].gps.sync = 1 /\ out[d].bds.sync = 0

-----------------------------------------------------------------------------
(* The server implements the mailbox.  A correction is posted when its flag *)
(* goes up and taken when it goes down.                                     *)
Filling(d) == mainDev = d /\ mainPc \in {"copyGps", "copyBds"}
NewestSeq(d) == IF Filling(d) THEN enc[d].gps.seq ELSE dat[d].gps.seq

Mailbox == INSTANCE CorrectionMailbox WITH
  MaxSerial <- MaxFrames,
  posted <- [d \in Devices |-> NewestSeq(d)],
  slot <- [d \in Devices |-> IF dat[d].flag = 0 THEN 0 ELSE NewestSeq(d)],
  taken <- [d \in Devices |-> IF timerPc = "publish" /\ timerDev = d
                              THEN copy.gps.seq ELSE out[d].gps.seq]

(* Every step of the server posts, takes or leaves the mailboxes alone. *)
ImplementsMailbox == Mailbox!Spec
(* ... and what is posted is eventually taken. *)
ImplementsFairMailbox == Mailbox!FairSpec

(* Corrections leave in the order of their frames, once each, and only the *)
(* timer thread takes them (handleOutput, getOutput).                      *)
CorrectionsInTurn == PublishedInOrder /\ ReadyLeavesTaken

(* What is ready is published, and what is received handled to its end.    *)
ServerGoesOn == ReadyIsPublished /\ MessageIsHandled
=============================================================================
