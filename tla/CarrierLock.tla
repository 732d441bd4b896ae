----------------------------- MODULE CarrierLock -----------------------------
(***************************************************************************)
(* What a rover is told of the continuity of a carrier phase: the signal   *)
(* of one satellite on its way through decode_rangeb, which compares the   *)
(* receiver's lock time with the one it remembers, and gen_msm_sig, which  *)
(* keeps the offset subtracted from the phase and the time it was chosen.  *)
(*                                                                         *)
(* The receiver loses the signal and finds it again at any moment; a frame *)
(* may be lost on the way, or be decoded without the satellite in it.      *)
(* Time is a number of ticks of the receiver's clock.  Satellites do not   *)
(* influence each other as long as the table has room (AssistData models   *)
(* the table).  The code and Doppler measurements, the parity bit and bit  *)
(* 1 of LLI, which follows it, are left out.                               *)
(***************************************************************************)
EXTENDS Integers

CONSTANTS
  Tolerance,   \* the 0.05 s of decode_rangeb, in ticks
  Gap,         \* a receiver sends its range frames at least so far apart
  MaxTime      \* bound: last moment

ASSUME LockAssumption ==
  /\ Tolerance \in Nat \ {0} /\ Gap \in Nat /\ MaxTime \in Nat
  /\ Tolerance <= Gap

VARIABLES
  now,         \* the receiver's clock
  since,       \* when the receiver's present lock began; -1 while it has none
  half,        \* its half-cycle flag
  far,         \* whether the phase is more than 1171 m from cp
  tobs,        \* rawData->tobs: the range frame decoded last; -1 for none
  lockt,       \* rawData->lockt: lock time in the satellite's last observation
  halfc,       \* rawData->halfc: its half-cycle flag
  ob,          \* the satellite's entry in rawData->obs
  cp,          \* rtcm->cp: "zero", or "set" to a multiple of the wavelength
  lltime,      \* rtcm->lltime; -1 for 0
  cell,        \* what the message encoded last says of the satellite
  seenAt       \* when the satellite was observed last; -1 for never

receiverVars == <<now, since, half>>
rawVars == <<tobs, lockt, halfc, ob, seenAt>>
rtcmVars == <<cp, lltime, cell>>
lockVars == <<receiverVars, far, rawVars, rtcmVars>>

Moments == 0..MaxTime
NoOb == [time |-> -1, phase |-> FALSE, lli |-> FALSE]
NoCell == [phase |-> FALSE, lock |-> 0]

LockInit ==
  /\ now = 0 /\ since = -1 /\ half = FALSE
  /\ far \in BOOLEAN
  /\ tobs = -1 /\ lockt = 0 /\ halfc = FALSE /\ ob = NoOb /\ seenAt = -1
  /\ cp = "zero" /\ lltime = -1 /\ cell = NoCell

-----------------------------------------------------------------------------
(* The receiver. *)

Tick ==
  /\ now < MaxTime
  /\ now' = now + 1
  /\ UNCHANGED <<since, half, far, rawVars, rtcmVars>>

(* A phase that is not tracked is encoded as 0, as far from cp as cp is from 0. *)
Lose ==
  /\ since # -1
  /\ since' = -1
  /\ far' \in IF cp = "zero" THEN {FALSE} ELSE BOOLEAN
  /\ UNCHANGED <<now, half, rawVars, rtcmVars>>

(* A lock begins with an ambiguity, and a half-cycle flag, of its own. *)
Acquire ==
  /\ since = -1
  /\ since' = now
  /\ half' \in BOOLEAN /\ far' \in BOOLEAN
  /\ UNCHANGED <<now, rawVars, rtcmVars>>

(* The receiver resolves the half cycle within a lock, *)
Resolve ==
  /\ since # -1
  /\ half' = ~half
  /\ UNCHANGED <<now, since, far, rawVars, rtcmVars>>

(* and code and phase drift apart. *)
Drift ==
  /\ since # -1 /\ ~far
  /\ far' = TRUE
  /\ UNCHANGED <<receiverVars, rawVars, rtcmVars>>

(* The lock time and the phase-lock flag it sends. *)
SentLock == IF since = -1 THEN 0 ELSE now - since
PhaseLock == since # -1
-----------------------------------------------------------------------------
(* decode_rangeb. *)

(* Faulty variants: a slip is a lock time that went back; no tolerance.    *)
SlippedBack(lock) == lock < lockt \/ half # halfc
SlippedEarly(lock) == tobs # -1 /\ (lock - lockt <= now - tobs \/ half # halfc)

(* The loss-of-lock bit: the lock has grown less than the time since tobs. *)
Slipped(lock) ==
  tobs # -1 /\ (lock - lockt + Tolerance <= now - tobs \/ half # halfc)

(* The range frame holds the satellite, *)
ObserveIt ==
  /\ lockt' = SentLock /\ halfc' = half
  /\ ob' = [time |-> now, phase |-> PhaseLock, lli |-> Slipped(SentLock)]
  /\ seenAt' = now

(* others only, whose first one clears the table of the last epoch, *)
ObserveOthers == ob' = NoOb /\ UNCHANGED <<lockt, halfc, seenAt>>

(* or nothing that can be used. *)
ObserveNothing == UNCHANGED <<lockt, halfc, ob, seenAt>>

-----------------------------------------------------------------------------
(* gen_msm_sig, for the entry o of the table. *)

(* A faulty variant: the loss-of-lock bit is not looked at. *)
OffsetFarOnly(o, d) == d

(* The offset is chosen anew, to the nearest cycle, *)
OffsetChosen(o, d) == o.lli \/ d

(* A faulty variant: lltime is not set by the first observation. *)
LocktimeUnset(o, reset) == IF reset THEN o.time ELSE lltime

(* and locktime starts from there. *)
Locktime(o, reset) == IF lltime = -1 \/ reset THEN o.time ELSE lltime

GenMsmSig(o, d) ==
  IF o = NoOb THEN cell' = NoCell /\ UNCHANGED <<cp, lltime>>
  ELSE LET reset == OffsetChosen(o, d) IN
       /\ cp' = IF reset THEN IF o.phase THEN "set" ELSE "zero" ELSE cp
       /\ lltime' = Locktime(o, reset)
       /\ cell' = [phase |-> o.phase \/ cp' = "set", lock |-> o.time - lltime']

(* Phase and offset agree again once the offset has been chosen. *)
LockFrame(Observe) ==
  /\ tobs = -1 \/ now - tobs >= Gap
  /\ Observe
  /\ tobs' = now
  /\ UNCHANGED receiverVars

FrameWithIt ==
  /\ LockFrame(ObserveIt)
  /\ GenMsmSig(ob', far)
  /\ far' = FALSE

FrameWithOthers == LockFrame(ObserveOthers) /\ GenMsmSig(ob', FALSE) /\ UNCHANGED far

(* The entry of an earlier frame is encoded again, with the phase it had. *)
FrameWithNothing == LockFrame(ObserveNothing) /\ GenMsmSig(ob', FALSE) /\ UNCHANGED far

LockNext ==
  \/ Tick \/ Lose \/ Acquire \/ Resolve \/ Drift
  \/ FrameWithIt \/ FrameWithOthers \/ FrameWithNothing

LockSpec == LockInit /\ [][LockNext]_lockVars
-----------------------------------------------------------------------------
(* The values the variables range over. *)
LockTypeOK ==
  /\ now \in Moments /\ since \in Moments \cup {-1}
  /\ half \in BOOLEAN /\ far \in BOOLEAN
  /\ tobs \in Moments \cup {-1} /\ seenAt \in Moments \cup {-1}
  /\ lockt \in Moments /\ halfc \in BOOLEAN
  /\ ob \in [time : Moments \cup {-1}, phase : BOOLEAN, lli : BOOLEAN]
  /\ cp \in {"zero", "set"} /\ lltime \in Moments \cup {-1}
  /\ cell \in [phase : BOOLEAN, lock : Moments]

(***************************************************************************)
(* A rover never gets a phase range from a signal that was not locked:     *)
(* gen_msm_sig subtracts cp from a phase of 0 too, so that a cp left from  *)
(* an earlier lock would be sent, negated, as a measurement.               *)
(***************************************************************************)
NoPhaseWithoutLock == cell.phase => ob.phase

(***************************************************************************)
(* A lock that began after the range frame decoded last, or a half-cycle   *)
(* flag that differs from the last observation's, starts the lock time     *)
(* again, however many frames were lost in between.                        *)
(***************************************************************************)
SlipResets ==
  [][FrameWithIt /\ since # -1 /\ (since >= tobs + Tolerance \/ half # halfc)
       => lltime' = now \/ tobs = -1]_lockVars

(***************************************************************************)
(* A lock that has lasted since the last observation, with phase and       *)
(* offset near each other, is not reported as lost: frames that are lost   *)
(* or do not hold the satellite do not end it.                             *)
(***************************************************************************)
LockIsKept ==
  [][FrameWithIt /\ since # -1 /\ since < seenAt /\ half = halfc /\ ~far
       => UNCHANGED lltime]_lockVars

(***************************************************************************)
(* AssistData.h:224 calls LLI "loss of lock indicator": when the signal    *)
(* was locked in the satellite's last observation and is locked in this    *)
(* one, but not by the same lock, the observation says so.                 *)
(***************************************************************************)
LossIsIndicated ==
  [][FrameWithIt /\ since # -1 /\ seenAt # -1 /\ lockt > 0 /\ since > seenAt + Tolerance
       => ob'.lli]_lockVars

(***************************************************************************)
(* What decode_rangeb remembers of a signal: its lock time fits a lock     *)
(* that has lasted, and the frame decoded last is not older than the       *)
(* satellite's last observation.                                           *)
(***************************************************************************)
MemoryInv ==
  /\ since <= now /\ tobs <= now /\ seenAt <= tobs
  /\ since # -1 /\ since < seenAt => lockt = seenAt - since
  /\ seenAt # -1 => lltime # -1
  /\ lltime <= seenAt
  /\ ob # NoOb => ob.time = seenAt /\ seenAt # -1

(* An offset outlives neither the lock it was chosen in nor the table. *)
OffsetInv ==
  /\ tobs = -1 => cp = "zero" /\ ob = NoOb
  /\ ob # NoOb /\ ~ob.phase => cp = "zero"
  /\ NoPhaseWithoutLock

LockInv == LockTypeOK /\ MemoryInv /\ OffsetInv

(* The lock time a rover is told starts again with a slip, and only then   *)
(* (decode_rangeb, gen_msm_sig).                                           *)
LockTimesTell == SlipResets /\ LockIsKept
=============================================================================
