----------------------------- MODULE AssistData -----------------------------
(***************************************************************************)
(* The epoch assembly of AgnssServer/AssistData.c, as operators.           *)
(*                                                                         *)
(* A raw_t decodes the byte stream of one device.  Each OEM4 RANGE frame   *)
(* that passes its CRC contributes observations to raw->obs; raw2rtcm      *)
(* splits them by satellite system and gen_rtcm3 encodes one MSM4 message  *)
(* per system.  A frame is abstracted to its kind, its epoch and the       *)
(* satellites it observes; an encoded message to its type, the epoch in    *)
(* its header, its multiple-message bit, the observations it was made of   *)
(* and the number of the range frame that produced it.                     *)
(*                                                                         *)
(* Where the order of the observations inside a frame would matter (the    *)
(* table is full) the operators return the set of possible results.        *)
(***************************************************************************)
EXTENDS Integers, FiniteSets

CONSTANTS
  GpsSats,     \* GPS satellites (satno 1..32)
  BdsSats,     \* BeiDou satellites (satno 84..120)
  OtherSats,   \* satellites or signals that decode_rangeb skips
  MAXOBS,      \* capacity of raw->obs.data (64 in AssistData.h)
  MaxEpoch     \* bound: last epoch a receiver reports

ASSUME SatsAssumption ==
  /\ GpsSats \cap BdsSats = {}
  /\ OtherSats \cap (GpsSats \cup BdsSats) = {}
  /\ IsFiniteSet(GpsSats) /\ IsFiniteSet(BdsSats)
ASSUME MaxObsAssumption == MAXOBS \in Nat \ {0}
ASSUME MaxEpochAssumption == MaxEpoch \in Nat \ {0}

UsableSats == GpsSats \cup BdsSats
Epochs == 1..MaxEpoch

(***************************************************************************)
(* What decode_oem4 distinguishes in a complete frame: a CRC mismatch, a   *)
(* log that is not a binary RANGE, a RANGE shorter than its observation    *)
(* count says, and a well-formed RANGE.                                    *)
(***************************************************************************)
FrameKinds == {"badCrc", "otherLog", "tooShort", "range"}
Frames == [kind : FrameKinds, time : Epochs,
           sats : SUBSET (UsableSats \cup OtherSats)]

(***************************************************************************)
(* An entry of raw->obs.data: obsindex stamps the time once, when it       *)
(* allocates the entry; decode_rangeb writes the measurement every time,   *)
(* so "meas", the epoch the measurement was taken at, is a field of its    *)
(* own.                                                                    *)
(***************************************************************************)
Observations == [sat : UsableSats, time : Epochs, meas : Epochs]
Sats(O) == {o.sat : o \in O}

(* decode_rangeb appends an entry per satellite of N ... *)
Appended(N, t) == {[sat |-> s, time |-> t, meas |-> t] : s \in N}
(* ... and writes new measurements into the entries of the satellites of K. *)
Remeasured(O, K, t) == {IF o.sat \in K THEN [o EXCEPT !.meas = t] ELSE o : o \in O}

(* A faulty variant: the table never fills. *)
ObsindexUnbounded(O, t, S) ==
  {Remeasured(O, S, t) \cup Appended(S \ Sats(O), t)}

(***************************************************************************)
(* obsindex for all the usable satellites S of a frame of epoch t, on the  *)
(* table O: nothing is found or allocated once the table holds MAXOBS      *)
(* entries, a known satellite keeps its entry and its time stamp, a new    *)
(* one is appended.  Which ones fit depends on the order in the frame.     *)
(***************************************************************************)
Obsindex(O, t, S) ==
  LET room  == MAXOBS - Cardinality(O)
      fresh == S \ Sats(O)
  IN IF room <= 0 THEN {O}
     ELSE IF Cardinality(fresh) < room
          THEN {Remeasured(O, S, t) \cup Appended(fresh, t)}
          ELSE {Remeasured(O, K, t) \cup Appended(N, t) :
                  K \in SUBSET (S \cap Sats(O)),
                  N \in {M \in SUBSET fresh : Cardinality(M) = room}}

(* Faulty variants: no filter on satellites and signals; no epoch test. *)
DecodeRangebUnfiltered(O, first, f) ==
  IF f.sats = {} THEN {O}
  ELSE Obsindex(IF first # f.time THEN {} ELSE O, f.time, f.sats)

DecodeRangebNoReset(O, first, f) == Obsindex(O, f.time, f.sats \cap UsableSats)

(***************************************************************************)
(* decode_rangeb on the table O whose entry 0 carries the time "first":    *)
(* the epoch test is made per usable observation, so a frame without any   *)
(* leaves the table of the previous epoch in place.                        *)
(***************************************************************************)
DecodeRangeb(O, first, f) ==
  LET S == f.sats \cap UsableSats
  IN IF S = {} THEN {O}
     ELSE Obsindex(IF first # f.time THEN {} ELSE O, f.time, S)

DecodeFirst(first, f) == IF f.sats \cap UsableSats = {} THEN first ELSE f.time

(***************************************************************************)
(* raw2rtcm for one system: the observations of that system, under the     *)
(* time of the last one, or of the frame when there is none.               *)
(***************************************************************************)
OfSystem(O, Sys) == {o \in O : o.sat \in Sys}
RtcmTime(O, t) == IF O = {} THEN t ELSE (CHOOSE o \in O : TRUE).time

(***************************************************************************)
(* gen_rtcm3: the two messages of a frame.  AssistData_Input passes        *)
(* sync = 0 for 1074 and sync = 1 for 1124.                                *)
(***************************************************************************)
GpsMessage(O, t, n) ==
  LET G == OfSystem(O, GpsSats)
  IN [type |-> 1074, time |-> RtcmTime(G, t), sync |-> 0, obs |-> G, seq |-> n]
BdsMessage(O, t, n) ==
  LET B == OfSystem(O, BdsSats)
  IN [type |-> 1124, time |-> RtcmTime(B, t), sync |-> 1, obs |-> B, seq |-> n]

(* The test of AssistData_Input before it fills dgnssDat. *)
BothSystems(O) == OfSystem(O, GpsSats) # {} /\ OfSystem(O, BdsSats) # {}
=============================================================================
