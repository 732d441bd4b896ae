------------------------------ MODULE MsmLayout ------------------------------
(* The messages of AssistData.c, bit by bit: a range frame becomes the message *)
(* of the reference station and, per system, an MSM4 message. Ranges are whole *)
(* numbers of the unit of the fine phase range, 2^-MlPhase ms.                 *)
EXTENDS Integers, Sequences, SequencesExt, FiniteSets, FiniteSetsExt

CONSTANTS
  MlSats, MlSigs,   \* widths of the satellite and signal masks (64 and 32)
  MlInt,            \* bits of the rough range in ms (8)
  MlRough, MlCode, MlPhase,   \* resolutions: ranges 2^-MlRough ms (10), 2^-MlCode (24), 2^-MlPhase (29)
  MlNear,           \* a phase range is at most 2^-MlNear ms off the rough range (8: 1171 m)
  MlLambda,         \* the wavelength
  MlWord,           \* bits of a word (32)
  MlStation,        \* coordinates of the reference station
  MlMoments,        \* bound: moments at which frames come
  MlFrames          \* bound: what a frame observes, [satellite -> observation]

ASSUME MsmAssumption ==
  /\ {MlSats, MlSigs, MlInt, MlRough, MlCode, MlPhase, MlNear, MlLambda, MlWord} \subseteq Nat \ {0}
  /\ MlNear < MlRough /\ MlRough < MlCode /\ MlCode <= MlPhase

VARIABLES
  mlSys,         \* the system: "GPS" or "CMP"
  mlTime,        \* rtcm->time
  mlStart,       \* rtcm->time_s; 0 before the first message
  mlTable,       \* rtcm->obs: [satellite -> observation]
  mlCp,          \* rtcm->cp: [satellite -> offset]
  mlLltime,      \* rtcm->lltime: [satellite -> time]; 0 for none
  mlSent         \* the last message: its bits, and those its parity is of

mlVars == <<mlSys, mlTime, mlStart, mlTable, mlCp, mlLltime, mlSent>>

Calendar == INSTANCE GpsTime WITH gtTime <- mlTime, GtStep <- 1, GtEnd <- 0, GtSkews <- {}

MlMs == 2^MlPhase
MlAbs(x) == IF x < 0 THEN -x ELSE x
\* ROUND: to the nearest, halves up.
MlNearest(a, b) == (2 * a + b) \div (2 * b)

\* satno numbers the satellites system by system; satsys and to_satid find them again.
\* BeiDou's PRNs begin at 161.
\* A faulty variant of the first number: no room is left for the systems in between.
MlFirstSatPacked(sys) == IF sys = "GPS" THEN 1 ELSE 33
MlFirstSat(sys) == IF sys = "GPS" THEN 1 ELSE 84
MlFirstPrn(sys) == IF sys = "GPS" THEN 1 ELSE 161
MlCount(sys) == IF sys = "GPS" THEN 32 ELSE 37
MlSatno(sys, prn) ==
  IF prn - MlFirstPrn(sys) \in 0..(MlCount(sys) - 1) THEN MlFirstSat(sys) + prn - MlFirstPrn(sys) ELSE 0
MlSatid(sys, sat) ==
  IF sat - MlFirstSat(sys) \in 0..(MlCount(sys) - 1) THEN sat - MlFirstSat(sys) + 1 ELSE 0

\* to_sigid: L1C of GPS and B1I of BeiDou are both the second of their table.
MlSigid == 2

-----------------------------------------------------------------------------
(* Bits *)

\* setbitu and setbits write the bits of a field after those before.
MlBits(n, v) == [i \in 1..n |-> (v \div 2^(n - i)) % 2]
\* A faulty variant: the sign is lost.
MlSignedPlain(n, v) == MlBits(n, MlAbs(v))
MlSigned(n, v) == <<IF v < 0 THEN 1 ELSE 0>> \o MlBits(n - 1, v % 2^(n - 1))
MlMask(n, set) == [i \in 1..n |-> IF i \in set THEN 1 ELSE 0]
MlJoin(fields) == FlattenSeq(fields)

\* getbitu and getbits.
MlGet(bits, pos, n) ==
  LET v[i \in 0..n] == IF i = 0 THEN 0 ELSE 2 * v[i - 1] + bits[pos + i] IN v[n]
MlGetSigned(bits, pos, n) == MlGet(bits, pos + 1, n - 1) - bits[pos + 1] * 2^(n - 1)

\* A faulty variant: the parity is computed before the length is known.
MlGenRtcm3Early(body) ==
  LET padded == body \o [i \in 1..((-Len(body)) % 8) |-> 0]
      head == MlBits(8, 211) \o MlBits(6, 0)
  IN [bits |-> head \o MlBits(10, Len(padded) \div 8) \o padded, crc |-> head \o MlBits(10, 0) \o padded]

\* gen_rtcm3 around an encoded body: preamble, length and padding, and the parity of all,
\* of which only matters what it was computed of.
MlGenRtcm3(body) ==
  LET padded == body \o [i \in 1..((-Len(body)) % 8) |-> 0]
      msg == MlBits(8, 211) \o MlBits(6, 0) \o MlBits(10, Len(padded) \div 8) \o padded
  IN [bits |-> msg, crc |-> msg]

-----------------------------------------------------------------------------
(* encode_type1005 *)

\* set38bits: a high word and six bits.
MlSet38(v) == MlSigned(MlWord, v \div 64) \o MlBits(6, v % 64)
MlType1005 ==
  MlGenRtcm3(MlBits(12, 1005) \o MlBits(12, 0) \o MlBits(6, 0) \o <<1, 1, 0, 0>> \o MlSet38(MlStation[1])
             \o <<1, 0>> \o MlSet38(MlStation[2]) \o <<0, 0>> \o MlSet38(MlStation[3]))

-----------------------------------------------------------------------------
(* encode_msm4 *)

\* gen_msm_sat: the rough range of an observation, 0 when it has no code range.
MlRrng(ob) == LET unit == 2^(MlPhase - MlRough) IN MlNearest(ob.P, unit) * unit

\* gen_msm_sig: the fine ranges, and the offset that is subtracted from the phase.
MlPsrng(ob) == IF ob.P = 0 THEN 0 ELSE ob.P - MlRrng(ob)
MlPhrng(ob) == IF ob.L = 0 THEN 0 ELSE ob.L * MlLambda - MlRrng(ob)
MlFar(x) == MlAbs(x) >= 2^(MlPhase - MlNear)
\* A faulty variant: a new offset does not restart the lock time.
MlRestartsOnSlip(ob, cp) == ob.lli
MlNewOffset(ob, cp) == ob.lli \/ MlFar(MlPhrng(ob) - cp)
MlRestarts(ob, cp) == MlNewOffset(ob, cp)
MlOffset(ob, cp) == IF MlNewOffset(ob, cp) THEN MlNearest(MlPhrng(ob), MlLambda) * MlLambda ELSE cp
MlLocktime(t, last, restart) == IF last = 0 \/ restart THEN t ELSE last

\* to_lock and to_msm_lock.
MlToLock(lock) ==
  CASE lock < 24 -> lock
    [] lock < 72 /\ lock >= 24 -> (lock + 24) \div 2
    [] lock < 168 /\ lock >= 72 -> (lock + 120) \div 4
    [] lock < 360 /\ lock >= 168 -> (lock + 408) \div 8
    [] lock < 744 /\ lock >= 360 -> (lock + 1176) \div 16
    [] lock < 937 /\ lock >= 744 -> (lock + 3096) \div 32
    [] OTHER -> 127
MlToMsmLock(lock) == Cardinality({i \in 5..19 : lock >= 2^i})

\* encode_msm_int_rrng and encode_msm_mod_rrng.
MlInRange(rrng) == rrng > 0 /\ rrng <= (2^MlInt - 1) * MlMs
MlRoughUnits(rrng) == rrng \div 2^(MlPhase - MlRough)
MlIntRrng(rrng) == MlBits(MlInt, IF MlInRange(rrng) THEN MlRoughUnits(rrng) \div 2^MlRough ELSE 2^MlInt - 1)
MlModRrng(rrng) == MlBits(MlRough, IF MlInRange(rrng) THEN MlRoughUnits(rrng) % 2^MlRough ELSE 0)

\* encode_msm_psrng and encode_msm_phrng: the least value stands for none.
MlCodeBits == MlCode - MlRough + 1
MlPhaseBits == MlPhase - MlNear + 1
MlPsrngBits(x) ==
  MlSigned(MlCodeBits, IF x = 0 \/ MlAbs(x) >= 2^(MlPhase - MlRough) THEN -2^(MlCodeBits - 1)
                       ELSE MlNearest(x, 2^(MlPhase - MlCode)))
MlPhrngBits(x) == MlSigned(MlPhaseBits, IF x = 0 \/ MlFar(x) THEN -2^(MlPhaseBits - 1) ELSE x)

\* encode_msm_lock, encode_msm_half_amb and encode_msm_cnr, in dBHz of the quarters of SNR.
MlLockBits(lock) == MlBits(4, MlToMsmLock(lock))
MlHalfBits(ob) == <<ob.half>>
MlCnrBits(ob) == MlBits(6, MlNearest(ob.snr, 4) % 64)

\* The epoch of the header: GPS time, or BeiDou's, of the week.
MlEpoch(sys, t) == Calendar!GtTow(IF sys = "CMP" THEN Calendar!GtGpsToBdt(t) ELSE t) * 1000

\* encode_msm_head: fields and masks; every satellite has the one signal, so that the
\* cell mask is as long as the satellite list.
MlHead(sys, t, session, sats) ==
  MlBits(12, IF sys = "GPS" THEN 1074 ELSE 1124) \o MlBits(12, 0) \o MlBits(30, MlEpoch(sys, t))
  \o <<IF sys = "GPS" THEN 0 ELSE 1>> \o MlBits(3, 0) \o MlBits(7, MlToLock(session)) \o MlBits(8, 0)
  \o MlMask(MlSats, sats) \o MlMask(MlSigs, IF sats = {} THEN {} ELSE {MlSigid})
  \o [i \in 1..Cardinality(sats) |-> 1]

\* gen_msm_index: with one signal for all, the cells are the satellites, in their order.
MlIndex(table) == SetToSortSeq(DOMAIN table, <)

\* encode_msm4 of a table, with the offsets and lock times that gen_msm_sig left.
MlEncodeMsm4(sys, t, session, table, cp, lltime) ==
  LET sats == MlIndex(table)
      Each(field(_)) == MlJoin([j \in DOMAIN sats |-> field(sats[j])])
  IN MlHead(sys, t, session, DOMAIN table)
     \o Each(LAMBDA s : MlIntRrng(MlRrng(table[s])))
     \o Each(LAMBDA s : MlModRrng(MlRrng(table[s])))
     \o Each(LAMBDA s : MlPsrngBits(MlPsrng(table[s])))
     \o Each(LAMBDA s : MlPhrngBits(MlPhrng(table[s]) - cp[s]))
     \o Each(LAMBDA s : MlLockBits(t - lltime[s]))
     \o Each(LAMBDA s : MlHalfBits(table[s]))
     \o Each(LAMBDA s : MlCnrBits(table[s]))

MlInit ==
  /\ mlSys \in {"GPS", "CMP"} /\ mlTime = 0 /\ mlStart = 0
  /\ mlTable = << >> /\ mlSent = [bits |-> <<>>, crc |-> <<>>]
  /\ mlCp = [s \in 1..MlSats |-> 0] /\ mlLltime = [s \in 1..MlSats |-> 0]

\* A frame is encoded: the offsets and lock times of the satellites it holds change.
MlFrame(t, table) ==
  /\ t > mlTime
  /\ mlTime' = t /\ mlTable' = table
  /\ mlStart' = MlLocktime(t, mlStart, FALSE)
  /\ mlCp' = [s \in 1..MlSats |-> IF s \in DOMAIN table THEN MlOffset(table[s], mlCp[s]) ELSE mlCp[s]]
  /\ mlLltime' = [s \in 1..MlSats |->
       IF s \in DOMAIN table THEN MlLocktime(t, mlLltime[s], MlRestarts(table[s], mlCp[s])) ELSE mlLltime[s]]
  /\ mlSent' = MlGenRtcm3(MlEncodeMsm4(mlSys, t, t - mlStart', table, mlCp', mlLltime'))
  /\ UNCHANGED mlSys

MlNext == \E t \in MlMoments, table \in MlFrames : MlFrame(t, table)

-----------------------------------------------------------------------------
(* What a rover reads. *)

MlHeadBits == 24 + 73 + MlSats + MlSigs
MlMaskAt(bits, pos, n) == {i \in 1..n : bits[pos + i] = 1}
MlRead(bits) ==
  LET sats == SetToSortSeq(MlMaskAt(bits, 97, MlSats), <)
      n == Len(sats)
      ints == MlHeadBits + n * Cardinality(MlMaskAt(bits, 97 + MlSats, MlSigs))
      mods == ints + n * MlInt
      codes == mods + n * MlRough
      phases == codes + n * MlCodeBits
      locks == phases + n * MlPhaseBits
      halves == locks + 4 * n
      cnrs == halves + n
  IN [s \in ToSet(sats) |->
        LET j == CHOOSE i \in 1..n : sats[i] = s
            rough == MlGet(bits, ints + (j - 1) * MlInt, MlInt) * 2^MlRough + MlGet(bits, mods + (j - 1) * MlRough, MlRough)
            code == MlGetSigned(bits, codes + (j - 1) * MlCodeBits, MlCodeBits)
            phase == MlGetSigned(bits, phases + (j - 1) * MlPhaseBits, MlPhaseBits)
            ranged == rough \div 2^MlRough # 2^MlInt - 1
        IN [hasCode |-> ranged /\ code # -2^(MlCodeBits - 1),
            hasPhase |-> ranged /\ phase # -2^(MlPhaseBits - 1),
            code |-> rough * 2^(MlPhase - MlRough) + code * 2^(MlPhase - MlCode),
            phase |-> rough * 2^(MlPhase - MlRough) + phase,
            lock |-> MlGet(bits, locks + (j - 1) * 4, 4),
            half |-> bits[halves + j],
            cnr |-> MlGet(bits, cnrs + (j - 1) * 6, 6)]]

-----------------------------------------------------------------------------
(* Properties *)

\* A message says how long it is, its parity is of all of it, and its epoch and session time are
\* those of the frame (gen_rtcm3, encode_msm_head, to_lock).
MlSessionLow(i) ==
  CASE i < 24 -> i [] i \in 24..47 -> 2 * i - 24 [] i \in 48..71 -> 4 * i - 120 [] i \in 72..95 -> 8 * i - 408
    [] i \in 96..119 -> 16 * i - 1176 [] i \in 120..126 -> 32 * i - 3096 [] OTHER -> 937
MlFramed ==
  mlSent.bits # <<>> =>
    LET session == MlGet(mlSent.bits, 24 + 58, 7)
    IN /\ Len(mlSent.bits) = 8 * (3 + MlGet(mlSent.bits, 14, 10))
       /\ mlSent.crc = mlSent.bits
       /\ (MlGet(mlSent.bits, 24 + 24, 30) \div 1000 + (IF mlSys = "CMP" THEN 14 ELSE 0) - Calendar!GtTow(mlTime)) % Calendar!GtWeek = 0
       /\ MlSessionLow(session) <= mlTime - mlStart
       /\ session < 127 => mlTime - mlStart < MlSessionLow(session + 1)

\* The coordinates of the reference station are read as they were written, below 0 too
\* (set38bits, setbits).
MlStationRead ==
  mlSent.bits # <<>> =>
    \A i \in 1..3 :
      LET pos == 24 + 34 + (i - 1) * (MlWord + 8)
      IN MlGetSigned(MlType1005.bits, pos, MlWord) * 64 + MlGet(MlType1005.bits, pos + MlWord, 6) = MlStation[i]

\* A rover reads the satellites of the frame, each with its own code range, to half its
\* resolution, half-cycle bit, signal strength and lock time; it reads no range of a
\* satellite without one (gen_msm_index, gen_msm_sat, encode_msm_*).
MlRangesRead ==
  mlSent.bits # <<>> =>
    LET read == MlRead(mlSent.bits)
    IN /\ DOMAIN read = DOMAIN mlTable
       /\ \A s \in DOMAIN read :
            LET r == read[s]
                ob == mlTable[s]
            IN /\ r.hasCode => ob.P # 0 /\ 2 * MlAbs(r.code - ob.P) <= 2^(MlPhase - MlCode)
               /\ ob.P >= MlMs /\ ob.P < (2^MlInt - 2) * MlMs => r.hasCode \/ MlPsrng(ob) = 0
               /\ r.half = ob.half /\ 4 * r.cnr - ob.snr \in -1..2
               /\ mlTime - mlLltime[s] < 2^(r.lock + 5) /\ (r.lock > 0 => mlTime - mlLltime[s] >= 2^(r.lock + 4))

\* As long as the lock time of a satellite goes on, the phase ranges that are read differ
\* from those that were measured by the same number of cycles (gen_msm_sig, cp).
MlPhaseKept ==
  [][\A s \in DOMAIN mlTable \cap DOMAIN mlTable' :
       LET old == MlRead(mlSent.bits)[s]
           new == MlRead(mlSent'.bits)[s]
       IN mlLltime'[s] = mlLltime[s] /\ old.hasPhase /\ new.hasPhase /\ mlTable[s].L # 0 /\ mlTable'[s].L # 0 =>
            /\ new.phase - mlTable'[s].L * MlLambda = old.phase - mlTable[s].L * MlLambda
            /\ (new.phase - mlTable'[s].L * MlLambda) % MlLambda = 0]_mlVars

\* Satellites have one number each, from which their PRN is found, and by which raw2rtcm
\* tells BeiDou from GPS (satno, to_satid; raw2rtcm compares with 84).
MlNumbered ==
  \A prn \in (MlFirstPrn(mlSys) - 1)..(MlFirstPrn(mlSys) + MlCount(mlSys)) :
    LET sat == MlSatno(mlSys, prn)
    IN sat # 0 => /\ MlSatid(mlSys, sat) = prn - MlFirstPrn(mlSys) + 1 /\ MlSatid(mlSys, sat) \in 1..64
                  /\ (sat < 84) = (mlSys = "GPS")
                  /\ \A other \in {"GPS", "CMP"} \ {mlSys} : MlSatid(other, sat) = 0
=============================================================================
