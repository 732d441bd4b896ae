------------------------------ MODULE OemFramer ------------------------------
(***************************************************************************)
(* The byte level of AgnssServer/AssistData.c: input_oem4 cuts the bytes   *)
(* of a device into OEM4 frames.                                           *)
(*                                                                         *)
(* A device has one raw_t, hence one parser, while AgnssCapture gives all  *)
(* its connections the same device name and forwards what each of them     *)
(* reads: the bytes of several connections, of a connection that was lost  *)
(* in the middle of a frame and of the one that follows it reach the       *)
(* parser as one stream.  The parser is never told of the seams.           *)
(*                                                                         *)
(* A byte is a number.  Of the 28 bytes of the header only the sync bytes  *)
(* and the length matter to the framing; the others are zero.  The CRC is  *)
(* an operator Crc of the bytes it covers, one byte wide here but wide     *)
(* enough to tell a frame from everything else (CrcAssumption).            *)
(***************************************************************************)
EXTENDS Integers, Sequences, SequencesExt, FiniteSets

CONSTANTS
  Conns,       \* TCP connections that carry the device's bytes
  Bodies,      \* bodies of the frames a receiver sends, sequences of bytes
  Noise,       \* bytes that may arrive outside frames
  Sync1, Sync2, Sync3,
  LenAt,       \* bytes stored when the length is known: 10
  HeaderLen,   \* OEM4HLEN = 28
  CrcLen,      \* 4
  MAXRAWLEN,   \* size of raw->buff: 4096
  Crc(_),      \* crc32 of a sequence of bytes
  LenOf(_),    \* the number a byte stands for as a length (U2)
  MaxFrames,   \* bound: frames sent
  MaxNoise     \* bound: stray bytes and broken frames

ASSUME LayoutAssumption ==
  /\ LenAt \in Nat /\ HeaderLen \in Nat /\ CrcLen \in Nat \ {0} /\ MAXRAWLEN \in Nat
  /\ 3 < LenAt /\ LenAt <= HeaderLen /\ HeaderLen + CrcLen <= MAXRAWLEN
ASSUME BodiesAssumption == \A b \in Bodies : b \in Seq(Nat)
ASSUME BoundsAssumption == MaxFrames \in Nat /\ MaxNoise \in Nat

Zeros(n) == [i \in 1..n |-> 0]

(* Header and body of a frame, *)
Covered(b) ==
  <<Sync1, Sync2, Sync3>> \o Zeros(LenAt - 4) \o <<Len(b)>> \o Zeros(HeaderLen - LenAt) \o b

(* and the frame as the receiver sends it. *)
Frame(b) == Covered(b) \o [i \in 1..CrcLen |-> IF i = 1 THEN Crc(Covered(b)) ELSE 0]

(* What may reach the parser; the bytes that are not part of a CRC.        *)
Bytes == {0, Sync1, Sync2, Sync3} \cup Noise \cup UNION {Range(Frame(b)) : b \in Bodies}
PlainBytes == {0, Sync1, Sync2, Sync3} \cup Noise \cup UNION {Range(Covered(b)) : b \in Bodies}

ASSUME LenOfAssumption == \A x \in Bytes : LenOf(x) \in Nat
ASSUME SyncAssumption == Sync1 # Sync2 /\ Sync1 # Sync3
(* What a CRC is for: nothing that begins like a frame, but a frame, has    *)
(* the frame's CRC, and what follows as its CRC is no other byte.           *)
ASSUME CrcAssumption ==
  LET plain == PlainBytes
  IN \A s \in UNION {[1..n -> Bytes] : n \in HeaderLen..(MAXRAWLEN - CrcLen)} :
       s[1] = Sync1 /\ s[2] = Sync2 /\ s[3] = Sync3
         => Crc(s) \notin plain /\ \A b \in Bodies : Crc(s) = Crc(Covered(b)) => s = Covered(b)
ASSUME FramesFit == \A b \in Bodies : LenOf(Len(b)) = Len(b) /\ HeaderLen + Len(b) + CrcLen <= MAXRAWLEN

VARIABLES
  nbyte,       \* raw->nbyte, 0 while searching
  len,         \* raw->len, header and body of the frame being read
  buff,        \* raw->buff[0 .. max(nbyte, 3) - 1]
  pending,     \* pending[c]: bytes of the frame connection c has still to send
  body,        \* body[c]: the body of that frame
  sent,        \* bodies of the frames begun, in order
  accepted,    \* bodies of the frames that passed the CRC, in order
  noise,       \* stray bytes and broken frames so far (bounds the model)
  clean,       \* no noise, and no two connections within one frame, so far
  solo         \* the connection whose frame began while the parser searched
               \* and whose bytes alone arrived since; {} if there is none

parserVars == <<nbyte, len, buff, accepted>>
vars == <<parserVars, pending, body, sent, noise, clean, solo>>

Window == SubSeq(buff, 1, 3)

Init ==
  /\ nbyte = 0 /\ len = 0 /\ buff = <<0, 0, 0>>
  /\ pending = [c \in Conns |-> <<>>] /\ body = [c \in Conns |-> <<>>]
  /\ sent = <<>> /\ accepted = <<>>
  /\ noise = 0 /\ clean = TRUE /\ solo = {}

-----------------------------------------------------------------------------
(* A faulty variant: a mismatch throws the byte away that caused it. *)
SyncOem4Greedy(w, x) ==
  IF w[3] = Sync1 /\ x = Sync1 THEN <<0, 0, 0>> ELSE <<w[2], w[3], x>>

(* sync_oem4: the window over the last three bytes. *)
SyncOem4(w, x) == <<w[2], w[3], x>>

(* Faulty variants: the room for the CRC is forgotten; a frame that fills  *)
(* the buffer is rejected.                                                 *)
TooLongNoCrc(n) == n + HeaderLen > MAXRAWLEN
TooLongEarly(n) == n + HeaderLen >= MAXRAWLEN - CrcLen

(* The limit on header and body, given the length field. *)
TooLong(n) == n + HeaderLen > MAXRAWLEN - CrcLen

(* A faulty variant: every complete frame is taken. *)
CrcHoldsAlways(m, n) == TRUE

(* decode_oem4 compares the CRC of the first n bytes with the next. *)
CrcHolds(m, n) == m[n + 1] = Crc(SubSeq(m, 1, n))

(* A faulty variant: the count starts one byte early. *)
SearchTwo(x) ==
  /\ nbyte = 0
  /\ buff' = SyncOem4(Window, x)
  /\ nbyte' = IF buff' = <<Sync1, Sync2, Sync3>> THEN 2 ELSE 0
  /\ UNCHANGED <<len, accepted>>

(***************************************************************************)
(* input_oem4 for the byte x.  The test nbyte < 10 keeps the length of an  *)
(* earlier frame from ending this one.                                     *)
(***************************************************************************)
Search(x) ==
  /\ nbyte = 0
  /\ buff' = SyncOem4(Window, x)
  /\ nbyte' = IF buff' = <<Sync1, Sync2, Sync3>> THEN 3 ELSE 0
  /\ UNCHANGED <<len, accepted>>

Store(x) ==
  LET m == Append(buff, x)
      n == nbyte + 1
      l == IF n = LenAt THEN LenOf(x) + HeaderLen ELSE len
  IN
  /\ nbyte > 0
  /\ len' = l
  /\ IF n = LenAt /\ TooLong(LenOf(x))
     THEN nbyte' = 0 /\ buff' = SubSeq(m, 1, 3) /\ UNCHANGED accepted
     ELSE IF n < LenAt \/ n < l + CrcLen
     THEN nbyte' = n /\ buff' = m /\ UNCHANGED accepted
     ELSE /\ nbyte' = 0 /\ buff' = SubSeq(m, 1, 3)
          /\ accepted' = IF CrcHolds(m, l)
                         THEN Append(accepted, SubSeq(m, HeaderLen + 1, l))
                         ELSE accepted

InputOem4(x) == Search(x) \/ Store(x)

-----------------------------------------------------------------------------
(* The first byte of a frame of c is read, forwarded and given to the parser ... *)
Begin(c, b) ==
  /\ pending[c] = <<>>
  /\ Len(sent) < MaxFrames
  /\ InputOem4(Head(Frame(b)))
  /\ pending' = [pending EXCEPT ![c] = Tail(Frame(b))]
  /\ body' = [body EXCEPT ![c] = b]
  /\ sent' = Append(sent, b)
  /\ solo' = IF nbyte = 0 THEN {c} ELSE {}
  /\ clean' = (clean /\ \A d \in Conns : pending[d] = <<>>)
  /\ UNCHANGED noise

(* ... and each of the others. *)
Deliver(c) ==
  /\ pending[c] # <<>>
  /\ InputOem4(Head(pending[c]))
  /\ pending' = [pending EXCEPT ![c] = Tail(@)]
  /\ solo' = solo \cap {c}
  /\ UNCHANGED <<body, sent, noise, clean>>

(* The connection is lost in the middle of a frame; another will be opened. *)
Cut(c) ==
  /\ pending[c] # <<>> /\ noise < MaxNoise
  /\ pending' = [pending EXCEPT ![c] = <<>>]
  /\ noise' = noise + 1 /\ clean' = FALSE
  /\ UNCHANGED <<parserVars, body, sent, solo>>

(* A byte that belongs to no frame. *)
Stray(x) ==
  /\ noise < MaxNoise
  /\ InputOem4(x)
  /\ noise' = noise + 1 /\ clean' = FALSE /\ solo' = {}
  /\ UNCHANGED <<pending, body, sent>>

Next ==
  \/ \E c \in Conns : Deliver(c) \/ Cut(c) \/ \E b \in Bodies : Begin(c, b)
  \/ \E x \in Noise : Stray(x)

Spec == Init /\ [][Next]_vars
-----------------------------------------------------------------------------
(* The values the variables range over. *)
TypeOK ==
  /\ nbyte \in Nat /\ len \in Nat
  /\ buff \in Seq(Bytes) /\ Len(buff) = IF nbyte = 0 THEN 3 ELSE nbyte
  /\ DOMAIN pending = Conns /\ DOMAIN body = Conns
  /\ sent \in Seq(Bodies) /\ Len(sent) <= MaxFrames
  /\ noise \in 0..MaxNoise /\ clean \in BOOLEAN /\ solo \subseteq Conns

(***************************************************************************)
(* The byte that is stored next has room in raw->buff, and a frame is left *)
(* after at most MAXRAWLEN bytes, whatever the stream: the search resumes. *)
(***************************************************************************)
Bounded == nbyte < MAXRAWLEN /\ (LenAt <= nbyte => nbyte < len + CrcLen)

(***************************************************************************)
(* No frame comes out of the parser more often than it was sent: bytes of  *)
(* two frames never make up a third, as long as the CRC keeps what it      *)
(* promises (CrcAssumption).                                               *)
(***************************************************************************)
Times(s, b) == Cardinality({i \in DOMAIN s : s[i] = b})
NothingInvented == \A i \in DOMAIN accepted :
                     Times(accepted, accepted[i]) <= Times(sent, accepted[i])

(***************************************************************************)
(* As long as the connections take turns at whole frames and nothing is    *)
(* lost, every frame is accepted, in order: between frames the parser has  *)
(* accepted all those that were sent to their end.                         *)
(***************************************************************************)
InFlight == {c \in Conns : pending[c] # <<>>}
LosslessWhenClean ==
  clean /\ InFlight = {} => accepted = sent /\ nbyte = 0

(***************************************************************************)
(* Recovery: whatever went before, a frame whose first byte finds the      *)
(* parser searching and whose bytes are not interrupted is accepted, when  *)
(* its last byte arrives, whatever the window held (sync_oem4 shifts it).  *)
(***************************************************************************)
Recovers ==
  [][\A c \in Conns :
       Len(pending[c]) = 1 /\ pending'[c] = <<>> /\ noise' = noise /\ solo = {c}
         => accepted' = Append(accepted, body[c]) /\ nbyte' = 0]_vars

(* input_oem4 neither makes up a frame nor, in a clean stream, loses one.  *)
FramesKept == TypeOK /\ NothingInvented /\ LosslessWhenClean
=============================================================================
