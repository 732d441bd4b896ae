---------------------------- MODULE DecodingProofs ---------------------------
(***************************************************************************)
(* input_oem4 stays within raw->buff, for every layout that satisfies      *)
(* LayoutAssumption (28 + 4 bytes in 4096 for the code's), every number of *)
(* connections and every stream; a frame that nothing interrupts is        *)
(* accepted, whatever went before; a clean stream loses none; no frame     *)
(* comes out that was not sent; the week number in its header gives the    *)
(* receiver's time (adjgpsweek), and a time survives the calendar; a       *)
(* carrier phase is continuous where the rover is told so.                 *)
(***************************************************************************)
EXTENDS OemFramer, CarrierLock, GpsTime, TLAPS, SequenceTheorems, FiniteSetTheorems, WellFoundedInduction

(***************************************************************************)
(* Bounded alone is not inductive: that a frame fits is known from the     *)
(* byte that announced its length, and remembered in len.                  *)
(***************************************************************************)
FrameInv ==
  /\ nbyte \in Nat /\ len \in Nat
  /\ nbyte < MAXRAWLEN
  /\ LenAt <= nbyte => nbyte < len + CrcLen /\ len + CrcLen <= MAXRAWLEN

StreamInv == pending \in [Conns -> Seq(Bytes)]

LEMMA ZerosType == \A n \in Nat : Zeros(n) \in Seq(Int)
BY DEF Zeros

(* A frame is a sequence of bytes. *)
LEMMA FrameType ==
  ASSUME NEW b \in Bodies
  PROVE  Frame(b) \in Seq(Bytes) /\ Frame(b) # <<>>
<1> DEFINE head == Covered(b)
           check == [i \in 1..CrcLen |-> IF i = 1 THEN Crc(head) ELSE 0]
           All == {Sync1, Sync2, Sync3, Crc(head)} \cup Int
<1>1. LenAt - 4 \in Nat /\ HeaderLen - LenAt \in Nat /\ CrcLen \in Nat \ {0}
  BY LayoutAssumption
<1>2. Zeros(LenAt - 4) \in Seq(All) /\ Zeros(HeaderLen - LenAt) \in Seq(All)
  BY <1>1 DEF Zeros
<1>3. b \in Seq(All) /\ <<Len(b)>> \in Seq(All) /\ <<Sync1, Sync2, Sync3>> \in Seq(All)
  <2>1. b \in Seq(Nat)
    BY BodiesAssumption
  <2> QED
    BY <2>1
<1>4. check \in Seq(All) /\ Len(check) > 0
  BY <1>1
<1>5. head \in Seq(All)
  <2> HIDE DEF All
  <2> QED
    BY <1>2, <1>3 DEF Covered
<1>6. Frame(b) = head \o check
  BY DEF Frame
<1> HIDE DEF head, check, All
<1>7. Frame(b) \in Seq(All) /\ Frame(b) # <<>>
  BY <1>4, <1>5, <1>6
<1>8. \A i \in 1..Len(Frame(b)) : Frame(b)[i] \in Bytes
  BY <1>7 DEF Bytes, Range
<1> QED
  BY <1>7, <1>8

LEMMA HeadTail ==
  ASSUME NEW S, NEW s \in Seq(S), s # <<>>
  PROVE  Head(s) \in S /\ Tail(s) \in Seq(S)
OBVIOUS

(* One byte keeps the parser within its buffer. *)
LEMMA InputStep ==
  ASSUME NEW x \in Bytes, InputOem4(x), FrameInv
  PROVE  FrameInv'
<1>1. CASE Search(x)
  BY <1>1, LayoutAssumption DEF Search, FrameInv
<1>2. CASE Store(x)
  <2>1. LenOf(x) \in Nat
    BY LenOfAssumption
  <2> DEFINE n == nbyte + 1
             l == IF n = LenAt THEN LenOf(x) + HeaderLen ELSE len
  <2>2. /\ len' = l
        /\ \/ nbyte' = 0
           \/ /\ nbyte' = n
              /\ n < LenAt \/ n < l + CrcLen
              /\ n = LenAt => LenOf(x) + HeaderLen <= MAXRAWLEN - CrcLen
    BY <1>2, <2>1, LayoutAssumption DEF Store, TooLong, FrameInv
  <2> QED
    BY <2>1, <2>2, LayoutAssumption DEF FrameInv
<1> QED
  BY <1>1, <1>2 DEF InputOem4

LEMMA FramerStep == FrameInv /\ StreamInv /\ [Next]_vars => FrameInv' /\ StreamInv'
<1> SUFFICES ASSUME FrameInv, StreamInv, [Next]_vars PROVE FrameInv' /\ StreamInv'
  OBVIOUS
<1>1. ASSUME NEW c \in Conns, NEW b \in Bodies, Begin(c, b)
      PROVE  FrameInv' /\ StreamInv'
  <2>1. Head(Frame(b)) \in Bytes /\ Tail(Frame(b)) \in Seq(Bytes)
    BY FrameType, HeadTail
  <2>2. InputOem4(Head(Frame(b))) /\ pending' = [pending EXCEPT ![c] = Tail(Frame(b))]
    BY <1>1 DEF Begin
  <2>3. FrameInv'
    BY <2>1, <2>2, InputStep
  <2> QED
    BY <2>1, <2>2, <2>3 DEF StreamInv
<1>2. ASSUME NEW c \in Conns, Deliver(c) PROVE FrameInv' /\ StreamInv'
  <2>1. /\ pending[c] # <<>> /\ InputOem4(Head(pending[c]))
        /\ pending' = [pending EXCEPT ![c] = Tail(pending[c])]
    BY <1>2 DEF Deliver, StreamInv
  <2>2. pending[c] \in Seq(Bytes)
    BY DEF StreamInv
  <2>3. Head(pending[c]) \in Bytes /\ Tail(pending[c]) \in Seq(Bytes)
    BY <2>1, <2>2, HeadTail
  <2>4. FrameInv'
    BY <2>1, <2>3, InputStep
  <2> QED
    BY <2>1, <2>3, <2>4 DEF StreamInv
<1>3. ASSUME NEW c \in Conns, Cut(c) PROVE FrameInv' /\ StreamInv'
  BY <1>3 DEF Cut, parserVars, FrameInv, StreamInv
<1>4. ASSUME NEW x \in Noise, Stray(x) PROVE FrameInv' /\ StreamInv'
  <2>1. x \in Bytes /\ InputOem4(x) /\ UNCHANGED pending
    BY <1>4 DEF Stray, Bytes
  <2> QED
    BY <2>1, InputStep DEF StreamInv
<1>5. CASE UNCHANGED vars
  BY <1>5 DEF vars, parserVars, FrameInv, StreamInv
<1> QED
  BY <1>1, <1>2, <1>3, <1>4, <1>5 DEF Next

(***************************************************************************)
(* The parser never writes past raw->buff and always ends a frame within   *)
(* MAXRAWLEN bytes, whatever bytes the captures forward.                   *)
(***************************************************************************)
THEOREM FramerBounded == Spec => []Bounded
<1>1. Init => FrameInv /\ StreamInv
  BY LayoutAssumption DEF Init, FrameInv, StreamInv
<1>2. FrameInv => Bounded
  BY DEF FrameInv, Bounded
<1> QED
  BY <1>1, <1>2, FramerStep, PTL DEF Spec

-----------------------------------------------------------------------------
(***************************************************************************)
(* What of a frame the parser looks at.                                    *)
(***************************************************************************)
Check(b) == [i \in 1..CrcLen |-> IF i = 1 THEN Crc(Covered(b)) ELSE 0]
FrameLen(b) == HeaderLen + Len(b) + CrcLen

LEMMA Concatenated ==
  ASSUME NEW S, NEW s \in Seq(S), NEW t \in Seq(S)
  PROVE  /\ s \o t \in Seq(S) /\ Len(s \o t) = Len(s) + Len(t)
         /\ \A i \in 1..Len(s) : (s \o t)[i] = s[i]
         /\ \A i \in 1..Len(t) : (s \o t)[Len(s) + i] = t[i]
BY ConcatProperties, LenProperties

LEMMA CoveredFacts ==
  ASSUME NEW b \in Bodies, NEW S, Int \cup {Sync1, Sync2, Sync3} \subseteq S
  PROVE  /\ Covered(b) \in Seq(S) /\ Len(b) \in Nat /\ Len(Covered(b)) = HeaderLen + Len(b)
         /\ Covered(b)[1] = Sync1 /\ Covered(b)[2] = Sync2 /\ Covered(b)[3] = Sync3
         /\ Covered(b)[LenAt] = Len(b)
         /\ \A i \in 1..Len(b) : Covered(b)[HeaderLen + i] = b[i]
<1>0. LenAt \in Nat /\ HeaderLen \in Nat /\ 3 < LenAt /\ LenAt <= HeaderLen
      /\ LenAt - 4 \in Nat /\ HeaderLen - LenAt \in Nat /\ LenAt - 1 \in Nat /\ 3 \in Nat /\ 1 \in Nat
  BY LayoutAssumption
<1>1. b \in Seq(S) /\ Len(b) \in Nat
  <2>1. b \in Seq(Nat)
    BY BodiesAssumption
  <2>q. QED
    BY <2>1, LenProperties, SeqMonotonic
<1>2. PICK sync : sync = <<Sync1, Sync2, Sync3>>
  OBVIOUS
<1>3. sync \in Seq(S) /\ Len(sync) = 3 /\ sync[1] = Sync1 /\ sync[2] = Sync2 /\ sync[3] = Sync3
  BY <1>2
<1>4. PICK z1 : z1 = Zeros(LenAt - 4)
  OBVIOUS
<1>5. z1 \in Seq(S) /\ Len(z1) = LenAt - 4
  BY <1>0, <1>4 DEF Zeros
<1>6. PICK length : length = <<Len(b)>>
  OBVIOUS
<1>7. length \in Seq(S) /\ Len(length) = 1 /\ length[1] = Len(b)
  BY <1>1, <1>6
<1>8. PICK z2 : z2 = Zeros(HeaderLen - LenAt)
  OBVIOUS
<1>9. z2 \in Seq(S) /\ Len(z2) = HeaderLen - LenAt
  BY <1>0, <1>8 DEF Zeros
<1>10. PICK s1 : s1 = sync \o z1
  OBVIOUS
<1>11. s1 \in Seq(S) /\ Len(s1) = LenAt - 1 /\ \A i \in 1..3 : s1[i] = sync[i]
  <2>1. s1 \in Seq(S) /\ Len(s1) = 3 + (LenAt - 4) /\ \A i \in 1..3 : s1[i] = sync[i]
    <3>1. /\ s1 \in Seq(S) /\ Len(s1) = Len(sync) + Len(z1)
          /\ \A i \in 1..Len(sync) : s1[i] = sync[i]
          /\ \A i \in 1..Len(z1) : s1[Len(sync) + i] = z1[i]
      <4>1. sync \in Seq(S) /\ z1 \in Seq(S)
        BY <1>3, <1>5
      <4>q. QED
        BY <4>1, <1>10, Concatenated, SMT
    <3>q. QED
      BY <3>1, <1>0, <1>3, <1>5, Zenon
  <2>q. QED
    BY <1>0, <2>1
<1>12. PICK s2 : s2 = s1 \o length
  OBVIOUS
<1>13. s2 \in Seq(S) /\ Len(s2) = LenAt /\ (\A i \in 1..3 : s2[i] = sync[i]) /\ s2[LenAt] = Len(b)
  <2>1. /\ s2 \in Seq(S) /\ Len(s2) = LenAt - 1 + 1 /\ \A i \in 1..(LenAt - 1) : s2[i] = s1[i]
        /\ \A i \in 1..1 : s2[LenAt - 1 + i] = length[i]
    <3>1. /\ s2 \in Seq(S) /\ Len(s2) = Len(s1) + Len(length)
          /\ \A i \in 1..Len(s1) : s2[i] = s1[i]
          /\ \A i \in 1..Len(length) : s2[Len(s1) + i] = length[i]
      <4>1. s1 \in Seq(S) /\ length \in Seq(S)
        BY <1>7, <1>11
      <4>q. QED
        BY <4>1, <1>12, Concatenated, SMT
    <3>q. QED
      BY <3>1, <1>0, <1>7, <1>11, Zenon
  <2>2. LenAt - 1 + 1 = LenAt /\ 1 \in 1..1 /\ \A i \in 1..3 : i \in 1..(LenAt - 1)
    BY <1>0
  <2>q. QED
    BY <1>7, <1>11, <2>1, <2>2, Zenon
<1>14. PICK s3 : s3 = s2 \o z2
  OBVIOUS
<1>15. s3 \in Seq(S) /\ Len(s3) = HeaderLen /\ (\A i \in 1..3 : s3[i] = sync[i]) /\ s3[LenAt] = Len(b)
  <2>1. s3 \in Seq(S) /\ Len(s3) = LenAt + (HeaderLen - LenAt) /\ \A i \in 1..LenAt : s3[i] = s2[i]
    <3>1. /\ s3 \in Seq(S) /\ Len(s3) = Len(s2) + Len(z2)
          /\ \A i \in 1..Len(s2) : s3[i] = s2[i]
          /\ \A i \in 1..Len(z2) : s3[Len(s2) + i] = z2[i]
      <4>1. s2 \in Seq(S) /\ z2 \in Seq(S)
        BY <1>9, <1>13
      <4>q. QED
        BY <4>1, <1>14, Concatenated, SMT
    <3>q. QED
      BY <3>1, <1>0, <1>9, <1>13, Zenon
  <2>2. LenAt + (HeaderLen - LenAt) = HeaderLen /\ LenAt \in 1..LenAt /\ \A i \in 1..3 : i \in 1..LenAt
    BY <1>0
  <2>q. QED
    BY <1>13, <2>1, <2>2, Zenon
<1>16. Covered(b) = s3 \o b
  BY <1>2, <1>4, <1>6, <1>8, <1>10, <1>12, <1>14 DEF Covered
<1>17. /\ Covered(b) \in Seq(S) /\ Len(Covered(b)) = HeaderLen + Len(b)
       /\ \A i \in 1..HeaderLen : Covered(b)[i] = s3[i]
       /\ \A i \in 1..Len(b) : Covered(b)[HeaderLen + i] = b[i]
  <2>1. s3 \in Seq(S) /\ b \in Seq(S)
    BY <1>1, <1>15
  <2>2. /\ Covered(b) \in Seq(S) /\ Len(Covered(b)) = Len(s3) + Len(b)
        /\ \A i \in 1..Len(s3) : Covered(b)[i] = s3[i]
        /\ \A i \in 1..Len(b) : Covered(b)[Len(s3) + i] = b[i]
    BY <2>1, <1>16, Concatenated, SMT
  <2>q. QED
    BY <2>2, <1>1, <1>15, Zenon
<1>18. LenAt \in 1..HeaderLen /\ 1 \in 1..3 /\ 2 \in 1..3 /\ 3 \in 1..3 /\ \A i \in 1..3 : i \in 1..HeaderLen
  BY <1>0
<1>19. \A i \in 1..3 : Covered(b)[i] = sync[i]
  BY <1>15, <1>17, <1>18, Zenon
<1>20. Covered(b)[LenAt] = Len(b)
  BY <1>15, <1>17, <1>18, Zenon
<1>q. QED
  BY <1>1, <1>3, <1>17, <1>18, <1>19, <1>20, Zenon

LEMMA FrameFacts ==
  ASSUME NEW b \in Bodies
  PROVE  /\ Len(b) \in Nat /\ Len(Frame(b)) = FrameLen(b)
         /\ Frame(b)[1] = Sync1 /\ Frame(b)[2] = Sync2 /\ Frame(b)[3] = Sync3
         /\ Frame(b)[LenAt] = Len(b)
         /\ Frame(b)[HeaderLen + Len(b) + 1] = Crc(SubSeq(Frame(b), 1, HeaderLen + Len(b)))
         /\ SubSeq(Frame(b), HeaderLen + 1, HeaderLen + Len(b)) = b
<1>0. LenAt \in Nat /\ HeaderLen \in Nat /\ 3 < LenAt /\ LenAt <= HeaderLen
      /\ CrcLen \in Nat \ {0} /\ CrcLen \in Nat
  BY LayoutAssumption
<1>1. PICK S : S = Int \cup {Sync1, Sync2, Sync3, Crc(Covered(b))}
  OBVIOUS
<1>2. Int \cup {Sync1, Sync2, Sync3} \subseteq S /\ Crc(Covered(b)) \in S
  BY <1>1
<1>3. PICK check : check = Check(b)
  OBVIOUS
<1>4. check \in Seq(S) /\ Len(check) = CrcLen /\ check[1] = Crc(Covered(b))
  BY <1>0, <1>2, <1>3 DEF Check
<1>5. PICK covered : covered = Covered(b)
  OBVIOUS
<1>6. /\ covered \in Seq(S) /\ Len(b) \in Nat /\ Len(covered) = HeaderLen + Len(b)
      /\ covered[1] = Sync1 /\ covered[2] = Sync2 /\ covered[3] = Sync3 /\ covered[LenAt] = Len(b)
      /\ \A i \in 1..Len(b) : covered[HeaderLen + i] = b[i]
  BY <1>2, <1>5, CoveredFacts, Zenon
<1>7. PICK frame : frame = covered \o check
  OBVIOUS
<1>8. Frame(b) = frame
  BY <1>3, <1>5, <1>7 DEF Frame, Check
<1>9. PICK cut : cut = HeaderLen + Len(b)
  OBVIOUS
<1>10. cut \in Nat /\ cut \in Int /\ HeaderLen <= cut
  BY <1>0, <1>6, <1>9
<1>11. /\ frame \in Seq(S) /\ Len(frame) = cut + CrcLen
       /\ \A i \in 1..cut : frame[i] = covered[i]
       /\ \A i \in 1..CrcLen : frame[cut + i] = check[i]
  <2>1. covered \in Seq(S) /\ check \in Seq(S)
    BY <1>4, <1>6, <1>9
  <2>2. /\ frame \in Seq(S) /\ Len(frame) = Len(covered) + Len(check)
        /\ \A i \in 1..Len(covered) : frame[i] = covered[i]
        /\ \A i \in 1..Len(check) : frame[Len(covered) + i] = check[i]
    BY <2>1, <1>7, Concatenated, SMT
  <2>q. QED
    BY <2>2, <1>4, <1>6, <1>9, Zenon
<1>12. /\ frame[1] = Sync1 /\ frame[2] = Sync2 /\ frame[3] = Sync3 /\ frame[LenAt] = Len(b)
       /\ frame[cut + 1] = Crc(covered)
  <2>1. 1 \in 1..cut /\ 2 \in 1..cut /\ 3 \in 1..cut /\ LenAt \in 1..cut /\ 1 \in 1..CrcLen
    BY <1>0, <1>10
  <2>q. QED
    BY <1>4, <1>5, <1>6, <1>11, <2>1, Zenon
<1>13. SubSeq(frame, 1, cut) = covered
  <2>1. PICK t : t = SubSeq(frame, 1, cut)
    OBVIOUS
  <2>2. \A i \in 1..cut : frame[i] \in S
    BY <1>6, <1>9, <1>11, ElementOfSeq
  <2>3. /\ t \in Seq(S) /\ Len(t) = IF 1 <= cut THEN cut - 1 + 1 ELSE 0
        /\ \A i \in 1..(cut - 1 + 1) : t[i] = frame[1 + i - 1]
    BY <1>10, <2>1, <2>2, SubSeqProperties
  <2>4. Len(t) = Len(covered) /\ \A i \in 1..Len(t) : t[i] = covered[i]
    BY <1>6, <1>9, <1>10, <1>11, <2>3
  <2>5. t = covered
    BY <1>6, <2>3, <2>4, SeqEqual
  <2>q. QED
    BY <2>1, <2>5
<1>14. SubSeq(frame, HeaderLen + 1, cut) = b
  <2>1. PICK t : t = SubSeq(frame, HeaderLen + 1, cut)
    OBVIOUS
  <2>2. HeaderLen + 1 \in Int /\ \A i \in (HeaderLen + 1)..cut : frame[i] \in S
    BY <1>0, <1>10, <1>11, ElementOfSeq
  <2>3. /\ t \in Seq(S) /\ Len(t) = IF HeaderLen + 1 <= cut THEN cut - (HeaderLen + 1) + 1 ELSE 0
        /\ \A i \in 1..(cut - (HeaderLen + 1) + 1) : t[i] = frame[HeaderLen + 1 + i - 1]
    BY <1>10, <2>1, <2>2, SubSeqProperties
  <2>4. Len(t) = Len(b)
    BY <1>0, <1>6, <1>9, <2>3
  <2>5. ASSUME NEW i \in 1..Len(t) PROVE t[i] = b[i]
    <3>1. t[i] = frame[HeaderLen + i]
      BY <1>0, <1>6, <1>9, <2>3, <2>4
    <3>2. HeaderLen + i \in 1..cut /\ i \in 1..Len(b)
      BY <1>0, <1>6, <1>9, <2>4
    <3>q. QED
      BY <1>6, <1>11, <3>1, <3>2, Zenon
  <2>6. b \in Seq(S)
    BY <1>2, BodiesAssumption, SeqMonotonic
  <2>7. t = b
    BY <2>3, <2>4, <2>5, <2>6, SeqEqual
  <2>q. QED
    BY <2>1, <2>7
<1>15. Len(Frame(b)) = FrameLen(b)
  BY <1>8, <1>9, <1>11 DEF FrameLen
<1>q. QED
  BY <1>6, <1>8, <1>9, <1>12, <1>13, <1>14, <1>15, Zenon

-----------------------------------------------------------------------------
(* The bytes that are held: the window while searching, the frame so far afterwards. *)
BuffInv ==
  /\ nbyte \in Nat /\ (nbyte = 0 \/ nbyte >= 3)
  /\ buff \in Seq(Bytes) /\ Len(buff) = IF nbyte = 0 THEN 3 ELSE nbyte

LEMMA SearchFacts ==
  ASSUME NEW x \in Bytes, BuffInv, Search(x)
  PROVE  /\ buff' = <<buff[2], buff[3], x>> /\ BuffInv' /\ len' = len /\ accepted' = accepted
         /\ nbyte' = IF buff[2] = Sync1 /\ buff[3] = Sync2 /\ x = Sync3 THEN 3 ELSE 0
<1>1. buff \in Seq(Bytes) /\ Len(buff) = 3 /\ nbyte = 0
  BY DEF BuffInv, Search
<1>2. Window = buff
  BY <1>1, SubSeqFull DEF Window
<1>3. buff' = <<buff[2], buff[3], x>>
  BY <1>2 DEF Search, SyncOem4
<1>4. nbyte' = IF buff[2] = Sync1 /\ buff[3] = Sync2 /\ x = Sync3 THEN 3 ELSE 0
  BY <1>3 DEF Search
<1>5. buff[2] \in Bytes /\ buff[3] \in Bytes
  <2>1. 2 \in 1..Len(buff) /\ 3 \in 1..Len(buff)
    BY <1>1
  <2>q. QED
    BY <1>1, <2>1, ElementOfSeq, Zenon
<1>6. buff' \in Seq(Bytes) /\ Len(buff') = 3
  BY <1>3, <1>5
<1>q. QED
  BY <1>3, <1>4, <1>6 DEF BuffInv, Search

LEMMA StoreKeepsBuff ==
  ASSUME NEW x \in Bytes, BuffInv, Store(x)
  PROVE  BuffInv'
<1>1. nbyte \in Nat /\ nbyte >= 3 /\ buff \in Seq(Bytes) /\ Len(buff) = nbyte
  BY DEF BuffInv, Store
<1>2. PICK m : m = Append(buff, x)
  OBVIOUS
<1>3. m \in Seq(Bytes) /\ Len(m) = nbyte + 1
  BY <1>1, <1>2, AppendProperties
<1>4. SubSeq(m, 1, 3) \in Seq(Bytes) /\ Len(SubSeq(m, 1, 3)) = 3
  <2>1. \A i \in 1..3 : m[i] \in Bytes
    BY <1>1, <1>3, ElementOfSeq
  <2>q. QED
    BY <2>1, SubSeqProperties
<1>5. \/ nbyte' = 0 /\ buff' = SubSeq(m, 1, 3)
      \/ nbyte' = nbyte + 1 /\ buff' = m
  BY <1>2 DEF Store
<1>6. CASE nbyte' = 0 /\ buff' = SubSeq(m, 1, 3)
  BY <1>4, <1>6 DEF BuffInv
<1>7. CASE nbyte' = nbyte + 1 /\ buff' = m
  <2>1. nbyte' \in Nat /\ nbyte' >= 3 /\ nbyte' # 0
    BY <1>1, <1>7
  <2>q. QED
    BY <1>3, <1>7, <2>1 DEF BuffInv
<1>q. QED
  BY <1>5, <1>6, <1>7

LEMMA InputKeepsBuff == \A x \in Bytes : BuffInv /\ InputOem4(x) => BuffInv'
BY SearchFacts, StoreKeepsBuff DEF InputOem4

(***************************************************************************)
(* The parser holds the first k bytes of the frame of b, or has them in    *)
(* its window.                                                             *)
(***************************************************************************)
Follows(b, k) ==
  /\ k < 3 => nbyte = 0
  /\ k = 1 => buff[3] = Sync1
  /\ k = 2 => buff[2] = Sync1 /\ buff[3] = Sync2
  /\ k >= 3 => nbyte = k /\ buff = SubSeq(Frame(b), 1, k)
  /\ k >= LenAt => len = HeaderLen + Len(b)

LEMMA FollowsStart ==
  ASSUME NEW b \in Bodies, BuffInv, nbyte = 0, InputOem4(Frame(b)[1])
  PROVE  Follows(b, 1)'
<1>1. Sync1 \in Bytes /\ Frame(b)[1] = Sync1
  BY FrameFacts DEF Bytes
<1>2. Search(Sync1)
  BY <1>1 DEF InputOem4, Store
<1>3. nbyte' = 0 /\ buff' = <<buff[2], buff[3], Sync1>>
  BY <1>1, <1>2, SearchFacts, SyncAssumption
<1>q. QED
  BY <1>3, LayoutAssumption DEF Follows

(* The next byte of the frame; the last one ends it. *)
LEMMA FollowsOn ==
  ASSUME NEW b \in Bodies, NEW k \in 1..(FrameLen(b) - 1), BuffInv, Follows(b, k),
         InputOem4(Frame(b)[k + 1])
  PROVE  IF k + 1 = FrameLen(b) THEN nbyte' = 0 /\ accepted' = Append(accepted, b)
         ELSE Follows(b, k + 1)' /\ accepted' = accepted
<1>0. /\ LenAt \in Nat /\ HeaderLen \in Nat /\ 3 < LenAt /\ LenAt <= HeaderLen
      /\ CrcLen \in Nat \ {0} /\ MAXRAWLEN \in Nat
  BY LayoutAssumption
<1>1. PICK frame : frame = Frame(b)
  OBVIOUS
<1>2. PICK cut : cut = HeaderLen + Len(b)
  OBVIOUS
<1>3. /\ Len(b) \in Nat /\ frame[1] = Sync1 /\ frame[2] = Sync2 /\ frame[3] = Sync3
      /\ frame[LenAt] = Len(b) /\ frame[cut + 1] = Crc(SubSeq(frame, 1, cut))
      /\ SubSeq(frame, HeaderLen + 1, cut) = b
      /\ Len(frame) = FrameLen(b)
  BY <1>1, <1>2, FrameFacts
<1>4. frame \in Seq(Bytes) /\ FrameLen(b) = cut + CrcLen /\ cut \in Nat /\ k \in Nat
      /\ HeaderLen <= cut /\ k + 1 \in 1..Len(frame) /\ LenOf(Len(b)) + HeaderLen = cut
      /\ cut + CrcLen <= MAXRAWLEN
  <2>1. frame \in Seq(Bytes)
    BY <1>1, FrameType
  <2>2. cut \in Nat /\ HeaderLen <= cut /\ FrameLen(b) = cut + CrcLen
    BY <1>0, <1>2, <1>3 DEF FrameLen
  <2>3. LenOf(Len(b)) = Len(b) /\ HeaderLen + Len(b) + CrcLen <= MAXRAWLEN
    BY FramesFit
  <2>4. k \in Nat /\ k + 1 \in 1..Len(frame)
    BY <1>0, <1>3, <2>2
  <2>5. LenOf(Len(b)) + HeaderLen = cut /\ cut + CrcLen <= MAXRAWLEN
    BY <1>0, <1>2, <1>3, <2>3
  <2>q. QED
    BY <2>1, <2>2, <2>4, <2>5
<1>5. frame[k + 1] \in Bytes /\ InputOem4(frame[k + 1])
  BY <1>1, <1>4, ElementOfSeq
<1>6. CASE k = 1
  <2>1. Search(Sync2) /\ Sync2 \in Bytes
    BY <1>3, <1>5, <1>6 DEF InputOem4, Store, Follows
  <2>2. nbyte' = 0 /\ buff' = <<buff[2], Sync1, Sync2>> /\ accepted' = accepted
    BY <1>6, <2>1, SearchFacts, SyncAssumption DEF Follows
  <2>q. QED
    BY <1>0, <1>4, <1>6, <2>2 DEF Follows
<1>7. CASE k = 2
  <2>1. Search(Sync3) /\ Sync3 \in Bytes
    BY <1>3, <1>5, <1>7 DEF InputOem4, Store, Follows
  <2>2. nbyte' = 3 /\ buff' = <<Sync1, Sync2, Sync3>> /\ accepted' = accepted
    BY <1>7, <2>1, SearchFacts DEF Follows
  <2>3. SubSeq(frame, 1, 3) = <<Sync1, Sync2, Sync3>>
    <3>1. PICK t : t = SubSeq(frame, 1, 3)
      OBVIOUS
    <3>2. \A i \in 1..3 : frame[i] \in Bytes
      <4>1. \A i \in 1..3 : i \in 1..Len(frame)
        BY <1>0, <1>3, <1>4
      <4>q. QED
        BY <1>4, <4>1, ElementOfSeq, Zenon
    <3>3. t \in Seq(Bytes) /\ Len(t) = 3 /\ \A i \in 1..3 : t[i] = frame[i]
      BY <3>1, <3>2, SubSeqProperties
    <3>4. t[1] = Sync1 /\ t[2] = Sync2 /\ t[3] = Sync3
      BY <1>3, <3>3
    <3>5. PICK u : u = <<Sync1, Sync2, Sync3>>
      OBVIOUS
    <3>6. u \in Seq(Bytes) /\ Len(u) = 3 /\ u[1] = Sync1 /\ u[2] = Sync2 /\ u[3] = Sync3
      BY <3>5 DEF Bytes
    <3>7. \A i \in 1..Len(t) : t[i] = u[i]
      BY <3>3, <3>4, <3>6
    <3>8. t = u
      BY <3>3, <3>6, <3>7, SeqEqual
    <3>q. QED
      BY <3>1, <3>5, <3>8
  <2>4. k + 1 = 3 /\ k + 1 # FrameLen(b) /\ ~(3 >= LenAt)
    BY <1>0, <1>4, <1>7
  <2>5. Follows(b, 3)'
    <3>1. buff' = SubSeq(Frame(b), 1, 3)
      BY <1>1, <2>2, <2>3
    <3>2. nbyte' = 3 /\ ~(3 < 3) /\ 3 # 1 /\ 3 # 2
      BY <2>2
    <3>q. QED
      BY <2>4, <3>1, <3>2, Zenon DEF Follows
  <2>q. QED
    BY <2>2, <2>4, <2>5
<1>8. CASE k >= 3
  <2>1. nbyte = k /\ buff = SubSeq(frame, 1, k) /\ (k >= LenAt => len = cut)
    BY <1>1, <1>2, <1>8 DEF Follows
  <2>2. Store(frame[k + 1])
    BY <1>4, <1>5, <1>8, <2>1 DEF InputOem4, Search
  <2>3. PICK m : m = Append(buff, frame[k + 1])
    OBVIOUS
  <2>4. m = SubSeq(frame, 1, k + 1)
    <3>1. 1 \in 1..Len(frame) /\ k + 1 \in 1..Len(frame) /\ k + 1 - 1 = k
      BY <1>4, <1>8
    <3>2. SubSeq(frame, 1, k + 1) = SubSeq(frame, 1, k) \o <<frame[k + 1]>>
      BY <1>4, <3>1, SubSeqRecursiveSecond
    <3>3. buff \in Seq(Bytes)
      BY DEF BuffInv
    <3>q. QED
      BY <1>5, <2>1, <2>3, <3>2, <3>3, AppendIsConcat
  <2>5. PICK l : l = IF k + 1 = LenAt THEN LenOf(frame[k + 1]) + HeaderLen ELSE len
    OBVIOUS
  <2>6. k + 1 >= LenAt => l = cut
    BY <1>0, <1>3, <1>4, <2>1, <2>5
  <2>7. /\ len' = l
        /\ IF k + 1 = LenAt /\ TooLong(LenOf(frame[k + 1]))
           THEN nbyte' = 0 /\ buff' = SubSeq(m, 1, 3) /\ UNCHANGED accepted
           ELSE IF k + 1 < LenAt \/ k + 1 < l + CrcLen
           THEN nbyte' = k + 1 /\ buff' = m /\ UNCHANGED accepted
           ELSE /\ nbyte' = 0 /\ buff' = SubSeq(m, 1, 3)
                /\ accepted' = IF CrcHolds(m, l)
                               THEN Append(accepted, SubSeq(m, HeaderLen + 1, l))
                               ELSE accepted
    BY <2>1, <2>2, <2>3, <2>5 DEF Store
  <2>8. ~(k + 1 = LenAt /\ TooLong(LenOf(frame[k + 1])))
    BY <1>0, <1>3, <1>4 DEF TooLong
  <2>9. CASE k + 1 = FrameLen(b)
    <3>1. ~(k + 1 < LenAt \/ k + 1 < l + CrcLen) /\ l = cut
      BY <1>0, <1>4, <2>6, <2>9
    <3>2. m = frame
      BY <1>3, <1>4, <2>4, <2>9, SubSeqFull
    <3>3. CrcHolds(m, l)
      BY <1>3, <3>1, <3>2 DEF CrcHolds
    <3>q. QED
      BY <1>3, <2>7, <2>8, <2>9, <3>1, <3>2, <3>3
  <2>10. CASE k + 1 # FrameLen(b)
    <3>1. k + 1 < LenAt \/ k + 1 < l + CrcLen
      BY <1>0, <1>4, <1>3, <2>6, <2>10
    <3>2. nbyte' = k + 1 /\ buff' = m /\ accepted' = accepted /\ len' = l
      BY <2>7, <2>8, <3>1
    <3>3. Follows(b, k + 1)'
      BY <1>0, <1>1, <1>2, <1>4, <1>8, <2>4, <2>6, <3>2 DEF Follows
    <3>q. QED
      BY <2>10, <3>2, <3>3
  <2>q. QED
    BY <2>9, <2>10
<1>q. QED
  BY <1>4, <1>6, <1>7, <1>8

-----------------------------------------------------------------------------
(* A connection in the middle of a frame, of which the parser holds what was sent. *)
Half(c) ==
  /\ body[c] \in Bodies
  /\ \E k \in 1..(FrameLen(body[c]) - 1) :
       /\ pending[c] = SubSeq(Frame(body[c]), k + 1, FrameLen(body[c]))
       /\ Follows(body[c], k)

(* A clean stream is between two frames, or within one that nothing has interrupted. *)
Between == InFlight = {} /\ accepted = sent /\ nbyte = 0
Within(c) == InFlight = {c} /\ solo = {c} /\ sent = Append(accepted, body[c])

ParserInv ==
  /\ BuffInv /\ StreamInv /\ noise \in Nat
  /\ body \in [Conns -> Bodies \cup {<<>>}]
  /\ solo = {} \/ \E c \in Conns : solo = {c}
  /\ \A c \in Conns : solo = {c} /\ pending[c] # <<>> => Half(c)
  /\ clean => Between \/ \E c \in Conns : Within(c)

LEMMA ParserInit == Init => ParserInv
<1> SUFFICES ASSUME Init PROVE ParserInv
  OBVIOUS
<1>1. BuffInv
  BY DEF Init, BuffInv, Bytes
<1>2. Between /\ StreamInv
  BY DEF Init, Between, InFlight, StreamInv
<1>q. QED
  BY <1>1, <1>2 DEF Init, ParserInv

LEMMA FrameRest ==
  ASSUME NEW b \in Bodies, NEW k \in 1..(FrameLen(b) - 1)
  PROVE  LET rest == SubSeq(Frame(b), k + 1, FrameLen(b)) IN
         /\ Len(rest) = FrameLen(b) - k /\ rest # <<>>
         /\ Head(rest) = Frame(b)[k + 1] /\ Frame(b)[k + 1] \in Bytes
         /\ Tail(rest) = SubSeq(Frame(b), k + 2, FrameLen(b))
         /\ Tail(rest) = <<>> <=> k + 1 = FrameLen(b)
<1>1. PICK frame : frame = Frame(b)
  OBVIOUS
<1>2. PICK l : l = FrameLen(b)
  OBVIOUS
<1>3. frame \in Seq(Bytes) /\ Len(frame) = l /\ l \in Nat
  BY <1>1, <1>2, FrameType, FrameFacts, LenProperties
<1>4. k \in Nat /\ k + 1 \in 1..Len(frame) /\ l \in (k + 1)..Len(frame) /\ k + 1 \in Int /\ l \in Int
      /\ k + 1 <= l
  BY <1>2, <1>3
<1>5. frame[k + 1] \in Bytes /\ \A i \in (k + 1)..l : frame[i] \in Bytes
  BY <1>3, <1>4, ElementOfSeq
<1>6. PICK rest : rest = SubSeq(frame, k + 1, l)
  OBVIOUS
<1>7. rest \in Seq(Bytes) /\ Len(rest) = l - k
  <2>1. rest \in Seq(Bytes) /\ Len(rest) = IF k + 1 <= l THEN l - (k + 1) + 1 ELSE 0
    BY <1>4, <1>5, <1>6, SubSeqProperties
  <2>q. QED
    BY <1>3, <1>4, <2>1
<1>8. rest # <<>>
  BY <1>3, <1>4, <1>7, EmptySeq
<1>9. Head(rest) = frame[k + 1] /\ Tail(rest) = SubSeq(frame, k + 1 + 1, l)
  BY <1>3, <1>4, <1>6, HeadTailOfSubSeq
<1>10. Tail(rest) = <<>> <=> k + 1 = l
  <2>1. Tail(rest) \in Seq(Bytes) /\ Len(Tail(rest)) = l - k - 1
    BY <1>7, <1>8, HeadTailProperties
  <2>2. Tail(rest) = <<>> <=> l - k - 1 = 0
    BY <2>1, EmptySeq
  <2>q. QED
    BY <1>3, <1>4, <2>2
<1>11. k + 1 + 1 = k + 2
  BY <1>4
<1>q. QED
  BY <1>1, <1>2, <1>5, <1>6, <1>7, <1>8, <1>9, <1>10, <1>11

(* The next byte of a frame that nothing interrupts. *)
LEMMA SoloDeliver ==
  ASSUME NEW c \in Conns, ParserInv, Deliver(c), solo = {c}
  PROVE  \/ /\ Len(pending[c]) = 1 /\ pending'[c] = <<>>
            /\ nbyte' = 0 /\ accepted' = Append(accepted, body[c])
         \/ Len(pending[c]) # 1 /\ pending'[c] # <<>> /\ Half(c)' /\ accepted' = accepted
<1>1. /\ pending[c] # <<>> /\ InputOem4(Head(pending[c])) /\ pending'[c] = Tail(pending[c])
      /\ body' = body
  BY DEF Deliver, ParserInv, StreamInv
<1>2. Half(c)
  BY <1>1 DEF ParserInv
<1>3. PICK b : b = body[c]
  OBVIOUS
<1>4. b \in Bodies
  BY <1>2, <1>3 DEF Half
<1>5. PICK k \in 1..(FrameLen(b) - 1) : pending[c] = SubSeq(Frame(b), k + 1, FrameLen(b)) /\ Follows(b, k)
  BY <1>2, <1>3 DEF Half
<1>6. /\ Len(pending[c]) = FrameLen(b) - k /\ Head(pending[c]) = Frame(b)[k + 1]
      /\ pending'[c] = SubSeq(Frame(b), k + 2, FrameLen(b))
      /\ pending'[c] = <<>> <=> k + 1 = FrameLen(b)
  BY <1>1, <1>4, <1>5, FrameRest
<1>7. IF k + 1 = FrameLen(b) THEN nbyte' = 0 /\ accepted' = Append(accepted, b)
      ELSE Follows(b, k + 1)' /\ accepted' = accepted
  <2>1. BuffInv /\ InputOem4(Frame(b)[k + 1])
    BY <1>1, <1>6 DEF ParserInv
  <2>q. QED
    BY <1>4, <1>5, <2>1, FollowsOn
<1>8. FrameLen(b) \in Nat /\ k \in Nat
  <2>1. Len(b) \in Nat
    BY <1>4, FrameFacts
  <2>q. QED
    BY <1>5, <2>1, LayoutAssumption DEF FrameLen
<1>9. CASE k + 1 = FrameLen(b)
  <2>1. Len(pending[c]) = 1
    BY <1>6, <1>8, <1>9
  <2>q. QED
    BY <1>3, <1>6, <1>7, <1>9, <2>1
<1>10. CASE k + 1 # FrameLen(b)
  <2>1. Len(pending[c]) # 1 /\ k + 1 \in 1..(FrameLen(b) - 1) /\ k + 1 + 1 = k + 2
    BY <1>6, <1>8, <1>10
  <2>2. pending'[c] # <<>> /\ accepted' = accepted /\ Follows(b, k + 1)'
    BY <1>6, <1>7, <1>10
  <2>3. body'[c] = b /\ pending'[c] = SubSeq(Frame(b), k + 1 + 1, FrameLen(b))
    BY <1>1, <1>3, <1>6, <2>1
  <2>4. Half(c)'
    BY <1>4, <2>1, <2>2, <2>3 DEF Half, Follows
  <2>q. QED
    BY <2>1, <2>2, <2>4
<1>q. QED
  BY <1>9, <1>10

LEMMA ParserBegin ==
  ASSUME NEW c \in Conns, NEW b \in Bodies, ParserInv, Begin(c, b)
  PROVE  ParserInv'
<1>1. /\ pending[c] = <<>> /\ InputOem4(Head(Frame(b)))
      /\ pending' = [pending EXCEPT ![c] = Tail(Frame(b))]
      /\ body' = [body EXCEPT ![c] = b]
      /\ sent' = Append(sent, b)
      /\ solo' = (IF nbyte = 0 THEN {c} ELSE {})
      /\ clean' = (clean /\ \A d \in Conns : pending[d] = <<>>)
      /\ noise' = noise
  BY DEF Begin
<1>2. /\ Frame(b) \in Seq(Bytes) /\ Frame(b) # <<>> /\ Len(Frame(b)) = FrameLen(b)
      /\ FrameLen(b) \in Nat /\ 1 \in 1..(FrameLen(b) - 1) /\ FrameLen(b) > 1
  <2>1. Frame(b) \in Seq(Bytes) /\ Frame(b) # <<>> /\ Len(Frame(b)) = FrameLen(b) /\ Len(b) \in Nat
    BY FrameType, FrameFacts
  <2>q. QED
    BY <2>1, LayoutAssumption DEF FrameLen
<1>3. Head(Frame(b)) = Frame(b)[1] /\ Head(Frame(b)) \in Bytes
  BY <1>2, HeadTailProperties
<1>4. Tail(Frame(b)) = SubSeq(Frame(b), 1 + 1, FrameLen(b)) /\ Tail(Frame(b)) \in Seq(Bytes)
      /\ Tail(Frame(b)) # <<>>
  <2>1. Tail(Frame(b)) \in Seq(Bytes) /\ Len(Tail(Frame(b))) = FrameLen(b) - 1
    BY <1>2, HeadTailProperties
  <2>2. Tail(Frame(b)) = SubSeq(Frame(b), 2, FrameLen(b))
    BY <1>2, TailIsSubSeq
  <2>3. Tail(Frame(b)) # <<>>
    BY <1>2, <2>1, EmptySeq
  <2>4. 1 + 1 = 2
    OBVIOUS
  <2>q. QED
    BY <2>1, <2>2, <2>3, <2>4, Zenon
<1>5. BuffInv'
  BY <1>1, <1>3, InputKeepsBuff DEF ParserInv
<1>6. StreamInv' /\ body' \in [Conns -> Bodies \cup {<<>>}] /\ noise' \in Nat
      /\ pending'[c] = Tail(Frame(b)) /\ body'[c] = b
      /\ \A d \in Conns : d # c => pending'[d] = pending[d]
  BY <1>1, <1>4 DEF ParserInv, StreamInv
<1>7. ASSUME nbyte = 0 PROVE Half(c)'
  <2>1. Follows(b, 1)'
    BY <1>1, <1>3, <1>7, FollowsStart DEF ParserInv
  <2>q. QED
    BY <1>2, <1>4, <1>6, <2>1 DEF Half, Follows
<1>8. \A d \in Conns : solo' = {d} /\ pending'[d] # <<>> => Half(d)'
  BY <1>1, <1>7
<1>9. solo' = {} \/ \E d \in Conns : solo' = {d}
  BY <1>1
<1>10. ASSUME clean' PROVE Within(c)'
  <2>1. clean /\ InFlight = {}
    BY <1>1, <1>10 DEF InFlight
  <2>2. accepted = sent /\ nbyte = 0
    BY <2>1 DEF ParserInv, Between, Within
  <2>3. accepted' = accepted
    BY <1>1, <2>2 DEF InputOem4, Search, Store
  <2>4. InFlight' = {c}
    BY <1>1, <1>4, <1>6, <1>10 DEF InFlight
  <2>q. QED
    BY <1>1, <1>6, <2>2, <2>3, <2>4 DEF Within
<1>q. QED
  BY <1>5, <1>6, <1>8, <1>9, <1>10 DEF ParserInv

LEMMA ParserDeliver ==
  ASSUME NEW c \in Conns, ParserInv, Deliver(c)
  PROVE  ParserInv'
<1>1. /\ pending[c] # <<>> /\ InputOem4(Head(pending[c]))
      /\ pending' = [pending EXCEPT ![c] = Tail(pending[c])]
      /\ solo' = solo \cap {c} /\ UNCHANGED <<body, sent, noise, clean>>
  BY DEF Deliver, ParserInv, StreamInv
<1>2. Head(pending[c]) \in Bytes /\ Tail(pending[c]) \in Seq(Bytes)
  BY <1>1, HeadTail DEF ParserInv, StreamInv
<1>3. BuffInv'
  BY <1>1, <1>2, InputKeepsBuff DEF ParserInv
<1>4. /\ StreamInv' /\ body' \in [Conns -> Bodies \cup {<<>>}] /\ noise' \in Nat
      /\ \A d \in Conns : d # c => pending'[d] = pending[d]
  BY <1>1, <1>2 DEF ParserInv, StreamInv
<1>5. /\ solo' = {} \/ \E d \in Conns : solo' = {d}
      /\ \A d \in Conns : solo' = {d} => d = c /\ solo = {c}
  BY <1>1 DEF ParserInv
<1>6. \A d \in Conns : solo' = {d} /\ pending'[d] # <<>> => Half(d)'
  BY <1>5, SoloDeliver
<1>7. ASSUME clean' PROVE Between' \/ Within(c)'
  <2>1. c \in InFlight /\ clean
    BY <1>1, <1>7 DEF InFlight
  <2>2. Within(c)
    BY <2>1 DEF ParserInv, Between, Within
  <2>3. InFlight = {c} /\ solo = {c} /\ sent = Append(accepted, body[c]) /\ solo' = {c}
    BY <1>1, <2>2 DEF Within
  <2>4. \A d \in Conns : d # c => pending'[d] = <<>>
    BY <1>4, <2>3 DEF InFlight
  <2>5. CASE pending'[c] = <<>>
    <3>1. nbyte' = 0 /\ accepted' = Append(accepted, body[c])
      BY <2>3, <2>5, SoloDeliver
    <3>2. InFlight' = {}
      BY <2>4, <2>5 DEF InFlight
    <3>q. QED
      BY <1>1, <2>3, <3>1, <3>2 DEF Between
  <2>6. CASE pending'[c] # <<>>
    <3>1. accepted' = accepted
      BY <2>3, <2>6, SoloDeliver
    <3>2. InFlight' = {c}
      BY <2>4, <2>6 DEF InFlight
    <3>q. QED
      BY <1>1, <2>3, <3>1, <3>2 DEF Within
  <2>q. QED
    BY <2>5, <2>6
<1>q. QED
  BY <1>3, <1>4, <1>5, <1>6, <1>7 DEF ParserInv

LEMMA ParserStep == ParserInv /\ [Next]_vars => ParserInv'
<1> SUFFICES ASSUME ParserInv, [Next]_vars PROVE ParserInv'
  OBVIOUS
<1>1. ASSUME NEW c \in Conns, NEW b \in Bodies, Begin(c, b) PROVE ParserInv'
  BY <1>1, ParserBegin
<1>2. ASSUME NEW c \in Conns, Deliver(c) PROVE ParserInv'
  BY <1>2, ParserDeliver
<1>3. ASSUME NEW c \in Conns, Cut(c) PROVE ParserInv'
  <2>1. /\ pending' = [pending EXCEPT ![c] = <<>>] /\ noise' = noise + 1 /\ clean' = FALSE
        /\ UNCHANGED <<nbyte, len, buff, accepted, body, sent, solo>>
    BY <1>3 DEF Cut, parserVars
  <2>2. /\ StreamInv' /\ noise' \in Nat /\ pending'[c] = <<>>
        /\ \A d \in Conns : d # c => pending'[d] = pending[d]
    BY <2>1 DEF ParserInv, StreamInv
  <2>3. ASSUME NEW d \in Conns, solo' = {d}, pending'[d] # <<>> PROVE Half(d)'
    <3>1. d # c /\ Half(d)
      BY <2>1, <2>2, <2>3 DEF ParserInv
    <3>q. QED
      BY <2>1, <2>2, <3>1 DEF Half, Follows
  <2>q. QED
    BY <2>1, <2>2, <2>3 DEF ParserInv, BuffInv
<1>4. ASSUME NEW x \in Noise, Stray(x) PROVE ParserInv'
  <2>1. x \in Bytes /\ InputOem4(x) /\ UNCHANGED <<pending, body, sent>> /\ noise' = noise + 1
        /\ clean' = FALSE /\ solo' = {}
    BY <1>4 DEF Stray, Bytes
  <2>2. BuffInv' /\ noise' \in Nat
    BY <2>1, InputKeepsBuff DEF ParserInv
  <2>q. QED
    BY <2>1, <2>2 DEF ParserInv, StreamInv
<1>5. CASE UNCHANGED vars
  BY <1>5 DEF vars, parserVars, ParserInv, BuffInv, StreamInv, Half, Follows, Between, Within, InFlight
<1>q. QED
  BY <1>1, <1>2, <1>3, <1>4, <1>5 DEF Next

(***************************************************************************)
(* Whatever bytes went before, a frame whose first byte finds the parser   *)
(* searching and that nothing interrupts is accepted with its last byte    *)
(* (input_oem4), for every CRC and every layout.                           *)
(***************************************************************************)
THEOREM FramesRecover == Spec => Recovers
<1>1. ParserInv /\ [Next]_vars
        => [\A c \in Conns :
              Len(pending[c]) = 1 /\ pending'[c] = <<>> /\ noise' = noise /\ solo = {c}
                => accepted' = Append(accepted, body[c]) /\ nbyte' = 0]_vars
  <2> SUFFICES ASSUME ParserInv, Next, NEW c \in Conns, Len(pending[c]) = 1, pending'[c] = <<>>,
                      noise' = noise, solo = {c}
               PROVE  accepted' = Append(accepted, body[c]) /\ nbyte' = 0
    BY DEF ParserInv
  <2>1. pending[c] # <<>> /\ noise \in Nat
    <3>1. pending[c] \in Seq(Bytes) /\ noise \in Nat
      BY DEF ParserInv, StreamInv
    <3>2. Len(pending[c]) # 0
      OBVIOUS
    <3>q. QED
      BY <3>1, <3>2, EmptySeq
  <2>2. ~ \E x \in Noise : Stray(x)
    BY <2>1 DEF Stray
  <2>3. \A d \in Conns : ~Cut(d)
    BY <2>1 DEF Cut
  <2>4. ASSUME NEW d \in Conns, Deliver(d) \/ \E b \in Bodies : Begin(d, b) PROVE d = c
    <3>1. d # c => pending'[c] = pending[c]
      BY <2>4 DEF Deliver, Begin, ParserInv, StreamInv
    <3>q. QED
      BY <2>1, <3>1
  <2>5. \A b \in Bodies : ~Begin(c, b)
    BY <2>1 DEF Begin
  <2>6. Deliver(c)
    BY <2>2, <2>3, <2>4, <2>5 DEF Next
  <2>q. QED
    BY <2>6, SoloDeliver
<1>q. QED
  BY <1>1, ParserInit, ParserStep, PTL DEF Spec, Recovers

(***************************************************************************)
(* While the connections take turns at whole frames and nothing is lost,   *)
(* every frame is accepted, in order.                                      *)
(***************************************************************************)
THEOREM CleanStreamIsKept == Spec => []LosslessWhenClean
<1>1. ParserInv => LosslessWhenClean
  BY DEF ParserInv, LosslessWhenClean, Between, Within
<1>q. QED
  BY <1>1, ParserInit, ParserStep, PTL DEF Spec

-----------------------------------------------------------------------------
(***************************************************************************)
(* Each frame that comes out of the parser has used up a CRC, and each CRC *)
(* was sent once: it is owed by the connection that sends the frame until  *)
(* it is delivered, then held in the buffer, at most once, and spent when  *)
(* the frame is accepted.                                                  *)
(***************************************************************************)
CrcOf(b) == Crc(Covered(b))
Owing(b) == {c \in Conns : body[c] = b /\ Len(pending[c]) >= CrcLen}
Holds(m, b) == \E i \in 4..Len(m) : m[i] = CrcOf(b)
Held(b) == IF Holds(buff, b) THEN 1 ELSE 0

(* The rest of a frame waits in its connection. *)
Rest(c) ==
  /\ body[c] \in Bodies
  /\ \E k \in 1..(FrameLen(body[c]) - 1) : pending[c] = SubSeq(Frame(body[c]), k + 1, FrameLen(body[c]))

SyncInv ==
  /\ nbyte >= 3 => buff[1] = Sync1 /\ buff[2] = Sync2 /\ buff[3] = Sync3
  /\ LenAt <= nbyte => HeaderLen <= len

CreditInv ==
  /\ ParserInv /\ FrameInv /\ SyncInv
  /\ accepted \in Seq(Bodies) /\ sent \in Seq(Bodies)
  /\ Len(sent) <= MaxFrames /\ noise \in 0..MaxNoise /\ clean \in BOOLEAN
  /\ \A c \in Conns : pending[c] # <<>> => Rest(c)
  /\ \A b \in Bodies :
       /\ IsFiniteSet(Owing(b))
       /\ Times(accepted, b) + Cardinality(Owing(b)) + Held(b) <= Times(sent, b)

LEMMA TimesType ==
  ASSUME NEW S, NEW s \in Seq(S), NEW b
  PROVE  Times(s, b) \in Nat /\ IsFiniteSet({i \in DOMAIN s : s[i] = b})
<1>1. Len(s) \in Nat /\ DOMAIN s = 1..Len(s)
  BY LenProperties
<1>2. IsFiniteSet(1..Len(s))
  BY <1>1, FS_Interval
<1>3. {i \in DOMAIN s : s[i] = b} \in SUBSET (1..Len(s))
  BY <1>1
<1>4. IsFiniteSet({i \in DOMAIN s : s[i] = b})
  BY <1>2, <1>3, FS_Subset
<1> QED
  BY <1>4, FS_CardinalityType DEF Times

LEMMA TimesAppend ==
  ASSUME NEW S, NEW s \in Seq(S), NEW x \in S, NEW b
  PROVE  /\ x = b => Times(Append(s, x), b) = Times(s, b) + 1
         /\ x # b => Times(Append(s, x), b) = Times(s, b)
<1>0. PICK t : t = Append(s, x)
  OBVIOUS
<1>q. SUFFICES /\ x = b => Times(t, b) = Times(s, b) + 1
               /\ x # b => Times(t, b) = Times(s, b)
  BY <1>0
<1>1. /\ Len(t) = Len(s) + 1 /\ t[Len(s) + 1] = x /\ \A i \in 1..Len(s) : t[i] = s[i]
      /\ DOMAIN t = 1..Len(t) /\ DOMAIN s = 1..Len(s) /\ Len(s) \in Nat
  BY <1>0, AppendProperties, LenProperties
<1>2. DOMAIN t = DOMAIN s \cup {Len(s) + 1} /\ Len(s) + 1 \notin DOMAIN s
  BY <1>1
<1>3. PICK A : A = {i \in DOMAIN s : s[i] = b}
  OBVIOUS
<1>4. IsFiniteSet(A) /\ Cardinality(A) = Times(s, b) /\ Times(s, b) \in Nat
  BY <1>3, TimesType DEF Times
<1>5. CASE x = b
  <2>1. {i \in DOMAIN t : t[i] = b} = A \cup {Len(s) + 1} /\ Len(s) + 1 \notin A
    BY <1>1, <1>2, <1>3, <1>5
  <2>2. Cardinality(A \cup {Len(s) + 1}) = Cardinality(A) + 1
    BY <2>1, <1>4, FS_AddElement
  <2>3. Times(t, b) = Cardinality(A \cup {Len(s) + 1})
    BY <2>1 DEF Times
  <2> QED
    BY <2>2, <2>3, <1>4, <1>5
<1>6. CASE x # b
  <2>1. {i \in DOMAIN t : t[i] = b} = A
    BY <1>1, <1>2, <1>3, <1>6
  <2> QED
    BY <2>1, <1>3, <1>6 DEF Times
<1> QED
  BY <1>5, <1>6

(* Of the bytes of a frame, one is a CRC. *)
LEMMA FrameBytes ==
  ASSUME NEW b \in Bodies
  PROVE  /\ Frame(b)[HeaderLen + Len(b) + 1] = CrcOf(b)
         /\ \A i \in 1..FrameLen(b) : i # HeaderLen + Len(b) + 1 => Frame(b)[i] \in PlainBytes
         /\ \A i \in 1..(HeaderLen + Len(b)) : Frame(b)[i] = Covered(b)[i]
<1>0. LenAt \in Nat /\ HeaderLen \in Nat /\ 3 < LenAt /\ LenAt <= HeaderLen /\ CrcLen \in Nat \ {0}
  BY LayoutAssumption
<1>1. PICK S : S = Int \cup {Sync1, Sync2, Sync3, CrcOf(b)}
  OBVIOUS
<1>2. Int \cup {Sync1, Sync2, Sync3} \subseteq S /\ CrcOf(b) \in S
  BY <1>1
<1>3. PICK check : check = Check(b)
  OBVIOUS
<1>4. /\ check \in Seq(S) /\ Len(check) = CrcLen /\ check[1] = CrcOf(b)
      /\ \A i \in 1..CrcLen : i # 1 => check[i] = 0
  BY <1>0, <1>2, <1>3 DEF Check, CrcOf
<1>5. PICK covered : covered = Covered(b)
  OBVIOUS
<1>6. covered \in Seq(S) /\ Len(b) \in Nat /\ Len(covered) = HeaderLen + Len(b)
  BY <1>2, <1>5, CoveredFacts, Zenon
<1>7. PICK frame : frame = covered \o check
  OBVIOUS
<1>8. Frame(b) = frame
  BY <1>3, <1>5, <1>7 DEF Frame, Check
<1>9. PICK cut : cut = HeaderLen + Len(b)
  OBVIOUS
<1>10. cut \in Nat
  BY <1>0, <1>6, <1>9
<1>11. /\ \A i \in 1..cut : frame[i] = covered[i]
       /\ \A i \in 1..CrcLen : frame[cut + i] = check[i]
  <2>1. /\ \A i \in 1..Len(covered) : frame[i] = covered[i]
        /\ \A i \in 1..Len(check) : frame[Len(covered) + i] = check[i]
    BY <1>4, <1>6, <1>7, Concatenated, SMT
  <2> QED
    BY <2>1, <1>4, <1>6, <1>9, Zenon
<1>12. \A i \in 1..cut : covered[i] \in PlainBytes
  <2>1. DOMAIN covered = 1..cut
    BY <1>6, <1>9, LenProperties
  <2>2. \A i \in 1..cut : covered[i] \in Range(covered)
    BY <2>1 DEF Range
  <2>3. Range(covered) \subseteq PlainBytes
    BY <1>5 DEF PlainBytes
  <2> QED
    BY <2>2, <2>3
<1>13. 0 \in PlainBytes
  BY DEF PlainBytes
<1>14. ASSUME NEW i \in 1..(cut + CrcLen), i # cut + 1
       PROVE  frame[i] \in PlainBytes
  <2>1. CASE i <= cut
    BY <2>1, <1>10, <1>11, <1>12
  <2>2. CASE i > cut
    <3>1. i - cut \in 1..CrcLen /\ i - cut # 1 /\ cut + (i - cut) = i
      BY <2>2, <1>0, <1>10, <1>14
    <3>2. frame[cut + (i - cut)] = check[i - cut] /\ check[i - cut] = 0
      BY <3>1, <1>4, <1>11
    <3> QED
      BY <3>1, <3>2, <1>13
  <2> QED
    BY <2>1, <2>2, <1>10
<1>15. frame[cut + 1] = CrcOf(b)
  BY <1>0, <1>4, <1>11
<1>16. FrameLen(b) = cut + CrcLen
  BY <1>9 DEF FrameLen
<1> QED
  BY <1>5, <1>8, <1>9, <1>11, <1>14, <1>15, <1>16, Zenon

LEMMA CrcDistinct ==
  ASSUME NEW b \in Bodies
  PROVE  /\ CrcOf(b) \notin PlainBytes
         /\ \A a \in Bodies : CrcOf(a) = CrcOf(b) => a = b
<1>1. \A a \in Bodies :
        /\ Covered(a) \in [1..(HeaderLen + Len(a)) -> Bytes]
        /\ HeaderLen + Len(a) \in HeaderLen..(MAXRAWLEN - CrcLen)
        /\ Covered(a)[1] = Sync1 /\ Covered(a)[2] = Sync2 /\ Covered(a)[3] = Sync3
  <2> SUFFICES ASSUME NEW a \in Bodies
               PROVE  /\ Covered(a) \in [1..(HeaderLen + Len(a)) -> Bytes]
                      /\ HeaderLen + Len(a) \in HeaderLen..(MAXRAWLEN - CrcLen)
                      /\ Covered(a)[1] = Sync1 /\ Covered(a)[2] = Sync2 /\ Covered(a)[3] = Sync3
    OBVIOUS
  <2>1. PICK S : S = Int \cup {Sync1, Sync2, Sync3}
    OBVIOUS
  <2>2. /\ Covered(a) \in Seq(S) /\ Len(a) \in Nat /\ Len(Covered(a)) = HeaderLen + Len(a)
        /\ Covered(a)[1] = Sync1 /\ Covered(a)[2] = Sync2 /\ Covered(a)[3] = Sync3
    BY <2>1, CoveredFacts, Zenon
  <2>3. Covered(a) \in [1..(HeaderLen + Len(a)) -> S]
    BY <2>2, LenProperties
  <2>4. \A i \in 1..(HeaderLen + Len(a)) : Covered(a)[i] \in Bytes
    <3>1. Frame(a) \in Seq(Bytes) /\ Len(Frame(a)) = FrameLen(a)
      BY FrameType, FrameFacts
    <3>2. \A i \in 1..(HeaderLen + Len(a)) : i \in 1..Len(Frame(a)) /\ Covered(a)[i] = Frame(a)[i]
      BY <2>2, <3>1, FrameBytes, LayoutAssumption DEF FrameLen
    <3> QED
      BY <3>1, <3>2, ElementOfSeq
  <2>5. HeaderLen + Len(a) \in HeaderLen..(MAXRAWLEN - CrcLen)
    BY <2>2, FramesFit, LayoutAssumption
  <2> QED
    BY <2>2, <2>3, <2>4, <2>5
<1>2. CrcOf(b) \notin PlainBytes
  BY <1>1, CrcAssumption DEF CrcOf
<1>3. ASSUME NEW a \in Bodies, CrcOf(a) = CrcOf(b)
      PROVE  a = b
  <2>1. Covered(a) = Covered(b)
    BY <1>1, <1>3, CrcAssumption DEF CrcOf
  <2>2. PICK S : S = Int \cup {Sync1, Sync2, Sync3}
    OBVIOUS
  <2>3. /\ Len(a) \in Nat /\ Len(Covered(a)) = HeaderLen + Len(a)
        /\ \A i \in 1..Len(a) : Covered(a)[HeaderLen + i] = a[i]
    BY <2>2, CoveredFacts, Zenon
  <2>4. /\ Len(b) \in Nat /\ Len(Covered(b)) = HeaderLen + Len(b)
        /\ \A i \in 1..Len(b) : Covered(b)[HeaderLen + i] = b[i]
    BY <2>2, CoveredFacts, Zenon
  <2>5. Len(a) = Len(b)
    BY <2>1, <2>3, <2>4, LayoutAssumption
  <2>6. a \in Seq(Nat) /\ b \in Seq(Nat)
    BY BodiesAssumption
  <2>7. \A i \in 1..Len(a) : a[i] = b[i]
    BY <2>1, <2>3, <2>4, <2>5
  <2> QED
    BY <2>5, <2>6, <2>7, SeqEqual
<1> QED
  BY <1>2, <1>3

-----------------------------------------------------------------------------
(* What one byte does to the CRCs the parser holds. *)

LEMMA HoldsOneMore ==
  ASSUME NEW S, NEW s \in Seq(S), NEW x \in S, NEW b \in Bodies
  PROVE  Holds(Append(s, x), b) => Holds(s, b) \/ x = CrcOf(b)
<1>1. PICK t : t = Append(s, x)
  OBVIOUS
<1>2. /\ Len(t) = Len(s) + 1 /\ t[Len(s) + 1] = x /\ \A i \in 1..Len(s) : t[i] = s[i]
      /\ Len(s) \in Nat
  BY <1>1, AppendProperties, LenProperties
<1>3. \A i \in 4..Len(t) : i = Len(s) + 1 \/ (i \in 4..Len(s) /\ t[i] = s[i])
  BY <1>2
<1> QED
  BY <1>1, <1>2, <1>3 DEF Holds

(* The CRC that is compared is that of the frame that is taken out. *)
LEMMA TakenWasSent ==
  ASSUME NEW m \in Seq(Bytes), NEW l \in HeaderLen..(MAXRAWLEN - CrcLen), Len(m) = l + CrcLen,
         m[1] = Sync1, m[2] = Sync2, m[3] = Sync3, \A i \in 1..Len(m) : m[i] \in Bytes,
         CrcHolds(m, l)
  PROVE  \E b \in Bodies : SubSeq(m, HeaderLen + 1, l) = b /\ Holds(m, b)
<1>0. /\ LenAt \in Nat /\ HeaderLen \in Nat /\ 3 < LenAt /\ LenAt <= HeaderLen
      /\ CrcLen \in Nat \ {0} /\ MAXRAWLEN \in Nat /\ l \in Nat /\ HeaderLen <= l
  BY LayoutAssumption
<1>1. PICK s : s = SubSeq(m, 1, l)
  OBVIOUS
<1>2. s \in Seq(Bytes) /\ Len(s) = l /\ \A i \in 1..l : s[i] = m[i]
  <2>1. \A i \in 1..l : m[i] \in Bytes
    BY <1>0
  <2>2. /\ s \in Seq(Bytes) /\ Len(s) = IF 1 <= l THEN l - 1 + 1 ELSE 0
        /\ \A i \in 1..(l - 1 + 1) : s[i] = m[1 + i - 1]
    BY <1>0, <1>1, <2>1, SubSeqProperties
  <2> QED
    BY <1>0, <2>2
<1>3. s \in [1..l -> Bytes] /\ s[1] = Sync1 /\ s[2] = Sync2 /\ s[3] = Sync3
  BY <1>0, <1>2, LenProperties
<1>4. Crc(s) \notin PlainBytes /\ \A b \in Bodies : Crc(s) = CrcOf(b) => s = Covered(b)
  BY <1>3, CrcAssumption DEF CrcOf
<1>5. l + 1 \in 1..Len(m) /\ m[l + 1] = Crc(s)
  BY <1>0, <1>1 DEF CrcHolds
<1>6. \E b \in Bodies : Crc(s) = CrcOf(b)
  <2>1. Crc(s) \in Bytes
    BY <1>5
  <2>2. Bytes \subseteq PlainBytes \cup {CrcOf(b) : b \in Bodies}
    <3>1. ASSUME NEW b \in Bodies, NEW x \in Range(Frame(b))
          PROVE  x \in PlainBytes \cup {CrcOf(a) : a \in Bodies}
      <4>1. Frame(b) \in Seq(Bytes) /\ Len(Frame(b)) = FrameLen(b)
        BY FrameType, FrameFacts
      <4>2. PICK i \in 1..FrameLen(b) : x = Frame(b)[i]
        BY <4>1, LenProperties DEF Range
      <4> QED
        BY <4>2, FrameBytes
    <3> QED
      BY <3>1 DEF Bytes, PlainBytes
  <2> QED
    BY <1>4, <2>1, <2>2
<1>7. PICK b \in Bodies : Crc(s) = CrcOf(b)
  BY <1>6
<1>8. s = Covered(b)
  BY <1>4, <1>7
<1>9. PICK S : S = Int \cup {Sync1, Sync2, Sync3}
  OBVIOUS
<1>10. /\ Len(b) \in Nat /\ l = HeaderLen + Len(b)
       /\ \A i \in 1..Len(b) : s[HeaderLen + i] = b[i]
  BY <1>2, <1>8, <1>9, CoveredFacts, Zenon
<1>11. Holds(m, b)
  <2>1. l + 1 \in 4..Len(m)
    BY <1>0
  <2> QED
    BY <2>1, <1>5, <1>7 DEF Holds
<1>12. SubSeq(m, HeaderLen + 1, l) = b
  <2>1. PICK t : t = SubSeq(m, HeaderLen + 1, l)
    OBVIOUS
  <2>2. \A i \in (HeaderLen + 1)..l : m[i] \in Bytes
    BY <1>0
  <2>3. /\ t \in Seq(Bytes) /\ Len(t) = IF HeaderLen + 1 <= l THEN l - (HeaderLen + 1) + 1 ELSE 0
        /\ \A i \in 1..(l - (HeaderLen + 1) + 1) : t[i] = m[HeaderLen + 1 + i - 1]
    BY <1>0, <2>1, <2>2, SubSeqProperties
  <2>4. Len(t) = Len(b)
    BY <1>0, <1>10, <2>3
  <2>5. ASSUME NEW i \in 1..Len(t)
        PROVE  t[i] = b[i]
    <3>1. t[i] = m[HeaderLen + i] /\ HeaderLen + i \in 1..l /\ i \in 1..Len(b)
      BY <1>0, <1>10, <2>3, <2>4
    <3> QED
      BY <1>2, <1>10, <3>1
  <2>6. b \in Seq(Nat)
    BY BodiesAssumption
  <2>7. t \in Seq(Bytes \cup Nat) /\ b \in Seq(Bytes \cup Nat)
    BY <2>3, <2>6, SeqMonotonic
  <2> QED
    BY <2>1, <2>4, <2>5, <2>7, SeqEqual
<1> QED
  BY <1>11, <1>12

LEMMA InputSpends ==
  ASSUME NEW x \in Bytes, InputOem4(x), BuffInv, FrameInv, SyncInv, accepted \in Seq(Bodies)
  PROVE  /\ SyncInv' /\ accepted' \in Seq(Bodies)
         /\ \A b \in Bodies : Times(accepted, b)' + Held(b)'
                             <= Times(accepted, b) + Held(b) + (IF x = CrcOf(b) THEN 1 ELSE 0)
<1>0. /\ LenAt \in Nat /\ HeaderLen \in Nat /\ 3 < LenAt /\ LenAt <= HeaderLen
      /\ CrcLen \in Nat \ {0} /\ MAXRAWLEN \in Nat
  BY LayoutAssumption
<1>1. \A b : Times(accepted, b) \in Nat /\ Held(b) \in {0, 1}
  BY TimesType DEF Held
<1>2. CASE Search(x)
  <2>1. /\ buff' = <<buff[2], buff[3], x>> /\ len' = len /\ accepted' = accepted
        /\ nbyte' = IF buff[2] = Sync1 /\ buff[3] = Sync2 /\ x = Sync3 THEN 3 ELSE 0
    BY <1>2, SearchFacts
  <2>2. Len(buff') = 3 /\ buff'[1] = buff[2] /\ buff'[2] = buff[3] /\ buff'[3] = x
    BY <2>1
  <2>3. \A b : Held(b)' = 0
    BY <2>2 DEF Held, Holds
  <2>4. SyncInv'
    BY <1>0, <2>1, <2>2 DEF SyncInv
  <2> QED
    BY <1>1, <2>1, <2>3, <2>4
<1>3. CASE Store(x)
  <2>1. nbyte \in Nat /\ nbyte >= 3 /\ buff \in Seq(Bytes) /\ Len(buff) = nbyte /\ len \in Nat
    BY <1>3 DEF BuffInv, FrameInv, Store
  <2>2. PICK m : m = Append(buff, x)
    OBVIOUS
  <2>3. /\ m \in Seq(Bytes) /\ Len(m) = nbyte + 1 /\ \A i \in 1..nbyte : m[i] = buff[i]
        /\ \A i \in 1..Len(m) : m[i] \in Bytes
    BY <2>1, <2>2, AppendProperties, ElementOfSeq
  <2>4. m[1] = Sync1 /\ m[2] = Sync2 /\ m[3] = Sync3
    BY <2>1, <2>3 DEF SyncInv
  <2>5. \A b \in Bodies : Holds(m, b) => Holds(buff, b) \/ x = CrcOf(b)
    BY <2>1, <2>2, HoldsOneMore
  <2>6. PICK w : w = SubSeq(m, 1, 3)
    OBVIOUS
  <2>7. Len(w) = 3 /\ \A b : ~Holds(w, b)
    <3>1. \A i \in 1..3 : m[i] \in Bytes
      BY <2>1, <2>3
    <3>2. Len(w) = 3
      BY <2>6, <3>1, SubSeqProperties
    <3> QED
      BY <3>2 DEF Holds
  <2>8. PICK n, l : n = nbyte + 1 /\ l = IF n = LenAt THEN LenOf(x) + HeaderLen ELSE len
    OBVIOUS
  <2>9. LenOf(x) \in Nat /\ n \in Nat /\ l \in Nat
    BY <1>0, <2>1, <2>8, LenOfAssumption
  <2>10. /\ len' = l
         /\ IF n = LenAt /\ TooLong(LenOf(x))
            THEN nbyte' = 0 /\ buff' = w /\ accepted' = accepted
            ELSE IF n < LenAt \/ n < l + CrcLen
            THEN nbyte' = n /\ buff' = m /\ accepted' = accepted
            ELSE /\ nbyte' = 0 /\ buff' = w
                 /\ accepted' = IF CrcHolds(m, l) THEN Append(accepted, SubSeq(m, HeaderLen + 1, l))
                                ELSE accepted
    BY <1>3, <2>2, <2>6, <2>8 DEF Store
  <2>11. CASE nbyte' = 0 /\ buff' = w /\ accepted' = accepted
    <3>1. \A b : Held(b)' = 0
      BY <2>7, <2>11 DEF Held
    <3>2. SyncInv'
      BY <1>0, <2>11 DEF SyncInv
    <3> QED
      BY <1>1, <2>11, <3>1, <3>2
  <2>12. CASE nbyte' = n /\ buff' = m /\ accepted' = accepted
    <3>1. \A b \in Bodies : Held(b)' <= Held(b) + (IF x = CrcOf(b) THEN 1 ELSE 0)
      BY <2>5, <2>12 DEF Held
    <3>2. LenAt <= n => HeaderLen <= l
      <4>1. CASE n = LenAt
        <5>1. l = LenOf(x) + HeaderLen
          BY <4>1, <2>8
        <5> QED
          BY <5>1, <1>0, <2>9
      <4>2. CASE n # LenAt /\ LenAt <= n
        <5>1. l = len
          BY <4>2, <2>8
        <5>2. LenAt <= nbyte
          BY <4>2, <1>0, <2>1, <2>8
        <5> QED
          BY <5>1, <5>2 DEF SyncInv
      <4> QED
        BY <4>1, <4>2
    <3>3. SyncInv'
      BY <2>4, <2>10, <2>12, <3>2 DEF SyncInv
    <3>4. accepted' \in Seq(Bodies) /\ \A b : Times(accepted, b)' = Times(accepted, b)
      BY <2>12
    <3>5. ASSUME NEW b \in Bodies
          PROVE  Times(accepted, b)' + Held(b)'
                   <= Times(accepted, b) + Held(b) + (IF x = CrcOf(b) THEN 1 ELSE 0)
      <4>1. Held(b)' \in {0, 1}
        BY DEF Held
      <4> QED
        BY <4>1, <1>1, <3>1, <3>4
    <3> QED
      BY <3>3, <3>4, <3>5
  <2>13. CASE /\ ~(n = LenAt /\ TooLong(LenOf(x))) /\ ~(n < LenAt \/ n < l + CrcLen)
              /\ CrcHolds(m, l)
    <3>1. nbyte' = 0 /\ buff' = w /\ accepted' = Append(accepted, SubSeq(m, HeaderLen + 1, l))
      BY <2>10, <2>13
    <3>2. l \in HeaderLen..(MAXRAWLEN - CrcLen) /\ Len(m) = l + CrcLen
      <4>1. CASE n = LenAt
        <5>1. l = LenOf(x) + HeaderLen
          BY <4>1, <2>8
        <5>2. ~(n < l + CrcLen)
          BY <2>13
        <5> QED
          BY <5>1, <5>2, <4>1, <1>0, <2>9
      <4>2. CASE n # LenAt
        <5>1. l = len /\ LenAt <= nbyte
          BY <4>2, <1>0, <2>1, <2>8, <2>13
        <5>2. nbyte < len + CrcLen /\ len + CrcLen <= MAXRAWLEN /\ HeaderLen <= len
          BY <5>1 DEF FrameInv, SyncInv
        <5>3. ~(n < l + CrcLen)
          BY <2>13
        <5>4. Len(m) = n /\ n = nbyte + 1
          BY <2>3, <2>8
        <5>5. nbyte + 1 = len + CrcLen
          BY <5>1, <5>2, <5>3, <5>4, <1>0, <2>1
        <5>6. len \in HeaderLen..(MAXRAWLEN - CrcLen)
          BY <5>2, <1>0, <2>1
        <5> QED
          BY <5>1, <5>4, <5>5, <5>6
      <4> QED
        BY <4>1, <4>2
    <3>3. PICK a \in Bodies : SubSeq(m, HeaderLen + 1, l) = a /\ Holds(m, a)
      BY <2>3, <2>4, <2>13, <3>2, TakenWasSent
    <3>4. accepted' = Append(accepted, a)
      BY <3>1, <3>3
    <3>5. accepted' \in Seq(Bodies)
      BY <3>4, AppendProperties
    <3>6. \A b : Held(b)' = 0
      BY <2>7, <3>1 DEF Held
    <3>7. \A b : /\ a = b => Times(accepted, b)' = Times(accepted, b) + 1
                 /\ a # b => Times(accepted, b)' = Times(accepted, b)
      <4>1. \A b : Times(accepted, b)' = Times(Append(accepted, a), b)
        BY <3>4 DEF Times
      <4> QED
        BY <4>1, TimesAppend
    <3>8. Held(a) + (IF x = CrcOf(a) THEN 1 ELSE 0) >= 1
      BY <2>5, <3>3 DEF Held
    <3>9. ASSUME NEW b \in Bodies
          PROVE  Times(accepted, b)' + Held(b)'
                   <= Times(accepted, b) + Held(b) + (IF x = CrcOf(b) THEN 1 ELSE 0)
      <4>1. CASE a = b
        BY <4>1, <1>1, <3>6, <3>7, <3>8
      <4>2. CASE a # b
        BY <4>2, <1>1, <3>6, <3>7
      <4> QED
        BY <4>1, <4>2
    <3>10. SyncInv'
      BY <1>0, <3>1 DEF SyncInv
    <3> QED
      BY <3>5, <3>9, <3>10
  <2> QED
    BY <2>10, <2>11, <2>12, <2>13
<1> QED
  BY <1>2, <1>3 DEF InputOem4

-----------------------------------------------------------------------------
(* Every step keeps the account. *)

LEMMA Balance ==
  ASSUME NEW t \in Int, NEW o \in Int, NEW h \in Int, NEW s \in Int,
         NEW t1 \in Int, NEW o1 \in Int, NEW h1 \in Int, NEW s1 \in Int, NEW e \in Int, NEW d \in Int,
         t + o + h <= s, t1 + h1 <= t + h + e, o1 + e <= o + d, s1 = s + d
  PROVE  t1 + o1 + h1 <= s1
OBVIOUS

(* The account of one frame, when the byte x reaches the parser. *)
LEMMA AccountStep ==
  ASSUME NEW x \in Bytes, InputOem4(x), CreditInv, NEW b \in Bodies, NEW d \in Nat,
         sent' \in Seq(Bodies), Times(sent, b)' = Times(sent, b) + d,
         IsFiniteSet(Owing(b)'),
         Cardinality(Owing(b)') + (IF x = CrcOf(b) THEN 1 ELSE 0) <= Cardinality(Owing(b)) + d
  PROVE  Times(accepted, b)' + Cardinality(Owing(b)') + Held(b)' <= Times(sent, b)'
<1>1. /\ accepted' \in Seq(Bodies)
      /\ Times(accepted, b)' + Held(b)' <= Times(accepted, b) + Held(b) + (IF x = CrcOf(b) THEN 1 ELSE 0)
  BY InputSpends DEF CreditInv, ParserInv
<1>2. Times(accepted, b) + Cardinality(Owing(b)) + Held(b) <= Times(sent, b) /\ IsFiniteSet(Owing(b))
  BY DEF CreditInv
<1>3. Cardinality(Owing(b)) \in Int /\ Cardinality(Owing(b)') \in Int
  BY <1>2, FS_CardinalityType
<1>4. Times(accepted, b) \in Int /\ Times(sent, b) \in Int
  <2>1. accepted \in Seq(Bodies) /\ sent \in Seq(Bodies)
    BY DEF CreditInv
  <2>2. Times(accepted, b) \in Nat /\ Times(sent, b) \in Nat
    BY <2>1, TimesType
  <2> QED
    BY <2>2
<1>5. Times(accepted, b)' \in Int
  <2>1. PICK u : u = accepted'
    OBVIOUS
  <2>2. Times(u, b) \in Nat
    BY <1>1, <2>1, TimesType
  <2>3. Times(accepted, b)' = Times(u, b)
    BY <2>1 DEF Times
  <2> QED
    BY <2>2, <2>3
<1>6. Held(b) \in Int /\ Held(b)' \in Int /\ (IF x = CrcOf(b) THEN 1 ELSE 0) \in Int
  BY DEF Held
<1>7. Times(sent, b)' \in Int /\ d \in Int
  BY <1>4
<1> QED
  BY <1>1, <1>2, <1>3, <1>4, <1>5, <1>6, <1>7, Balance

LEMMA CreditInit == Init => CreditInv
<1> SUFFICES ASSUME Init PROVE CreditInv
  OBVIOUS
<1>1. ParserInv
  BY ParserInit
<1>2. FrameInv /\ SyncInv
  BY LayoutAssumption DEF Init, FrameInv, SyncInv
<1>3. accepted = <<>> /\ sent = <<>> /\ noise = 0 /\ clean = TRUE /\ Len(buff) = 3
  BY DEF Init
<1>4. accepted \in Seq(Bodies) /\ sent \in Seq(Bodies) /\ Len(sent) <= MaxFrames /\ noise \in 0..MaxNoise
  BY <1>3, BoundsAssumption
<1>5. \A c \in Conns : pending[c] = <<>>
  BY DEF Init
<1>6. ASSUME NEW b \in Bodies
      PROVE  /\ IsFiniteSet(Owing(b))
             /\ Times(accepted, b) + Cardinality(Owing(b)) + Held(b) <= Times(sent, b)
  <2>1. Owing(b) = {}
    BY <1>5, LayoutAssumption DEF Owing
  <2>2. Held(b) = 0
    BY <1>3 DEF Held, Holds
  <2>3. IsFiniteSet(Owing(b)) /\ Cardinality(Owing(b)) = 0
    BY <2>1, FS_EmptySet
  <2>4. Times(accepted, b) = Times(sent, b) /\ Times(sent, b) \in Nat
    BY <1>3, <1>4, TimesType
  <2> QED
    BY <2>2, <2>3, <2>4
<1> QED
  BY <1>1, <1>2, <1>3, <1>4, <1>5, <1>6 DEF CreditInv

(* The rest of a frame, and whether the next byte is its CRC. *)
LEMMA NextByte ==
  ASSUME NEW c \in Conns, CreditInv, pending[c] # <<>>
  PROVE  /\ body[c] \in Bodies /\ Head(pending[c]) \in Bytes
         /\ Len(pending[c]) \in Nat /\ Len(Tail(pending[c])) = Len(pending[c]) - 1
         /\ Tail(pending[c]) # <<>>
              => \E k \in 1..(FrameLen(body[c]) - 1) :
                   Tail(pending[c]) = SubSeq(Frame(body[c]), k + 1, FrameLen(body[c]))
         /\ \A b \in Bodies :
              Head(pending[c]) = CrcOf(b) <=> body[c] = b /\ Len(pending[c]) = CrcLen
<1>1. PICK b : b = body[c]
  OBVIOUS
<1>2. b \in Bodies /\ Rest(c)
  BY <1>1 DEF CreditInv, Rest
<1>3. PICK k \in 1..(FrameLen(b) - 1) : pending[c] = SubSeq(Frame(b), k + 1, FrameLen(b))
  BY <1>1, <1>2 DEF Rest
<1>4. Len(b) \in Nat /\ FrameLen(b) = HeaderLen + Len(b) + CrcLen /\ FrameLen(b) \in Nat
      /\ HeaderLen \in Nat /\ CrcLen \in Nat \ {0} /\ k \in Nat /\ 1 <= k /\ k < FrameLen(b)
  BY <1>2, <1>3, FrameFacts, LayoutAssumption DEF FrameLen
<1>5. /\ Len(pending[c]) = FrameLen(b) - k
      /\ Head(pending[c]) = Frame(b)[k + 1] /\ Frame(b)[k + 1] \in Bytes
      /\ Tail(pending[c]) = SubSeq(Frame(b), k + 2, FrameLen(b))
      /\ Tail(pending[c]) = <<>> <=> k + 1 = FrameLen(b)
  BY <1>2, <1>3, FrameRest
<1>6. Len(Tail(pending[c])) = Len(pending[c]) - 1
  <2>1. pending[c] \in Seq(Bytes)
    BY DEF CreditInv, ParserInv, StreamInv
  <2> QED
    BY <2>1, HeadTailProperties
<1>7. Tail(pending[c]) # <<>>
        => \E j \in 1..(FrameLen(b) - 1) : Tail(pending[c]) = SubSeq(Frame(b), j + 1, FrameLen(b))
  <2> SUFFICES ASSUME Tail(pending[c]) # <<>>
               PROVE  \E j \in 1..(FrameLen(b) - 1) : Tail(pending[c]) = SubSeq(Frame(b), j + 1, FrameLen(b))
    OBVIOUS
  <2>1. k + 1 \in 1..(FrameLen(b) - 1) /\ k + 1 + 1 = k + 2
    BY <1>4, <1>5
  <2> QED
    BY <1>5, <2>1
<1>8. ASSUME NEW a \in Bodies
      PROVE  Head(pending[c]) = CrcOf(a) <=> b = a /\ Len(pending[c]) = CrcLen
  <2>1. CASE k + 1 = HeaderLen + Len(b) + 1
    <3>1. Len(pending[c]) = CrcLen
      BY <2>1, <1>4, <1>5
    <3>2. Frame(b)[HeaderLen + Len(b) + 1] = CrcOf(b)
      BY <1>2, FrameBytes
    <3>3. Head(pending[c]) = CrcOf(b)
      BY <2>1, <3>2, <1>5
    <3> QED
      BY <3>1, <3>3, <1>2, CrcDistinct
  <2>2. CASE k + 1 # HeaderLen + Len(b) + 1
    <3>1. Len(pending[c]) # CrcLen
      BY <2>2, <1>4, <1>5
    <3>2. k + 1 \in 1..FrameLen(b)
      BY <1>4
    <3>3. Head(pending[c]) \in PlainBytes
      BY <2>2, <3>2, <1>2, <1>5, FrameBytes
    <3> QED
      BY <3>1, <3>3, CrcDistinct
  <2> QED
    BY <2>1, <2>2
<1>9. Len(pending[c]) \in Nat
  <2>1. pending[c] \in Seq(Bytes)
    BY DEF CreditInv, ParserInv, StreamInv
  <2> QED
    BY <2>1, LenProperties
<1> QED
  BY <1>1, <1>2, <1>5, <1>6, <1>7, <1>8, <1>9, Zenon

(* A parser step that sends nothing leaves the other conjuncts alone. *)
LEMMA QuietStep ==
  ASSUME NEW x \in Bytes, InputOem4(x), CreditInv, ParserInv', FrameInv', sent' = sent,
         noise' \in 0..MaxNoise, clean' \in BOOLEAN,
         \A c \in Conns : pending'[c] # <<>> => Rest(c)',
         \A b \in Bodies :
           /\ IsFiniteSet(Owing(b)')
           /\ Cardinality(Owing(b)') + (IF x = CrcOf(b) THEN 1 ELSE 0) <= Cardinality(Owing(b))
  PROVE  CreditInv'
<1>1. SyncInv' /\ accepted' \in Seq(Bodies)
  BY InputSpends DEF CreditInv, ParserInv
<1>2. sent' \in Seq(Bodies) /\ Len(sent') <= MaxFrames
  BY DEF CreditInv
<1>3. ASSUME NEW b \in Bodies
      PROVE  Times(accepted, b)' + Cardinality(Owing(b)') + Held(b)' <= Times(sent, b)'
  <2>1. Times(sent, b) \in Nat
    BY TimesType DEF CreditInv
  <2>2. Times(sent, b)' = Times(sent, b)
    BY DEF Times
  <2>3. Times(sent, b)' = Times(sent, b) + 0
    BY <2>1, <2>2
  <2>4. Cardinality(Owing(b)) \in Nat
    BY FS_CardinalityType DEF CreditInv
  <2>5. Cardinality(Owing(b)') + (IF x = CrcOf(b) THEN 1 ELSE 0) <= Cardinality(Owing(b)) + 0
    BY <2>4
  <2>6. IsFiniteSet(Owing(b)')
    OBVIOUS
  <2> QED
    BY <1>2, <2>3, <2>5, <2>6, AccountStep
<1> QED
  BY <1>1, <1>2, <1>3 DEF CreditInv

LEMMA CreditDeliver ==
  ASSUME NEW c \in Conns, CreditInv, Deliver(c), ParserInv', FrameInv'
  PROVE  CreditInv'
<1>1. /\ pending[c] # <<>> /\ InputOem4(Head(pending[c])) /\ pending'[c] = Tail(pending[c])
      /\ \A d \in Conns : d # c => pending'[d] = pending[d]
      /\ UNCHANGED <<body, sent, noise, clean>>
  BY DEF Deliver, CreditInv, ParserInv, StreamInv
<1>2. PICK x : x = Head(pending[c])
  OBVIOUS
<1>3. /\ body[c] \in Bodies /\ x \in Bytes /\ Len(pending[c]) \in Nat
      /\ Len(pending'[c]) = Len(pending[c]) - 1
      /\ pending'[c] # <<>>
           => \E k \in 1..(FrameLen(body[c]) - 1) :
                pending'[c] = SubSeq(Frame(body[c]), k + 1, FrameLen(body[c]))
      /\ \A b \in Bodies : x = CrcOf(b) <=> body[c] = b /\ Len(pending[c]) = CrcLen
  BY <1>1, <1>2, NextByte
<1>4. \A d \in Conns : pending'[d] # <<>> => Rest(d)'
  <2> SUFFICES ASSUME NEW d \in Conns, pending'[d] # <<>> PROVE Rest(d)'
    OBVIOUS
  <2>1. CASE d = c
    BY <2>1, <1>1, <1>3 DEF Rest
  <2>2. CASE d # c
    BY <2>2, <1>1 DEF CreditInv, Rest
  <2> QED
    BY <2>1, <2>2
<1>5. ASSUME NEW b \in Bodies
      PROVE  /\ IsFiniteSet(Owing(b)')
             /\ Cardinality(Owing(b)') + (IF x = CrcOf(b) THEN 1 ELSE 0) <= Cardinality(Owing(b))
  <2>1. IsFiniteSet(Owing(b))
    BY DEF CreditInv
  <2>2. Owing(b)' = {d \in Conns : body[d] = b /\ Len(pending'[d]) >= CrcLen}
    BY <1>1 DEF Owing
  <2>3. CASE x = CrcOf(b)
    <3>1. body[c] = b /\ Len(pending[c]) = CrcLen
      BY <2>3, <1>3
    <3>2. CrcLen \in Nat /\ ~(Len(pending'[c]) >= CrcLen)
      BY <3>1, <1>3, LayoutAssumption
    <3>3. c \in Owing(b)
      BY <3>1, <3>2 DEF Owing
    <3>4. Owing(b)' = Owing(b) \ {c}
      BY <2>2, <3>2, <1>1 DEF Owing
    <3>5. IsFiniteSet(Owing(b) \ {c}) /\ Cardinality(Owing(b) \ {c}) = Cardinality(Owing(b)) - 1
      BY <2>1, <3>3, FS_RemoveElement
    <3>6. Cardinality(Owing(b)) \in Nat
      BY <2>1, FS_CardinalityType
    <3> QED
      BY <2>3, <3>4, <3>5, <3>6
  <2>4. CASE x # CrcOf(b)
    <3>1. body[c] = b => Len(pending[c]) # CrcLen
      BY <2>4, <1>3
    <3>2. Owing(b)' = Owing(b)
      <4>1. body[c] = b => (Len(pending'[c]) >= CrcLen <=> Len(pending[c]) >= CrcLen)
        BY <3>1, <1>3, LayoutAssumption
      <4> QED
        BY <4>1, <2>2, <1>1 DEF Owing
    <3>3. Cardinality(Owing(b)) \in Nat
      BY <2>1, FS_CardinalityType
    <3> QED
      BY <2>1, <2>4, <3>2, <3>3
  <2> QED
    BY <2>3, <2>4
<1>6. noise' \in 0..MaxNoise /\ clean' \in BOOLEAN /\ sent' = sent
  BY <1>1 DEF CreditInv
<1>7. InputOem4(x)
  BY <1>1, <1>2
<1> QED
  BY <1>3, <1>4, <1>5, <1>6, <1>7, QuietStep

LEMMA CreditCut ==
  ASSUME NEW c \in Conns, CreditInv, Cut(c), ParserInv', FrameInv'
  PROVE  CreditInv'
<1>1. /\ pending' = [pending EXCEPT ![c] = <<>>] /\ noise' = noise + 1 /\ clean' = FALSE
      /\ noise < MaxNoise
      /\ UNCHANGED <<nbyte, len, buff, accepted, body, sent>>
  BY DEF Cut, parserVars
<1>2. /\ pending'[c] = <<>> /\ \A d \in Conns : d # c => pending'[d] = pending[d]
  BY <1>1 DEF CreditInv, ParserInv, StreamInv
<1>3. SyncInv' /\ accepted' \in Seq(Bodies) /\ sent' \in Seq(Bodies) /\ Len(sent') <= MaxFrames
      /\ noise' \in 0..MaxNoise /\ clean' \in BOOLEAN
  <2>1. noise \in 0..MaxNoise
    BY DEF CreditInv
  <2>2. noise' \in 0..MaxNoise
    <3>1. noise' = noise + 1 /\ noise < MaxNoise
      BY <1>1
    <3> QED
      BY <2>1, <3>1, BoundsAssumption
  <2>3. SyncInv'
    BY <1>1 DEF CreditInv, SyncInv
  <2>4. accepted' \in Seq(Bodies) /\ sent' \in Seq(Bodies) /\ Len(sent') <= MaxFrames
    BY <1>1 DEF CreditInv
  <2> QED
    BY <1>1, <2>2, <2>3, <2>4
<1>4. \A d \in Conns : pending'[d] # <<>> => Rest(d)'
  BY <1>1, <1>2 DEF CreditInv, Rest
<1>5. ASSUME NEW b \in Bodies
      PROVE  /\ IsFiniteSet(Owing(b)')
             /\ Times(accepted, b)' + Cardinality(Owing(b)') + Held(b)' <= Times(sent, b)'
  <2>1. Owing(b)' \in SUBSET Owing(b)
    BY <1>1, <1>2, LayoutAssumption DEF Owing
  <2>2. IsFiniteSet(Owing(b)) /\ Times(accepted, b) + Cardinality(Owing(b)) + Held(b) <= Times(sent, b)
    BY DEF CreditInv
  <2>3. IsFiniteSet(Owing(b)') /\ Cardinality(Owing(b)') <= Cardinality(Owing(b))
    BY <2>1, <2>2, FS_Subset
  <2>4. Cardinality(Owing(b)) \in Nat /\ Cardinality(Owing(b)') \in Nat
    BY <2>2, <2>3, FS_CardinalityType
  <2>5. accepted \in Seq(Bodies) /\ sent \in Seq(Bodies)
    BY DEF CreditInv
  <2>6. Times(accepted, b) \in Nat /\ Times(sent, b) \in Nat
    BY <2>5, TimesType
  <2>7. Held(b) \in {0, 1}
    BY DEF Held
  <2>8. Times(accepted, b)' = Times(accepted, b) /\ Times(sent, b)' = Times(sent, b) /\ Held(b)' = Held(b)
    BY <1>1 DEF Times, Held, Holds
  <2>9. Times(accepted, b) + Cardinality(Owing(b)') + Held(b) <= Times(sent, b)
    BY <2>2, <2>3, <2>4, <2>6, <2>7
  <2> QED
    BY <2>3, <2>8, <2>9
<1> QED
  BY <1>3, <1>4, <1>5 DEF CreditInv

LEMMA CreditStray ==
  ASSUME NEW x \in Noise, CreditInv, Stray(x), ParserInv', FrameInv'
  PROVE  CreditInv'
<1>1. /\ InputOem4(x) /\ noise' = noise + 1 /\ clean' = FALSE /\ noise < MaxNoise
      /\ UNCHANGED <<pending, body, sent>>
  BY DEF Stray
<1>2. x \in Bytes /\ x \in PlainBytes
  BY DEF Bytes, PlainBytes
<1>3. noise' \in 0..MaxNoise /\ clean' \in BOOLEAN
  <2>1. noise \in 0..MaxNoise
    BY DEF CreditInv
  <2>2. noise' = noise + 1 /\ noise < MaxNoise
    BY <1>1
  <2>3. noise' \in 0..MaxNoise
    BY <2>1, <2>2, BoundsAssumption
  <2> QED
    BY <1>1, <2>3
<1>4. \A d \in Conns : pending'[d] # <<>> => Rest(d)'
  BY <1>1 DEF CreditInv, Rest
<1>5. ASSUME NEW b \in Bodies
      PROVE  /\ IsFiniteSet(Owing(b)')
             /\ Cardinality(Owing(b)') + (IF x = CrcOf(b) THEN 1 ELSE 0) <= Cardinality(Owing(b))
  <2>1. x # CrcOf(b)
    BY <1>2, CrcDistinct
  <2>2. Owing(b)' = Owing(b)
    BY <1>1 DEF Owing
  <2>3. IsFiniteSet(Owing(b)) /\ Cardinality(Owing(b)) \in Nat
    BY FS_CardinalityType DEF CreditInv
  <2> QED
    BY <2>1, <2>2, <2>3
<1> QED
  BY <1>1, <1>2, <1>3, <1>4, <1>5, QuietStep

LEMMA CreditBegin ==
  ASSUME NEW c \in Conns, NEW b \in Bodies, CreditInv, Begin(c, b), ParserInv', FrameInv'
  PROVE  CreditInv'
<1>1. /\ pending[c] = <<>> /\ InputOem4(Head(Frame(b))) /\ Len(sent) < MaxFrames
      /\ pending'[c] = Tail(Frame(b)) /\ body'[c] = b
      /\ \A d \in Conns : d # c => pending'[d] = pending[d] /\ body'[d] = body[d]
      /\ sent' = Append(sent, b) /\ noise' = noise /\ clean' \in BOOLEAN
  BY DEF Begin, CreditInv, ParserInv, StreamInv
<1>2. PICK x : x = Head(Frame(b))
  OBVIOUS
<1>3. /\ Frame(b) \in Seq(Bytes) /\ Frame(b) # <<>> /\ Len(Frame(b)) = FrameLen(b)
      /\ Len(b) \in Nat /\ HeaderLen \in Nat /\ CrcLen \in Nat \ {0} /\ 3 < HeaderLen
      /\ FrameLen(b) = HeaderLen + Len(b) + CrcLen /\ FrameLen(b) \in Nat
  BY FrameType, FrameFacts, LayoutAssumption DEF FrameLen
<1>4. x = Sync1 /\ x \in Bytes /\ x \in PlainBytes
  BY <1>2, <1>3, FrameFacts, HeadTailProperties DEF PlainBytes, Bytes
<1>5. Len(pending'[c]) = FrameLen(b) - 1
  BY <1>1, <1>3, HeadTailProperties
<1>6. pending'[c] = SubSeq(Frame(b), 1 + 1, FrameLen(b)) /\ 1 \in 1..(FrameLen(b) - 1)
  <2>1. Tail(Frame(b)) = SubSeq(Frame(b), 2, FrameLen(b))
    BY <1>3, TailIsSubSeq
  <2>2. 1 + 1 = 2 /\ 1 \in 1..(FrameLen(b) - 1)
    BY <1>3
  <2> QED
    BY <1>1, <2>1, <2>2
<1>7. \A d \in Conns : pending'[d] # <<>> => Rest(d)'
  <2> SUFFICES ASSUME NEW d \in Conns, pending'[d] # <<>> PROVE Rest(d)'
    OBVIOUS
  <2>1. CASE d = c
    BY <2>1, <1>1, <1>6 DEF Rest
  <2>2. CASE d # c
    BY <2>2, <1>1 DEF CreditInv, Rest
  <2> QED
    BY <2>1, <2>2
<1>8. SyncInv' /\ accepted' \in Seq(Bodies)
  BY <1>1, <1>2, <1>4, InputSpends DEF CreditInv, ParserInv
<1>9. sent' \in Seq(Bodies) /\ Len(sent') <= MaxFrames
  <2>1. sent \in Seq(Bodies)
    BY DEF CreditInv
  <2>2. sent' \in Seq(Bodies) /\ Len(sent') = Len(sent) + 1 /\ Len(sent) \in Nat
    BY <2>1, <1>1, AppendProperties, LenProperties
  <2> QED
    BY <2>2, <1>1, BoundsAssumption
<1>10. ASSUME NEW a \in Bodies
       PROVE  /\ IsFiniteSet(Owing(a)')
              /\ Times(accepted, a)' + Cardinality(Owing(a)') + Held(a)' <= Times(sent, a)'
  <2>1. IsFiniteSet(Owing(a)) /\ Cardinality(Owing(a)) \in Nat /\ c \notin Owing(a)
    <3>1. Len(pending[c]) = 0
      BY <1>1
    <3>2. c \notin Owing(a)
      BY <3>1, <1>3 DEF Owing
    <3> QED
      BY <3>2, FS_CardinalityType DEF CreditInv
  <2>2. x # CrcOf(a)
    BY <1>4, CrcDistinct
  <2>3. sent \in Seq(Bodies)
    BY DEF CreditInv
  <2>4. Times(sent, a) \in Nat
    BY <2>3, TimesType
  <2>5. /\ b = a => Times(sent, a)' = Times(sent, a) + 1
        /\ b # a => Times(sent, a)' = Times(sent, a)
    <3>1. Times(sent, a)' = Times(Append(sent, b), a)
      BY <1>1 DEF Times
    <3> QED
      BY <3>1, <2>3, TimesAppend
  <2>6. CASE b = a
    <3>1. Owing(a)' = Owing(a) \cup {c}
      <4>1. Len(pending'[c]) >= CrcLen
        BY <1>3, <1>5
      <4> QED
        BY <4>1, <2>6, <1>1 DEF Owing
    <3>2. IsFiniteSet(Owing(a) \cup {c}) /\ Cardinality(Owing(a) \cup {c}) = Cardinality(Owing(a)) + 1
      BY <2>1, FS_AddElement
    <3>3. Cardinality(Owing(a)') + (IF x = CrcOf(a) THEN 1 ELSE 0) <= Cardinality(Owing(a)) + 1
      BY <2>1, <2>2, <3>1, <3>2
    <3> QED
      BY <1>1, <1>2, <1>4, <1>9, <2>5, <2>6, <3>1, <3>2, <3>3, AccountStep
  <2>7. CASE b # a
    <3>1. Owing(a)' = Owing(a)
      BY <2>1, <2>7, <1>1 DEF Owing
    <3>2. Cardinality(Owing(a)') + (IF x = CrcOf(a) THEN 1 ELSE 0) <= Cardinality(Owing(a)) + 0
      BY <2>1, <2>2, <3>1
    <3>3. Times(sent, a)' = Times(sent, a) + 0
      BY <2>4, <2>5, <2>7
    <3> QED
      BY <1>1, <1>2, <1>4, <1>9, <2>1, <3>1, <3>2, <3>3, AccountStep
  <2> QED
    BY <2>6, <2>7
<1>11. noise' \in 0..MaxNoise /\ clean' \in BOOLEAN
  BY <1>1 DEF CreditInv
<1> QED
  BY <1>7, <1>8, <1>9, <1>10, <1>11 DEF CreditInv

LEMMA CreditStep == CreditInv /\ [Next]_vars => CreditInv'
<1> SUFFICES ASSUME CreditInv, [Next]_vars PROVE CreditInv'
  OBVIOUS
<1>1. ParserInv' /\ FrameInv'
  BY ParserStep, FramerStep DEF CreditInv, ParserInv
<1>2. ASSUME NEW c \in Conns, NEW b \in Bodies, Begin(c, b) PROVE CreditInv'
  BY <1>1, <1>2, CreditBegin
<1>3. ASSUME NEW c \in Conns, Deliver(c) PROVE CreditInv'
  BY <1>1, <1>3, CreditDeliver
<1>4. ASSUME NEW c \in Conns, Cut(c) PROVE CreditInv'
  BY <1>1, <1>4, CreditCut
<1>5. ASSUME NEW x \in Noise, Stray(x) PROVE CreditInv'
  BY <1>1, <1>5, CreditStray
<1>6. CASE UNCHANGED vars
  <2>1. SyncInv' /\ \A c \in Conns : Rest(c)' <=> Rest(c)
    BY <1>6 DEF vars, parserVars, CreditInv, SyncInv, Rest
  <2>2. \A b : /\ Owing(b)' = Owing(b) /\ Held(b)' = Held(b)
               /\ Times(accepted, b)' = Times(accepted, b) /\ Times(sent, b)' = Times(sent, b)
    BY <1>6 DEF vars, parserVars, Owing, Held, Holds, Times
  <2>3. accepted' = accepted /\ sent' = sent /\ noise' = noise /\ clean' = clean /\ pending' = pending
    BY <1>6 DEF vars, parserVars
  <2> QED
    BY <1>1, <2>1, <2>2, <2>3 DEF CreditInv
<1> QED
  BY <1>2, <1>3, <1>4, <1>5, <1>6 DEF Next

(***************************************************************************)
(* input_oem4 takes no frame more often than it was sent, for every number *)
(* of connections and every interleaving, loss and noise between them, as  *)
(* long as the CRC keeps CrcAssumption; and a clean stream loses none.     *)
(***************************************************************************)
THEOREM FramesAreKept == Spec => []FramesKept
<1>1. CreditInv => TypeOK
  BY DEF CreditInv, ParserInv, BuffInv, FrameInv, StreamInv, TypeOK
<1>2. CreditInv => NothingInvented
  <2> SUFFICES ASSUME CreditInv, NEW i \in DOMAIN accepted
               PROVE  Times(accepted, accepted[i]) <= Times(sent, accepted[i])
    BY DEF NothingInvented
  <2>1. accepted \in Seq(Bodies) /\ sent \in Seq(Bodies)
    BY DEF CreditInv
  <2>2. PICK b : b = accepted[i]
    OBVIOUS
  <2>3. b \in Bodies
    BY <2>1, <2>2
  <2>4. IsFiniteSet(Owing(b)) /\ Times(accepted, b) + Cardinality(Owing(b)) + Held(b) <= Times(sent, b)
    BY <2>3 DEF CreditInv
  <2>5. Times(accepted, b) \in Nat /\ Times(sent, b) \in Nat
    BY <2>1, TimesType
  <2>6. Cardinality(Owing(b)) \in Nat /\ Held(b) \in {0, 1}
    BY <2>4, FS_CardinalityType DEF Held
  <2>7. Times(accepted, b) <= Times(sent, b)
    BY <2>4, <2>5, <2>6
  <2> QED
    BY <2>2, <2>7
<1>3. CreditInv => LosslessWhenClean
  BY DEF CreditInv, ParserInv, LosslessWhenClean, Between, Within
<1> QED
  BY <1>1, <1>2, <1>3, CreditInit, CreditStep, PTL DEF Spec, FramesKept

-----------------------------------------------------------------------------
(* The time of the receiver (GpsTime)                                        *)

(* A set of numbers has a smallest one.                                       *)
LEMMA GtSmallest ==
  ASSUME NEW S \in SUBSET Nat, S # {}
  PROVE  \E m \in S : \A j \in S : m <= j
<1>1. PICK m \in S : \A j \in S : ~(<<j, m>> \in OpToRel(<, Nat))
  BY NatLessThanWellFounded, WFMin
<1>2. \A j \in S : m <= j
  <2> SUFFICES ASSUME NEW j \in S PROVE m <= j
    OBVIOUS
  <2>1. <<j, m>> \in Nat \X Nat /\ j \in Nat /\ m \in Nat
    OBVIOUS
  <2>2. ~(j < m)
    BY <1>1, <2>1 DEF OpToRel
  <2> QED
    BY <2>1, <2>2
<1> QED
  BY <1>2

(* The first moment of GPS time, and no day with a leap second before it.    *)
LEMMA GtBegins == GtGps0 = 315964800
  BY SMT DEF GtGps0, GtFirst, GtFromEpoch, GtDayOfYear, GtDay

LEMMA GtLater ==
  ASSUME NEW y \in 1981..2017, NEW m \in {1, 7}
  PROVE  GtFirst(y, m, 1) \in Nat /\ GtFirst(y, m, 1) > 315964900
<1>1. PICK q : q = (y - 1969) \div 4
  OBVIOUS
<1>2. q \in Nat
  BY SMT, <1>1
<1>3. PICK b : b = IF y % 4 = 0 /\ m >= 3 THEN 1 ELSE 0
  OBVIOUS
<1>4. b \in Nat
  BY SMT, <1>3
<1>5. PICK d : d = GtDayOfYear[m]
  BY SMT
<1>6. d \in {1, 182}
  <2>1. GtDayOfYear[1] = 1 /\ GtDayOfYear[7] = 182
    BY SMT DEF GtDayOfYear
  <2> QED
    BY SMT, <1>5, <2>1
<1>7. GtFirst(y, m, 1) = ((y - 1970) * 365 + q + d + 1 - 2 + b) * 86400 + 0
  <2>1. y \in 1970..2099
    BY SMT
  <2> QED
    BY SMT, <1>1, <1>3, <1>5, <2>1 DEF GtFirst, GtFromEpoch, GtDay
<1> QED
  BY SMT, <1>2, <1>4, <1>6, <1>7

LEMMA GtLeapsLater ==
  ASSUME NEW i \in DOMAIN GtLeaps
  PROVE  /\ GtLeaps[i] \in Nat /\ GtLeaps[i] > 315964900
         /\ GtLeapSeconds(i) \in 1..18
<1>1. i \in 1..18
  BY SMT DEF GtLeaps
<1>2. GtLeapSeconds(i) \in 1..18
  BY SMT, <1>1 DEF GtLeapSeconds
<1>3. \E y \in 1981..2017, m \in {1, 7} : GtLeaps[i] = GtFirst(y, m, 1)
  BY SMT, <1>1 DEF GtLeaps
<1> QED
  BY SMT, <1>2, <1>3, GtLater

(* The inductive invariant: a receiver's time is none before GPS time began. *)
GtInv == gtTime \in Nat /\ gtTime >= 315964800

LEMMA GtInitInv == GtInit => GtInv
<1> SUFFICES ASSUME GtInit PROVE GtInv
  OBVIOUS
<1>1. CASE gtTime = GtGps0
  BY SMT, <1>1, GtBegins DEF GtInv
<1>2. CASE \E i \in DOMAIN GtLeaps, d \in -1..1 : gtTime = GtLeaps[i] + GtLeapSeconds(i) + d
  <2>1. PICK i \in DOMAIN GtLeaps, d \in -1..1 : gtTime = GtLeaps[i] + GtLeapSeconds(i) + d
    BY SMT, <1>2
  <2>2. PICK l, s : l = GtLeaps[i] /\ s = GtLeapSeconds(i)
    OBVIOUS
  <2>3. l \in Nat /\ l > 315964900 /\ s \in 1..18
    BY SMT, <2>2, GtLeapsLater
  <2>4. gtTime = l + s + d
    BY SMT, <2>1, <2>2
  <2> QED
    BY SMT, <2>3, <2>4 DEF GtInv
<1> QED
  BY SMT, <1>1, <1>2 DEF GtInit

LEMMA GtStepInv == GtInv /\ [GtNext]_gtVars => GtInv'
  BY SMT, GpsTimeAssumption DEF GtInv, GtNext, gtVars

(* The calendar: the days of four years before their month m.                *)
GtBefore(m) ==
  365 * ((m - 1) \div 12) + GtDayOfYear[1 + ((m - 1) % 12)] - 1 + (IF m >= 27 THEN 1 ELSE 0)

LEMMA GtMonth ==
  ASSUME NEW y \in 0..3, NEW r \in 0..11, NEW m \in 1..48, m = 12 * y + r + 1
  PROVE  /\ (m - 1) \div 12 = y /\ (m - 1) % 12 = r
         /\ GtBefore(m) = 365 * y + GtDayOfYear[1 + r] - 1 + (IF y = 3 \/ (y = 2 /\ r >= 2) THEN 1 ELSE 0)
         /\ GtDays(m) = IF y = 2 /\ r = 1 THEN 29 ELSE GtMonthDays[1 + r]
<1>1. (m - 1) \div 12 = y /\ (m - 1) % 12 = r
  BY SMT
<1>2. m >= 27 <=> y = 3 \/ (y = 2 /\ r >= 2)
  BY SMT
<1>3. m = 26 <=> y = 2 /\ r = 1
  BY SMT
<1> QED
  BY <1>1, <1>2, <1>3 DEF GtBefore, GtDays

(* Each of the 48 months is one of a year of four.                           *)
LEMMA GtParts ==
  ASSUME NEW m \in 1..48
  PROVE  \E y \in 0..3, r \in 0..11 : m = 12 * y + r + 1
<1>1. (m - 1) \div 12 \in 0..3 /\ (m - 1) % 12 \in 0..11 /\ m = 12 * ((m - 1) \div 12) + ((m - 1) % 12) + 1
  BY SMT
<1> QED
  BY <1>1

LEMMA GtTypes == GtDayOfYear \in [1..12 -> 1..365] /\ GtMonthDays \in [1..12 -> 28..31]
  BY SMT DEF GtDayOfYear, GtMonthDays

LEMMA GtDaysType ==
  ASSUME NEW m \in 1..48
  PROVE  GtDays(m) \in 28..31 /\ GtBefore(m) \in Int
<1>1. PICK y \in 0..3, r \in 0..11 : m = 12 * y + r + 1
  BY GtParts
<1>2. GtDayOfYear[1 + r] \in 1..365 /\ GtMonthDays[1 + r] \in 28..31
  <2>1. 1 + r \in 1..12
    BY SMT
  <2> QED
    BY <2>1, GtTypes
<1>3. /\ GtBefore(m) = 365 * y + GtDayOfYear[1 + r] - 1 + (IF y = 3 \/ (y = 2 /\ r >= 2) THEN 1 ELSE 0)
      /\ GtDays(m) = IF y = 2 /\ r = 1 THEN 29 ELSE GtMonthDays[1 + r]
  BY <1>1, GtMonth
<1> QED
  BY SMT, <1>2, <1>3

LEMMA GtYearOn ==
  ASSUME NEW r \in 0..10
  PROVE  GtDayOfYear[1 + r] + GtMonthDays[1 + r] = GtDayOfYear[2 + r]
<1>1. r \in {0, 1, 2, 3, 4, 5, 6, 7, 8, 9, 10}
  BY SMT
<1> QED
  BY SMT, <1>1 DEF GtDayOfYear, GtMonthDays

LEMMA GtYearEnd == GtDayOfYear[1] = 1 /\ GtDayOfYear[12] + GtMonthDays[12] = 366
  BY SMT DEF GtDayOfYear, GtMonthDays

(* Each month begins where the one before it ends, and the fourth year ends  *)
(* with its last month.                                                      *)
LEMMA GtBeforeNext ==
  /\ GtBefore(1) = 0
  /\ GtBefore(49) = 1461
  /\ \A m \in 1..48 : GtBefore(m + 1) = GtBefore(m) + GtDays(m)
<1>1. GtBefore(1) = 0
  <2>1. (1 - 1) \div 12 = 0 /\ (1 - 1) % 12 = 0
    BY SMT
  <2> QED
    BY SMT, <2>1, GtYearEnd DEF GtBefore
<1>2. GtBefore(49) = 1461
  <2>1. (49 - 1) \div 12 = 4 /\ (49 - 1) % 12 = 0
    BY SMT
  <2> QED
    BY SMT, <2>1, GtYearEnd DEF GtBefore
<1>3. ASSUME NEW m \in 1..48 PROVE GtBefore(m + 1) = GtBefore(m) + GtDays(m)
  <2>1. PICK y \in 0..3, r \in 0..11 : m = 12 * y + r + 1
    BY GtParts
  <2>2. /\ GtBefore(m) = 365 * y + GtDayOfYear[1 + r] - 1 + (IF y = 3 \/ (y = 2 /\ r >= 2) THEN 1 ELSE 0)
        /\ GtDays(m) = IF y = 2 /\ r = 1 THEN 29 ELSE GtMonthDays[1 + r]
    BY <2>1, GtMonth
  <2>3. CASE r < 11
    <3>1. r \in 0..10 /\ r + 1 \in 0..11 /\ m + 1 \in 1..48 /\ m + 1 = 12 * y + (r + 1) + 1 /\ 1 + (r + 1) = 2 + r
      BY SMT, <2>1, <2>3
    <3>2. GtBefore(m + 1) = 365 * y + GtDayOfYear[2 + r] - 1 + (IF y = 3 \/ (y = 2 /\ r + 1 >= 2) THEN 1 ELSE 0)
      BY <3>1, GtMonth
    <3>3. GtDayOfYear[1 + r] + GtMonthDays[1 + r] = GtDayOfYear[2 + r]
      BY <3>1, GtYearOn
    <3>4. 1 + r \in 1..12 /\ 2 + r \in 1..12
      BY SMT, <3>1
    <3>5. PICK d \in 1..365, n \in 28..31, e \in 1..365 :
            d = GtDayOfYear[1 + r] /\ n = GtMonthDays[1 + r] /\ e = GtDayOfYear[2 + r]
      <4>1. GtDayOfYear[1 + r] \in 1..365 /\ GtMonthDays[1 + r] \in 28..31 /\ GtDayOfYear[2 + r] \in 1..365
        BY SMT, <3>4, GtTypes
      <4> QED
        BY <4>1
    <3>6. r = 1 => n = 28
      BY SMT, <3>5 DEF GtMonthDays
    <3> QED
      BY SMT, <2>2, <3>2, <3>3, <3>5, <3>6
  <2>4. CASE r = 11 /\ y < 3
    <3>1. y + 1 \in 0..3 /\ m + 1 \in 1..48 /\ m + 1 = 12 * (y + 1) + 0 + 1 /\ 0 \in 0..11 /\ 1 + 0 = 1 /\ 1 + r = 12
      BY SMT, <2>1, <2>4
    <3>2. GtBefore(m + 1) = 365 * (y + 1) + GtDayOfYear[1] - 1 + (IF y + 1 = 3 \/ (y + 1 = 2 /\ 0 >= 2) THEN 1 ELSE 0)
      BY <3>1, GtMonth
    <3>4. PICK d \in 1..365, n \in 28..31 : d = GtDayOfYear[12] /\ n = GtMonthDays[12]
      <4>1. GtDayOfYear[12] \in 1..365 /\ GtMonthDays[12] \in 28..31
        BY SMT, GtTypes
      <4> QED
        BY <4>1
    <3> QED
      BY SMT, <2>2, <2>4, <3>1, <3>2, <3>4, GtYearEnd
  <2>5. CASE r = 11 /\ y = 3
    <3>1. m + 1 = 49 /\ 1 + r = 12
      BY SMT, <2>1, <2>5
    <3>4. PICK d \in 1..365, n \in 28..31 : d = GtDayOfYear[12] /\ n = GtMonthDays[12]
      <4>1. GtDayOfYear[12] \in 1..365 /\ GtMonthDays[12] \in 28..31
        BY SMT, GtTypes
      <4> QED
        BY <4>1
    <3> QED
      BY SMT, <2>2, <2>5, <3>1, <3>4, GtYearEnd, <1>2
  <2> QED
    BY SMT, <2>3, <2>4, <2>5
<1> QED
  BY <1>1, <1>2, <1>3

(* What is left before each month, while the walk takes months from the day. *)
LEMMA GtLeftIs ==
  ASSUME NEW day \in Int
  PROVE  \A m \in 1..49 : GtLeft(day)[m] = day - GtBefore(m)
<1> DEFINE Walks(f) == f = [m \in 1..49 |-> IF m = 1 THEN day ELSE f[m - 1] - GtDays(m - 1)]
           walk == [m \in 1..49 |-> day - GtBefore(m)]
           left == CHOOSE f : Walks(f)
<1>1. \A m \in 1..49 : GtBefore(m) \in Int
  <2> SUFFICES ASSUME NEW m \in 1..49 PROVE GtBefore(m) \in Int
    OBVIOUS
  <2>1. m = 49 \/ m \in 1..48
    BY SMT
  <2> QED
    BY SMT, <2>1, GtDaysType, GtBeforeNext
<1>2. \A m \in 2..49 : m - 1 \in 1..49 /\ GtBefore(m) = GtBefore(m - 1) + GtDays(m - 1) /\ GtDays(m - 1) \in Int
  <2> SUFFICES ASSUME NEW m \in 2..49
               PROVE  m - 1 \in 1..49 /\ GtBefore(m) = GtBefore(m - 1) + GtDays(m - 1) /\ GtDays(m - 1) \in Int
    OBVIOUS
  <2>1. m - 1 \in 1..48 /\ m - 1 \in 1..49 /\ (m - 1) + 1 = m
    BY SMT
  <2>2. GtDays(m - 1) \in 28..31
    BY <2>1, GtDaysType
  <2>3. GtBefore((m - 1) + 1) = GtBefore(m - 1) + GtDays(m - 1)
    BY <2>1, GtBeforeNext
  <2> QED
    BY SMT, <2>1, <2>2, <2>3
<1>3. Walks(walk)
  <2>1. ASSUME NEW m \in 1..49
        PROVE  day - GtBefore(m) = IF m = 1 THEN day ELSE walk[m - 1] - GtDays(m - 1)
    <3>1. CASE m = 1
      BY SMT, <3>1, GtBeforeNext
    <3>2. CASE m # 1
      <4>1. m \in 2..49
        BY SMT, <3>2
      <4>2. m - 1 \in 1..49 /\ GtBefore(m) = GtBefore(m - 1) + GtDays(m - 1) /\ GtDays(m - 1) \in Int
        BY <1>2, <4>1
      <4>3. walk[m - 1] = day - GtBefore(m - 1)
        BY <4>2
      <4> QED
        BY SMT, <1>1, <3>2, <4>2, <4>3
    <3> QED
      BY <3>1, <3>2
  <2> QED
    BY <2>1
<1>4. Walks(left)
  BY <1>3
<1>5. GtLeft(day) = left
  BY DEF GtLeft
<1>6. left[1] = day /\ \A m \in 2..49 : left[m] = left[m - 1] - GtDays(m - 1)
  <2>1. \A m \in 1..49 : left[m] = IF m = 1 THEN day ELSE left[m - 1] - GtDays(m - 1)
    BY <1>4
  <2>2. 1 \in 1..49 /\ \A m \in 2..49 : m \in 1..49 /\ m # 1
    BY SMT
  <2> QED
    BY <2>1, <2>2
<1> HIDE DEF Walks, walk, left
<1>7. ASSUME NEW m \in 1..49 PROVE left[m] = day - GtBefore(m)
  <2> DEFINE S == {k \in 1..49 : left[k] # day - GtBefore(k)}
  <2>a. SUFFICES ASSUME S # {} PROVE FALSE
    OBVIOUS
  <2>1. S \in SUBSET Nat
    BY SMT
  <2>2. PICK k \in S : \A j \in S : k <= j
    BY <2>a, <2>1, GtSmallest
  <2>3. k \in 1..49 /\ left[k] # day - GtBefore(k)
    OBVIOUS
  <2>4. k # 1
    BY SMT, <2>3, <1>6, GtBeforeNext
  <2>5. k \in 2..49 /\ ~(k <= k - 1)
    BY SMT, <2>3, <2>4
  <2>6. k - 1 \in 1..49 /\ GtBefore(k) = GtBefore(k - 1) + GtDays(k - 1) /\ GtDays(k - 1) \in Int
    BY <1>2, <2>5
  <2>7. left[k - 1] = day - GtBefore(k - 1)
    BY <2>2, <2>5, <2>6
  <2>8. left[k] = left[k - 1] - GtDays(k - 1)
    BY <1>6, <2>5
  <2> QED
    BY SMT, <1>1, <2>3, <2>6, <2>7, <2>8
<1> QED
  BY <1>5, <1>7

(* The month that the walk stops at is one of the 48, and the day is in it.  *)
GtFourYears == 1461
GtYearOf(b, y) == 1970 + 4 * b + y
GtLastYear == 2099
GtMonthOf(day) == Min({m \in 1..49 : m = 49 \/ GtLeft(day)[m] < GtDays(m)})

LEMMA GtMonthFound ==
  ASSUME NEW day \in 0..(GtFourYears - 1)
  PROVE  /\ GtMonthOf(day) \in 1..48
         /\ GtLeft(day)[GtMonthOf(day)] = day - GtBefore(GtMonthOf(day))
         /\ GtLeft(day)[GtMonthOf(day)] \in 0..30
<1> DEFINE left == GtLeft(day)
           S == {m \in 1..49 : m = 49 \/ left[m] < GtDays(m)}
           mon == Min(S)
<1>0. day \in 0..1460
  BY SMT DEF GtFourYears
<1>1. \A m \in 1..49 : left[m] = day - GtBefore(m) /\ left[m] \in Int
  <2> SUFFICES ASSUME NEW m \in 1..49 PROVE left[m] = day - GtBefore(m) /\ left[m] \in Int
    OBVIOUS
  <2>1. day \in Int
    BY SMT, <1>0
  <2>2. left[m] = day - GtBefore(m)
    BY <2>1, GtLeftIs
  <2>3. m = 49 \/ m \in 1..48
    BY SMT
  <2>4. GtBefore(m) \in Int
    <3>1. CASE m = 49
      BY SMT, <3>1, GtBeforeNext
    <3>2. CASE m \in 1..48
      BY <3>2, GtDaysType
    <3> QED
      BY <2>3, <3>1, <3>2
  <2> QED
    BY SMT, <2>2, <2>4
<1>2. \A m \in 1..48 : m + 1 \in 1..49 /\ left[m + 1] = left[m] - GtDays(m) /\ GtDays(m) \in 28..31
  <2> SUFFICES ASSUME NEW m \in 1..48
               PROVE  m + 1 \in 1..49 /\ left[m + 1] = left[m] - GtDays(m) /\ GtDays(m) \in 28..31
    OBVIOUS
  <2>1. m \in 1..49 /\ m + 1 \in 1..49
    BY SMT
  <2>2. left[m + 1] = day - GtBefore(m + 1) /\ left[m] = day - GtBefore(m)
    BY <1>1, <2>1
  <2>3. GtDays(m) \in 28..31 /\ GtBefore(m) \in Int /\ GtBefore(m + 1) = GtBefore(m) + GtDays(m)
    BY GtDaysType, GtBeforeNext
  <2> QED
    BY SMT, <2>1, <2>2, <2>3
<1>3. left[1] = day /\ left[49] = day - 1461
  <2>1. 1 \in 1..49 /\ 49 \in 1..49
    BY SMT
  <2>2. left[1] = day - GtBefore(1) /\ left[49] = day - GtBefore(49)
    BY <1>1, <2>1
  <2> QED
    BY SMT, <2>2, GtBeforeNext
<1> HIDE DEF left
<1>4. mon \in S /\ \A j \in S : mon <= j
  <2>1. 49 \in S /\ S \in SUBSET Nat
    BY SMT
  <2>2. \E m \in S : \A j \in S : m <= j
    <3> HIDE DEF S
    <3> QED
      BY <2>1, GtSmallest
  <2> QED
    BY <2>2 DEF Min
<1>5. left[mon] >= 0
  <2>1. CASE mon = 1
    BY SMT, <1>0, <2>1, <1>3
  <2>2. CASE mon # 1
    <3>1. mon - 1 \in 1..48 /\ mon - 1 \in 1..49 /\ (mon - 1) + 1 = mon /\ ~(mon <= mon - 1) /\ mon - 1 # 49
      <4>1. mon \in 1..49
        BY <1>4
      <4> HIDE DEF mon
      <4> QED
        BY SMT, <4>1, <2>2
    <3>2. mon - 1 \notin S
      BY <1>4, <3>1
    <3>3. ~(left[mon - 1] < GtDays(mon - 1))
      BY <3>1, <3>2
    <3>4. left[mon] = left[mon - 1] - GtDays(mon - 1) /\ GtDays(mon - 1) \in 28..31 /\ left[mon - 1] \in Int
      BY <1>1, <1>2, <3>1
    <3> HIDE DEF mon
    <3> QED
      BY SMT, <3>3, <3>4
  <2> QED
    BY <2>1, <2>2
<1>6. mon # 49
  BY SMT, <1>0, <1>3, <1>5
<1>7. mon \in 1..48 /\ left[mon] < GtDays(mon)
  <2>1. mon \in 1..49 /\ left[mon] < GtDays(mon)
    BY <1>4, <1>6
  <2> HIDE DEF mon
  <2> QED
    BY SMT, <2>1, <1>6
<1>8. left[mon] = day - GtBefore(mon) /\ left[mon] \in 0..30
  <2>1. mon \in 1..49
    BY <1>4
  <2> HIDE DEF mon
  <2>2. left[mon] = day - GtBefore(mon) /\ left[mon] \in Int /\ GtDays(mon) \in 28..31
    BY <1>1, <1>2, <1>7, <2>1
  <2> QED
    BY SMT, <1>5, <1>7, <2>2
<1> QED
  BY <1>7, <1>8 DEF left, GtMonthOf

(* Years of four, and the first of them 1970.                                *)
LEMMA GtYears ==
  ASSUME NEW b \in Nat, NEW y \in 0..3
  PROVE  /\ (1970 + 4 * b + y - 1969) \div 4 = b + (IF y = 3 THEN 1 ELSE 0)
         /\ (1970 + 4 * b + y) % 4 = 0 <=> y = 2
         /\ 1970 + 4 * b + y <= 2099 => 1970 + 4 * b + y \in 1970..2099
<1>1. 1970 + 4 * b + y - 1969 = 4 * b + (y + 1)
  BY SMT
<1>2. (4 * b + (y + 1)) \div 4 = b + (IF y = 3 THEN 1 ELSE 0)
  BY SMT
<1>3. (1970 + 4 * b + y) % 4 = (IF y < 2 THEN y + 2 ELSE y - 2)
  BY SMT
<1>4. (IF y < 2 THEN y + 2 ELSE y - 2) = 0 <=> y = 2
  BY SMT
<1>5. 1970 + 4 * b + y <= 2099 => 1970 + 4 * b + y \in 1970..2099
  BY SMT
<1> QED
  BY SMT, <1>1, <1>2, <1>3, <1>4, <1>5

LEMMA GtSum ==
  ASSUME NEW b \in Nat, NEW y \in 0..3, NEW r \in 0..11, NEW l \in Int, NEW o \in Int
  PROVE  ((1970 + 4 * b + y) - 1970) * 365 + (b + (IF y = 3 THEN 1 ELSE 0)) + o + (l + 1) - 2
           + (IF y = 2 /\ r >= 2 THEN 1 ELSE 0)
         = 1461 * b + (365 * y + o - 1 + (IF y = 3 \/ (y = 2 /\ r >= 2) THEN 1 ELSE 0) + l)
  BY SMT

(* epoch2time of what time2epoch makes of the four years b and the month and *)
(* day in them.                                                              *)
LEMMA GtEpochOf ==
  ASSUME NEW b \in Nat, NEW y \in 0..3, NEW r \in 0..11, NEW l \in Int, NEW sec \in Int,
         1970 + 4 * b + y <= 2099
  PROVE  GtFromEpoch([year |-> 1970 + 4 * b + y, month |-> 1 + r, day |-> l + 1, sec |-> sec])
           = (1461 * b + (365 * y + GtDayOfYear[1 + r] - 1
                           + (IF y = 3 \/ (y = 2 /\ r >= 2) THEN 1 ELSE 0) + l)) * 86400 + sec
<1>1. PICK year \in 1970..2099 : year = 1970 + 4 * b + y
  BY SMT, GtYears
<1>2. PICK o \in Int : o = GtDayOfYear[1 + r]
  <2>1. 1 + r \in 1..12
    BY SMT
  <2>2. GtDayOfYear[1 + r] \in Int
    BY SMT, <2>1, GtTypes
  <2> QED
    BY <2>2
<1>3. PICK q \in Int : q = b + (IF y = 3 THEN 1 ELSE 0) /\ (year - 1969) \div 4 = q
  BY SMT, <1>1, GtYears
<1>4. year % 4 = 0 <=> y = 2
  BY SMT, <1>1, GtYears
<1>5. 1 + r >= 3 <=> r >= 2
  BY SMT
<1>6. GtFromEpoch([year |-> year, month |-> 1 + r, day |-> l + 1, sec |-> sec])
        = ((year - 1970) * 365 + q + o + (l + 1) - 2
            + (IF y = 2 /\ r >= 2 THEN 1 ELSE 0)) * 86400 + sec
  BY SMT, <1>2, <1>3, <1>4, <1>5 DEF GtFromEpoch, GtDay
<1>7. (year - 1970) * 365 + q + o + (l + 1) - 2 + (IF y = 2 /\ r >= 2 THEN 1 ELSE 0)
      = 1461 * b + (365 * y + o - 1 + (IF y = 3 \/ (y = 2 /\ r >= 2) THEN 1 ELSE 0) + l)
  BY SMT, <1>1, <1>3, GtSum
<1> QED
  BY SMT, <1>1, <1>2, <1>6, <1>7

LEMMA GtEpochKept ==
  ASSUME NEW b \in Nat, NEW y \in 0..3, NEW r \in 0..11, NEW mon \in 1..48, mon = 12 * y + r + 1,
         NEW l \in 0..30, NEW sec \in Int, GtYearOf(b, y) <= GtLastYear
  PROVE  GtFromEpoch([year |-> GtYearOf(b, y), month |-> 1 + r, day |-> l + 1, sec |-> sec])
           = GtDay * (GtFourYears * b + (GtBefore(mon) + l)) + sec
<1>1. 1970 + 4 * b + y <= 2099 /\ l \in Int
  BY SMT DEF GtYearOf, GtLastYear
<1>2. PICK o \in Int : o = GtDayOfYear[1 + r]
  <2>1. 1 + r \in 1..12
    BY SMT
  <2>2. GtDayOfYear[1 + r] \in Int
    BY SMT, <2>1, GtTypes
  <2> QED
    BY <2>2
<1>3. PICK h \in Int : h = IF y = 3 \/ (y = 2 /\ r >= 2) THEN 1 ELSE 0
  BY SMT
<1>4. GtBefore(mon) = 365 * y + o - 1 + h
  BY SMT, <1>2, <1>3, GtMonth
<1>5. GtFromEpoch([year |-> 1970 + 4 * b + y, month |-> 1 + r, day |-> l + 1, sec |-> sec])
        = (1461 * b + (365 * y + o - 1 + h + l)) * 86400 + sec
  <2>1. GtFromEpoch([year |-> 1970 + 4 * b + y, month |-> 1 + r, day |-> l + 1, sec |-> sec])
          = (1461 * b + (365 * y + GtDayOfYear[1 + r] - 1
                          + (IF y = 3 \/ (y = 2 /\ r >= 2) THEN 1 ELSE 0) + l)) * 86400 + sec
    BY SMT, <1>1, GtEpochOf
  <2> QED
    BY SMT, <1>2, <1>3, <2>1
<1>6. GtDay * (GtFourYears * b + (GtBefore(mon) + l)) + sec
        = (1461 * b + (365 * y + o - 1 + h + l)) * 86400 + sec
  BY SMT, <1>4 DEF GtDay, GtFourYears
<1> QED
  BY SMT, <1>5, <1>6 DEF GtYearOf

LEMMA GtDivided ==
  ASSUME NEW t \in Nat, NEW n \in Nat \ {0}
  PROVE  \E q \in Nat, r \in 0..(n - 1) : t \div n = q /\ t % n = r /\ t = n * q + r
<1>1. t \div n \in Nat
  BY SMT
<1>2. t % n \in 0..(n - 1)
  BY SMT
<1>3. t = n * (t \div n) + (t % n)
  BY SMT
<1> QED
  BY <1>1, <1>2, <1>3

LEMMA GtUnits == GtDay \in Nat \ {0} /\ GtFourYears \in Nat \ {0} /\ GtLastYear = 2099
  BY SMT DEF GtDay, GtFourYears, GtLastYear

LEMMA GtToEpochIs ==
  ASSUME NEW t \in Nat
  PROVE  LET days == t \div GtDay
             day == days % GtFourYears
             mon == GtMonthOf(day)
         IN GtToEpoch(t) = [year |-> GtYearOf(days \div GtFourYears, (mon - 1) \div 12),
                            month |-> 1 + ((mon - 1) % 12), day |-> GtLeft(day)[mon] + 1, sec |-> t % GtDay]
  BY SMT DEF GtToEpoch, GtMonthOf, GtYearOf, GtFourYears

(* The year, month and day of a second are those of its day.                 *)
LEMMA GtDayFound ==
  ASSUME NEW t \in Nat
  PROVE  LET e == GtToEpoch(t) IN
         /\ e.month \in 1..12 /\ e.day \in 1..31
         /\ e.year <= GtLastYear => GtFromEpoch(e) = t
<1>1. PICK days \in Nat, sec \in 0..(GtDay - 1) :
        t \div GtDay = days /\ t % GtDay = sec /\ t = GtDay * days + sec
  BY GtUnits, GtDivided, Zenon
<1>2. PICK b \in Nat, day \in 0..(GtFourYears - 1) :
        days \div GtFourYears = b /\ days % GtFourYears = day /\ days = GtFourYears * b + day
  BY GtUnits, GtDivided, Zenon
<1>3. PICK mon \in 1..48 :
        mon = GtMonthOf(day) /\ GtLeft(day)[mon] = day - GtBefore(mon) /\ GtLeft(day)[mon] \in 0..30
  BY GtMonthFound, Zenon
<1>4. GtToEpoch(t) = [year |-> GtYearOf(b, (mon - 1) \div 12), month |-> 1 + ((mon - 1) % 12),
                      day |-> GtLeft(day)[mon] + 1, sec |-> sec]
  BY <1>1, <1>2, <1>3, GtToEpochIs, Zenon
<1>5. PICK y \in 0..3, r \in 0..11 : mon = 12 * y + r + 1
  BY GtParts, Zenon
<1>6. (mon - 1) \div 12 = y /\ (mon - 1) % 12 = r
  BY <1>5, GtMonth
<1>7. PICK l \in 0..30 : l = GtLeft(day)[mon] /\ l = day - GtBefore(mon)
  BY <1>3, Zenon
<1>8. GtToEpoch(t) = [year |-> GtYearOf(b, y), month |-> 1 + r, day |-> l + 1, sec |-> sec]
  BY <1>4, <1>6, <1>7, Zenon
<1>9. GtToEpoch(t).month \in 1..12 /\ GtToEpoch(t).day \in 1..31
  <2>1. 1 + r \in 1..12 /\ l + 1 \in 1..31
    BY ONLY SMT, r \in 0..11, l \in 0..30
  <2>2. GtToEpoch(t).month = 1 + r /\ GtToEpoch(t).day = l + 1
    BY <1>8
  <2> QED
    BY <2>1, <2>2, Zenon
<1>10. ASSUME GtToEpoch(t).year <= GtLastYear PROVE GtFromEpoch(GtToEpoch(t)) = t
  <2>1. GtYearOf(b, y) <= GtLastYear
    BY <1>8, <1>10
  <2>2. sec \in Int
    BY SMT, GtUnits
  <2>3. GtFromEpoch([year |-> GtYearOf(b, y), month |-> 1 + r, day |-> l + 1, sec |-> sec])
          = GtDay * (GtFourYears * b + (GtBefore(mon) + l)) + sec
    BY <1>5, <2>1, <2>2, GtEpochKept, Zenon
  <2>4. GtBefore(mon) + l = day
    <3>1. GtBefore(mon) \in Int
      BY GtDaysType, Zenon
    <3>2. day \in Int
      BY SMT, GtUnits
    <3> QED
      BY ONLY SMT, <1>7, <3>1, <3>2, l \in 0..30
  <2> QED
    BY <1>1, <1>2, <1>8, <2>3, <2>4, Zenon
<1> QED
  BY <1>9, <1>10, Zenon

(* The leap seconds that were added to a time of UTC are those taken from it *)
(* again: a day with more of them is no day of the time with fewer.          *)
LEMMA GtSecondsKept ==
  ASSUME NEW t \in Int
  PROVE  GtGpsToUtc(GtUtcToGps(t)) = t
<1> DEFINE A == {i \in DOMAIN GtLeaps : t >= GtLeaps[i]}
           g == GtUtcToGps(t)
           B == {i \in DOMAIN GtLeaps : g - GtLeapSeconds(i) >= GtLeaps[i]}
<1>1. DOMAIN GtLeaps = 1..18
  BY SMT DEF GtLeaps
<1>2. \A i \in 1..18 : GtLeaps[i] \in Int /\ GtLeapSeconds(i) \in 1..18 /\ GtLeapSeconds(i) = 19 - i
  BY SMT, <1>1, GtLeapsLater DEF GtLeapSeconds
<1>3. g = t + GtFirstOf(A)
  BY SMT DEF GtUtcToGps
<1>4. GtGpsToUtc(g) = g - GtFirstOf(B)
  BY SMT DEF GtGpsToUtc
<1>5. CASE A = {}
  <2>1. g = t
    BY SMT, <1>3, <1>5 DEF GtFirstOf
  <2>2. B = {}
    <3> SUFFICES ASSUME NEW i \in B PROVE FALSE
      BY SMT
    <3>1. i \in 1..18 /\ g - GtLeapSeconds(i) >= GtLeaps[i] /\ ~(t >= GtLeaps[i])
      BY SMT, <1>1, <1>5
    <3> HIDE DEF A, B, g
    <3> QED
      BY SMT, <1>2, <2>1, <3>1
  <2> HIDE DEF A, B, g
  <2>3. GtFirstOf(B) = 0
    BY SMT, <2>2 DEF GtFirstOf
  <2> QED
    BY SMT, <1>4, <2>1, <2>3 DEF g
<1>6. CASE A # {}
  <2>1. Min(A) \in A /\ \A j \in A : Min(A) <= j
    <3>1. A \in SUBSET Nat
      BY SMT, <1>1
    <3>2. \E m \in A : \A j \in A : m <= j
      <4> HIDE DEF A
      <4> QED
        BY <1>6, <3>1, GtSmallest
    <3> QED
      BY SMT, <3>2 DEF Min
  <2>2. PICK i \in 1..18 : i = Min(A) /\ t >= GtLeaps[i] /\ \A j \in A : i <= j
    BY SMT, <1>1, <2>1
  <2>3. GtFirstOf(A) = 19 - i
    BY SMT, <1>2, <1>6, <2>2 DEF GtFirstOf
  <2>4. g = t + (19 - i)
    BY SMT, <1>3, <2>3
  <2>5. i \in B
    <3>1. g - GtLeapSeconds(i) >= GtLeaps[i]
      <4> HIDE DEF A, B, g
      <4> QED
        BY SMT, <1>2, <2>2, <2>4
    <3> QED
      BY SMT, <1>1, <3>1
  <2>6. \A j \in B : i <= j
    <3> SUFFICES ASSUME NEW j \in B PROVE i <= j
      BY SMT
    <3>1. j \in 1..18 /\ g - GtLeapSeconds(j) >= GtLeaps[j]
      BY SMT, <1>1
    <3>2. j \in A => i <= j
      BY SMT, <2>2
    <3>3. ~(t >= GtLeaps[j]) => i <= j
      <4> HIDE DEF A, B, g
      <4> QED
        BY SMT, <1>2, <2>4, <3>1
    <3> QED
      BY SMT, <1>1, <3>1, <3>2, <3>3
  <2>7. Min(B) = i
    <3>1. \A k \in B : k \in 1..18
      BY SMT, <1>1
    <3> HIDE DEF A, B, g
    <3>2. Min(B) \in B /\ \A k \in B : Min(B) <= k
      BY <2>5, <2>6 DEF Min
    <3>3. Min(B) \in 1..18 /\ Min(B) <= i /\ i <= Min(B)
      BY <2>5, <2>6, <3>1, <3>2
    <3> QED
      BY SMT, <3>3
  <2>8. GtFirstOf(B) = 19 - i
    BY SMT, <1>2, <2>5, <2>7 DEF GtFirstOf
  <2> HIDE DEF A, B, g
  <2> QED
    BY SMT, <1>4, <2>4, <2>8 DEF g
<1> QED
  BY SMT, <1>5, <1>6

LEMMA GtInvCalendar == GtInv => GtCalendar
<1> SUFFICES ASSUME GtInv PROVE GtCalendar
  BY SMT
<1>1. PICK utc \in Nat : utc = gtTime - 18
  BY SMT DEF GtInv
<1>2. utc \in Int
  BY SMT
<1>3. GtGpsToUtc(GtUtcToGps(utc)) = utc
  BY SMT, <1>2, GtSecondsKept
<1>4. LET e == GtToEpoch(utc) IN
      /\ e.month \in 1..12 /\ e.day \in 1..31
      /\ e.year <= 2099 => GtFromEpoch(e) = utc
  BY GtDayFound, GtUnits, SMT
<1> QED
  BY SMT, <1>1, <1>3, <1>4 DEF GtCalendar

(* The week nearest to the computer's is the week that was sent.              *)
LEMMA GtWeekFound ==
  ASSUME NEW week \in Nat, NEW skew \in Int, -511 <= skew, skew <= 511,
         NEW w, w = week + skew, w >= 1560, NEW stamp, stamp = week \/ stamp = week % 1024
  PROVE  GtAdjWeek(stamp, w) = week
<1>1. w = week + skew
  OBVIOUS
<1>2. w \in Int /\ ~(w < 1560)
  BY SMT, <1>1
<1>3. CASE stamp = week
  <2>1. PICK n : n = w - week + 512
    OBVIOUS
  <2>2. n \in 1..1023
    BY SMT, <1>1, <2>1
  <2>3. n \div 1024 = 0 /\ ~(n < 0)
    BY SMT, <2>2
  <2>4. GtAdjWeek(week, w) = week + GtQuotient(n, 1024) * 1024
    BY SMT, <1>2, <2>1 DEF GtAdjWeek
  <2>5. GtQuotient(n, 1024) = 0
    BY SMT, <2>3 DEF GtQuotient
  <2> QED
    BY SMT, <1>1, <1>3, <2>4, <2>5
<1>4. CASE stamp = week % 1024
  <2>1. PICK s, q : s = week % 1024 /\ q = week \div 1024
    OBVIOUS
  <2>2. s \in 0..1023 /\ q \in Nat /\ week = 1024 * q + s
    BY SMT, <2>1
  <2>3. PICK n : n = w - s + 512
    OBVIOUS
  <2>4. n \in Int /\ n >= 0 /\ n >= 1024 * q + 1 /\ n <= 1024 * q + 1023
    BY SMT, <1>1, <2>2, <2>3
  <2>5. n \div 1024 = q /\ ~(n < 0)
    BY SMT, <2>2, <2>4
  <2>6. GtAdjWeek(s, w) = s + GtQuotient(n, 1024) * 1024
    BY SMT, <1>2, <2>3 DEF GtAdjWeek
  <2>7. GtQuotient(n, 1024) = q
    BY SMT, <2>5 DEF GtQuotient
  <2> QED
    BY SMT, <1>1, <1>4, <2>1, <2>2, <2>6, <2>7
<1> QED
  BY SMT, <1>3, <1>4

LEMMA GtInvFound == GtInv => GtTimeFound
<1> SUFFICES ASSUME GtInv, gtTime - GtGps0 <= GtIntMax PROVE GtTimeFound
  BY SMT DEF GtTimeFound
<1>1. PICK t : t = gtTime - 315964800
  OBVIOUS
<1>2. t \in Nat /\ gtTime = 315964800 + t
  BY SMT, <1>1 DEF GtInv
<1>3. PICK week, tow : week = t \div 604800 /\ tow = t % 604800
  OBVIOUS
<1>4. week \in Nat /\ t = 604800 * week + tow /\ tow \in Nat
  BY SMT, <1>2, <1>3
<1>0. t <= GtIntMax
  BY SMT, <1>1, GtBegins
<1>5. GtWeekOf(gtTime) = week /\ GtTow(gtTime) = tow
  <2>1. GtWeekOf(gtTime) = week
    BY SMT, <1>1, <1>3, GtBegins DEF GtWeekOf, GtWeek, GtDay
  <2>2. GtInt(604800 * week) = 604800 * week
    BY SMT, <1>0, <1>4 DEF GtInt, GtIntMax
  <2> QED
    BY SMT, <1>1, <1>4, <2>1, <2>2, GtBegins DEF GtTow, GtWeek, GtDay
<1>6. GtFromWeek(week, tow) = gtTime
  <2>1. GtInt(604800 * week + tow) = 604800 * week + tow
    BY SMT, <1>0, <1>2, <1>4 DEF GtInt, GtIntMax
  <2> QED
    BY SMT, <1>2, <1>4, <2>1, GtBegins DEF GtFromWeek, GtWeek, GtDay
<1> SUFFICES ASSUME NEW skew \in GtSkews \cup {-s : s \in GtSkews}, NEW whole \in BOOLEAN, week + skew >= 1560
             PROVE  GtFromWeek(GtAdjWeek(IF whole THEN week ELSE week % 1024, week + skew), tow) = gtTime
  BY SMT, <1>5 DEF GtTimeFound
<1>7. skew \in Int /\ -511 <= skew /\ skew <= 511
  <2>1. \A s \in GtSkews : s \in 0..511
    BY GpsTimeAssumption
  <2>2. CASE skew \in GtSkews
    BY <2>1, <2>2
  <2>3. CASE \E s \in GtSkews : skew = -s
    BY <2>1, <2>3
  <2> QED
    BY <2>2, <2>3
<1>8. PICK w, stamp : w = week + skew /\ stamp = IF whole THEN week ELSE week % 1024
  OBVIOUS
<1>9. GtAdjWeek(stamp, w) = week
  <2>1. week \in Nat
    BY SMT, <1>4
  <2>2. w >= 1560
    BY SMT, <1>8
  <2>3. stamp = week \/ stamp = week % 1024
    BY SMT, <1>8
  <2>4. w = week + skew
    BY SMT, <1>8
  <2> QED
    BY <1>7, <2>3, <2>4, <2>1, <2>2, GtWeekFound
<1> QED
  BY SMT, <1>6, <1>8, <1>9

(* From week 3551 on, until the week 7100 of the year 2116, the int of        *)
(* gpst2time is too small: it takes each second of a week for one before 1980, *)
(* which is why the times of TimeKept end in 2048.                            *)
THEOREM WeeksRunOut ==
  ASSUME NEW week \in Nat, 3551 <= week, week <= 7100, NEW tow \in Nat, tow < 604800
  PROVE  GtFromWeek(week, tow) < GtGps0
<1>1. PICK n : n = 604800 * week + tow
  OBVIOUS
<1>2. n \in Nat /\ n > 2147483647 /\ n < 4294967296
  BY SMT, <1>1
<1>3. GtFromWeek(week, tow) = GtGps0 + GtInt(n)
  BY SMT, <1>1 DEF GtFromWeek, GtWeek, GtDay
<1>4. GtInt(n) \in Int /\ GtInt(n) < 0
  BY SMT, <1>2 DEF GtInt, GtIntMax
<1>5. GtGps0 \in Int
  BY SMT, GtBegins
<1> QED
  BY SMT, <1>3, <1>4, <1>5

(* A time survives the calendar and the leap seconds (epoch2time, time2epoch, *)
(* utc2gpst, gpst2utc), from 1980 to the end of 2099; and until the int of    *)
(* gpst2time is full, 2^31 seconds after the beginning of GPS time, in 2048,  *)
(* a receiver's time is found from the second of the week and a week number   *)
(* that was sent whole or modulo 1024, by a clock that is right to 511 weeks  *)
(* and not before 2009 (adjgpsweek, gpst2time, time2gpst, decode_oem4).       *)
THEOREM TimeIsKept == GtSpec => []TimeKept
<1>1. GtInit => GtInv
  BY SMT, GtInitInv
<1>2. GtInv /\ [GtNext]_gtVars => GtInv'
  BY SMT, GtStepInv
<1>3. GtInv => TimeKept
  BY SMT, GtInvCalendar, GtInvFound DEF TimeKept
<1> QED
  BY <1>1, <1>2, <1>3, PTL DEF GtSpec

-----------------------------------------------------------------------------
(* The continuity of a carrier phase (CarrierLock), for every tolerance,     *)
(* every distance of the frames that is not below it, and any length of time. *)

(* The entry and the cell that stand for none carry no phase. *)
LEMMA Nothing ==
  /\ ~NoOb.phase /\ ~NoCell.phase
  /\ NoOb \in [time : Moments \cup {-1}, phase : BOOLEAN, lli : BOOLEAN]
  /\ NoCell \in [phase : BOOLEAN, lock : Moments]
<1>1. ~NoOb.phase /\ ~NoCell.phase
  BY Zenon DEF NoOb, NoCell
<1>2. NoCell \in [phase : BOOLEAN, lock : Moments]
  BY LockAssumption DEF NoCell, Moments
<1> QED
  BY <1>1, <1>2 DEF NoOb

LEMMA InitLock == LockInit => LockInv
<1> SUFFICES ASSUME LockInit PROVE LockInv
  OBVIOUS
<1>1. LockTypeOK
  <2>1. ob \in [time : Moments \cup {-1}, phase : BOOLEAN, lli : BOOLEAN]
        /\ cell \in [phase : BOOLEAN, lock : Moments]
    BY Nothing DEF LockInit
  <2>2. 0 \in Moments
    BY LockAssumption DEF Moments
  <2> QED
    BY <2>1, <2>2 DEF LockInit, LockTypeOK
<1>2. MemoryInv
  BY LockAssumption DEF LockInit, MemoryInv
<1>3. OffsetInv
  <2>1. ~cell.phase
    BY Nothing DEF LockInit
  <2> QED
    BY <2>1 DEF LockInit, OffsetInv, NoPhaseWithoutLock
<1> QED
  BY <1>1, <1>2, <1>3 DEF LockInv

(* The receiver moves on; nothing is decoded. *)
LEMMA ReceiverStep ==
  ASSUME LockInv, Tick \/ Lose \/ Acquire \/ Resolve \/ Drift
  PROVE  LockInv'
<1>1. /\ UNCHANGED <<tobs, lockt, halfc, ob, seenAt, cp, lltime, cell>>
      /\ now' \in Moments /\ half' \in BOOLEAN
      /\ \/ now' = now + 1 /\ since' = since
         \/ now' = now /\ (since' = -1 \/ since' = now \/ since' = since)
  <2>1. /\ now \in Moments /\ half \in BOOLEAN
        /\ now < MaxTime => now + 1 \in Moments
    BY LockAssumption DEF LockInv, LockTypeOK, Moments
  <2> QED
    BY <2>1 DEF Tick, Lose, Acquire, Resolve, Drift, rawVars, rtcmVars, receiverVars
<1>2. far' \in BOOLEAN
  <2>1. far \in BOOLEAN
    BY DEF LockInv, LockTypeOK
  <2> QED
    BY <2>1 DEF Tick, Lose, Acquire, Resolve, Drift, receiverVars
<1>3. LockTypeOK'
  BY <1>1, <1>2 DEF LockInv, LockTypeOK
<1>4. MemoryInv'
  <2>1. /\ now \in Int /\ since \in Int /\ tobs \in Int /\ seenAt \in Int
        /\ tobs <= now /\ seenAt <= tobs /\ since <= now /\ seenAt >= -1
    BY LockAssumption DEF LockInv, LockTypeOK, MemoryInv, Moments
  <2>2. since' <= now' /\ tobs' <= now' /\ seenAt' <= tobs'
    BY <1>1, <2>1
  <2>3. since' # -1 /\ since' < seenAt' => since' = since
    BY <1>1, <2>1
  <2> QED
    BY <1>1, <2>2, <2>3 DEF LockInv, MemoryInv
<1>5. OffsetInv'
  BY <1>1 DEF LockInv, OffsetInv, NoPhaseWithoutLock
<1> QED
  BY <1>3, <1>4, <1>5 DEF LockInv

(* The lock time that is sent is that of the present lock. *)
LEMMA SentLockType ==
  ASSUME LockInv
  PROVE  SentLock \in Moments /\ SentLock <= now /\ (since # -1 => SentLock = now - since)
BY LockAssumption DEF LockInv, LockTypeOK, MemoryInv, Moments, SentLock

(***************************************************************************)
(* A signal without lock sends lock time 0, which is never more than the   *)
(* time since the frame before: it counts as slipped, unless it is the     *)
(* first frame, and the offset goes.                                       *)
(***************************************************************************)
LEMMA UnlockedSlips ==
  ASSUME LockInv, since = -1, LockFrame(ObserveIt), tobs # -1
  PROVE  Slipped(SentLock)
BY LockAssumption DEF LockInv, LockTypeOK, MemoryInv, Moments, LockFrame, Slipped, SentLock

(* The satellite is observed and encoded. *)
LEMMA WithItStep ==
  ASSUME LockInv, FrameWithIt
  PROVE  LockInv'
<1>1. /\ now' = now /\ since' = since /\ half' = half /\ far' = FALSE
      /\ tobs' = now /\ lockt' = SentLock /\ halfc' = half /\ seenAt' = now
      /\ ob' = [time |-> now, phase |-> since # -1, lli |-> Slipped(SentLock)]
  BY DEF FrameWithIt, LockFrame, ObserveIt, PhaseLock, receiverVars
<1>2. now \in Moments /\ since \in Moments \cup {-1} /\ since <= now /\ lltime <= now
        /\ lltime \in Moments \cup {-1} /\ cp \in {"zero", "set"} /\ half \in BOOLEAN
        /\ Slipped(SentLock) \in BOOLEAN /\ far \in BOOLEAN
  BY LockAssumption DEF LockInv, LockTypeOK, MemoryInv, Moments, Slipped
<1>3. ob' # NoOb
  BY <1>1, <1>2, LockAssumption DEF NoOb, Moments
<1> DEFINE reset == Slipped(SentLock) \/ far
<1>4. /\ cp' = IF reset THEN IF since # -1 THEN "set" ELSE "zero" ELSE cp
      /\ lltime' = IF lltime = -1 \/ reset THEN now ELSE lltime
      /\ cell' = [phase |-> (since # -1) \/ cp' = "set", lock |-> now - lltime']
  BY <1>1, <1>3 DEF FrameWithIt, GenMsmSig, OffsetChosen, Locktime
<1>5. lltime' \in Moments /\ lltime' <= now /\ now - lltime' \in Moments
  BY <1>2, <1>4, LockAssumption DEF Moments
<1>6. LockTypeOK'
  BY <1>1, <1>2, <1>4, <1>5, SentLockType DEF LockTypeOK, Moments
<1>7. MemoryInv'
  BY <1>1, <1>2, <1>5, SentLockType, LockAssumption DEF MemoryInv, Moments
<1>8. since = -1 => cp' = "zero"
  <2>1. CASE since = -1 /\ tobs = -1
    BY <2>1, <1>4 DEF LockInv, OffsetInv
  <2>2. CASE since = -1 /\ tobs # -1
    <3>1. Slipped(SentLock)
      BY <2>2, UnlockedSlips DEF FrameWithIt
    <3> QED
      BY <3>1, <2>2, <1>4
  <2> QED
    BY <2>1, <2>2
<1>9. OffsetInv'
  <2>1. tobs' # -1
    BY <1>1, <1>2, LockAssumption DEF Moments
  <2>2. (ob'.phase <=> since # -1) /\ (cell'.phase <=> since # -1 \/ cp' = "set")
    BY <1>1, <1>4, Zenon
  <2>3. cp' = "zero" => cp' # "set"
    OBVIOUS
  <2> QED
    BY <1>8, <2>1, <2>2, <2>3 DEF OffsetInv, NoPhaseWithoutLock
<1> QED
  BY <1>6, <1>7, <1>9 DEF LockInv

(* The satellite is not in the frame. *)
LEMMA WithoutItStep ==
  ASSUME LockInv, FrameWithOthers \/ FrameWithNothing
  PROVE  LockInv'
<1>1. /\ tobs' = now /\ UNCHANGED <<now, since, half, far, lockt, halfc, seenAt>>
      /\ GenMsmSig(ob', FALSE) /\ (ob' = NoOb \/ ob' = ob)
  BY DEF FrameWithOthers, FrameWithNothing, LockFrame, ObserveOthers, ObserveNothing, receiverVars
<1>2. tobs' # -1
  BY <1>1, LockAssumption DEF LockInv, LockTypeOK, Moments
<1>3. CASE ob' = NoOb
  <2>1. cell' = NoCell /\ UNCHANGED <<cp, lltime>>
    BY <1>1, <1>3 DEF GenMsmSig
  <2>2. LockTypeOK'
    BY <1>1, <1>3, <2>1, Nothing DEF LockInv, LockTypeOK
  <2>3. MemoryInv'
    BY <1>1, <1>3, <2>1, LockAssumption DEF LockInv, LockTypeOK, MemoryInv, Moments
  <2>4. ~cell'.phase
    BY <2>1, Nothing
  <2>5. OffsetInv'
    BY <1>2, <1>3, <2>4 DEF OffsetInv, NoPhaseWithoutLock
  <2> QED
    BY <2>2, <2>3, <2>5 DEF LockInv
<1>4. CASE ob' = ob /\ ob # NoOb
  <2>1. ob.time = seenAt /\ seenAt \in Moments /\ lltime \in Moments /\ lltime <= seenAt
    BY <1>4, LockAssumption DEF LockInv, LockTypeOK, MemoryInv, Moments
  <2>2. /\ ob.phase \in BOOLEAN /\ ob.lli \in BOOLEAN
        /\ ob \in [time : Moments \cup {-1}, phase : BOOLEAN, lli : BOOLEAN]
        /\ cp \in {"zero", "set"}
        /\ ~ob.phase => cp = "zero"
    BY <1>4 DEF LockInv, LockTypeOK, OffsetInv
  <2>3. /\ cp' = IF ob.lli THEN IF ob.phase THEN "set" ELSE "zero" ELSE cp
        /\ lltime' = IF lltime = -1 \/ ob.lli THEN ob.time ELSE lltime
        /\ cell' = [phase |-> ob.phase \/ cp' = "set", lock |-> ob.time - lltime']
    BY <1>1, <1>4 DEF GenMsmSig, OffsetChosen, Locktime
  <2>4. lltime' \in Moments /\ lltime' <= seenAt /\ ob.time - lltime' \in Moments
    BY <2>1, <2>3, LockAssumption DEF Moments
  <2>5. cp' \in {"zero", "set"} /\ (~ob.phase => cp' = "zero")
    BY <2>2, <2>3
  <2>6. LockTypeOK'
    BY <1>1, <1>4, <2>2, <2>3, <2>4, <2>5 DEF LockInv, LockTypeOK
  <2>7. MemoryInv'
    BY <1>1, <1>4, <2>1, <2>4, LockAssumption DEF LockInv, LockTypeOK, MemoryInv, Moments
  <2>8. OffsetInv'
    <3>1. cell'.phase <=> ob.phase \/ cp' = "set"
      BY <2>3, Zenon
    <3>2. cp' = "zero" => cp' # "set"
      OBVIOUS
    <3> QED
      BY <1>2, <1>4, <2>5, <3>1, <3>2 DEF OffsetInv, NoPhaseWithoutLock
  <2> QED
    BY <2>6, <2>7, <2>8 DEF LockInv
<1> QED
  BY <1>1, <1>3, <1>4

LEMMA LockStep == LockInv /\ [LockNext]_lockVars => LockInv'
<1> SUFFICES ASSUME LockInv, [LockNext]_lockVars PROVE LockInv'
  OBVIOUS
<1>1. CASE UNCHANGED lockVars
  BY <1>1 DEF lockVars, receiverVars, rawVars, rtcmVars, LockInv, LockTypeOK, MemoryInv, OffsetInv,
              NoPhaseWithoutLock
<1> QED
  BY <1>1, ReceiverStep, WithItStep, WithoutItStep DEF LockNext

(* The variables keep their types; decode_rangeb's memory fits the lock. *)
THEOREM LockInvariant == LockSpec => []LockInv
BY InitLock, LockStep, PTL DEF LockSpec
-----------------------------------------------------------------------------
(* No phase range is sent that the receiver did not track: gen_msm_sig's   *)
(* offset is reset with the lock, for any frames at least Tolerance apart. *)
THEOREM PhaseIsTracked == LockSpec => []NoPhaseWithoutLock
<1>1. LockInv => NoPhaseWithoutLock
  BY DEF LockInv, OffsetInv
<1> QED
  BY <1>1, LockInvariant, PTL

(***************************************************************************)
(* A lock that began after the frame decoded last, or another half-cycle   *)
(* flag, sets LLI and starts the lock time again.                          *)
(***************************************************************************)
THEOREM SlipsAreSeen == LockSpec => SlipResets
<1> DEFINE Seen == FrameWithIt /\ since # -1 /\ (since >= tobs + Tolerance \/ half # halfc)
                     => lltime' = now \/ tobs = -1
<1>1. LockInv /\ [LockNext]_lockVars => [Seen]_lockVars
  <2> SUFFICES ASSUME LockInv, FrameWithIt, since # -1, tobs # -1,
                      since >= tobs + Tolerance \/ half # halfc
               PROVE  lltime' = now
    OBVIOUS
  <2>1. Slipped(SentLock)
    BY SentLockType, LockAssumption DEF Slipped, LockInv, LockTypeOK, MemoryInv, Moments
  <2>2. ob' = [time |-> now, phase |-> PhaseLock, lli |-> Slipped(SentLock)]
    BY DEF FrameWithIt, LockFrame, ObserveIt
  <2>3. ob' # NoOb
    BY <2>2, LockAssumption DEF NoOb, LockInv, LockTypeOK, Moments
  <2> QED
    BY <2>1, <2>2, <2>3 DEF FrameWithIt, GenMsmSig, OffsetChosen, Locktime
<1> QED
  BY <1>1, LockInvariant, PTL DEF LockSpec, SlipResets

(***************************************************************************)
(* A lock that lasts is not reported as lost, whatever frames were lost    *)
(* or came without the satellite.                                          *)
(***************************************************************************)
THEOREM LocksAreKept == LockSpec => LockIsKept
<1> DEFINE Kept == FrameWithIt /\ since # -1 /\ since < seenAt /\ half = halfc /\ ~far
                     => UNCHANGED lltime
<1>1. LockInv /\ [LockNext]_lockVars => [Kept]_lockVars
  <2> SUFFICES ASSUME LockInv, FrameWithIt, since # -1, since < seenAt, half = halfc, ~far
               PROVE  lltime' = lltime
    OBVIOUS
  <2>1. ~Slipped(SentLock)
    BY SentLockType, LockAssumption DEF Slipped, LockInv, LockTypeOK, MemoryInv, Moments
  <2>2. ob' = [time |-> now, phase |-> PhaseLock, lli |-> Slipped(SentLock)]
    BY DEF FrameWithIt, LockFrame, ObserveIt
  <2>3. ob' # NoOb /\ lltime # -1
    BY <2>2, LockAssumption DEF NoOb, LockInv, LockTypeOK, MemoryInv, Moments
  <2> QED
    BY <2>1, <2>2, <2>3 DEF FrameWithIt, GenMsmSig, OffsetChosen, Locktime
<1> QED
  BY <1>1, LockInvariant, PTL DEF LockSpec, LockIsKept
(* The lock time starts again with a slip, and goes on while a lock lasts. *)
THEOREM LockTimesAreTold == LockSpec => LockTimesTell
BY SlipsAreSeen, LocksAreKept DEF LockTimesTell
=============================================================================
