------------------------------- MODULE Codings -------------------------------
(* The codings of comn and AgnssServer: base64, which corrections are          *)
(* published in, percent encoding, and the blocks of MD5. Of MD5 the transform *)
(* of a block is abstract: the state is the bytes of the blocks that it was    *)
(* given, one after another.                                                   *)
EXTENDS Integers, Sequences, FiniteSetsExt

CONSTANTS
  CoBytes,       \* the bytes that data are made of
  CoMaxLen,      \* bound: length of the data
  CoBlock,       \* bytes of a block of MD5 (64), of which the last CoLength
  CoLength,      \* hold the length (8)
  CoWord         \* how many numbers a counter has (2^32)

ASSUME CodingsAssumption ==
  /\ CoBytes \subseteq 0..255 /\ CoMaxLen \in Nat
  /\ CoBlock \in Nat /\ CoLength \in 1..(CoBlock - 1)
  /\ CoWord \in Nat \ {0} /\ CoWord % (8 * CoBlock) = 0

VARIABLES
  coData,        \* what has been put in, from the beginning
  mdCount,       \* count of the MD5_CTX: two words of the number of bits
  mdBuffer,      \* its buffer
  mdState        \* its state: the blocks that were transformed

coVars == <<coData, mdCount, mdBuffer, mdState>>

-----------------------------------------------------------------------------
(* Base64 *)

CoPad == 64    \* '='; other digits are numbers below 64

\* The powers of two, from the first: 2^n is CoPowers[n + 1].
CoPowers == <<1, 2, 4, 8, 16, 32, 64, 128, 256>>

\* The i_shift lowest bits are yet to be written.
CoDigit(bits, shift) ==
  (IF shift >= 6 THEN bits \div CoPowers[shift - 5] ELSE bits * CoPowers[7 - shift]) % 64

\* A faulty variant: what is left at the end is not written.
CoRoundsOpen(shift, last) == Min({k \in 1..3 : ~(shift - 6 * k > 6)})

\* How often the inner loop runs: while more than 6 bits are left, at the end of the data
\* while any.
CoRounds(shift, last) == Min({k \in 1..3 : ~(shift - 6 * k > 6 \/ (last /\ shift - 6 * k > 0))})

\* The outer loop, byte by byte.
CoDigits(data) ==
  LET at[i \in 0..Len(data)] ==
        IF i = 0 THEN [bits |-> 0, shift |-> 0, digits |-> <<>>]
        ELSE LET bits == at[i - 1].bits * 256 + data[i]
                 shift == at[i - 1].shift + 8
                 rounds == CoRounds(shift, i = Len(data))
             IN [bits |-> bits % 64, shift |-> shift - 6 * rounds,
                 digits |-> at[i - 1].digits \o [k \in 1..rounds |-> CoDigit(bits, shift - 6 * (k - 1))]]
  IN at[Len(data)].digits

\* encode, and the length that it asks of the buffer, its final zero among it.
CoPadded(digits) == digits \o [i \in 1..((-Len(digits)) % 4) |-> CoPad]
CoEncode(data) == CoPadded(CoDigits(data))
CoOutSize(n) == ((n + 2) \div 3) * 4 + 1

\* The bytes of the first n digits: every digit but the first of four completes one; what
\* does not fit is left out.
CoBytesOf(text, n, size) ==
  LET Digit(i) == IF text[i] = CoPad THEN 0 ELSE text[i]
      out[i \in 0..n] ==
        IF i = 0 THEN <<>>
        ELSE IF (i - 1) % 4 # 0 /\ Len(out[i - 1]) < size
             THEN Append(out[i - 1], ((Digit(i - 1) * 64 + Digit(i)) \div CoPowers[7 - 2 * ((i - 1) % 4)]) % 256)
             ELSE out[i - 1]
  IN out[n]

\* A faulty variant: '=' is a digit.
CoDecodePadding(text, size) == CoBytesOf(text, Len(text), size)

\* decode up to the first '='.
CoDecode(text, size) ==
  CoBytesOf(text, Min({i \in 1..(Len(text) + 1) : i = Len(text) + 1 \/ text[i] = CoPad}) - 1, size)

-----------------------------------------------------------------------------
(* PercentEncoding *)

CoAlnum(c) == c \in (48..57) \cup (65..90) \cup (97..122)
CoUnreserved(c) == CoAlnum(c) \/ c \in {45, 46, 95, 126}
CoSpace(c) == c \in (9..13) \cup {32}
CoHex(n) == IF n <= 9 THEN 48 + n ELSE 65 + n - 10
CoUnhex(c) == IF c \in 48..57 THEN c - 48 ELSE IF c \in 97..102 THEN c - 87 ELSE IF c \in 65..70 THEN c - 55 ELSE 48

\* A faulty variant: the digits are the wrong way round.
CoEscapeSwapped(c) ==
  IF CoUnreserved(c) THEN <<c>> ELSE IF CoSpace(c) THEN <<37, 50, 48>> ELSE <<37, CoHex(c % 16), CoHex(c \div 16)>>
CoEscape(c) ==
  IF CoUnreserved(c) THEN <<c>> ELSE IF CoSpace(c) THEN <<37, 50, 48>> ELSE <<37, CoHex(c \div 16), CoHex(c % 16)>>
CoPercent(data) ==
  LET dest[i \in 0..Len(data)] == IF i = 0 THEN <<>> ELSE dest[i - 1] \o CoEscape(data[i]) IN dest[Len(data)]

\* decode leaves out a '%' that is not followed by two characters.
CoUnpercent(text) ==
  LET from[i \in 1..(Len(text) + 3)] ==
        IF i > Len(text) THEN <<>>
        ELSE IF text[i] = 37
        THEN (IF i + 2 <= Len(text) THEN <<(CoUnhex(text[i + 1]) * 16 + CoUnhex(text[i + 2])) % 256>> ELSE <<>>) \o from[i + 3]
        ELSE <<IF text[i] = 43 THEN 32 ELSE text[i]>> \o from[i + 1]
  IN from[1]

-----------------------------------------------------------------------------
(* MD5 *)

MdIndex(count) == (count[1] \div 8) % CoBlock

\* A faulty variant: the carry is lost.
MdCountedPlain(count, n) == <<(count[1] + 8 * n) % CoWord, (count[2] + (8 * n) \div CoWord) % CoWord>>
MdCounted(count, n) ==
  LET low == (count[1] + 8 * n) % CoWord
      carry == IF low < (8 * n) % CoWord THEN 1 ELSE 0
  IN <<low, (count[2] + carry + (8 * n) \div CoWord) % CoWord>>

MdAbsorb(ctx, input, isFull) ==
  LET index == MdIndex(ctx.count)
      part == CoBlock - index
      n == Len(input)
      Put(at, s) == [j \in 0..(CoBlock - 1) |-> IF j >= at /\ j < at + Len(s) THEN s[j - at + 1] ELSE ctx.buffer[j]]
      filled == Put(index, SubSeq(input, 1, part))
      more == (n - part) \div CoBlock
      done == part + more * CoBlock
  IN IF ~isFull THEN [count |-> MdCounted(ctx.count, n), state |-> ctx.state, buffer |-> Put(index, input)]
     ELSE [count |-> MdCounted(ctx.count, n),
           state |-> ctx.state \o [j \in 1..CoBlock |-> filled[j - 1]] \o SubSeq(input, part + 1, done),
           buffer |-> [j \in 0..(CoBlock - 1) |-> IF j < n - done THEN input[done + j + 1] ELSE filled[j]]]

\* A faulty variant: a block that is just full stays in the buffer.
MdUpdateLate(ctx, input) == MdAbsorb(ctx, input, Len(input) > CoBlock - MdIndex(ctx.count))

\* MD5Update: the buffer is filled and transformed, then whole blocks, and the rest is kept.
MdUpdate(ctx, input) == MdAbsorb(ctx, input, Len(input) >= CoBlock - MdIndex(ctx.count))

\* MD5Final: a one bit, zeros up to the place of the length, and the length before padding,
\* which is one number here, and zeros.
MdPadding(n) == <<128>> \o [i \in 1..(n - 1) |-> 0]
MdLength(count) == <<count>> \o [i \in 1..(CoLength - 1) |-> 0]
MdFinal(ctx) ==
  LET index == MdIndex(ctx.count)
      room == CoBlock - CoLength
      pad == IF index < room THEN room - index ELSE CoBlock + room - index
  IN MdUpdate(MdUpdate(ctx, MdPadding(pad)), MdLength(ctx.count)).state

MdContext == [count |-> mdCount, state |-> mdState, buffer |-> mdBuffer]

CoInit ==
  /\ coData = <<>> /\ mdCount = <<0, 0>> /\ mdState = <<>>
  /\ mdBuffer = [j \in 0..(CoBlock - 1) |-> 0]

CoPut(piece) ==
  LET ctx == MdUpdate(MdContext, piece)
  IN /\ Len(coData) + Len(piece) <= CoMaxLen
     /\ coData' = coData \o piece
     /\ mdCount' = ctx.count /\ mdState' = ctx.state /\ mdBuffer' = ctx.buffer

CoNext == \E n \in 1..CoMaxLen : \E piece \in [1..n -> CoBytes] : CoPut(piece)

CoSpec == CoInit /\ [][CoNext]_coVars

-----------------------------------------------------------------------------
(* Properties *)

\* What was encoded is decoded again, and no more than them; into a buffer too
\* short, their beginning (Base64::encode, decode).
CoRoundTrip ==
  \A size \in 0..(Len(coData) + 1) :
    CoDecode(CoEncode(coData), size) = SubSeq(coData, 1, Min({size, Len(coData)}))

\* Encoded data end with at most two '=' and fit exactly into the buffer whose size encode
\* asks for: a smaller one would be written over its end (Base64::encode, Application's encode).
CoFits ==
  LET text == CoEncode(coData)
  IN /\ Len(text) + 1 = CoOutSize(Len(coData))
     /\ \A i \in DOMAIN text : text[i] = CoPad => i > Len(text) - 2

\* Percent encoding keeps the data but for the kind of blank, and writes unreserved
\* characters only (PercentEncoding).
CoPercentKept ==
  /\ CoUnpercent(CoPercent(coData)) = [i \in DOMAIN coData |-> IF CoSpace(coData[i]) THEN 32 ELSE coData[i]]
  /\ \A i \in DOMAIN CoPercent(coData) : CoUnreserved(CoPercent(coData)[i]) \/ CoPercent(coData)[i] = 37

\* In whatever pieces the data come, MD5 transforms the same blocks: the data, a one, zeros
\* and the length, which wraps (MD5Update, MD5Final).
MdWhole ==
  LET blocks == MdFinal(MdContext)
      n == Len(coData)
  IN /\ Len(blocks) % CoBlock = 0 /\ Len(blocks) - n - CoLength \in 1..CoBlock
     /\ SubSeq(blocks, 1, n) = coData
     /\ \A i \in (n + 1)..(Len(blocks) - CoLength) : blocks[i] = IF i = n + 1 THEN 128 ELSE 0
     /\ blocks[Len(blocks) - CoLength + 1] = <<(8 * n) % CoWord, ((8 * n) \div CoWord) % CoWord>>

\* What is encoded is decoded again, within the room that was counted, and MD5 is fed
\* every byte once.
CodingsKept == CoRoundTrip /\ CoFits /\ CoPercentKept /\ MdWhole
=============================================================================
