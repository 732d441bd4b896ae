------------------------------- MODULE Buffers -------------------------------
(* The growing buffers of comn. ByteBuffer holds bytes and a zero after them;  *)
(* CharArray holds a text in an array of its own until that is too small.      *)
(* A byte is 1, a zero 0; a block is the sequence of what is in it. IOBuffer   *)
(* is in TIOBuffer.                                                            *)
EXTENDS TIOBuffer, SequencesExt, FiniteSetsExt

CONSTANTS
  BfReserved,    \* ByteBuffer::RESERVED_SIZE
  BfInline,      \* CharArray's MAX_SIZE
  BfMaxSize      \* bound: sizes that are asked for

ASSUME BufferAssumption == BfReserved \in Nat \ {0} /\ BfInline \in Nat \ {0, 1} /\ BfMaxSize \in Nat

VARIABLES
  bbMem,         \* ByteBuffer: m_ptr, of m_capacity bytes
  bbLen,         \* m_length
  bbData,        \* history: the bytes it should hold, as numbers
  chMem,         \* CharArray: the block in use
  chCapacity,    \* m_capacity
  chLen          \* m_length

bbVars == <<bbMem, bbLen, bbData>>
chVars == <<chMem, chCapacity, chLen>>
bfVars == <<bbMem, bbLen, bbData, chMem, chCapacity, chLen>>

\* Memory that new[] returns may hold anything: something that is not zero is worst.
BfAny == 9
BfBlock(n, value) == [i \in 1..n |-> value]
BfFirst(s, n) == SubSeq(s, 1, Min({n, Len(s)}))

\* A sequence of which a part is written, from offset at on: what is beyond is lost.
BfPut(mem, at, data) == [i \in DOMAIN mem |-> IF i - at \in DOMAIN data THEN data[i - at] ELSE mem[i]]

BfInit ==
  /\ bbMem = <<>> /\ bbLen = 0 /\ bbData = <<>>
  /\ chMem = BfBlock(BfInline, 0) /\ chCapacity = BfInline /\ chLen = 0

-----------------------------------------------------------------------------
(* ByteBuffer *)

\* A faulty variant: no room is kept for the zero.
BbEnsuredTight(mem, len, capacity) ==
  IF capacity <= Len(mem) THEN mem
  ELSE BfPut(BfBlock(Max({capacity, 1}), BfAny), 0, BfFirst(mem, len) \o <<0>>)

\* internalEnsure: what there is, and a zero, in a block twice as large.
BbEnsured(mem, len, capacity) ==
  IF capacity + BfReserved <= Len(mem) THEN mem
  ELSE BfPut(BfBlock((Len(mem) + capacity + BfReserved) * 2, BfAny), 0, BfFirst(mem, len) \o <<0>>)

BbSet(mem, len, data) ==
  /\ bbMem' = mem /\ bbLen' = len /\ bbData' = data
  /\ UNCHANGED chVars

\* write: of no bytes it leaves the buffer as it is.
BbWrite(data) ==
  /\ bbLen + Len(data) <= BfMaxSize
  /\ BbSet(IF data = <<>> THEN bbMem ELSE BfPut(BbEnsured(bbMem, bbLen, bbLen + Len(data)), bbLen, data \o <<0>>),
           bbLen + Len(data), bbData \o data)

BbReserve(capacity) == BbSet(BbEnsured(bbMem, bbLen, capacity), bbLen, bbData)

\* resize: the bytes that are new hold what was there.
BbResize(n) ==
  LET mem == BbEnsured(bbMem, bbLen, n)
  IN BbSet(mem, n, BfFirst(bbData, n) \o SubSeq(mem, Len(bbData) + 1, n))

\* trim: the first bytes go; the zero is not written again.
BbTrim(n) ==
  /\ bbMem # <<>>
  /\ IF n >= bbLen THEN BbSet(bbMem, 0, <<>>)
     ELSE BbSet(BfPut(bbMem, 0, SubSeq(bbMem, n + 1, bbLen)), bbLen - n, SubSeq(bbData, n + 1, Len(bbData)))

BbClear == BbSet(bbMem, 0, <<>>)
BbCleanup == BbSet(<<>>, 0, <<>>)

\* assign: the buffer of another, into a block that is kept when it is large enough.
BbAssign(data) ==
  BbSet(BfPut(BbEnsured(bbMem, bbLen, Len(data)), 0, data \o <<0>>), Len(data), data)

BfBytes == {<<>>, <<1>>, <<2>>, <<2, 1>>}

BbNext ==
  \/ \E data \in BfBytes : BbWrite(data) \/ BbAssign(data)
  \/ \E n \in 0..BfMaxSize : BbReserve(n) \/ BbResize(n) \/ BbTrim(n)
  \/ BbClear \/ BbCleanup

-----------------------------------------------------------------------------
(* CharArray *)

\* A faulty variant: a text as long as the block fits.
ChEnsuredFull(n) ==
  IF n <= chCapacity THEN [mem |-> chMem, capacity |-> chCapacity]
  ELSE [mem |-> BfBlock(n + BfInline \div 2, 0), capacity |-> n + BfInline \div 2]

\* ensure: the text is lost when it needs another block.
ChEnsured(n) ==
  IF n < chCapacity THEN [mem |-> chMem, capacity |-> chCapacity]
  ELSE [mem |-> BfBlock(n + BfInline \div 2, 0), capacity |-> n + BfInline \div 2]

ChSet(mem, capacity, n) ==
  /\ chMem' = mem /\ chCapacity' = capacity /\ chLen' = n
  /\ UNCHANGED bbVars

\* assign writes no zero after the text.
ChAssign(text) ==
  LET b == ChEnsured(Len(text)) IN ChSet(BfPut(b.mem, 0, text), b.capacity, Len(text))

ChResize(n) == LET b == ChEnsured(n) IN ChSet(b.mem, b.capacity, n)

\* format: vsnprintf may use as many bytes as the text before had; a text that is longer
\* gets a block of its own, one that is shorter leaves m_length as it was.
ChFormat(text) ==
  IF Len(text) > chLen THEN ChSet(text \o <<0>>, Len(text), Len(text))
  ELSE ChSet(IF chLen = 0 THEN chMem ELSE BfPut(chMem, 0, BfFirst(text, chLen - 1) \o <<0>>), chCapacity, chLen)

BfTexts == {BfBlock(n, 1) : n \in 0..BfMaxSize}

ChNext ==
  \/ \E text \in BfTexts : ChAssign(text) \/ ChFormat(text)
  \/ \E n \in 0..BfMaxSize : ChResize(n)

BfNext == BbNext \/ ChNext

BfSpec == BfInit /\ [][BfNext]_bfVars

-----------------------------------------------------------------------------
(* Properties *)

\* The bytes are those written, assigned and not trimmed, after any sequence of calls,
\* and behind them is the room that the next zero needs (ByteBuffer).
BbHolds ==
  /\ BfFirst(bbMem, bbLen) = bbData
  /\ bbMem # <<>> => bbLen + BfReserved <= Len(bbMem)

\* The text is read as a C string: the block that it is in has a zero, so it ends there, and
\* is as large as m_capacity and m_length say. Which text is read is another matter: assign
\* writes no zero, and what was behind a shorter text is read after it (CharArray).
ChTerminated ==
  /\ \E i \in DOMAIN chMem : chMem[i] = 0
  /\ chLen <= chCapacity /\ chCapacity <= Len(chMem)

\* ByteBuffer holds the bytes it was given, with room for the zero behind them; a CharArray
\* is never read beyond its block, although an old tail may follow what was assigned; an
\* IOBuffer is a queue of bytes, or what was assigned to it, and its operator= reads beyond
\* the other buffer only where there was a block to keep.
BuffersHold ==
  /\ [](IoTypeOK /\ IoWhole /\ BbHolds /\ ChTerminated)
  /\ IoIsQueue /\ IoCopiesWithin
=============================================================================
