------------------------------ MODULE TIOBuffer ------------------------------
(* comn::IOBuffer: a block of memory between a read and a write position, that *)
(* is moved to its front or copied to a larger block when it is full. The      *)
(* bytes that are written are numbered; 0 is memory that nothing was written   *)
(* to, and IoJunk what a copy of overlapping blocks may leave, or what is      *)
(* behind a block that is read beyond its end.                                 *)
EXTENDS Integers, Sequences

CONSTANTS
  IoStep,        \* m_increaseStep
  IoMaxWrite,    \* bound: bytes of one write
  IoMaxBytes     \* bound: bytes written altogether

ASSUME IoAssumption == IoStep \in Nat /\ IoMaxWrite \in Nat /\ IoMaxBytes \in Nat

VARIABLES
  ioMem,         \* m_ptr: the block, of m_length bytes; empty when there is none
  ioRead, ioWrite,    \* m_readPos and m_writePos
  ioNext,        \* the number of the byte that is written next
  ioGiven,       \* history: the bytes of the other buffer, if the last step assigned one
  ioBeyond       \* history: the last step read beyond the block of another buffer

ioVars == <<ioMem, ioRead, ioWrite, ioNext, ioGiven, ioBeyond>>

IoJunk == -1
IoReadable == ioWrite - ioRead
IoBuffer == [mem |-> ioMem, read |-> ioRead, write |-> ioWrite]

IoNoBlock == [mem |-> <<>>, read |-> 0, write |-> 0]

IoInit ==
  /\ ioMem = <<>> /\ ioRead = 0 /\ ioWrite = 0 /\ ioNext = 1
  /\ ioGiven = <<>> /\ ioBeyond = FALSE

\* memcpy within a block, of n bytes from offset src to offset dst.
IoMemcpy(mem, dst, src, n) ==
  [i \in DOMAIN mem |->
     IF i \notin (dst + 1)..(dst + n) THEN mem[i]
     ELSE IF dst < src + n /\ src < dst + n THEN IoJunk ELSE mem[i - dst + src]]

\* The pieces of the size of the gap, each copied over the one before it.
IoPieces(b, count) ==
  LET moved[i \in 0..count] ==
        IF i = 0 THEN b.mem ELSE IoMemcpy(moved[i - 1], (i - 1) * b.read, i * b.read, b.read)
  IN moved[count]

\* A faulty variant: the rest that is smaller than a piece is left where it is.
IoMoveDataWhole(b) ==
  LET n == b.write - b.read
  IN IF b.read = 0 THEN b
     ELSE [mem |-> IF n <= b.read THEN IoMemcpy(b.mem, 0, b.read, n) ELSE IoPieces(b, n \div b.read),
           read |-> 0, write |-> n]

\* moveData: at once when what there is fits before the read position, else in pieces
\* of the size of the gap, and the rest.
IoMoveData(b) ==
  LET n == b.write - b.read
      pieces == n \div b.read
  IN IF b.read = 0 THEN b
     ELSE [mem |-> IF n <= b.read THEN IoMemcpy(b.mem, 0, b.read, n)
                   ELSE IoMemcpy(IoPieces(b, pieces), pieces * b.read, (pieces + 1) * b.read, n % b.read),
           read |-> 0, write |-> n]

IoZeroes(n) == [i \in 1..n |-> 0]

\* A faulty variant: the space before the read position is counted, but not moved to.
IoExpectUnmoved(b, n) ==
  IF n = 0 \/ b.write - b.read + n <= Len(b.mem) THEN b
  ELSE LET rest == SubSeq(b.mem, b.read + 1, b.write)
       IN [mem |-> rest \o IoZeroes(b.write + n + IoStep - Len(rest)), read |-> 0, write |-> Len(rest)]

\* A faulty variant: the new block begins without what was not read yet.
IoExpectUncopied(b, n) ==
  IF n = 0 \/ b.write + n <= Len(b.mem) THEN b
  ELSE IF b.mem # <<>> /\ b.write - b.read + n <= Len(b.mem) THEN IoMoveData(b)
  ELSE [mem |-> IoZeroes(b.write + n + IoStep), read |-> 0, write |-> 0]

\* expect: room for n more bytes, where they are, at the front, or in a new block.
IoExpect(b, n) ==
  IF n = 0 \/ b.write + n <= Len(b.mem) THEN b
  ELSE IF b.mem = <<>> THEN [mem |-> IoZeroes(n), read |-> 0, write |-> 0]
  ELSE IF b.write - b.read + n <= Len(b.mem) THEN IoMoveData(b)
  ELSE LET rest == SubSeq(b.mem, b.read + 1, b.write)
       IN [mem |-> rest \o IoZeroes(b.write + n + IoStep - Len(rest)), read |-> 0, write |-> Len(rest)]

IoSetBuffer(b) == ioMem' = b.mem /\ ioRead' = b.read /\ ioWrite' = b.write

\* write: what does not fit the block is written beside it, and lost.
IoWriteBytes(b, data) ==
  [b EXCEPT !.mem = [i \in DOMAIN b.mem |-> IF i - b.write \in DOMAIN data THEN data[i - b.write] ELSE b.mem[i]],
            !.write = b.write + Len(data)]

IoWriting(n) ==
  /\ ioNext + n - 1 <= IoMaxBytes
  /\ IoSetBuffer(IoWriteBytes(IoExpect(IoBuffer, n), [i \in 1..n |-> ioNext + i - 1]))
  /\ ioNext' = ioNext + n

\* recycle: an empty buffer starts at its front again.
IoRecycled(b) == IF b.read = b.write THEN [mem |-> b.mem, read |-> 0, write |-> 0] ELSE b

\* read takes what there is, up to n bytes.
IoReading(n) ==
  /\ ioRead' = ioRead + (IF n < IoReadable THEN n ELSE IoReadable)
  /\ UNCHANGED <<ioMem, ioWrite, ioNext>>

\* readString and toStream take as much, and recycle.
IoTaking(n) ==
  /\ IoSetBuffer(IoRecycled([IoBuffer EXCEPT !.read = @ + (IF n < IoReadable THEN n ELSE IoReadable)]))
  /\ UNCHANGED ioNext

\* skip refuses to go beyond the end.
IoSkipping(n) ==
  /\ n <= IoReadable
  /\ IoSetBuffer(IoRecycled([IoBuffer EXCEPT !.read = @ + n]))
  /\ UNCHANGED ioNext

\* expect, then advance over bytes that fromStream or fromFile put there.
IoReceiving(n, got) ==
  LET b == IoExpect(IoBuffer, n)
  IN /\ got <= n /\ got <= Len(b.mem) - b.write
     /\ ioNext + got - 1 <= IoMaxBytes
     /\ IoSetBuffer(IoWriteBytes(b, [i \in 1..got |-> ioNext + i - 1]))
     /\ ioNext' = ioNext + got

\* ensure a capacity.
IoEnsuring(size) ==
  /\ Len(ioMem) < size
  /\ IoSetBuffer(IoExpect(IoBuffer, size - ioWrite))
  /\ UNCHANGED ioNext

IoClearing == ioRead' = 0 /\ ioWrite' = 0 /\ UNCHANGED <<ioMem, ioNext>>

\* assign: room is made behind what is there for as many bytes as the other block has; then
\* as many are copied as the block has by now, which may be more than the other has, or from
\* no block at all. What the copy finds there is junk, if the process survives it.
IoAssigned(b, other) ==
  LET to == IoExpect(b, Len(other.mem))
  IN IF to.mem = <<>> THEN to
     ELSE [mem |-> [i \in DOMAIN to.mem |-> IF i \in DOMAIN other.mem THEN other.mem[i] ELSE IoJunk],
           read |-> other.read, write |-> other.write]

\* A copy that is constructed takes the place of the buffer, which is destroyed.
IoCopying ==
  /\ IoSetBuffer(IoAssigned(IoNoBlock, IoBuffer))
  /\ ioGiven' = <<>> /\ ioBeyond' = (Len(ioMem') > Len(ioMem))
  /\ UNCHANGED ioNext

\* operator=, of a buffer with a block of size bytes that holds count bytes, the next ones,
\* from offset read on.
IoOther(size, read, count) ==
  [mem |-> [i \in 1..size |-> IF i - read \in 1..count THEN ioNext + (i - read) - 1 ELSE 0],
   read |-> read, write |-> read + count]
IoAssigning(size, read, count) ==
  /\ read + count <= size /\ ioNext + count - 1 <= IoMaxBytes
  /\ IoSetBuffer(IoAssigned(IoBuffer, IoOther(size, read, count)))
  /\ ioGiven' = [i \in 1..count |-> ioNext + i - 1]
  /\ ioBeyond' = (Len(ioMem') > size)
  /\ ioNext' = ioNext + count

IoCalls ==
  \/ \E n \in 0..IoMaxWrite :
       \/ IoWriting(n) \/ IoReading(n) \/ IoTaking(n) \/ IoSkipping(n)
       \/ \E got \in 0..n : IoReceiving(n, got)
       \/ IoEnsuring(ioWrite + n)
  \/ IoClearing

IoNext ==
  \/ IoCalls /\ ioGiven' = <<>> /\ ioBeyond' = FALSE
  \/ IoCopying
  \/ \E size, read, count \in 0..IoMaxWrite : IoAssigning(size, read, count)

IoSpec == IoInit /\ [][IoNext]_ioVars

-----------------------------------------------------------------------------
(* Properties *)

\* The positions are in the block, the read position not after the write position.
IoTypeOK == 0 <= ioRead /\ ioRead <= ioWrite /\ ioWrite <= Len(ioMem)

\* What can be read of the block is a queue of bytes, however it is moved, enlarged and
\* recycled (write, read, skip, expect, moveData), or the bytes of the buffer that was just
\* assigned (operator=).
IoQueue == INSTANCE ByteQueue WITH queue <- SubSeq(ioMem, ioRead + 1, ioWrite), given <- ioGiven
IoIsQueue == IoQueue!Spec

\* The bytes are those written last, without a gap.
IoWhole == \A i \in 1..IoReadable : ioMem[ioRead + i] = ioNext - IoReadable + i - 1

\* A copy reads beyond the block it copies only when the buffer that it is assigned to has a
\* block already: onto a new buffer, and when constructed, it stays within (assign, expect).
IoCopiesWithin == [][ioBeyond' => ioMem # <<>>]_ioVars
=============================================================================
