------------------------------- MODULE Buffer -------------------------------
(***************************************************************************)
(* The byte buffer of a connection (src/net/Buffer.h, src/net/Buffer.cc):  *)
(* a vector with a reader and a writer index,                              *)
(*                                                                         *)
(*    prependable | readable | writable                                    *)
(*    0 ....... readerIndex . writerIndex ..... size                       *)
(*                                                                         *)
(* A buffer is a record and every member function an operator from the     *)
(* buffer before to the buffer after.  Indices count from 0 as in the code;*)
(* what is read or appended is a sequence.  TcpConnection uses a buffer as *)
(* the sequence Readable(b): ServerProofs shows that it may as long as     *)
(* nothing longer than an int can say is appended at once, since           *)
(* makeSpace() takes its length as an int.                                 *)
(***************************************************************************)
EXTENDS Integers, Sequences

CONSTANTS
  Byte,          \* what a cell of the vector holds
  Nul,           \* what vector::resize() puts into new cells
  kCheapPrepend, \* where an empty buffer starts (8)
  kInitialSize,  \* writable bytes of a new buffer (1024)
  ExtraSize,     \* sizeof(extrabuf) in readFd() (65536)
  IntMax,        \* the largest int (2^31 - 1)
  SizeMax        \* the largest size_t (2^64 - 1)

ASSUME BufferAssumption ==
  /\ Nul \in Byte
  /\ kCheapPrepend \in Nat /\ kInitialSize \in Nat
  /\ ExtraSize \in Nat \ {0}
  /\ IntMax \in Nat /\ SizeMax \in Nat
  /\ ExtraSize <= IntMax /\ IntMax < SizeMax

NewBuffer ==
  [size |-> kCheapPrepend + kInitialSize,
   data |-> [i \in 0 .. (kCheapPrepend + kInitialSize - 1) |-> Nul],
   readerIndex |-> kCheapPrepend,
   writerIndex |-> kCheapPrepend]

readableBytes(b) == b.writerIndex - b.readerIndex
writableBytes(b) == b.size - b.writerIndex
prependableBytes(b) == b.readerIndex

\* The bytes from peek() to beginWrite().
Readable(b) == [i \in 1 .. readableBytes(b) |-> b.data[b.readerIndex + i - 1]]

\* The indices are in the order of the picture and the vector has its size.
WellFormed(b) ==
  /\ b \in [size : Nat, data : {b.data}, readerIndex : Nat, writerIndex : Nat]
  /\ b.data \in [0 .. (b.size - 1) -> Byte]
  /\ kCheapPrepend <= b.readerIndex
  /\ b.readerIndex <= b.writerIndex
  /\ b.writerIndex <= b.size

retrieveAll(b) ==
  [b EXCEPT !.readerIndex = kCheapPrepend, !.writerIndex = kCheapPrepend]

retrieve(b, len) ==
  IF len < readableBytes(b)
  THEN [b EXCEPT !.readerIndex = b.readerIndex + len]
  ELSE retrieveAll(b)

\* vector::resize(n).  It does not move the indices: when n is below the writer
\* index WellFormed no longer holds.  (A size that no vector can have throws in
\* the code; only a wrapped one, below, is that large.)
resize(b, n) ==
  [size |-> n,
   data |-> [i \in 0 .. (n - 1) |-> IF i < b.size THEN b.data[i] ELSE Nul],
   readerIndex |-> b.readerIndex, writerIndex |-> b.writerIndex]

\* std::copy of the readable bytes to the front of the vector.
MoveToFront(b) ==
  [size |-> b.size,
   data |-> [i \in 0 .. (b.size - 1) |->
               IF kCheapPrepend <= i /\ i < kCheapPrepend + readableBytes(b)
               THEN b.data[b.readerIndex + i - kCheapPrepend]
               ELSE b.data[i]],
   readerIndex |-> kCheapPrepend,
   writerIndex |-> kCheapPrepend + readableBytes(b)]

\* The int that makeSpace(int len) gets for a size_t: its low bits, which are
\* negative when the topmost of them is set.
toInt(len) ==
  LET m == IntMax + 1
  IN IF len <= IntMax THEN len ELSE ((len + m) % (2 * m)) - m

\* An int in an expression with a size_t: a negative one wraps around.
toSize(n) == IF n < 0 THEN n + SizeMax + 1 ELSE n

MustGrowMutant(b, len) == writableBytes(b) + prependableBytes(b) < toSize(toInt(len))
MustGrow(b, len) ==
  writableBytes(b) + prependableBytes(b) < toSize(toInt(len) + kCheapPrepend)

makeSpace(b, len) ==
  IF MustGrow(b, len)
  THEN resize(b, toSize(b.writerIndex + toInt(len)))
  ELSE MoveToFront(b)

ensureWritableBytes(b, len) ==
  IF writableBytes(b) < len THEN makeSpace(b, len) ELSE b

\* Bytes copied to beginWrite() and the writer index moved past them; a byte
\* beyond the end of the vector is lost, and WellFormed no longer holds.
Store(b, bytes) ==
  [size |-> b.size,
   data |-> [i \in 0 .. (b.size - 1) |->
               IF b.writerIndex <= i /\ i < b.writerIndex + Len(bytes)
               THEN bytes[i - b.writerIndex + 1]
               ELSE b.data[i]],
   readerIndex |-> b.readerIndex, writerIndex |-> b.writerIndex + Len(bytes)]

append(b, bytes) == Store(ensureWritableBytes(b, Len(bytes)), bytes)

\* readFd(): readv() fills the writable part first and then extrabuf, which is
\* passed only when the writable part is smaller than it.
ReadLimit(b) ==
  writableBytes(b) + (IF writableBytes(b) < ExtraSize THEN ExtraSize ELSE 0)

\* The buffer after readv() delivered `bytes', at most ReadLimit(b) of them.
readFd(b, bytes) ==
  LET w == writableBytes(b)
  IN IF Len(bytes) <= w
     THEN Store(b, bytes)
     ELSE append(Store(b, SubSeq(bytes, 1, w)), SubSeq(bytes, w + 1, Len(bytes)))

=============================================================================
