---------------------------- MODULE ServerProofs ----------------------------
(***************************************************************************)
(* Proofs about the servers: the input of one connection of an HttpServer, *)
(* and the TcpServer below it.  The two share no variable.                 *)
(*                                                                         *)
(* What Buffer promises, for every size and content: a buffer is the       *)
(* sequence of its readable bytes.  Appending or reading puts bytes at the *)
(* end of it, retrieving takes them from the front, and the indices stay   *)
(* in order, as long as no length appended at once exceeds IntMax.  The argument is about the cells of the vector; the three     *)
(* ways to make room (enough of it, moving to the front, growing) are the  *)
(* lemmas on ensureWritableBytes().                                        *)
(*                                                                         *)
(* The input buffer of an HTTP connection is the end of the stream         *)
(* received, for every client, every cut of its stream and every size of   *)
(* the buffers.  The inductive invariant adds to BufferIsStream that the   *)
(* counters are in order; the steps that change the buffer follow from     *)
(* ReadFdAddsAtEnd and RetrieveDropsFront.                                 *)
(*                                                                         *)
(* The answers of that connection come in the order of the requests, and   *)
(* a refusal has a cause.  The inductive invariant (HttpInv) says where in *)
(* the stream the parser stands: the number of answers says in which       *)
(* request, and in a well-formed one it stands at the beginning of a line. *)
(* It rests on what Upto(), Find() and findCRLF() compute and on the shape *)
(* of a well-formed request, line by line.                                 *)
(*                                                                         *)
(* The TcpServer never uses a loop that is not there (ServerInv) and       *)
(* accounts for every descriptor (FdInv), for any number of threads,       *)
(* clients and descriptors.                                                *)
(***************************************************************************)
EXTENDS HttpServer, TcpServer, FiniteSetTheorems, WellFoundedInduction, TLAPS

(* Buffer.                                                                 *)

\* A new buffer is well formed and empty.
THEOREM NewBufferIsEmpty ==
  WellFormed(NewBuffer) /\ Readable(NewBuffer) = <<>>
<1>1. WellFormed(NewBuffer)
  BY BufferAssumption DEF WellFormed, NewBuffer
<1>2. readableBytes(NewBuffer) = 0
  BY BufferAssumption DEF readableBytes, NewBuffer
<1>3. Readable(NewBuffer) = <<>>
  BY <1>2 DEF Readable
<1> QED BY <1>1, <1>3

\* The readable bytes of a well-formed buffer form a sequence of that length.
LEMMA ReadableIsSeq ==
  ASSUME NEW b, WellFormed(b)
  PROVE  /\ readableBytes(b) \in Nat
         /\ writableBytes(b) \in Nat
         /\ Readable(b) \in [1 .. readableBytes(b) -> Byte]
         /\ Readable(b) \in Seq(Byte)
         /\ Len(Readable(b)) = readableBytes(b)
<1>1. readableBytes(b) \in Nat /\ writableBytes(b) \in Nat
  BY BufferAssumption DEF WellFormed, readableBytes, writableBytes
<1>2. \A i \in 1 .. readableBytes(b) : b.data[b.readerIndex + i - 1] \in Byte
  BY BufferAssumption DEF WellFormed, readableBytes
<1>3. Readable(b) \in [1 .. readableBytes(b) -> Byte]
  BY <1>2 DEF Readable
<1>4. Readable(b) \in Seq(Byte) /\ Len(Readable(b)) = readableBytes(b)
  BY <1>1, <1>3
<1> QED BY <1>1, <1>3, <1>4

\* retrieve(len) drops the first len readable bytes, also when it empties the
\* buffer and both indices go back to kCheapPrepend.
THEOREM RetrieveDropsFront ==
  ASSUME NEW b, WellFormed(b), NEW len \in 0 .. readableBytes(b)
  PROVE  /\ WellFormed(retrieve(b, len))
         /\ readableBytes(retrieve(b, len)) = readableBytes(b) - len
         /\ Readable(retrieve(b, len)) =
              [i \in 1 .. (readableBytes(b) - len) |-> Readable(b)[i + len]]
<1> DEFINE r == retrieve(b, len)
<1>0. readableBytes(b) \in Nat
  BY ReadableIsSeq
<1>1. CASE len < readableBytes(b)
  <2>1. /\ r.size = b.size /\ r.data = b.data
        /\ r.readerIndex = b.readerIndex + len /\ r.writerIndex = b.writerIndex
        /\ r = [size |-> r.size, data |-> r.data,
                readerIndex |-> r.readerIndex, writerIndex |-> r.writerIndex]
    BY <1>1 DEF retrieve, WellFormed
  <2>2. WellFormed(r)
    BY <1>0, <1>1, <2>1, BufferAssumption DEF WellFormed, readableBytes
  <2>3. readableBytes(r) = readableBytes(b) - len
    BY <2>1 DEF readableBytes, WellFormed
  <2>4. ASSUME NEW i \in 1 .. (readableBytes(b) - len)
        PROVE  b.data[r.readerIndex + i - 1] = Readable(b)[i + len]
    <3>1. i + len \in 1 .. readableBytes(b)
      BY <1>0
    <3>2. r.readerIndex + i - 1 = b.readerIndex + (i + len) - 1
      BY <1>0, <2>1 DEF WellFormed
    <3> QED BY <3>1, <3>2 DEF Readable
  <2>5. Readable(r) = [i \in 1 .. (readableBytes(b) - len) |-> Readable(b)[i + len]]
    <3>1. Readable(r) = [i \in 1 .. (readableBytes(b) - len) |-> b.data[r.readerIndex + i - 1]]
      BY <2>1, <2>3 DEF Readable
    <3> QED BY <2>4, <3>1
  <2> QED BY <2>2, <2>3, <2>5
<1>2. CASE len = readableBytes(b)
  <2>1. /\ r.size = b.size /\ r.data = b.data
        /\ r.readerIndex = kCheapPrepend /\ r.writerIndex = kCheapPrepend
        /\ r = [size |-> r.size, data |-> r.data,
                readerIndex |-> r.readerIndex, writerIndex |-> r.writerIndex]
    <3>1. ~(len < readableBytes(b))
      BY <1>0, <1>2
    <3>2. r = retrieveAll(b)
      BY <3>1 DEF retrieve
    <3> QED BY <3>2 DEF retrieveAll, WellFormed
  <2>2. WellFormed(r)
    BY <2>1, BufferAssumption DEF WellFormed
  <2>3. readableBytes(r) = 0 /\ readableBytes(b) - len = 0
    BY <1>0, <1>2, <2>1, BufferAssumption DEF readableBytes
  <2>4. /\ Readable(r) = <<>>
        /\ [i \in 1 .. (readableBytes(b) - len) |-> Readable(b)[i + len]] = <<>>
    BY <2>3 DEF Readable
  <2> QED BY <2>2, <2>3, <2>4
<1> QED BY <1>0, <1>1, <1>2

-----------------------------------------------------------------------------
(* Making room changes neither the readable bytes nor their number.        *)

\* vector::resize() to at least the bytes in use.
LEMMA ResizeKeepsContent ==
  ASSUME NEW b, WellFormed(b), NEW n \in Nat, b.size <= n
  PROVE  /\ WellFormed(resize(b, n))
         /\ Readable(resize(b, n)) = Readable(b)
         /\ readableBytes(resize(b, n)) = readableBytes(b)
         /\ writableBytes(resize(b, n)) = n - b.writerIndex
<1> DEFINE r == resize(b, n)
<1>1. /\ r.size = n
      /\ r.data = [i \in 0 .. (n - 1) |-> IF i < b.size THEN b.data[i] ELSE Nul]
      /\ r.readerIndex = b.readerIndex /\ r.writerIndex = b.writerIndex
      /\ r = [size |-> r.size, data |-> r.data,
              readerIndex |-> r.readerIndex, writerIndex |-> r.writerIndex]
  BY DEF resize
<1>2. r.data \in [0 .. (n - 1) -> Byte]
  <2>1. ASSUME NEW i \in 0 .. (n - 1)
        PROVE  (IF i < b.size THEN b.data[i] ELSE Nul) \in Byte
    BY BufferAssumption DEF WellFormed
  <2> QED BY <1>1, <2>1
<1>3. WellFormed(r)
  BY <1>1, <1>2 DEF WellFormed
<1>4. readableBytes(r) = readableBytes(b) /\ writableBytes(r) = n - b.writerIndex
  BY <1>1 DEF readableBytes, writableBytes
<1>5. ASSUME NEW i \in 1 .. readableBytes(b)
      PROVE  r.data[b.readerIndex + i - 1] = b.data[b.readerIndex + i - 1]
  <2>1. b.readerIndex + i - 1 < b.size /\ b.readerIndex + i - 1 \in 0 .. (n - 1)
    BY BufferAssumption DEF WellFormed, readableBytes
  <2> QED BY <1>1, <2>1
<1>6. Readable(r) = Readable(b)
  <2>1. Readable(r) = [i \in 1 .. readableBytes(b) |-> r.data[b.readerIndex + i - 1]]
    BY <1>1, <1>4 DEF Readable
  <2> QED BY <1>5, <2>1 DEF Readable
<1> QED BY <1>3, <1>4, <1>6

\* The copy to the front.
LEMMA MoveKeepsContent ==
  ASSUME NEW b, WellFormed(b)
  PROVE  /\ WellFormed(MoveToFront(b))
         /\ Readable(MoveToFront(b)) = Readable(b)
         /\ readableBytes(MoveToFront(b)) = readableBytes(b)
         /\ writableBytes(MoveToFront(b)) =
              writableBytes(b) + prependableBytes(b) - kCheapPrepend
<1> DEFINE r == MoveToFront(b)
           n == readableBytes(b)
           cell(i) == IF kCheapPrepend <= i /\ i < kCheapPrepend + n
                      THEN b.data[b.readerIndex + i - kCheapPrepend] ELSE b.data[i]
<1>0. n \in Nat /\ b.readerIndex \in Nat /\ b.writerIndex \in Nat /\ b.size \in Nat
      /\ kCheapPrepend \in Nat /\ kCheapPrepend <= b.readerIndex
      /\ b.readerIndex + n = b.writerIndex /\ b.writerIndex <= b.size
  BY ReadableIsSeq, BufferAssumption DEF WellFormed, readableBytes
<1>1. /\ r.size = b.size
      /\ r.data = [i \in 0 .. (b.size - 1) |-> cell(i)]
      /\ r.readerIndex = kCheapPrepend /\ r.writerIndex = kCheapPrepend + n
      /\ r = [size |-> r.size, data |-> r.data,
              readerIndex |-> r.readerIndex, writerIndex |-> r.writerIndex]
  BY DEF MoveToFront
<1>2. r.data \in [0 .. (b.size - 1) -> Byte]
  <2>1. ASSUME NEW i \in 0 .. (b.size - 1) PROVE cell(i) \in Byte
    <3>1. CASE kCheapPrepend <= i /\ i < kCheapPrepend + n
      <4>1. b.readerIndex + i - kCheapPrepend \in 0 .. (b.size - 1)
        BY <1>0, <3>1
      <4> QED BY <3>1, <4>1 DEF WellFormed
    <3>2. CASE ~(kCheapPrepend <= i /\ i < kCheapPrepend + n)
      BY <3>2 DEF WellFormed
    <3> QED BY <3>1, <3>2
  <2> QED BY <1>1, <2>1
<1>3. WellFormed(r)
  BY <1>0, <1>1, <1>2 DEF WellFormed
<1>4. readableBytes(r) = n
      /\ writableBytes(r) = writableBytes(b) + prependableBytes(b) - kCheapPrepend
  BY <1>0, <1>1 DEF readableBytes, writableBytes, prependableBytes
<1>5. ASSUME NEW i \in 1 .. n
      PROVE  r.data[kCheapPrepend + i - 1] = b.data[b.readerIndex + i - 1]
  <2>1. /\ kCheapPrepend + i - 1 \in 0 .. (b.size - 1)
        /\ kCheapPrepend <= kCheapPrepend + i - 1
        /\ kCheapPrepend + i - 1 < kCheapPrepend + n
        /\ b.readerIndex + (kCheapPrepend + i - 1) - kCheapPrepend = b.readerIndex + i - 1
    BY <1>0
  <2> QED BY <1>1, <2>1
<1>6. Readable(r) = Readable(b)
  <2>1. Readable(r) = [i \in 1 .. n |-> r.data[kCheapPrepend + i - 1]]
    BY <1>1, <1>4 DEF Readable
  <2> QED BY <1>5, <2>1 DEF Readable
<1> QED BY <1>3, <1>4, <1>6

\* The conversion of makeSpace(int len) keeps a length that an int can hold.
LEMMA ShortLengthIsKept ==
  ASSUME NEW len \in Nat, len <= IntMax
  PROVE  toInt(len) = len /\ \A n \in Nat : toSize(n) = n
<1>1. toInt(len) = len
  BY Zenon DEF toInt
<1>2. ASSUME NEW n \in Nat PROVE toSize(n) = n
  BY DEF toSize
<1> QED BY <1>1, <1>2

\* ensureWritableBytes() keeps its promise whichever way it takes, for every
\* length up to IntMax, which is what makeSpace(int len) can be asked for.  The
\* copy to the front is taken only when it makes enough room (MustGrow).
THEOREM RoomIsMade ==
  ASSUME NEW b, WellFormed(b), NEW len \in Nat, len <= IntMax
  PROVE  /\ WellFormed(ensureWritableBytes(b, len))
         /\ Readable(ensureWritableBytes(b, len)) = Readable(b)
         /\ readableBytes(ensureWritableBytes(b, len)) = readableBytes(b)
         /\ len <= writableBytes(ensureWritableBytes(b, len))
<1> DEFINE r == ensureWritableBytes(b, len)
<1>0. readableBytes(b) \in Nat /\ writableBytes(b) \in Nat /\ kCheapPrepend \in Nat
      /\ prependableBytes(b) \in Nat /\ b.writerIndex \in Nat /\ b.size \in Nat
      /\ writableBytes(b) = b.size - b.writerIndex
  BY ReadableIsSeq, BufferAssumption
     DEF WellFormed, prependableBytes, writableBytes
<1>c. /\ toInt(len) = len
      /\ toSize(len + kCheapPrepend) = len + kCheapPrepend
      /\ toSize(b.writerIndex + len) = b.writerIndex + len
  <2>1. len + kCheapPrepend \in Nat /\ b.writerIndex + len \in Nat
    BY <1>0
  <2> QED BY <2>1, ShortLengthIsKept, Zenon
<1>1. CASE len <= writableBytes(b)
  BY <1>0, <1>1 DEF ensureWritableBytes
<1>2. CASE writableBytes(b) < len /\ MustGrow(b, len)
  <2>1. r = resize(b, b.writerIndex + len)
    BY <1>2, <1>c DEF ensureWritableBytes, makeSpace
  <2>2. b.writerIndex + len \in Nat /\ b.size <= b.writerIndex + len
        /\ (b.writerIndex + len) - b.writerIndex = len
    BY <1>0, <1>2
  <2> QED BY <2>1, <2>2, ResizeKeepsContent
<1>3. CASE writableBytes(b) < len /\ ~MustGrow(b, len)
  <2>1. r = MoveToFront(b)
    BY <1>3 DEF ensureWritableBytes, makeSpace
  <2>2. len <= writableBytes(b) + prependableBytes(b) - kCheapPrepend
    BY <1>0, <1>3, <1>c DEF MustGrow
  <2> QED BY <2>1, <2>2, MoveKeepsContent
<1> QED BY <1>0, <1>1, <1>2, <1>3

-----------------------------------------------------------------------------
(* Putting bytes in.                                                       *)

\* The sequence s with the bytes t behind it, cell by cell.
Followed(s, t) ==
  [i \in 1 .. (Len(s) + Len(t)) |-> IF i <= Len(s) THEN s[i] ELSE t[i - Len(s)]]

\* Bytes that fit into the writable part come behind the readable ones.
LEMMA StoreAddsAtEnd ==
  ASSUME NEW b, WellFormed(b), NEW bytes \in Seq(Byte), Len(bytes) <= writableBytes(b)
  PROVE  /\ WellFormed(Store(b, bytes))
         /\ Readable(Store(b, bytes)) = Followed(Readable(b), bytes)
         /\ readableBytes(Store(b, bytes)) = readableBytes(b) + Len(bytes)
         /\ writableBytes(Store(b, bytes)) = writableBytes(b) - Len(bytes)
<1> DEFINE r == Store(b, bytes)
           n == readableBytes(b)
           k == Len(bytes)
           cell(i) == IF b.writerIndex <= i /\ i < b.writerIndex + k
                      THEN bytes[i - b.writerIndex + 1] ELSE b.data[i]
<1>0. n \in Nat /\ k \in Nat /\ b.readerIndex \in Nat /\ b.writerIndex \in Nat
      /\ b.size \in Nat /\ kCheapPrepend <= b.readerIndex
      /\ b.readerIndex + n = b.writerIndex /\ b.writerIndex + k <= b.size
      /\ kCheapPrepend \in Nat /\ Len(Readable(b)) = n
  <2>1. n \in Nat /\ Len(Readable(b)) = n
    BY ReadableIsSeq
  <2>2. k \in Nat
    OBVIOUS
  <2>3. b.writerIndex + k <= b.size
    BY <2>2 DEF WellFormed, writableBytes
  <2>4. b.readerIndex + n = b.writerIndex
    BY DEF WellFormed, readableBytes
  <2> QED BY <2>1, <2>2, <2>3, <2>4, BufferAssumption DEF WellFormed
<1>1. /\ r.size = b.size
      /\ r.data = [i \in 0 .. (b.size - 1) |-> cell(i)]
      /\ r.readerIndex = b.readerIndex /\ r.writerIndex = b.writerIndex + k
      /\ r = [size |-> r.size, data |-> r.data,
              readerIndex |-> r.readerIndex, writerIndex |-> r.writerIndex]
  BY DEF Store
<1>2. r.data \in [0 .. (b.size - 1) -> Byte]
  <2>1. ASSUME NEW i \in 0 .. (b.size - 1) PROVE cell(i) \in Byte
    <3>1. CASE b.writerIndex <= i /\ i < b.writerIndex + k
      <4>1. i - b.writerIndex + 1 \in 1 .. k
        BY <1>0, <3>1
      <4>2. bytes[i - b.writerIndex + 1] \in Byte
        BY <4>1
      <4> QED BY <3>1, <4>2
    <3>2. CASE ~(b.writerIndex <= i /\ i < b.writerIndex + k)
      BY <3>2 DEF WellFormed
    <3> QED BY <3>1, <3>2
  <2> QED BY <1>1, <2>1
<1>3. WellFormed(r)
  BY <1>0, <1>1, <1>2 DEF WellFormed
<1>4. readableBytes(r) = n + k /\ writableBytes(r) = writableBytes(b) - k
  BY <1>0, <1>1 DEF readableBytes, writableBytes
<1>5. ASSUME NEW i \in 1 .. (n + k)
      PROVE  r.data[b.readerIndex + i - 1] = IF i <= n THEN Readable(b)[i] ELSE bytes[i - n]
  <2>0. i \in Int /\ 1 <= i /\ i <= n + k /\ n + k \in Nat
    BY <1>0
  <2>1. b.readerIndex + i - 1 \in 0 .. (b.size - 1)
    <3>1. b.readerIndex + (n + k) <= b.size
      BY <1>0
    <3> HIDE DEF n, k
    <3>2. b.readerIndex + i <= b.size
      BY <1>0, <2>0, <3>1
    <3> QED BY <1>0, <2>0, <3>2
  <2>2. CASE i <= n
    <3>1. ~(b.writerIndex <= b.readerIndex + i - 1) /\ i \in 1 .. n
      BY <1>0, <2>2
    <3>2. r.data[b.readerIndex + i - 1] = b.data[b.readerIndex + i - 1]
      BY <1>1, <2>1, <3>1
    <3> QED BY <2>2, <3>1, <3>2 DEF Readable
  <2>3. CASE n < i
    <3>1. /\ b.writerIndex <= b.readerIndex + i - 1
          /\ b.readerIndex + i - 1 < b.writerIndex + k
          /\ (b.readerIndex + i - 1) - b.writerIndex + 1 = i - n
      BY <1>0, <2>3
    <3>2. r.data[b.readerIndex + i - 1] = bytes[i - n]
      BY <1>1, <2>1, <3>1
    <3>3. ~(i <= n)
      BY <1>0, <2>3
    <3> QED BY <3>2, <3>3
  <2> QED BY <1>0, <2>2, <2>3
<1>6. Readable(r) = Followed(Readable(b), bytes)
  <2>1. Readable(r) = [i \in 1 .. (n + k) |-> r.data[b.readerIndex + i - 1]]
    BY <1>1, <1>4 DEF Readable
  <2>2. Followed(Readable(b), bytes) =
          [i \in 1 .. (n + k) |-> IF i <= n THEN Readable(b)[i] ELSE bytes[i - n]]
    BY <1>0 DEF Followed
  <2> QED BY <1>5, <2>1, <2>2
<1> QED BY <1>3, <1>4, <1>6

\* append() puts its bytes behind the readable ones, whatever room there was, when
\* there are at most IntMax of them.
THEOREM AppendAddsAtEnd ==
  ASSUME NEW b, WellFormed(b), NEW bytes \in Seq(Byte), Len(bytes) <= IntMax
  PROVE  /\ WellFormed(append(b, bytes))
         /\ Readable(append(b, bytes)) = Followed(Readable(b), bytes)
         /\ readableBytes(append(b, bytes)) = readableBytes(b) + Len(bytes)
<1> DEFINE e == ensureWritableBytes(b, Len(bytes))
<1>1. WellFormed(e) /\ Readable(e) = Readable(b) /\ readableBytes(e) = readableBytes(b)
      /\ Len(bytes) <= writableBytes(e)
  BY RoomIsMade
<1> HIDE DEF e
<1>2. /\ WellFormed(Store(e, bytes))
      /\ Readable(Store(e, bytes)) = Followed(Readable(e), bytes)
      /\ readableBytes(Store(e, bytes)) = readableBytes(e) + Len(bytes)
  BY <1>1, StoreAddsAtEnd
<1>3. append(b, bytes) = Store(e, bytes)
  BY DEF append, e
<1> QED BY <1>1, <1>2, <1>3

\* readFd() puts everything readv() delivered behind the readable bytes, in
\* order, also when a part of it went through extrabuf: what is appended from
\* there is never longer than extrabuf.
THEOREM ReadFdAddsAtEnd ==
  ASSUME NEW b, WellFormed(b), NEW bytes \in Seq(Byte), Len(bytes) <= ReadLimit(b)
  PROVE  /\ WellFormed(readFd(b, bytes))
         /\ Readable(readFd(b, bytes)) = Followed(Readable(b), bytes)
         /\ readableBytes(readFd(b, bytes)) = readableBytes(b) + Len(bytes)
<1> DEFINE w == writableBytes(b)
           k == Len(bytes)
           head == SubSeq(bytes, 1, w)
           tail == SubSeq(bytes, w + 1, k)
           s == Store(b, head)
<1>0. w \in Nat /\ k \in Nat /\ readableBytes(b) \in Nat /\ Len(Readable(b)) = readableBytes(b)
  BY ReadableIsSeq
<1>1. CASE k <= w
  <2>1. readFd(b, bytes) = Store(b, bytes)
    BY <1>1 DEF readFd
  <2> QED BY <1>1, <2>1, StoreAddsAtEnd
<1>2. CASE w < k
  <2>1. head \in Seq(Byte) /\ Len(head) = w /\ tail \in Seq(Byte) /\ Len(tail) = k - w
    BY <1>0, <1>2
  <2>2. /\ \A i \in 1 .. w : head[i] = bytes[i]
        /\ \A i \in 1 .. (k - w) : tail[i] = bytes[w + i]
    BY <1>0, <1>2
  <2>3. readFd(b, bytes) = append(s, tail)
    <3>1. ~(k <= w)
      BY <1>0, <1>2
    <3> QED BY <3>1 DEF readFd
  <2> HIDE DEF head, tail
  <2>4. /\ WellFormed(s) /\ Readable(s) = Followed(Readable(b), head)
        /\ readableBytes(s) = readableBytes(b) + w
    BY <1>0, <2>1, StoreAddsAtEnd
  <2> HIDE DEF s
  <2>5. /\ WellFormed(append(s, tail))
        /\ Readable(append(s, tail)) = Followed(Readable(s), tail)
        /\ readableBytes(append(s, tail)) = readableBytes(s) + (k - w)
    <3>1. Len(tail) <= IntMax
      BY <1>0, <1>2, <2>1, BufferAssumption DEF ReadLimit
    <3> QED BY <2>1, <2>4, <3>1, AppendAddsAtEnd
  <2>6. Followed(Readable(s), tail) = Followed(Readable(b), bytes)
    <3> DEFINE n == readableBytes(b)
    <3>1. Len(Readable(s)) = n + w
      BY <2>4, ReadableIsSeq
    <3>2. Followed(Readable(s), tail) =
            [i \in 1 .. (n + k) |-> IF i <= n + w THEN Readable(s)[i] ELSE tail[i - (n + w)]]
      <4>1. (n + w) + (k - w) = n + k
        BY <1>0
      <4> QED BY <2>1, <3>1, <4>1 DEF Followed
    <3>3. Followed(Readable(b), bytes) =
            [i \in 1 .. (n + k) |-> IF i <= n THEN Readable(b)[i] ELSE bytes[i - n]]
      BY <1>0 DEF Followed
    <3>4. Readable(s) = [i \in 1 .. (n + w) |-> IF i <= n THEN Readable(b)[i] ELSE head[i - n]]
      BY <1>0, <2>1, <2>4 DEF Followed
    <3>5. ASSUME NEW i \in 1 .. (n + k)
          PROVE  (IF i <= n + w THEN Readable(s)[i] ELSE tail[i - (n + w)])
                   = (IF i <= n THEN Readable(b)[i] ELSE bytes[i - n])
      <4>1. CASE i <= n
        BY <1>0, <3>4, <4>1
      <4>2. CASE n < i /\ i <= n + w
        <5>1. i \in 1 .. (n + w) /\ ~(i <= n) /\ i - n \in 1 .. w
          BY <1>0, <4>2
        <5> QED BY <2>2, <3>4, <4>2, <5>1
      <4>3. CASE n + w < i
        <5>1. ~(i <= n + w) /\ ~(i <= n) /\ i - (n + w) \in 1 .. (k - w)
              /\ w + (i - (n + w)) = i - n
          BY <1>0, <4>3
        <5> QED BY <2>2, <5>1
      <4> QED BY <1>0, <4>1, <4>2, <4>3
    <3> QED BY <3>2, <3>3, <3>5
  <2>7. readableBytes(s) + (k - w) = readableBytes(b) + k
    BY <1>0, <2>4
  <2> QED BY <2>3, <2>5, <2>6, <2>7
<1> QED BY <1>0, <1>1, <1>2

-----------------------------------------------------------------------------
(* The stream, request by request.                                        *)

\* A set of numbers has a least one.  Induction is done with it: the least number that
\* does not have a property is looked at.
LEMMA LeastElement ==
  ASSUME NEW S \in SUBSET Nat, S # {}
  PROVE  \E x \in S : \A y \in Nat : y < x => y \notin S
<1> DEFINE R == {ss \in Nat \X Nat : ss[1] < ss[2]}
<1>1. IsWellFoundedOn(R, Nat)
  BY NatLessThanWellFounded DEF OpToRel
<1>2. \A x, y \in Nat : <<y, x>> \notin R => ~ (y < x)
  OBVIOUS
<1> HIDE DEF R
<1>3. \E x \in S : \A y \in S : <<y, x>> \notin R
  BY <1>1, WFMin
<1> QED BY <1>2, <1>3

\* A request has a text and a path.
LEMMA RequestType ==
  ASSUME NEW reqs \in Seq(Request), NEW i \in 1 .. Len(reqs)
  PROVE  reqs[i].text \in Seq(Byte) /\ reqs[i].path \in Seq(Byte)
<1>1. reqs[i] \in Request
  OBVIOUS
<1> QED BY <1>1 DEF Request

\* f[i] is the text of the first i requests, for all i up to m.
Joins(f, reqs, m) ==
  /\ f \in [0 .. m -> Seq(Byte)]
  /\ f[0] = <<>>
  /\ \A i \in 1 .. m : f[i] = f[i - 1] \o reqs[i].text

\* Such a function exists.
LEMMA JoinsExists ==
  ASSUME NEW reqs \in Seq(Request), NEW n \in 0 .. Len(reqs)
  PROVE  \E f : Joins(f, reqs, n)
<1> DEFINE Bad == {m \in 0 .. Len(reqs) : ~ \E f : Joins(f, reqs, m)}
<1>0. Bad \in SUBSET Nat /\ \A m \in Bad : m \in 0 .. Len(reqs) /\ ~ \E f : Joins(f, reqs, m)
  OBVIOUS
<1>00. \A m \in 0 .. Len(reqs) : m \notin Bad => \E f : Joins(f, reqs, m)
  OBVIOUS
<1> HIDE DEF Bad
<1> SUFFICES ASSUME Bad # {} PROVE FALSE
  BY <1>00
<1>1. PICK m \in Bad : \A k \in Nat : k < m => k \notin Bad
  BY <1>0, LeastElement
<1>2. m \in 0 .. Len(reqs) /\ (~ \E f : Joins(f, reqs, m)) /\ Len(reqs) \in Nat
  BY <1>0
<1>3. CASE m = 0
  <2> DEFINE f == [i \in 0 .. 0 |-> <<>>]
  <2>1. Joins(f, reqs, 0)
    BY DEF Joins
  <2> QED BY <1>2, <1>3, <2>1
<1>4. CASE m > 0
  <2>1. m - 1 \in 0 .. Len(reqs) /\ m - 1 \in Nat /\ m - 1 < m /\ m \in Nat
    BY <1>2, <1>4
  <2>2. PICK g : Joins(g, reqs, m - 1)
    BY <1>00, <1>1, <2>1
  <2>3. \A i \in 0 .. m - 1 : g[i] \in Seq(Byte)
    BY <2>2 DEF Joins
  <2>4. reqs[m].text \in Seq(Byte) /\ g[m - 1] \in Seq(Byte)
    <3>1. m \in 1 .. Len(reqs) /\ m - 1 \in 0 .. m - 1
      BY <1>2, <1>4
    <3> QED BY <2>3, <3>1, RequestType
  <2> DEFINE joined == g[m - 1] \o reqs[m].text
              f == [i \in 0 .. m |-> IF i = m THEN joined ELSE g[i]]
  <2>5. joined \in Seq(Byte)
    BY <2>4
  <2>6. f \in [0 .. m -> Seq(Byte)]
    <3> HIDE DEF joined
    <3> QED BY <2>1, <2>3, <2>5
  <2>7. ASSUME NEW i \in 1 .. m PROVE f[i] = f[i - 1] \o reqs[i].text
    <3>0. i \in 0 .. m /\ i - 1 \in 0 .. m /\ i - 1 # m /\ (i # m => i \in 1 .. m - 1)
      BY <2>1
    <3>1. f[i - 1] = g[i - 1]
      BY <3>0
    <3>2. CASE i = m
      BY <3>0, <3>1, <3>2
    <3>3. CASE i # m
      <4>1. f[i] = g[i] /\ g[i] = g[i - 1] \o reqs[i].text
        BY <2>2, <3>0, <3>3 DEF Joins
      <4> QED BY <3>1, <4>1
    <3> QED BY <3>2, <3>3
  <2>8. f[0] = <<>>
    BY <1>4, <2>1, <2>2 DEF Joins
  <2> HIDE DEF f
  <2>9. Joins(f, reqs, m)
    BY <2>6, <2>7, <2>8 DEF Joins
  <2> QED BY <1>2, <2>9
<1> QED BY <1>2, <1>3, <1>4

\* Upto() goes on from request to request.
LEMMA UptoJoins ==
  ASSUME NEW reqs \in Seq(Request)
  PROVE  /\ Upto(reqs, 0) = <<>>
         /\ \A i \in 1 .. Len(reqs) : Upto(reqs, i) = Upto(reqs, i - 1) \o reqs[i].text
<1> DEFINE n == Len(reqs)
            Eq(h) == h = [j \in 0 .. n |-> IF j = 0 THEN <<>> ELSE h[j - 1] \o reqs[j].text]
            F == CHOOSE h : Eq(h)
<1>1. n \in Nat
  OBVIOUS
<1>2. \A i : Upto(reqs, i) = F[i]
  BY DEF Upto
<1>3. PICK f : Joins(f, reqs, n)
  BY <1>1, JoinsExists
<1> HIDE DEF n
<1>4. Eq(f)
  <2>1. f = [j \in 0 .. n |-> f[j]]
    BY <1>3 DEF Joins
  <2>2. ASSUME NEW j \in 0 .. n
        PROVE  f[j] = IF j = 0 THEN <<>> ELSE f[j - 1] \o reqs[j].text
    <3>1. j # 0 => j \in 1 .. n
      BY <1>1
    <3> QED BY <1>3, <3>1 DEF Joins
  <2> QED BY <2>1, <2>2
<1>5. Eq(F)
  <2> HIDE DEF Eq
  <2> QED BY <1>4
<1> HIDE DEF F
<1>6. \A j \in 0 .. n : F[j] = IF j = 0 THEN <<>> ELSE F[j - 1] \o reqs[j].text
  BY <1>5
<1>7. F[0] = <<>>
  BY <1>1, <1>6
<1>8. \A j \in 1 .. n : F[j] = F[j - 1] \o reqs[j].text
  <2>1. \A j \in 1 .. n : j \in 0 .. n /\ j # 0
    BY <1>1
  <2> QED BY <1>6, <2>1
<1> QED BY <1>2, <1>7, <1>8 DEF n

\* It is a sequence of bytes.
LEMMA UptoType ==
  ASSUME NEW reqs \in Seq(Request)
  PROVE  \A i \in 0 .. Len(reqs) : Upto(reqs, i) \in Seq(Byte)
<1> DEFINE Bad == {i \in 0 .. Len(reqs) : Upto(reqs, i) \notin Seq(Byte)}
<1>0. /\ Bad \in SUBSET Nat
      /\ \A i : i \in Bad <=> i \in 0 .. Len(reqs) /\ Upto(reqs, i) \notin Seq(Byte)
  OBVIOUS
<1> HIDE DEF Bad
<1> SUFFICES ASSUME Bad # {} PROVE FALSE
  BY <1>0
<1>1. PICK i \in Bad : \A j \in Nat : j < i => j \notin Bad
  BY <1>0, LeastElement
<1>2. i \in 0 .. Len(reqs) /\ Upto(reqs, i) \notin Seq(Byte) /\ Len(reqs) \in Nat
  BY <1>0
<1>3. <<>> \in Seq(Byte)
  OBVIOUS
<1>4. i # 0
  BY <1>2, <1>3, UptoJoins
<1> DEFINE j == i - 1
<1>5. j \in 0 .. Len(reqs) /\ j \in Nat /\ j < i /\ i \in 1 .. Len(reqs)
  BY <1>2, <1>4
<1>6. Upto(reqs, i) = Upto(reqs, j) \o reqs[i].text
  BY <1>5, UptoJoins
<1> HIDE DEF j
<1>7. Upto(reqs, j) \in Seq(Byte)
  BY <1>0, <1>1, <1>5
<1>8. reqs[i].text \in Seq(Byte)
  BY <1>5, RequestType
<1> QED BY <1>2, <1>6, <1>7, <1>8

\* The cells of a concatenation.
LEMMA ConcatCells ==
  ASSUME NEW S, NEW s \in Seq(S), NEW t \in Seq(S)
  PROVE  /\ s \o t \in Seq(S)
         /\ Len(s \o t) = Len(s) + Len(t)
         /\ \A j \in 1 .. Len(s) : (s \o t)[j] = s[j]
         /\ \A j \in 1 .. Len(t) : (s \o t)[Len(s) + j] = t[j]
<1>1. ASSUME NEW j \in 1 .. Len(t) PROVE (s \o t)[Len(s) + j] = t[j]
  <2>1. Len(s) + j \in 1 .. Len(s) + Len(t) /\ ~ (Len(s) + j <= Len(s)) /\ Len(s) + j - Len(s) = j
    OBVIOUS
  <2> QED BY <2>1
<1> QED BY <1>1

\* Where the text of the i-th request ends.
EndsAt(reqs, i) == Len(Upto(reqs, i))

\* A request ends as much later than the one before it as it is long.
LEMMA EndsStep ==
  ASSUME NEW reqs \in Seq(Request)
  PROVE  /\ EndsAt(reqs, 0) = 0
         /\ \A i \in 0 .. Len(reqs) : EndsAt(reqs, i) \in Nat
         /\ \A i \in 1 .. Len(reqs) :
              EndsAt(reqs, i) = EndsAt(reqs, i - 1) + Len(reqs[i].text)
<1>1. EndsAt(reqs, 0) = 0
  <2>1. Upto(reqs, 0) = <<>> /\ Len(<<>>) = 0
    BY UptoJoins
  <2> QED BY <2>1 DEF EndsAt
<1>2. \A i \in 0 .. Len(reqs) : EndsAt(reqs, i) \in Nat
  BY UptoType DEF EndsAt
<1>3. ASSUME NEW i \in 1 .. Len(reqs)
      PROVE  EndsAt(reqs, i) = EndsAt(reqs, i - 1) + Len(reqs[i].text)
  <2>1. i - 1 \in 0 .. Len(reqs)
    OBVIOUS
  <2>2. Upto(reqs, i - 1) \in Seq(Byte) /\ reqs[i].text \in Seq(Byte)
    BY <2>1, UptoType, RequestType
  <2>3. Upto(reqs, i) = Upto(reqs, i - 1) \o reqs[i].text
    BY UptoJoins
  <2> QED BY <2>2, <2>3, ConcatCells DEF EndsAt
<1> QED BY <1>1, <1>2, <1>3

\* Upto(reqs, k) begins with Upto(reqs, i).
Begins(reqs, i, k) ==
  /\ EndsAt(reqs, i) <= EndsAt(reqs, k)
  /\ \A j \in 1 .. EndsAt(reqs, i) : Upto(reqs, k)[j] = Upto(reqs, i)[j]

\* What was sent earlier comes before what was sent later.
LEMMA UptoBegins ==
  ASSUME NEW reqs \in Seq(Request), NEW i \in 0 .. Len(reqs)
  PROVE  \A k \in i .. Len(reqs) : Begins(reqs, i, k)
<1> DEFINE Bad == {k \in i .. Len(reqs) : ~ Begins(reqs, i, k)}
<1>0. /\ Bad \in SUBSET Nat
      /\ \A k : k \in Bad <=> k \in i .. Len(reqs) /\ ~ Begins(reqs, i, k)
  OBVIOUS
<1> HIDE DEF Bad
<1> SUFFICES ASSUME Bad # {} PROVE FALSE
  BY <1>0
<1>1. PICK k \in Bad : \A j \in Nat : j < k => j \notin Bad
  BY <1>0, LeastElement
<1>2. k \in i .. Len(reqs) /\ (~ Begins(reqs, i, k)) /\ Len(reqs) \in Nat
  BY <1>0
<1>3. k # i
  BY <1>2, EndsStep DEF Begins
<1> DEFINE p == k - 1
<1>4. /\ p \in i .. Len(reqs) /\ p \in Nat /\ p < k
      /\ k \in 1 .. Len(reqs) /\ p \in 0 .. Len(reqs) /\ k \in 0 .. Len(reqs)
  BY <1>2, <1>3
<1>5. /\ Upto(reqs, k) = Upto(reqs, p) \o reqs[k].text
      /\ EndsAt(reqs, k) = EndsAt(reqs, p) + Len(reqs[k].text)
  BY <1>4, UptoJoins, EndsStep
<1> HIDE DEF p
<1>6. Begins(reqs, i, p)
  BY <1>0, <1>1, <1>4
<1>7. /\ Upto(reqs, p) \in Seq(Byte) /\ reqs[k].text \in Seq(Byte)
      /\ EndsAt(reqs, i) \in Nat /\ EndsAt(reqs, p) \in Nat /\ EndsAt(reqs, p) = Len(Upto(reqs, p))
  BY <1>4, UptoType, RequestType, EndsStep DEF EndsAt
<1>8. \A j \in 1 .. EndsAt(reqs, p) : Upto(reqs, k)[j] = Upto(reqs, p)[j]
  BY <1>5, <1>7, ConcatCells
<1>9. Len(reqs[k].text) \in Nat
  BY <1>7
<1>10. \A j \in 1 .. EndsAt(reqs, i) : j \in 1 .. EndsAt(reqs, p)
  BY <1>6, <1>7 DEF Begins
<1>11. \A j \in 1 .. EndsAt(reqs, i) : Upto(reqs, k)[j] = Upto(reqs, i)[j]
  BY <1>6, <1>8, <1>10 DEF Begins
<1>12. EndsAt(reqs, i) <= EndsAt(reqs, k)
  BY <1>5, <1>6, <1>7, <1>9 DEF Begins
<1> QED BY <1>2, <1>11, <1>12 DEF Begins

\* t is what the sequence s holds behind its first e cells.
Holds(s, e, t) == e \in Nat /\ e + Len(t) <= Len(s) /\ \A j \in 1 .. Len(t) : s[e + j] = t[j]

\* The whole stream holds the text of the k-th request where the one before it ends.
LEMMA StreamHolds ==
  ASSUME NEW reqs \in Seq(Request), NEW k \in 1 .. Len(reqs)
  PROVE  Holds(Upto(reqs, Len(reqs)), EndsAt(reqs, k - 1), reqs[k].text)
<1> DEFINE all == Upto(reqs, Len(reqs))
            e == EndsAt(reqs, k - 1)
            t == reqs[k].text
<1>1. /\ k - 1 \in 0 .. Len(reqs) /\ k \in 0 .. Len(reqs)
      /\ Len(reqs) \in 0 .. Len(reqs) /\ Len(reqs) \in k .. Len(reqs)
  OBVIOUS
<1>2. Begins(reqs, k, Len(reqs))
  BY <1>1, UptoBegins
<1>3. /\ t \in Seq(Byte) /\ Len(t) \in Nat /\ e \in Nat /\ EndsAt(reqs, k) = e + Len(t)
      /\ Upto(reqs, k - 1) \in Seq(Byte) /\ Len(Upto(reqs, k - 1)) = e
      /\ Len(all) = EndsAt(reqs, Len(reqs))
  <2>1. t \in Seq(Byte) /\ Upto(reqs, k - 1) \in Seq(Byte)
    BY <1>1, UptoType, RequestType
  <2>2. Len(t) \in Nat
    BY <2>1
  <2>3. e \in Nat /\ EndsAt(reqs, k) = e + Len(t)
    BY <1>1, EndsStep
  <2>4. Len(Upto(reqs, k - 1)) = e /\ Len(all) = EndsAt(reqs, Len(reqs))
    BY DEF EndsAt
  <2> QED BY <2>1, <2>2, <2>3, <2>4
<1>4. Upto(reqs, k) = Upto(reqs, k - 1) \o t
  BY UptoJoins
<1>5. \A j \in 1 .. EndsAt(reqs, k) : all[j] = Upto(reqs, k)[j]
  BY <1>2 DEF Begins
<1>6. EndsAt(reqs, k) <= Len(all)
  BY <1>2, <1>3 DEF Begins
<1> HIDE DEF all, e, t
<1>7. \A j \in 1 .. Len(t) : Upto(reqs, k)[e + j] = t[j]
  BY <1>3, <1>4, ConcatCells
<1>8. \A j \in 1 .. Len(t) : e + j \in 1 .. EndsAt(reqs, k)
  BY <1>3
<1>9. Holds(all, e, t)
  BY <1>3, <1>5, <1>6, <1>7, <1>8 DEF Holds
<1> QED BY <1>9 DEF all, e, t

-----------------------------------------------------------------------------
(* The input buffer and the stream.                                        *)

\* The last n of the first r bytes of the stream s, cell by cell.
Window(s, r, n) == [i \in 1 .. n |-> s[r - n + i]]

\* BufferIsStream with the counters in order.
StreamInv ==
  /\ stream \in Seq(Byte)
  /\ received \in Nat /\ delivered \in Nat
  /\ received <= delivered /\ delivered <= Len(stream)
  /\ WellFormed(inputBuffer)
  /\ readableBytes(inputBuffer) <= received
  /\ Readable(inputBuffer) = Window(stream, received, readableBytes(inputBuffer))

\* The two ways to write the end of what was received are the same.
LEMMA WindowIsSubSeq ==
  ASSUME NEW s \in Seq(Byte), NEW r \in Nat, NEW n \in Nat, n <= r, r <= Len(s)
  PROVE  Window(s, r, n) = SubSeq(s, r - n + 1, r)
<1>1. SubSeq(s, r - n + 1, r) = [i \in 1 .. n |-> s[(r - n + 1) + i - 1]]
  <2>1. r - (r - n + 1) + 1 = n
    OBVIOUS
  <2> QED BY <2>1
<1>2. \A i \in 1 .. n : (r - n + 1) + i - 1 = r - n + i
  OBVIOUS
<1> QED BY <1>1, <1>2 DEF Window

\* Bytes read behind a window make the window longer.
LEMMA WindowGrows ==
  ASSUME NEW s \in Seq(Byte), NEW r \in Nat, NEW q \in Nat, NEW n \in Nat,
         n <= r, r <= q, q <= Len(s)
  PROVE  /\ SubSeq(s, r + 1, q) \in Seq(Byte)
         /\ Len(SubSeq(s, r + 1, q)) = q - r
         /\ Followed(Window(s, r, n), SubSeq(s, r + 1, q)) = Window(s, q, n + (q - r))
<1> DEFINE t == SubSeq(s, r + 1, q)
           w == Window(s, r, n)
<1>1. t \in Seq(Byte) /\ Len(t) = q - r
  <2>1. q - (r + 1) + 1 = q - r
    OBVIOUS
  <2> QED BY <2>1
<1>2. \A i \in 1 .. (q - r) : t[i] = s[r + i]
  <2>1. \A i \in 1 .. (q - r) : (r + 1) + i - 1 = r + i
    OBVIOUS
  <2> QED BY <2>1
<1>3. w \in Seq(Byte) /\ Len(w) = n
  <2>1. \A i \in 1 .. n : s[r - n + i] \in Byte
    <3>1. \A i \in 1 .. n : r - n + i \in 1 .. Len(s)
      OBVIOUS
    <3> QED BY <3>1
  <2> QED BY <2>1 DEF Window
<1>4. \A i \in 1 .. n : w[i] = s[r - n + i]
  BY DEF Window
<1> HIDE DEF t, w
<1>5. Followed(w, t) = [i \in 1 .. (n + (q - r)) |-> IF i <= n THEN w[i] ELSE t[i - n]]
  BY <1>1, <1>3 DEF Followed
<1>6. ASSUME NEW i \in 1 .. (n + (q - r))
      PROVE  (IF i <= n THEN w[i] ELSE t[i - n]) = s[q - (n + (q - r)) + i]
  <2>1. q - (n + (q - r)) + i = r - n + i
    OBVIOUS
  <2>2. CASE i <= n
    <3>1. i \in 1 .. n
      BY <2>2
    <3> QED BY <1>4, <2>1, <2>2, <3>1
  <2>3. CASE n < i
    <3>1. i - n \in 1 .. (q - r) /\ r + (i - n) = r - n + i /\ ~(i <= n)
      BY <2>3
    <3> QED BY <1>2, <2>1, <3>1
  <2> QED BY <2>2, <2>3
<1>7. Followed(w, t) = Window(s, q, n + (q - r))
  BY <1>5, <1>6 DEF Window
<1> QED BY <1>1, <1>7 DEF t, w

\* Bytes retrieved from the front make it shorter.
LEMMA WindowShrinks ==
  ASSUME NEW s \in Seq(Byte), NEW r \in Nat, NEW n \in Nat, NEW len \in 0 .. n,
         n <= r, r <= Len(s)
  PROVE  [i \in 1 .. (n - len) |-> Window(s, r, n)[i + len]] = Window(s, r, n - len)
<1>1. ASSUME NEW i \in 1 .. (n - len)
      PROVE  Window(s, r, n)[i + len] = s[r - (n - len) + i]
  <2>1. i + len \in 1 .. n /\ r - n + (i + len) = r - (n - len) + i
    OBVIOUS
  <2> QED BY <2>1 DEF Window
<1> QED BY <1>1 DEF Window

-----------------------------------------------------------------------------

\* Nothing is received and the buffer is new.
LEMMA InitStream == HttpInit => StreamInv
<1> SUFFICES ASSUME HttpInit PROVE StreamInv
  OBVIOUS
<1>1. stream \in Seq(Byte) /\ Len(stream) \in Nat
  <2>1. requests \in Seq(Request) /\ Len(requests) \in 0 .. Len(requests)
    BY WorkloadAssumption DEF HttpInit
  <2>2. stream \in Seq(Byte)
    BY <2>1, UptoType DEF HttpInit
  <2> QED BY <2>2
<1>2. WellFormed(inputBuffer) /\ readableBytes(inputBuffer) = 0
  BY NewBufferIsEmpty, BufferAssumption DEF HttpInit, NewBuffer, readableBytes
<1>3. Readable(inputBuffer) = <<>> /\ Window(stream, received, 0) = <<>>
  BY NewBufferIsEmpty DEF HttpInit, Window
<1> QED BY <1>1, <1>2, <1>3 DEF StreamInv, HttpInit

\* readFd() keeps it: what readv() takes is the next piece of the stream.
LEMMA ReadKeepsStream == StreamInv /\ HandleRead => StreamInv'
<1> SUFFICES ASSUME StreamInv, HandleRead PROVE StreamInv'
  OBVIOUS
<1> DEFINE n == readableBytes(inputBuffer)
           t == SubSeq(stream, received + 1, received')
<1>1. stream' = stream /\ delivered' = delivered
  BY DEF HandleRead, clientVars
<1>2. n \in Nat /\ ReadLimit(inputBuffer) \in Nat /\ Len(stream) \in Nat
  BY ReadableIsSeq, BufferAssumption DEF StreamInv, ReadLimit
<1>3. received' \in Nat /\ received <= received' /\ received' <= delivered
  BY <1>2 DEF HandleRead, StreamInv
<1>4. inputBuffer' = readFd(inputBuffer, t)
  BY DEF HandleRead
<1>5. /\ t \in Seq(Byte) /\ Len(t) = received' - received
      /\ Followed(Window(stream, received, n), t)
           = Window(stream, received', n + (received' - received))
  <2>1. received' <= Len(stream) /\ n <= received
    BY <1>2, <1>3 DEF StreamInv
  <2> QED BY <1>2, <1>3, <2>1, WindowGrows DEF StreamInv
<1> HIDE DEF t
<1>6. /\ WellFormed(inputBuffer')
      /\ Readable(inputBuffer') = Followed(Readable(inputBuffer), t)
      /\ readableBytes(inputBuffer') = n + (received' - received)
  <2>1. Len(t) <= ReadLimit(inputBuffer)
    BY <1>2, <1>5 DEF HandleRead, StreamInv
  <2> QED BY <1>4, <1>5, <2>1, ReadFdAddsAtEnd DEF StreamInv
<1>7. Readable(inputBuffer') = Window(stream, received', readableBytes(inputBuffer'))
  BY <1>5, <1>6 DEF StreamInv
<1>8. readableBytes(inputBuffer') <= received'
  BY <1>2, <1>3, <1>6 DEF StreamInv
<1> QED BY <1>1, <1>3, <1>6, <1>7, <1>8 DEF StreamInv

\* retrieveUntil(crlf + 2) keeps it: a line is taken from the front.
LEMMA RetrieveKeepsStream ==
  ASSUME StreamInv, NEW crlf \in findCRLF, inputBuffer' = RetrieveLine(crlf),
         stream' = stream, received' = received, delivered' = delivered
  PROVE  StreamInv'
<1> DEFINE n == readableBytes(inputBuffer)
           len == crlf + 2 - inputBuffer.readerIndex
<1>1. n \in Nat
  BY ReadableIsSeq DEF StreamInv
<1>2. len \in 0 .. n
  BY DEF findCRLF, CRLFs, readableBytes, StreamInv, WellFormed
<1>3. inputBuffer' = retrieve(inputBuffer, len)
  BY DEF RetrieveLine
<1> HIDE DEF len
<1>4. /\ WellFormed(inputBuffer')
      /\ readableBytes(inputBuffer') = n - len
      /\ Readable(inputBuffer') = [i \in 1 .. (n - len) |-> Readable(inputBuffer)[i + len]]
  BY <1>2, <1>3, RetrieveDropsFront DEF StreamInv
<1>5. received <= Len(stream) /\ Len(stream) \in Nat
  BY DEF StreamInv
<1>6. Readable(inputBuffer') = Window(stream, received, n - len)
  <2>1. [i \in 1 .. (n - len) |-> Window(stream, received, n)[i + len]]
          = Window(stream, received, n - len)
    BY <1>1, <1>2, <1>5, WindowShrinks DEF StreamInv
  <2> QED BY <1>4, <2>1 DEF StreamInv
<1>7. readableBytes(inputBuffer') <= received'
  BY <1>1, <1>2, <1>4 DEF StreamInv
<1> QED BY <1>4, <1>6, <1>7 DEF StreamInv

\* Every other step leaves the buffer and the counters of the stream alone, or
\* only delivers more.
LEMMA NextStream == StreamInv /\ [HttpNext]_httpVars => StreamInv'
<1> SUFFICES ASSUME StreamInv, [HttpNext]_httpVars PROVE StreamInv'
  OBVIOUS
<1>0. CASE UNCHANGED <<stream, received, delivered, inputBuffer>>
  BY <1>0 DEF StreamInv
<1>1. CASE Deliver
  BY <1>1 DEF Deliver, bufferVars, StreamInv
<1>2. CASE HandleRead
  BY <1>2, ReadKeepsStream
<1>3. CASE ParseRequestLine
  <2>1. stream' = stream /\ received' = received /\ delivered' = delivered
    BY <1>3 DEF ParseRequestLine, clientVars
  <2>2. PICK crlf \in findCRLF :
          inputBuffer' = RetrieveLine(crlf) \/ UNCHANGED inputBuffer
    BY <1>3 DEF ParseRequestLine
  <2> QED BY <1>0, <2>1, <2>2, RetrieveKeepsStream
<1>4. CASE ParseHeader
  <2>1. stream' = stream /\ received' = received /\ delivered' = delivered
    BY <1>4 DEF ParseHeader, clientVars
  <2>2. PICK crlf \in findCRLF : inputBuffer' = RetrieveLine(crlf)
    BY <1>4 DEF ParseHeader
  <2> QED BY <2>1, <2>2, RetrieveKeepsStream
<1>5. CASE ParseRunsDry
  BY <1>0, <1>5 DEF ParseRunsDry, clientVars, bufferVars
<1>6. CASE BadRequest
  BY <1>0, <1>6 DEF BadRequest, clientVars, bufferVars
<1>7. CASE OnRequest
  BY <1>0, <1>7 DEF OnRequest, clientVars, bufferVars
<1>8. CASE NeedsMore
  BY <1>0, <1>8 DEF NeedsMore, clientVars, bufferVars
<1>9. CASE UNCHANGED httpVars
  BY <1>0, <1>9 DEF httpVars, clientVars, bufferVars
<1> QED BY <1>1, <1>2, <1>3, <1>4, <1>5, <1>6, <1>7, <1>8, <1>9 DEF HttpNext, LoopStep

\* However the stream is cut and however the buffer moves and grows, its readable
\* bytes are the last ones received: nothing is skipped or parsed twice.
THEOREM BufferIsAlwaysStream == HttpSpec => []BufferIsStream
<1>1. StreamInv => BufferIsStream
  <2> SUFFICES ASSUME StreamInv PROVE BufferIsStream
    OBVIOUS
  <2>1. readableBytes(inputBuffer) \in Nat /\ received <= Len(stream) /\ Len(stream) \in Nat
    BY ReadableIsSeq DEF StreamInv
  <2> QED BY <2>1, WindowIsSubSeq DEF StreamInv, BufferIsStream
<1> QED BY <1>1, InitStream, NextStream, PTL DEF HttpSpec

-----------------------------------------------------------------------------
(* What the parser does with a line, and the lines of a request.           *)

\* Sequences of one cell.
LEMMA OneCell ==
  ASSUME NEW s \in Seq(Byte), NEW x
  PROVE  (s = <<x>>) <=> (Len(s) = 1 /\ s[1] = x)
<1>1. ASSUME s = <<x>> PROVE Len(s) = 1 /\ s[1] = x
  BY <1>1
<1>2. ASSUME Len(s) = 1, s[1] = x PROVE s = <<x>>
  <2>1. DOMAIN s = {1} /\ DOMAIN <<x>> = {1} /\ <<x>>[1] = x
    BY <1>2
  <2>2. s = [i \in DOMAIN s |-> s[i]]
    OBVIOUS
  <2>3. <<x>> = [i \in DOMAIN <<x>> |-> <<x>>[i]]
    OBVIOUS
  <2> QED BY <1>2, <2>1, <2>2, <2>3
<1> QED BY <1>1, <1>2

\* f is what std::find() returns.
Finds(s, from, c, f) ==
  /\ f \in 1 .. Len(s) + 1
  /\ f <= Len(s) => f >= from /\ s[f] = c
  /\ \A j \in from .. Len(s) : s[j] = c => f <= j

\* Find() is the first place of c, or the end.
LEMMA FindIsFirst ==
  ASSUME NEW s \in Seq(Byte), NEW from \in Nat \ {0}, NEW c
  PROVE  Finds(s, from, c, Find(s, from, c))
<1> DEFINE S == {i \in from .. Len(s) : s[i] = c} \cup {Len(s) + 1}
<1>1. /\ Len(s) \in Nat /\ S \in SUBSET Nat /\ S # {}
      /\ \A i \in S : i \in 1 .. Len(s) + 1 /\ (i <= Len(s) => i >= from /\ s[i] = c)
      /\ \A i \in from .. Len(s) : s[i] = c => i \in S
  OBVIOUS
<1>2. Find(s, from, c) = Min(S)
  BY DEF Find
<1> HIDE DEF S
<1>3. PICK x \in S : \A y \in Nat : y < x => y \notin S
  BY <1>1, LeastElement
<1>4. \A y \in S : x <= y
  BY <1>1, <1>3
<1>5. Min(S) \in S /\ \A y \in S : Min(S) <= y
  BY <1>4 DEF Min
<1> QED BY <1>1, <1>2, <1>5 DEF Finds

\* A line that parses as a request line begins with a method and a space.
LEMMA ParsedLine ==
  ASSUME NEW line \in Seq(Byte)
  PROVE  /\ processRequestLine(line).ok \in BOOLEAN
         /\ processRequestLine(line).ok =>
              /\ processRequestLine(line).path \in Seq(Byte)
              /\ Len(line) >= 2 /\ line[1] = "METHOD" /\ line[2] = "SP"
<1> DEFINE space1 == Find(line, 1, "SP")
            space2 == Find(line, space1 + 1, "SP")
            p == processRequestLine(line)
<1>1. Finds(line, 1, "SP", space1)
  BY FindIsFirst
<1>2. space1 \in Nat /\ space1 + 1 \in Nat \ {0} /\ Len(line) \in Nat
  BY <1>1 DEF Finds
<1> HIDE DEF space1
<1>3. Finds(line, space1 + 1, "SP", space2)
  BY <1>2, FindIsFirst
<1> HIDE DEF space2
<1>4. /\ p.ok = (/\ SubSeq(line, 1, space1 - 1) = <<"METHOD">>
                 /\ space2 <= Len(line)
                 /\ SubSeq(line, space2 + 1, Len(line)) = <<"HTTP/1.x">>)
      /\ p.path = SubSeq(line, space1 + 1, space2 - 1)
  BY DEF processRequestLine, setMethod, space1, space2
<1>5. ASSUME p.ok
      PROVE  /\ p.path \in Seq(Byte)
             /\ Len(line) >= 2 /\ line[1] = "METHOD" /\ line[2] = "SP"
  <2>1. /\ SubSeq(line, 1, space1 - 1) = <<"METHOD">>
        /\ space2 \in 1 .. Len(line) /\ space2 >= space1 + 1 /\ space1 \in 1 .. Len(line)
        /\ line[space1] = "SP"
    <3>1. SubSeq(line, 1, space1 - 1) = <<"METHOD">> /\ space2 <= Len(line)
      BY <1>4, <1>5, Zenon
    <3>2. space2 \in 1 .. Len(line) /\ space2 >= space1 + 1
      BY <1>2, <1>3, <3>1 DEF Finds
    <3>3. space1 \in 1 .. Len(line) /\ line[space1] = "SP"
      BY <1>1, <1>2, <3>2 DEF Finds
    <3> QED BY <3>1, <3>2, <3>3
  <2>2. Len(SubSeq(line, 1, space1 - 1)) = space1 - 1
    BY <1>2, <2>1
  <2>3. space1 = 2
    <3>1. SubSeq(line, 1, space1 - 1) \in Seq(Byte)
      BY <1>2, <2>1
    <3>2. Len(SubSeq(line, 1, space1 - 1)) = 1
      BY <2>1, <3>1, OneCell
    <3> QED BY <1>2, <2>2, <3>2
  <2>4. SubSeq(line, 1, 1)[1] = line[1]
    BY <2>1, <2>3
  <2>5. line[1] = "METHOD"
    <3>1. SubSeq(line, 1, 1) \in Seq(Byte) /\ SubSeq(line, 1, 1) = <<"METHOD">>
      BY <2>1, <2>3
    <3> QED BY <2>4, <3>1, OneCell
  <2>6. SubSeq(line, space1 + 1, space2 - 1) \in Seq(Byte)
    BY <1>2, <2>1, <2>3
  <2> QED BY <1>2, <1>4, <2>1, <2>3, <2>5, <2>6
<1>6. p.ok \in BOOLEAN
  BY <1>4
<1> QED BY <1>5, <1>6

\* The line of a request with that path.
IsRequestLine(line, path) ==
  /\ Len(line) = Len(path) + 4
  /\ line[1] = "METHOD" /\ line[2] = "SP"
  /\ \A j \in 1 .. Len(path) : line[j + 2] = path[j] /\ path[j] # "SP"
  /\ line[Len(path) + 3] = "SP" /\ line[Len(path) + 4] = "HTTP/1.x"

\* It parses, and its path is found.
LEMMA RequestLineParses ==
  ASSUME NEW line \in Seq(Byte), NEW path \in Seq(Byte), IsRequestLine(line, path)
  PROVE  processRequestLine(line).ok /\ processRequestLine(line).path = path
<1> DEFINE space1 == Find(line, 1, "SP")
            space2 == Find(line, space1 + 1, "SP")
            p == processRequestLine(line)
            n == Len(path)
<1>0. n \in Nat /\ Len(line) = n + 4
  BY DEF IsRequestLine
<1>1. Finds(line, 1, "SP", space1)
  BY FindIsFirst
<1> HIDE DEF space1
<1>2. space1 = 2
  <2>1. line[2] = "SP" /\ line[1] # "SP" /\ 2 \in 1 .. Len(line)
    BY <1>0 DEF IsRequestLine
  <2>2. space1 <= 2 /\ space1 \in Nat /\ space1 >= 1 /\ (space1 <= Len(line) => line[space1] = "SP")
    BY <1>0, <1>1, <2>1 DEF Finds
  <2> QED BY <1>0, <2>1, <2>2
<1>3. Finds(line, 3, "SP", space2)
  BY <1>2, FindIsFirst
<1> HIDE DEF space2
<1>4. space2 = n + 3
  <2>1. line[n + 3] = "SP" /\ n + 3 \in 3 .. Len(line)
    BY <1>0 DEF IsRequestLine
  <2>2. \A j \in 3 .. n + 2 : line[j] # "SP"
    <3>1. ASSUME NEW j \in 3 .. n + 2 PROVE line[j] # "SP"
      <4>1. j - 2 \in 1 .. n /\ (j - 2) + 2 = j
        BY <1>0
      <4> QED BY <4>1 DEF IsRequestLine
    <3> QED BY <3>1
  <2>3. /\ space2 <= n + 3 /\ space2 \in Nat
        /\ (space2 <= Len(line) => space2 >= 3 /\ line[space2] = "SP")
    BY <1>0, <1>3, <2>1 DEF Finds
  <2> QED BY <1>0, <2>2, <2>3
<1>5. /\ p.ok = (/\ SubSeq(line, 1, space1 - 1) = <<"METHOD">>
                 /\ space2 <= Len(line)
                 /\ SubSeq(line, space2 + 1, Len(line)) = <<"HTTP/1.x">>)
      /\ p.path = SubSeq(line, space1 + 1, space2 - 1)
  BY DEF processRequestLine, setMethod, space1, space2
<1>6. SubSeq(line, 1, 1) = <<"METHOD">>
  <2>1. /\ SubSeq(line, 1, 1) \in Seq(Byte) /\ Len(SubSeq(line, 1, 1)) = 1
        /\ SubSeq(line, 1, 1)[1] = line[1]
    BY <1>0
  <2>2. line[1] = "METHOD"
    BY DEF IsRequestLine
  <2> HIDE DEF n
  <2> QED BY <2>1, <2>2, OneCell
<1>7. SubSeq(line, n + 4, n + 4) = <<"HTTP/1.x">>
  <2>1. /\ SubSeq(line, n + 4, n + 4) \in Seq(Byte) /\ Len(SubSeq(line, n + 4, n + 4)) = 1
        /\ SubSeq(line, n + 4, n + 4)[1] = line[n + 4]
    BY <1>0
  <2>2. line[n + 4] = "HTTP/1.x"
    BY DEF IsRequestLine
  <2> HIDE DEF n
  <2> QED BY <2>1, <2>2, OneCell
<1>8. SubSeq(line, 3, n + 2) = path
  <2> DEFINE q == SubSeq(line, 3, n + 2)
  <2>1. q \in Seq(Byte) /\ Len(q) = n /\ \A j \in 1 .. n : q[j] = line[j + 2]
    BY <1>0
  <2>2. \A j \in 1 .. n : line[j + 2] = path[j]
    BY DEF IsRequestLine
  <2> HIDE DEF q
  <2>3. \A j \in 1 .. n : q[j] = path[j]
    BY <2>1, <2>2
  <2>4. q = path
    BY <2>1, <2>3
  <2> QED BY <2>4 DEF q
<1>9. /\ space1 - 1 = 1 /\ space2 + 1 = n + 4 /\ space1 + 1 = 3 /\ space2 - 1 = n + 2
      /\ space2 <= Len(line)
  BY <1>0, <1>2, <1>4
<1> QED BY <1>0, <1>5, <1>6, <1>7, <1>8, <1>9

\* The first line of s behind its first p cells has len cells before its CR LF.
IsLine(s, p, len) ==
  /\ len \in Nat /\ p + len + 2 <= Len(s)
  /\ s[p + len + 1] = "CR" /\ s[p + len + 2] = "LF"
  /\ \A j \in 1 .. len : ~ (s[p + j] = "CR" /\ s[p + j + 1] = "LF")

\* len cells of s and of t are the same.
Same(s, p, t, a, len) == \A j \in 1 .. len : s[p + j] = t[a + j]

\* A line of the stream that begins inside a request, before an end of a line of it, is a
\* line of the request.
LEMMA LineOfText ==
  ASSUME NEW s \in Seq(Byte), NEW t \in Seq(Byte), NEW e, Holds(s, e, t),
         NEW a \in Nat, NEW len, IsLine(s, e + a, len), NEW x \in LineEnds(t), a < x
  PROVE  /\ IsLine(t, a, len) /\ a + len + 1 <= x /\ a + len + 1 \in LineEnds(t)
         /\ Same(s, e + a, t, a, len)
<1>0. /\ Len(t) \in Nat /\ e \in Nat /\ len \in Nat /\ x \in 1 .. Len(t) - 1
      /\ t[x] = "CR" /\ t[x + 1] = "LF"
  BY DEF Holds, IsLine, LineEnds
<1>1. \A j \in 1 .. Len(t) : s[e + j] = t[j]
  BY DEF Holds
<1>2. s[e + x] = "CR" /\ s[e + (x + 1)] = "LF"
  BY <1>0, <1>1
<1>3. ~ (x - a \in 1 .. len)
  <2> SUFFICES ASSUME x - a \in 1 .. len PROVE FALSE
    OBVIOUS
  <2>1. ~ (s[e + a + (x - a)] = "CR" /\ s[e + a + (x - a) + 1] = "LF")
    BY DEF IsLine
  <2>2. e + a + (x - a) = e + x /\ e + a + (x - a) + 1 = e + (x + 1)
    BY <1>0
  <2> QED BY <1>2, <2>1, <2>2
<1>4. a + len + 1 <= x
  BY <1>0, <1>3
<1>5. ASSUME NEW j \in 1 .. len + 2 PROVE s[e + a + j] = t[a + j]
  <2>1. a + j \in 1 .. Len(t) /\ e + a + j = e + (a + j)
    BY <1>0, <1>4
  <2> QED BY <1>1, <2>1
<1>6. t[a + len + 1] = "CR" /\ t[a + len + 2] = "LF"
  <2>1. /\ len + 1 \in 1 .. len + 2 /\ len + 2 \in 1 .. len + 2
        /\ e + a + (len + 1) = e + a + len + 1 /\ e + a + (len + 2) = e + a + len + 2
        /\ a + (len + 1) = a + len + 1 /\ a + (len + 2) = a + len + 2
    BY <1>0
  <2>2. s[e + a + len + 1] = "CR" /\ s[e + a + len + 2] = "LF"
    BY DEF IsLine
  <2>3. s[e + a + (len + 1)] = t[a + (len + 1)] /\ s[e + a + (len + 2)] = t[a + (len + 2)]
    BY <1>5, <2>1
  <2> QED BY <2>1, <2>2, <2>3
<1>7. ASSUME NEW j \in 1 .. len PROVE ~ (t[a + j] = "CR" /\ t[a + j + 1] = "LF")
  <2>1. /\ j \in 1 .. len + 2 /\ j + 1 \in 1 .. len + 2
        /\ e + a + (j + 1) = e + a + j + 1 /\ a + (j + 1) = a + j + 1
    BY <1>0
  <2>2. ~ (s[e + a + j] = "CR" /\ s[e + a + j + 1] = "LF")
    BY DEF IsLine
  <2>3. s[e + a + j] = t[a + j] /\ s[e + a + (j + 1)] = t[a + (j + 1)]
    BY <1>5, <2>1
  <2> QED BY <2>1, <2>2, <2>3
<1>8. IsLine(t, a, len)
  <2>1. a + len + 2 <= Len(t)
    BY <1>0, <1>4
  <2> QED BY <1>0, <1>6, <1>7, <2>1 DEF IsLine
<1>9. a + len + 1 \in LineEnds(t)
  <2>1. a + len + 1 \in 1 .. Len(t) - 1 /\ (a + len + 1) + 1 = a + len + 2
    BY <1>0, <1>4
  <2> QED BY <1>6, <2>1 DEF LineEnds
<1>10. \A j \in 1 .. len : j \in 1 .. len + 2
  BY <1>0
<1> QED BY <1>4, <1>5, <1>8, <1>9, <1>10 DEF Same

-----------------------------------------------------------------------------
\* What a well-formed request begins with, cell by cell.
RequestLineOf(t, path) ==
  /\ t[1] = "METHOD" /\ t[2] = "SP"
  /\ \A j \in 1 .. Len(path) : t[j + 2] = path[j] /\ path[j] # "SP" /\ path[j] # "CR"
  /\ t[Len(path) + 3] = "SP" /\ t[Len(path) + 4] = "HTTP/1.x"
  /\ t[Len(path) + 5] = "CR" /\ t[Len(path) + 6] = "LF"

\* What it ends with.
EmptyLineEnds(t) ==
  /\ t[Len(t) - 3] = "CR" /\ t[Len(t) - 2] = "LF"
  /\ t[Len(t) - 1] = "CR" /\ t[Len(t)] = "LF"

\* The cells of three sequences put together.
LEMMA ThreeParts ==
  ASSUME NEW S, NEW h \in Seq(S), NEW p \in Seq(S), NEW z \in Seq(S)
  PROVE  LET A == (h \o p) \o z IN
         /\ \A j \in 1 .. Len(h) : A[j] = h[j]
         /\ \A j \in 1 .. Len(p) : A[Len(h) + j] = p[j]
         /\ \A j \in 1 .. Len(z) : A[Len(h) + Len(p) + j] = z[j]
<1> DEFINE hp == h \o p
            A == hp \o z
<1>1. /\ hp \in Seq(S) /\ Len(hp) = Len(h) + Len(p)
      /\ \A j \in 1 .. Len(h) : hp[j] = h[j]
      /\ \A j \in 1 .. Len(p) : hp[Len(h) + j] = p[j]
  BY ConcatCells
<1> HIDE DEF hp
<1>2. /\ \A j \in 1 .. Len(hp) : A[j] = hp[j]
      /\ \A j \in 1 .. Len(z) : A[Len(hp) + j] = z[j]
  BY <1>1, ConcatCells
<1> HIDE DEF A
<1>3. /\ \A j \in 1 .. Len(h) : j \in 1 .. Len(hp)
      /\ \A j \in 1 .. Len(p) : Len(h) + j \in 1 .. Len(hp)
  BY <1>1
<1>4. /\ \A j \in 1 .. Len(h) : A[j] = h[j]
      /\ \A j \in 1 .. Len(p) : A[Len(h) + j] = p[j]
  BY <1>1, <1>2, <1>3
<1> QED BY <1>1, <1>2, <1>4 DEF A, hp

\* The cells of a request line and the end of it, as a sequence.
LEMMA RequestLineCells ==
  ASSUME NEW path \in Seq(Byte), NEW A,
         A = <<"METHOD", "SP">> \o path \o <<"SP", "HTTP/1.x", "CR", "LF">>
  PROVE  /\ A[1] = "METHOD" /\ A[2] = "SP"
         /\ \A j \in 1 .. Len(path) : A[j + 2] = path[j]
         /\ A[Len(path) + 3] = "SP" /\ A[Len(path) + 4] = "HTTP/1.x"
         /\ A[Len(path) + 5] = "CR" /\ A[Len(path) + 6] = "LF"
<1> DEFINE S == Byte \cup {"METHOD", "SP", "HTTP/1.x", "CR", "LF"}
            h == <<"METHOD", "SP">>
            z == <<"SP", "HTTP/1.x", "CR", "LF">>
            n == Len(path)
<1>1. h \in Seq(S) /\ Len(h) = 2 /\ h[1] = "METHOD" /\ h[2] = "SP"
  OBVIOUS
<1>2. /\ z \in Seq(S) /\ Len(z) = 4
      /\ z[1] = "SP" /\ z[2] = "HTTP/1.x" /\ z[3] = "CR" /\ z[4] = "LF"
  OBVIOUS
<1>3. path \in Seq(S) /\ n \in Nat
  <2>1. \A i \in 1 .. n : path[i] \in S
    OBVIOUS
  <2> QED BY <2>1
<1> HIDE DEF S, h, z, n
<1>4. A = (h \o path) \o z
  BY DEF h, z
<1>5. /\ \A j \in 1 .. Len(h) : A[j] = h[j]
      /\ \A j \in 1 .. n : A[Len(h) + j] = path[j]
      /\ \A j \in 1 .. Len(z) : A[Len(h) + n + j] = z[j]
  BY <1>1, <1>2, <1>3, <1>4, ThreeParts DEF n
<1>6. A[1] = "METHOD" /\ A[2] = "SP"
  BY <1>1, <1>5
<1>7. ASSUME NEW j \in 1 .. n PROVE A[j + 2] = path[j]
  <2>1. Len(h) + j = j + 2
    BY <1>1, <1>3
  <2> QED BY <1>5, <2>1
<1>8. A[n + 3] = "SP" /\ A[n + 4] = "HTTP/1.x" /\ A[n + 5] = "CR" /\ A[n + 6] = "LF"
  <2>1. /\ Len(h) + n + 1 = n + 3 /\ Len(h) + n + 2 = n + 4
        /\ Len(h) + n + 3 = n + 5 /\ Len(h) + n + 4 = n + 6
        /\ 1 \in 1 .. Len(z) /\ 2 \in 1 .. Len(z) /\ 3 \in 1 .. Len(z) /\ 4 \in 1 .. Len(z)
    BY <1>1, <1>2, <1>3
  <2> QED BY <1>2, <1>5, <2>1
<1> QED BY <1>6, <1>7, <1>8 DEF n

\* A well-formed request has them, and they do not overlap.
LEMMA WellFormedCells ==
  ASSUME NEW r, r.text \in Seq(Byte), r.path \in Seq(Byte), WellFormedRequest(r)
  PROVE  /\ RequestLineOf(r.text, r.path) /\ EmptyLineEnds(r.text)
         /\ Len(r.text) >= Len(r.path) + 8
<1> DEFINE t == r.text
            path == r.path
            n == Len(path)
            A == <<"METHOD", "SP">> \o path \o <<"SP", "HTTP/1.x", "CR", "LF">>
<1>0. t \in Seq(Byte) /\ path \in Seq(Byte) /\ n \in Nat /\ Len(t) \in Nat
  OBVIOUS
<1>1. /\ \A j \in 1 .. n : path[j] # "SP" /\ path[j] # "CR"
      /\ Len(t) >= n + 6
      /\ SubSeq(t, 1, n + 6) = A
      /\ Len(t) - 3 \in LineEnds(t) /\ Len(t) - 1 \in LineEnds(t)
  <2>1. /\ \A j \in DOMAIN path : path[j] \notin {"SP", "CR"}
        /\ Len(t) >= n + 6
        /\ SubSeq(t, 1, n + 6) = A
        /\ {Len(t) - 3, Len(t) - 1} \subseteq LineEnds(t)
    BY Zenon DEF WellFormedRequest
  <2>2. DOMAIN path = 1 .. n
    BY <1>0
  <2> HIDE DEF A, t, path, n
  <2> QED BY <2>1, <2>2
<1> HIDE DEF A
<1>2. \A j \in 1 .. n + 6 : A[j] = t[j]
  <2> HIDE DEF t, n
  <2>1. \A j \in 1 .. n + 6 : SubSeq(t, 1, n + 6)[j] = t[j]
    BY <1>0, <1>1
  <2> QED BY <1>1, <2>1
<1>3. /\ A[1] = "METHOD" /\ A[2] = "SP"
      /\ \A j \in 1 .. n : A[j + 2] = path[j]
      /\ A[n + 3] = "SP" /\ A[n + 4] = "HTTP/1.x"
      /\ A[n + 5] = "CR" /\ A[n + 6] = "LF"
  BY <1>0, RequestLineCells DEF A
<1> HIDE DEF t, path, n
<1>4. /\ 1 \in 1 .. n + 6 /\ 2 \in 1 .. n + 6 /\ n + 3 \in 1 .. n + 6 /\ n + 4 \in 1 .. n + 6
      /\ n + 5 \in 1 .. n + 6 /\ n + 6 \in 1 .. n + 6
      /\ \A j \in 1 .. n : j + 2 \in 1 .. n + 6
  BY <1>0
<1>5. RequestLineOf(t, path)
  <2>1. /\ t[1] = "METHOD" /\ t[2] = "SP"
        /\ \A j \in 1 .. n : t[j + 2] = path[j]
        /\ t[n + 3] = "SP" /\ t[n + 4] = "HTTP/1.x"
        /\ t[n + 5] = "CR" /\ t[n + 6] = "LF"
    BY <1>2, <1>3, <1>4
  <2> QED BY <1>1, <2>1 DEF RequestLineOf, n
<1>6. EmptyLineEnds(t) /\ Len(t) - 3 >= 1
  <2>1. (Len(t) - 3) + 1 = Len(t) - 2 /\ (Len(t) - 1) + 1 = Len(t)
    BY <1>0
  <2>2. /\ Len(t) - 3 \in 1 .. Len(t) - 1 /\ t[Len(t) - 3] = "CR" /\ t[(Len(t) - 3) + 1] = "LF"
        /\ t[Len(t) - 1] = "CR" /\ t[(Len(t) - 1) + 1] = "LF"
    BY <1>1 DEF LineEnds
  <2> QED BY <1>0, <2>1, <2>2 DEF EmptyLineEnds
<1>7. \A j \in 1 .. n + 4 : t[j] # "CR"
  <2>1. ASSUME NEW j \in 1 .. n + 4 PROVE t[j] # "CR"
    <3>1. j = 1 \/ j = 2 \/ j = n + 3 \/ j = n + 4 \/ (j - 2 \in 1 .. n /\ (j - 2) + 2 = j)
      BY <1>0
    <3>2. CASE j - 2 \in 1 .. n /\ (j - 2) + 2 = j
      BY <1>5, <3>2 DEF RequestLineOf, n
    <3>3. "METHOD" # "CR" /\ "SP" # "CR" /\ "HTTP/1.x" # "CR"
      OBVIOUS
    <3> QED BY <1>5, <3>1, <3>2, <3>3 DEF RequestLineOf, n
  <2> QED BY <2>1
<1>8. Len(t) >= n + 8
  <2>1. t[Len(t) - 3] = "CR"
    BY <1>6 DEF EmptyLineEnds
  <2>2. ~ (Len(t) - 3 \in 1 .. n + 4)
    BY <1>7, <2>1
  <2> QED BY <1>0, <1>6, <2>2
<1> QED BY <1>5, <1>6, <1>8 DEF t, path, n

\* The first line of a well-formed request is its request line.
LEMMA FirstLineOfRequest ==
  ASSUME NEW t \in Seq(Byte), NEW path \in Seq(Byte), RequestLineOf(t, path),
         NEW len, IsLine(t, 0, len), len + 1 <= Len(path) + 5,
         NEW line \in Seq(Byte), Len(line) = len, \A j \in 1 .. len : line[j] = t[j]
  PROVE  len = Len(path) + 4 /\ IsRequestLine(line, path)
<1> DEFINE n == Len(path)
<1>0. n \in Nat /\ len \in Nat /\ t[len + 1] = "CR"
  <2>1. len \in Nat /\ t[0 + len + 1] = "CR"
    BY DEF IsLine
  <2>2. 0 + len + 1 = len + 1
    BY <2>1
  <2> QED BY <2>1, <2>2
<1>1. /\ t[1] = "METHOD" /\ t[2] = "SP"
      /\ \A j \in 1 .. n : t[j + 2] = path[j] /\ path[j] # "SP" /\ path[j] # "CR"
      /\ t[n + 3] = "SP" /\ t[n + 4] = "HTTP/1.x"
  BY DEF RequestLineOf
<1> HIDE DEF n
<1>2. ASSUME len + 1 <= n + 4 PROVE FALSE
  <2> DEFINE i == len + 1
  <2>1. i = 1 \/ i = 2 \/ i = n + 3 \/ i = n + 4 \/ (i - 2 \in 1 .. n /\ (i - 2) + 2 = i)
    BY <1>0, <1>2
  <2> HIDE DEF i
  <2>2. t[i] = "CR"
    BY <1>0 DEF i
  <2>3. CASE i - 2 \in 1 .. n /\ (i - 2) + 2 = i
    BY <1>1, <2>2, <2>3
  <2>4. "METHOD" # "CR" /\ "SP" # "CR" /\ "HTTP/1.x" # "CR"
    OBVIOUS
  <2> QED BY <1>1, <2>1, <2>2, <2>3, <2>4
<1>3. len = n + 4
  BY <1>0, <1>2 DEF n
<1>4. \A j \in 1 .. n + 4 : line[j] = t[j]
  BY <1>3
<1>5. /\ line[1] = "METHOD" /\ line[2] = "SP"
      /\ line[n + 3] = "SP" /\ line[n + 4] = "HTTP/1.x"
  BY <1>0, <1>1, <1>4
<1>6. ASSUME NEW j \in 1 .. n PROVE line[j + 2] = path[j] /\ path[j] # "SP"
  <2>1. j + 2 \in 1 .. n + 4
    BY <1>0
  <2> QED BY <1>1, <1>4, <2>1
<1> QED BY <1>3, <1>5, <1>6 DEF IsRequestLine, n

\* Where a line other than the first begins: behind the first a cells of t.
LineStart(t, a) == a \in Nat /\ a - 1 \in LineEnds(t) /\ a < Len(t)

\* A header: a name, which has no space and no CR, and a colon.
HeaderAt(t, a) ==
  \E c \in a + 1 .. Len(t) :
    t[c] = ":" /\ \A j \in a + 1 .. c - 1 : t[j] # "SP" /\ t[j] # "CR"

\* A line of a well-formed request other than the first is the empty line that ends it,
\* or a header, with the end of a line before that one.
LEMMA LinesOfRequest ==
  ASSUME NEW r, r.text \in Seq(Byte), r.path \in Seq(Byte), WellFormedRequest(r),
         NEW a, LineStart(r.text, a)
  PROVE  \/ a = Len(r.text) - 2
         \/ a < Len(r.text) - 3 /\ HeaderAt(r.text, a)
<1> DEFINE t == r.text
            m == Len(t)
<1>0. t \in Seq(Byte) /\ m \in Nat
  OBVIOUS
<1>1. EmptyLineEnds(t)
  BY WellFormedCells
<1>2. \A e \in LineEnds(t) : e + 2 < m - 1 =>
        \E c \in e + 2 .. m : t[c] = ":" /\ \A j \in e + 2 .. c - 1 : t[j] \notin {"SP", "CR"}
  BY Zenon DEF WellFormedRequest
<1> HIDE DEF t, m
<1>3. /\ a \in Nat /\ a - 1 \in LineEnds(t) /\ a < m
      /\ t[a - 1] = "CR" /\ a - 1 \in 1 .. m - 1
  BY DEF LineStart, LineEnds, t, m
<1>4. t[a] = "LF"
  <2>1. t[(a - 1) + 1] = "LF" /\ (a - 1) + 1 = a
    BY <1>3 DEF LineEnds
  <2> QED BY <2>1
<1>5. a # m - 1 /\ a # m - 3
  <2>1. t[m - 1] = "CR" /\ t[m - 3] = "CR"
    BY <1>1 DEF EmptyLineEnds, m
  <2>2. "CR" # "LF"
    OBVIOUS
  <2> QED BY <1>4, <2>1, <2>2
<1>6. CASE a < m - 3
  <2>1. (a - 1) + 2 < m - 1 /\ (a - 1) + 2 = a + 1
    BY <1>0, <1>3, <1>6
  <2>2. PICK c \in a + 1 .. m : t[c] = ":" /\ \A j \in a + 1 .. c - 1 : t[j] \notin {"SP", "CR"}
    BY <1>2, <1>3, <2>1
  <2>3. \A j \in a + 1 .. c - 1 : t[j] # "SP" /\ t[j] # "CR"
    BY <2>2
  <2>4. HeaderAt(t, a)
    BY <2>2, <2>3 DEF HeaderAt, m
  <2> QED BY <1>6, <2>4 DEF t, m
<1>7. a = m - 2 \/ a < m - 3
  BY <1>0, <1>3, <1>5
<1> QED BY <1>6, <1>7 DEF t, m

\* line is the first line of t behind its first a cells.
LineOf(line, t, a, len) ==
  /\ len \in Nat /\ IsLine(t, a, len)
  /\ a + len + 1 \in LineEnds(t)
  /\ \A x \in LineEnds(t) : a < x => a + len + 1 <= x
  /\ line \in Seq(Byte) /\ Len(line) = len
  /\ \A j \in 1 .. len : line[j] = t[a + j]

\* Such a line is not a request line; the empty one, and only that, has no colon and is
\* the end of the request; behind a header another line begins.
LEMMA OtherLine ==
  ASSUME NEW r, r.text \in Seq(Byte), r.path \in Seq(Byte), WellFormedRequest(r),
         NEW a, LineStart(r.text, a), NEW len, NEW line,
         LineOf(line, r.text, a, len)
  PROVE  /\ ~ processRequestLine(line).ok
         /\ Find(line, 1, ":") <= Len(line) => LineStart(r.text, a + len + 2)
         /\ Find(line, 1, ":") > Len(line) => a + len + 2 = Len(r.text)
<1> DEFINE t == r.text
            m == Len(t)
            f == Find(line, 1, ":")
<1>0. /\ t \in Seq(Byte) /\ m \in Nat /\ a \in Nat /\ len \in Nat
      /\ line \in Seq(Byte) /\ Len(line) = len
      /\ IsLine(t, a, len) /\ a + len + 1 \in LineEnds(t)
      /\ \A x \in LineEnds(t) : a < x => a + len + 1 <= x
      /\ \A j \in 1 .. len : line[j] = t[a + j]
  BY DEF LineStart, LineOf
<1>1. m - 3 \in LineEnds(t) /\ m - 1 \in LineEnds(t)
  <2>1. {m - 3, m - 1} \subseteq LineEnds(t)
    BY Zenon DEF WellFormedRequest
  <2> QED BY <2>1
<1>2. Finds(line, 1, ":", f)
  <2>1. 1 \in Nat \ {0}
    OBVIOUS
  <2> QED BY <1>0, <2>1, FindIsFirst, Zenon
<1>3. f \in Nat /\ f >= 1
  BY <1>0, <1>2 DEF Finds
<1> HIDE DEF f
<1>4. a = m - 2 \/ (a < m - 3 /\ HeaderAt(t, a))
  BY LinesOfRequest
<1>5. /\ processRequestLine(line).ok \in BOOLEAN
      /\ processRequestLine(line).ok => Len(line) >= 2 /\ line[1] = "METHOD" /\ line[2] = "SP"
  BY <1>0, ParsedLine
<1>6. t[a + len + 1] = "CR"
  BY <1>0 DEF IsLine
<1>7. CASE a = m - 2
  <2>1. a + len + 1 <= m - 1
    BY <1>0, <1>1, <1>7
  <2>2. len = 0
    BY <1>0, <1>7, <2>1
  <2>3. f > Len(line) /\ ~ (f <= Len(line)) /\ ~ (Len(line) >= 2) /\ a + len + 2 = m
    BY <1>0, <1>3, <1>7, <2>2
  <2> QED BY <1>5, <2>3 DEF f, t, m
<1>8. CASE a < m - 3 /\ HeaderAt(t, a)
  <2>1. a + len + 1 <= m - 3
    BY <1>0, <1>1, <1>8
  <2>2. PICK c \in a + 1 .. m :
          t[c] = ":" /\ \A j \in a + 1 .. c - 1 : t[j] # "SP" /\ t[j] # "CR"
    BY <1>8 DEF HeaderAt
  <2> HIDE DEF t, m
  <2>3. c < a + len + 1
    <3>1. t[c] # "CR"
      BY <2>2
    <3>2. ~ (a + len + 1 \in a + 1 .. c - 1)
      BY <1>6, <2>2
    <3>3. c # a + len + 1
      BY <1>6, <3>1
    <3> QED BY <1>0, <3>2, <3>3
  <2>4. c - a \in 1 .. len /\ a + (c - a) = c
    BY <1>0, <2>3
  <2>5. line[c - a] = ":"
    BY <1>0, <2>2, <2>4
  <2>6. f <= c - a
    BY <1>0, <1>2, <2>4, <2>5 DEF Finds
  <2>7. f <= Len(line) /\ ~ (f > Len(line))
    BY <1>0, <1>3, <2>4, <2>6
  <2>8. LineStart(t, a + len + 2)
    <3>1. a + len + 2 \in Nat /\ a + len + 2 < m /\ (a + len + 2) - 1 = a + len + 1
      BY <1>0, <2>1
    <3> QED BY <1>0, <3>1 DEF LineStart, m
  <2>9. ASSUME processRequestLine(line).ok PROVE FALSE
    <3>1. Len(line) >= 2 /\ line[1] = "METHOD" /\ line[2] = "SP"
      BY <1>5, <2>9
    <3>2. 1 \in 1 .. len /\ 2 \in 1 .. len
      BY <1>0, <3>1
    <3>3. t[a + 1] = "METHOD" /\ t[a + 2] = "SP"
      BY <1>0, <3>1, <3>2
    <3>4. ":" # "METHOD" /\ ":" # "SP"
      OBVIOUS
    <3>5. c # a + 1 /\ c # a + 2
      BY <2>2, <3>3, <3>4
    <3>6. a + 2 \in a + 1 .. c - 1
      BY <1>0, <2>2, <3>5
    <3> QED BY <2>2, <3>3, <3>6
  <2> QED BY <2>7, <2>8, <2>9 DEF f, t, m
<1> QED BY <1>4, <1>7, <1>8

-----------------------------------------------------------------------------
(* The lines in the buffer.                                                *)

\* How much of the stream the parser has taken.
Pos == received - readableBytes(inputBuffer)

\* The cells of the vector and of the stream.
LEMMA BufferCells ==
  ASSUME StreamInv
  PROVE  /\ readableBytes(inputBuffer) \in Nat /\ Pos \in Nat /\ received \in Nat
         /\ Pos <= received /\ received <= Len(stream) /\ Len(stream) \in Nat
         /\ Pos + readableBytes(inputBuffer) = received
         /\ inputBuffer.readerIndex \in Nat /\ inputBuffer.writerIndex \in Nat
         /\ inputBuffer.writerIndex = inputBuffer.readerIndex + readableBytes(inputBuffer)
         /\ Readable(inputBuffer) \in Seq(Byte)
         /\ Len(Readable(inputBuffer)) = readableBytes(inputBuffer)
         /\ \A i \in 1 .. readableBytes(inputBuffer) :
              /\ Readable(inputBuffer)[i] = stream[Pos + i]
              /\ inputBuffer.data[inputBuffer.readerIndex + i - 1] = stream[Pos + i]
<1> DEFINE n == readableBytes(inputBuffer)
            R == Readable(inputBuffer)
            b == inputBuffer
<1>1. n \in Nat /\ R \in Seq(Byte) /\ Len(R) = n
  BY ReadableIsSeq DEF StreamInv
<1>2. /\ received \in Nat /\ n <= received /\ received <= Len(stream) /\ Len(stream) \in Nat
  BY DEF StreamInv
<1>3. b.readerIndex \in Nat /\ b.writerIndex \in Nat /\ n = b.writerIndex - b.readerIndex
  BY DEF StreamInv, WellFormed, readableBytes
<1>4. \A i \in 1 .. n : R[i] = stream[Pos + i]
  <2>1. R = Window(stream, received, n)
    BY DEF StreamInv
  <2>2. \A i \in 1 .. n : Window(stream, received, n)[i] = stream[received - n + i]
    BY DEF Window
  <2> QED BY <2>1, <2>2 DEF Pos
<1>5. \A i \in 1 .. n : R[i] = b.data[b.readerIndex + i - 1]
  BY DEF Readable
<1>6. Pos \in Nat /\ Pos <= received /\ Pos + n = received
  BY <1>1, <1>2 DEF Pos
<1>7. b.writerIndex = b.readerIndex + n
  BY <1>3
<1> HIDE DEF n, R, b
<1>8. \A i \in 1 .. n : R[i] = stream[Pos + i] /\ b.data[b.readerIndex + i - 1] = stream[Pos + i]
  BY <1>4, <1>5
<1> QED BY <1>1, <1>2, <1>3, <1>6, <1>7, <1>8 DEF n, R, b

\* findCRLF() finds the end of the first line of what is not parsed yet, and Line() is
\* that line.
LEMMA FoundLine ==
  ASSUME StreamInv, NEW crlf \in findCRLF
  PROVE  LET len == crlf - inputBuffer.readerIndex
         IN  /\ IsLine(stream, Pos, len)
             /\ Pos + len + 2 <= received
             /\ Line(crlf) \in Seq(Byte) /\ Len(Line(crlf)) = len
             /\ \A j \in 1 .. len : Line(crlf)[j] = stream[Pos + j]
<1> DEFINE b == inputBuffer
            n == readableBytes(b)
            ri == b.readerIndex
            R == Readable(b)
            len == crlf - ri
<1>1. /\ n \in Nat /\ Pos \in Nat /\ received \in Nat
      /\ received <= Len(stream) /\ Len(stream) \in Nat
      /\ Pos + n = received
      /\ ri \in Nat /\ b.writerIndex = ri + n
      /\ R \in Seq(Byte) /\ Len(R) = n
      /\ \A i \in 1 .. n : R[i] = stream[Pos + i]
      /\ \A i \in 1 .. n : b.data[ri + i - 1] = stream[Pos + i]
  BY BufferCells
<1>2. /\ crlf \in ri .. (b.writerIndex - 2) /\ b.data[crlf] = "CR" /\ b.data[crlf + 1] = "LF"
      /\ \A j \in ri .. (b.writerIndex - 2) :
           b.data[j] = "CR" /\ b.data[j + 1] = "LF" => crlf <= j
  BY DEF findCRLF, CRLFs
<1> HIDE DEF b, n, ri, R
<1>i. n \in Nat /\ ri \in Nat /\ b.writerIndex = ri + n /\ crlf \in ri .. (b.writerIndex - 2)
  BY <1>1, <1>2, Zenon
<1>3. len \in Nat /\ len + 2 <= n /\ crlf = ri + len
  BY <1>i
<1> HIDE DEF len
<1>4. /\ crlf = ri + (len + 1) - 1 /\ crlf + 1 = ri + (len + 2) - 1
      /\ len + 1 \in 1 .. n /\ len + 2 \in 1 .. n
  BY <1>i, <1>3
<1>5. stream[Pos + (len + 1)] = "CR" /\ stream[Pos + (len + 2)] = "LF"
  BY <1>1, <1>2, <1>4
<1>6. /\ Pos + len + 1 = Pos + (len + 1) /\ Pos + len + 2 = Pos + (len + 2)
      /\ Pos + len + 2 <= received /\ Pos + len + 2 <= Len(stream)
  BY <1>1, <1>3
<1>7. ASSUME NEW j \in 1 .. len, stream[Pos + j] = "CR", stream[Pos + j + 1] = "LF" PROVE FALSE
  <2>1. /\ j \in 1 .. n /\ j + 1 \in 1 .. n /\ ri + (j + 1) - 1 = (ri + j - 1) + 1
        /\ Pos + (j + 1) = Pos + j + 1
        /\ ri + j - 1 \in ri .. (b.writerIndex - 2) /\ ~ (crlf <= ri + j - 1)
    BY <1>1, <1>3
  <2>2. b.data[ri + j - 1] = "CR" /\ b.data[(ri + j - 1) + 1] = "LF"
    BY <1>1, <1>7, <2>1
  <2> QED BY <1>2, <2>1, <2>2
<1>8. IsLine(stream, Pos, len)
  BY <1>3, <1>5, <1>6, <1>7 DEF IsLine
<1>9. Line(crlf) = SubSeq(R, 1, len)
  BY DEF Line, R, len, ri, b
<1>10. SubSeq(R, 1, len) \in Seq(Byte) /\ Len(SubSeq(R, 1, len)) = len
  BY <1>1, <1>3
<1>11. ASSUME NEW j \in 1 .. len PROVE SubSeq(R, 1, len)[j] = stream[Pos + j]
  <2>1. SubSeq(R, 1, len)[j] = R[j] /\ j \in 1 .. n
    BY <1>1, <1>3
  <2> QED BY <1>1, <2>1
<1> QED BY <1>6, <1>8, <1>9, <1>10, <1>11 DEF len, ri, b

\* When it finds none there is no end of a line in what is not parsed yet.
LEMMA NoLineFound ==
  ASSUME StreamInv, findCRLF = {}, NEW x \in Nat, Pos < x, x < received
  PROVE  ~ (stream[x] = "CR" /\ stream[x + 1] = "LF")
<1> DEFINE b == inputBuffer
            n == readableBytes(b)
            ri == b.readerIndex
<1>1. /\ n \in Nat /\ Pos \in Nat /\ received \in Nat /\ Pos + n = received
      /\ ri \in Nat /\ b.writerIndex = ri + n
      /\ \A i \in 1 .. n : b.data[ri + i - 1] = stream[Pos + i]
  BY BufferCells
<1> SUFFICES ASSUME stream[x] = "CR", stream[x + 1] = "LF" PROVE FALSE
  OBVIOUS
<1> DEFINE i == x - Pos
            k == ri + i - 1
<1>2. /\ i \in 1 .. n /\ i + 1 \in 1 .. n /\ Pos + i = x /\ Pos + (i + 1) = x + 1
      /\ k \in Nat /\ k + 1 = ri + (i + 1) - 1 /\ k \in ri .. (b.writerIndex - 2)
  <2> HIDE DEF n, ri, b
  <2> QED BY <1>1
<1> HIDE DEF i
<1>3. b.data[k] = "CR" /\ b.data[k + 1] = "LF"
  <2>1. b.data[ri + i - 1] = stream[Pos + i] /\ b.data[ri + (i + 1) - 1] = stream[Pos + (i + 1)]
    BY <1>1, <1>2
  <2> QED BY <1>2, <2>1
<1> HIDE DEF k
<1>4. k \in CRLFs /\ CRLFs \in SUBSET Nat
  BY <1>1, <1>2, <1>3 DEF CRLFs
<1>5. PICK y \in CRLFs : \A z \in Nat : z < y => z \notin CRLFs
  BY <1>4, LeastElement
<1>6. \A j \in CRLFs : y <= j
  BY <1>4, <1>5
<1>7. y \in findCRLF
  BY <1>6 DEF findCRLF
<1> QED BY <1>7

-----------------------------------------------------------------------------
(* The answers.                                                            *)

\* The request that is to be answered next, and how much of it has been parsed.
Now == Len(answers) + 1
At == Pos - EndsAt(requests, Len(answers))
Whole == received >= EndsAt(requests, Now)

\* How far the parser is in the request r, a cells of which are parsed, c being the
\* context, p the phase of the loop, ct whether a read ended inside a request, and w
\* whether r has been received.
Stands(p, c, a, ct, w, r) ==
  /\ p = "poll" => a = 0 \/ (ct /\ LineStart(r.text, a))
  /\ p = "parse" => ct \/ w
  /\ p = "parse" /\ c.state = "kExpectRequestLine" => a = 0 \/ (ct /\ LineStart(r.text, a))
  /\ p = "parse" /\ c.state = "kExpectHeaders" => LineStart(r.text, a) /\ c.path = r.path
  /\ p = "parsed" /\ c.state # "kGotAll" => ct
  /\ p = "parsed" /\ c.state = "kExpectHeaders" => LineStart(r.text, a)
  /\ p = "parsed" /\ c.state = "kGotAll" => a = Len(r.text) /\ c.path = r.path

\* The stream is the client's requests, one after the other.
ClientInv == requests \in Seq(Request) /\ stream = Upto(requests, Len(requests))

\* The context is typed, and the parser's answer goes with its state.
ContextInv ==
  /\ context \in [state : {"kExpectRequestLine", "kExpectHeaders", "kGotAll"},
                  path : Seq(Byte), ok : BOOLEAN]
  /\ context.ok <=> context.state # "kExpectRequestLine"
  /\ pc = "parse" => context.state # "kGotAll"

\* As long as no read ended inside a request, what was received ends with one.
ReadInv == cut \in BOOLEAN /\ (~ cut => received \in RequestEnds)

\* On a connection that is not shut down, if the requests up to the next one are well
\* formed, the parser stands in the next one.
ParseInv ==
  connState = "kConnected" /\ AllWellFormed(Now) =>
    Stands(pc, context, At, cut, Whole, requests[Now])

\* The answers so far, with the two properties; a refused client is shut down.
AnswerInv ==
  /\ answers \in Seq([status : {200, 400}, path : Seq(Byte)])
  /\ connState \in {"kConnected", "kDisconnecting"}
  /\ \A i \in 1 .. Len(answers) : answers[i].status = 400 => connState = "kDisconnecting"
  /\ AnswersInOrder /\ RefusedForCause

\* The inductive invariant.
HttpInv == StreamInv /\ ClientInv /\ ContextInv /\ ReadInv /\ ParseInv /\ AnswerInv

\* The request to be answered next, when it is well formed, is what the stream holds
\* behind the ones before it.
LEMMA NextRequest ==
  ASSUME HttpInv, AllWellFormed(Now)
  PROVE  /\ Len(answers) \in Nat /\ Now \in 1 .. Len(requests)
         /\ requests[Now].text \in Seq(Byte) /\ requests[Now].path \in Seq(Byte)
         /\ WellFormedRequest(requests[Now])
         /\ EndsAt(requests, Len(answers)) \in Nat
         /\ EndsAt(requests, Now) = EndsAt(requests, Len(answers)) + Len(requests[Now].text)
         /\ Holds(stream, EndsAt(requests, Len(answers)), requests[Now].text)
<1>1. Len(answers) \in Nat /\ requests \in Seq(Request) /\ stream = Upto(requests, Len(requests))
  BY DEF HttpInv, AnswerInv, ClientInv
<1>2. Now \in Nat /\ Now >= 1 /\ Now - 1 = Len(answers) /\ Len(requests) \in Nat
  BY <1>1 DEF Now
<1>3. Now \in 1 .. Len(requests) /\ Now \in 1 .. Now
  BY <1>2 DEF AllWellFormed
<1>4. WellFormedRequest(requests[Now])
  BY <1>3 DEF AllWellFormed
<1> HIDE DEF Now
<1>5. requests[Now].text \in Seq(Byte) /\ requests[Now].path \in Seq(Byte)
  BY <1>1, <1>3, RequestType
<1>6. Now - 1 \in 0 .. Len(requests)
  BY <1>2, <1>3
<1>7. /\ EndsAt(requests, Now - 1) \in Nat
      /\ EndsAt(requests, Now) = EndsAt(requests, Now - 1) + Len(requests[Now].text)
  BY <1>1, <1>3, <1>6, EndsStep
<1>8. Holds(stream, EndsAt(requests, Now - 1), requests[Now].text)
  BY <1>1, <1>3, StreamHolds
<1> QED BY <1>1, <1>2, <1>3, <1>4, <1>5, <1>7, <1>8

\* Where it ends with an empty line: no line begins between the CR and the LF of it.
LEMMA EndOfRequest ==
  ASSUME NEW r, r.text \in Seq(Byte), r.path \in Seq(Byte), WellFormedRequest(r),
         NEW a, a = 0 \/ LineStart(r.text, a)
  PROVE  /\ a \in Nat /\ a < Len(r.text) - 1 /\ Len(r.text) \in Nat /\ Len(r.text) >= 8
         /\ Len(r.text) - 1 \in LineEnds(r.text)
         /\ r.text[Len(r.text) - 1] = "CR" /\ r.text[Len(r.text)] = "LF"
         /\ a = 0 => Len(r.path) + 5 \in LineEnds(r.text)
<1>1. /\ RequestLineOf(r.text, r.path) /\ EmptyLineEnds(r.text)
      /\ Len(r.text) >= Len(r.path) + 8 /\ Len(r.text) \in Nat /\ Len(r.path) \in Nat
  BY WellFormedCells
<1>2. a \in Nat /\ a < Len(r.text) - 1
  <2>1. CASE a = 0
    BY <1>1, <2>1
  <2>2. CASE LineStart(r.text, a)
    <3>1. a = Len(r.text) - 2 \/ a < Len(r.text) - 3
      BY <2>2, LinesOfRequest
    <3>2. a \in Nat
      BY <2>2 DEF LineStart
    <3> QED BY <1>1, <3>1, <3>2
  <2> QED BY <2>1, <2>2
<1>3. {Len(r.text) - 3, Len(r.text) - 1} \subseteq LineEnds(r.text)
  BY Zenon DEF WellFormedRequest
<1>4. Len(r.path) + 5 \in LineEnds(r.text)
  <2>1. Len(r.path) + 5 \in 1 .. Len(r.text) - 1 /\ (Len(r.path) + 5) + 1 = Len(r.path) + 6
    BY <1>1
  <2>2. r.text[Len(r.path) + 5] = "CR" /\ r.text[Len(r.path) + 6] = "LF"
    BY <1>1 DEF RequestLineOf
  <2> QED BY <2>1, <2>2 DEF LineEnds
<1>5. r.text[Len(r.text) - 1] = "CR" /\ r.text[Len(r.text)] = "LF"
  BY <1>1 DEF EmptyLineEnds
<1> QED BY <1>1, <1>2, <1>3, <1>4, <1>5

\* A line that the parser finds when it stands at the beginning of one in a well-formed
\* request is a line of that request.
LEMMA FoundInRequest ==
  ASSUME HttpInv, AllWellFormed(Now), NEW crlf \in findCRLF,
         At = 0 \/ LineStart(requests[Now].text, At)
  PROVE  LET len == crlf - inputBuffer.readerIndex
             t == requests[Now].text
         IN  LineOf(Line(crlf), t, At, len)
<1> DEFINE len == crlf - inputBuffer.readerIndex
            t == requests[Now].text
            e == EndsAt(requests, Len(answers))
            line == Line(crlf)
<1>1. /\ t \in Seq(Byte) /\ requests[Now].path \in Seq(Byte) /\ WellFormedRequest(requests[Now])
      /\ e \in Nat /\ Holds(stream, e, t)
  BY NextRequest
<1>2. At \in Nat /\ At < Len(t) - 1 /\ Len(t) - 1 \in LineEnds(t)
  BY <1>1, EndOfRequest
<1>3. stream \in Seq(Byte) /\ Pos \in Nat
  BY BufferCells DEF HttpInv, StreamInv
<1>4. e + At = Pos
  BY <1>1, <1>3 DEF At
<1>5. /\ IsLine(stream, Pos, len) /\ line \in Seq(Byte) /\ Len(line) = len
      /\ \A j \in 1 .. len : line[j] = stream[Pos + j]
  BY FoundLine DEF HttpInv
<1> HIDE DEF len, t, e, line
<1>6. len \in Nat /\ IsLine(stream, e + At, len)
  BY <1>4, <1>5 DEF IsLine
<1>7. ASSUME NEW x \in LineEnds(t), At < x
      PROVE  /\ IsLine(t, At, len) /\ At + len + 1 <= x /\ At + len + 1 \in LineEnds(t)
             /\ Same(stream, e + At, t, At, len)
  BY <1>1, <1>2, <1>3, <1>6, <1>7, LineOfText, Zenon
<1>8. /\ IsLine(t, At, len) /\ At + len + 1 \in LineEnds(t)
      /\ Same(stream, e + At, t, At, len)
  BY <1>2, <1>7
<1>9. \A j \in 1 .. len : line[j] = t[At + j]
  BY <1>4, <1>5, <1>8 DEF Same
<1>10. LineOf(line, t, At, len)
  BY <1>5, <1>6, <1>7, <1>8, <1>9 DEF LineOf
<1> QED BY <1>10 DEF len, t, line

\* readFd() takes something and parses nothing.
LEMMA ReadMoves ==
  ASSUME StreamInv, HandleRead
  PROVE  Pos' = Pos /\ received' \in Nat /\ received < received'
<1> DEFINE n == readableBytes(inputBuffer)
            t == SubSeq(stream, received + 1, received')
<1>1. n \in Nat /\ writableBytes(inputBuffer) \in Nat /\ Len(stream) \in Nat
  BY ReadableIsSeq DEF StreamInv
<1>2. ReadLimit(inputBuffer) \in Nat /\ ReadLimit(inputBuffer) >= 1
  BY <1>1, BufferAssumption DEF ReadLimit
<1>3. received' \in Nat /\ received < received' /\ received' <= delivered
  BY <1>2 DEF HandleRead, StreamInv
<1>4. received' <= Len(stream) /\ n <= received /\ received <= received'
  BY <1>1, <1>3 DEF StreamInv
<1>5. t \in Seq(Byte) /\ Len(t) = received' - received
  BY <1>1, <1>3, <1>4, WindowGrows DEF StreamInv
<1>6. inputBuffer' = readFd(inputBuffer, t)
  BY DEF HandleRead
<1> HIDE DEF t
<1>7. readableBytes(inputBuffer') = n + (received' - received)
  <2>1. Len(t) <= ReadLimit(inputBuffer)
    BY <1>2, <1>5 DEF HandleRead, StreamInv
  <2> QED BY <1>5, <1>6, <2>1, ReadFdAddsAtEnd DEF StreamInv
<1>8. received' - (n + (received' - received)) = received - n
  BY <1>1, <1>3 DEF StreamInv
<1> QED BY <1>3, <1>7, <1>8 DEF Pos

\* retrieveUntil(crlf + 2) parses the line and its CR LF.
LEMMA RetrieveMoves ==
  ASSUME StreamInv, NEW crlf \in findCRLF, inputBuffer' = RetrieveLine(crlf),
         received' = received
  PROVE  Pos' = Pos + (crlf - inputBuffer.readerIndex) + 2
<1> DEFINE n == readableBytes(inputBuffer)
           len == crlf + 2 - inputBuffer.readerIndex
<1>1. n \in Nat
  BY ReadableIsSeq DEF StreamInv
<1>2. /\ len \in 0 .. n /\ len = (crlf - inputBuffer.readerIndex) + 2
      /\ crlf - inputBuffer.readerIndex \in Nat
  <2>1. /\ inputBuffer.readerIndex \in Nat /\ inputBuffer.writerIndex \in Nat
        /\ n = inputBuffer.writerIndex - inputBuffer.readerIndex
    BY DEF readableBytes, StreamInv, WellFormed
  <2>2. crlf \in inputBuffer.readerIndex .. (inputBuffer.writerIndex - 2)
    BY DEF findCRLF, CRLFs
  <2> HIDE DEF n
  <2> QED BY <2>1, <2>2
<1>3. inputBuffer' = retrieve(inputBuffer, len)
  BY DEF RetrieveLine
<1> HIDE DEF len
<1>4. readableBytes(inputBuffer') = n - len
  BY <1>2, <1>3, RetrieveDropsFront DEF StreamInv
<1>5. received - (n - len) = (received - n) + (crlf - inputBuffer.readerIndex) + 2
  BY <1>1, <1>2 DEF StreamInv
<1> QED BY <1>4, <1>5 DEF Pos

\* Steps that answer nothing leave the request to be answered next alone.
LEMMA SameRequest ==
  ASSUME UNCHANGED <<requests, answers>>
  PROVE  /\ Now' = Now /\ AllWellFormed(Now)' = AllWellFormed(Now)
         /\ requests'[Now'] = requests[Now]
         /\ EndsAt(requests, Now)' = EndsAt(requests, Now)
         /\ EndsAt(requests, Len(answers))' = EndsAt(requests, Len(answers))
         /\ RequestEnds' = RequestEnds
BY DEF Now, AllWellFormed, EndsAt, RequestEnds

\* What has been received ends behind the request to be answered next, if it ends with
\* a request and something of that one has been received.
LEMMA EndsBehind ==
  ASSUME NEW reqs \in Seq(Request), NEW i \in 0 .. Len(reqs), NEW k \in 1 .. Len(reqs),
         EndsAt(reqs, k - 1) < EndsAt(reqs, i)
  PROVE  EndsAt(reqs, k) <= EndsAt(reqs, i)
<1>0. k - 1 \in 0 .. Len(reqs) /\ k \in 0 .. Len(reqs) /\ Len(reqs) \in Nat
  OBVIOUS
<1>1. /\ EndsAt(reqs, k - 1) \in Nat /\ EndsAt(reqs, i) \in Nat /\ EndsAt(reqs, k) \in Nat
  BY <1>0, EndsStep
<1>2. CASE i <= k - 1
  <2>1. k - 1 \in i .. Len(reqs)
    BY <1>0, <1>2
  <2>2. EndsAt(reqs, i) <= EndsAt(reqs, k - 1)
    BY <2>1, UptoBegins DEF Begins
  <2> QED BY <1>1, <2>2
<1>3. CASE k <= i
  <2>1. i \in k .. Len(reqs)
    BY <1>0, <1>3
  <2> QED BY <1>0, <2>1, UptoBegins DEF Begins
<1>4. i <= k - 1 \/ k <= i
  BY <1>0
<1> QED BY <1>2, <1>3, <1>4

\* The parts of the invariant about the answers stay when nothing is answered.
LEMMA NoAnswer ==
  ASSUME HttpInv, UNCHANGED <<requests, answers, connState>>, cut => cut'
  PROVE  AnswerInv'
<1>1. \A i : AllWellFormed(i)' = AllWellFormed(i)
  BY DEF AllWellFormed
<1>2. AnswersInOrder'
  BY <1>1 DEF HttpInv, AnswerInv, AnswersInOrder
<1>3. RefusedForCause'
  BY <1>1 DEF HttpInv, AnswerInv, RefusedForCause
<1> QED BY <1>2, <1>3 DEF HttpInv, AnswerInv

\* A step that leaves the parser where it is.
LEMMA SamePlace ==
  ASSUME HttpInv, UNCHANGED <<requests, answers, received, inputBuffer>>
  PROVE  At' = At /\ Whole' = Whole /\ Pos' = Pos
BY SameRequest DEF At, Whole, Pos

-----------------------------------------------------------------------------

\* Initially nothing of the first request is parsed.
LEMMA InitHttpInv == StreamInv /\ HttpInit => HttpInv
<1> SUFFICES ASSUME StreamInv, HttpInit PROVE HttpInv
  OBVIOUS
<1>1. requests \in Seq(Request) /\ Len(requests) \in Nat
  BY WorkloadAssumption DEF HttpInit
<1>2. ClientInv
  BY <1>1 DEF HttpInit, ClientInv
<1>3. ContextInv
  <2>1. <<>> \in Seq(Byte)
    OBVIOUS
  <2> QED BY <2>1 DEF HttpInit, ContextInv, NewContext
<1>4. EndsAt(requests, 0) = 0
  BY <1>1, EndsStep
<1>5. ReadInv
  <2>1. 0 \in RequestEnds
    BY <1>1, <1>4 DEF RequestEnds, EndsAt
  <2> QED BY <2>1 DEF HttpInit, ReadInv
<1>6. answers = <<>> /\ Len(answers) = 0
  BY DEF HttpInit
<1>7. ParseInv
  <2>1. readableBytes(inputBuffer) = 0
    BY BufferAssumption DEF HttpInit, NewBuffer, readableBytes
  <2>2. At = 0
    BY <1>4, <1>6, <2>1 DEF HttpInit, At, Pos
  <2>3. pc = "poll" /\ pc # "parse" /\ pc # "parsed"
    BY DEF HttpInit
  <2> QED BY <2>2, <2>3 DEF ParseInv, Stands
<1>8. AnswerInv
  <2>1. answers \in Seq([status : {200, 400}, path : Seq(Byte)]) /\ 1 .. Len(answers) = {}
    BY <1>6
  <2> QED BY <1>6, <2>1 DEF HttpInit, AnswerInv, AnswersInOrder, RefusedForCause
<1> QED BY <1>2, <1>3, <1>5, <1>7, <1>8 DEF HttpInv

\* What the invariant is besides StreamInv.
Kept == ClientInv /\ ContextInv /\ ReadInv /\ ParseInv /\ AnswerInv

\* handleRead(): if no read ended inside a request the next request is there as a whole.
LEMMA HandleReadKeeps == HttpInv /\ HandleRead => Kept'
<1> SUFFICES ASSUME HttpInv, HandleRead PROVE Kept'
  OBVIOUS
<1>1. /\ UNCHANGED <<requests, stream, answers, connState>>
      /\ pc = "poll" /\ pc' = "parse" /\ context' = NewContext
      /\ cut' = (cut \/ received' \notin RequestEnds)
  BY DEF HandleRead, clientVars, connVars
<1>2. cut \in BOOLEAN /\ cut' \in BOOLEAN /\ (cut => cut')
  BY <1>1 DEF HttpInv, ReadInv
<1>3. ClientInv'
  BY <1>1 DEF HttpInv, ClientInv
<1>4. ContextInv'
  <2>1. <<>> \in Seq(Byte)
    OBVIOUS
  <2> QED BY <1>1, <2>1 DEF ContextInv, NewContext
<1>5. RequestEnds' = RequestEnds
  BY <1>1, SameRequest
<1>6. ReadInv'
  BY <1>1, <1>2, <1>5 DEF ReadInv
<1>7. AnswerInv'
  BY <1>1, <1>2, NoAnswer
<1>8. Pos' = Pos /\ received' \in Nat /\ received < received'
  BY ReadMoves DEF HttpInv
<1>9. ASSUME connState' = "kConnected", AllWellFormed(Now)'
      PROVE  Stands(pc', context', At', cut', Whole', requests'[Now'])
  <2>1. AllWellFormed(Now) /\ connState = "kConnected"
    BY <1>1, <1>9, SameRequest
  <2>2. /\ requests'[Now'] = requests[Now] /\ At' = At
        /\ EndsAt(requests, Now)' = EndsAt(requests, Now)
    BY <1>1, <1>8, SameRequest DEF At
  <2>3. At = 0 \/ (cut /\ LineStart(requests[Now].text, At))
    BY <1>1, <2>1 DEF HttpInv, ParseInv, Stands
  <2>4. cut' \/ Whole'
    <3> SUFFICES ASSUME ~ cut' PROVE Whole'
      OBVIOUS
    <3>1. At = 0 /\ received' \in RequestEnds
      BY <1>1, <1>2, <2>3
    <3>2. PICK i \in 0 .. Len(requests) : received' = EndsAt(requests, i)
      BY <3>1 DEF RequestEnds, EndsAt
    <3>3. /\ Len(answers) \in Nat /\ Now \in 1 .. Len(requests)
          /\ EndsAt(requests, Len(answers)) \in Nat
      BY <2>1, NextRequest
    <3>4. Now - 1 = Len(answers)
      BY <3>3 DEF Now
    <3>5. Pos \in Nat /\ Pos <= received /\ received \in Nat
      BY BufferCells DEF HttpInv
    <3>6. EndsAt(requests, Len(answers)) < received'
      BY <1>8, <3>1, <3>3, <3>5 DEF At
    <3>7. requests \in Seq(Request)
      BY DEF HttpInv, ClientInv
    <3>8. EndsAt(requests, Now) <= EndsAt(requests, i)
      BY <3>2, <3>3, <3>4, <3>6, <3>7, EndsBehind
    <3>9. EndsAt(requests, Now) \in Nat
      BY <3>3, <3>7, EndsStep
    <3> QED BY <1>8, <2>2, <3>2, <3>8, <3>9 DEF Whole
  <2>5. context'.state = "kExpectRequestLine"
    BY <1>1 DEF NewContext
  <2>6. At' = 0 \/ (cut' /\ LineStart(requests'[Now'].text, At'))
    BY <1>2, <2>2, <2>3
  <2>7. pc' = "parse" /\ pc' # "poll" /\ pc' # "parsed" /\ context'.state # "kExpectHeaders"
    BY <1>1, <2>5
  <2> QED BY <2>4, <2>5, <2>6, <2>7 DEF Stands
<1>10. ParseInv'
  BY <1>9 DEF ParseInv
<1> QED BY <1>3, <1>4, <1>6, <1>7, <1>10 DEF Kept

\* parseRequest() in state kExpectRequestLine: the first line of a well-formed request is
\* its request line, another one is not, and then a read ended inside a request.
LEMMA ParseRequestLineKeeps == HttpInv /\ ParseRequestLine => Kept'
<1> SUFFICES ASSUME HttpInv, ParseRequestLine PROVE Kept'
  OBVIOUS
<1>1. /\ UNCHANGED <<requests, stream, answers, connState, received, cut>>
      /\ pc = "parse" /\ context.state = "kExpectRequestLine"
  BY DEF ParseRequestLine, clientVars, connVars
<1>2. PICK crlf \in findCRLF :
        LET parsed == processRequestLine(Line(crlf))
        IN IF parsed.ok
           THEN /\ context' = [state |-> "kExpectHeaders", path |-> parsed.path, ok |-> TRUE]
                /\ inputBuffer' = RetrieveLine(crlf)
                /\ pc' = pc
           ELSE /\ pc' = "parsed"
                /\ UNCHANGED <<context, inputBuffer>>
  BY DEF ParseRequestLine
<1> DEFINE parsed == processRequestLine(Line(crlf))
            len == crlf - inputBuffer.readerIndex
<1>4. parsed.ok \in BOOLEAN /\ (parsed.ok => parsed.path \in Seq(Byte))
  <2>1. Line(crlf) \in Seq(Byte)
    BY FoundLine DEF HttpInv
  <2> QED BY <2>1, ParsedLine
<1> HIDE DEF parsed
<1>5. /\ parsed.ok => /\ context' = [state |-> "kExpectHeaders", path |-> parsed.path, ok |-> TRUE]
                      /\ inputBuffer' = RetrieveLine(crlf) /\ pc' = "parse"
      /\ ~ parsed.ok => pc' = "parsed" /\ UNCHANGED <<context, inputBuffer>>
  BY <1>1, <1>2 DEF parsed
<1>6. ClientInv' /\ ReadInv' /\ AnswerInv'
  <2>1. RequestEnds' = RequestEnds
    BY <1>1, SameRequest
  <2> QED BY <1>1, <2>1, NoAnswer DEF HttpInv, ClientInv, ReadInv
<1>7. ContextInv'
  <2>1. CASE parsed.ok
    <3>0. /\ context' = [state |-> "kExpectHeaders", path |-> parsed.path, ok |-> TRUE]
          /\ parsed.path \in Seq(Byte)
      BY <1>4, <1>5, <2>1, Zenon
    <3>1. /\ context'.ok = TRUE /\ context'.state = "kExpectHeaders"
          /\ context' \in [state : {"kExpectRequestLine", "kExpectHeaders", "kGotAll"},
                           path : Seq(Byte), ok : BOOLEAN]
      BY <3>0
    <3> QED BY <3>1 DEF ContextInv
  <2>2. CASE ~ parsed.ok
    BY <1>5, <2>2 DEF HttpInv, ContextInv
  <2> QED BY <2>1, <2>2
<1>8. ASSUME connState' = "kConnected", AllWellFormed(Now)'
      PROVE  Stands(pc', context', At', cut', Whole', requests'[Now'])
  <2>1. AllWellFormed(Now) /\ connState = "kConnected"
    BY <1>1, <1>8, SameRequest
  <2> DEFINE r == requests[Now]
  <2>2. /\ requests'[Now'] = r /\ Whole' = Whole
        /\ EndsAt(requests, Len(answers))' = EndsAt(requests, Len(answers))
    BY <1>1, SameRequest DEF Whole
  <2>3. (cut \/ Whole) /\ (At = 0 \/ (cut /\ LineStart(r.text, At)))
    BY <1>1, <2>1 DEF HttpInv, ParseInv, Stands
  <2>4. /\ r.text \in Seq(Byte) /\ r.path \in Seq(Byte) /\ WellFormedRequest(r)
        /\ EndsAt(requests, Len(answers)) \in Nat
    BY <2>1, NextRequest
  <2> HIDE DEF r
  <2>0. LineOf(Line(crlf), r.text, At, len)
    BY <2>1, <2>3, FoundInRequest DEF r
  <2>5. /\ len \in Nat /\ IsLine(r.text, At, len)
        /\ At + len + 1 \in LineEnds(r.text)
        /\ \A x \in LineEnds(r.text) : At < x => At + len + 1 <= x
        /\ Line(crlf) \in Seq(Byte) /\ Len(Line(crlf)) = len
        /\ \A j \in 1 .. len : Line(crlf)[j] = r.text[At + j]
    BY <2>0 DEF LineOf
  <2> HIDE DEF len
  <2>6. CASE At = 0
    <3>1. Len(r.path) + 5 \in LineEnds(r.text) /\ Len(r.text) \in Nat /\ Len(r.path) \in Nat
      BY <2>4, <2>6, EndOfRequest
    <3>2. At + len + 1 <= Len(r.path) + 5
      BY <2>5, <2>6, <3>1
    <3>3. len + 1 <= Len(r.path) + 5 /\ IsLine(r.text, 0, len)
      BY <2>5, <2>6, <3>2
    <3>4. \A j \in 1 .. len : Line(crlf)[j] = r.text[j]
      BY <2>5, <2>6
    <3>5. RequestLineOf(r.text, r.path) /\ Len(r.text) >= Len(r.path) + 8
      BY <2>4, WellFormedCells
    <3>6. len = Len(r.path) + 4 /\ IsRequestLine(Line(crlf), r.path)
      BY <2>4, <2>5, <3>3, <3>4, <3>5, FirstLineOfRequest, Zenon
    <3>7. parsed.ok /\ parsed.path = r.path
      BY <2>4, <2>5, <3>6, RequestLineParses DEF parsed
    <3>8. Pos' = Pos + len + 2
      BY <1>1, <1>5, <3>7, RetrieveMoves DEF len, HttpInv
    <3>9. Pos \in Nat
      BY BufferCells DEF HttpInv
    <3>10. At' = len + 2
      BY <2>2, <2>4, <2>5, <2>6, <3>8, <3>9 DEF At
    <3>11. LineStart(r.text, len + 2)
      <4>1. len + 2 \in Nat /\ (len + 2) - 1 = At + len + 1 /\ len + 2 < Len(r.text)
        BY <2>5, <2>6, <3>1, <3>5, <3>6
      <4> QED BY <2>5, <4>1 DEF LineStart
    <3>12. /\ pc' = "parse" /\ context'.state = "kExpectHeaders" /\ context'.path = r.path
           /\ cut' = cut
      BY <1>1, <1>5, <3>7
    <3>13. "parse" # "poll" /\ "parse" # "parsed" /\ "kExpectHeaders" # "kExpectRequestLine"
      OBVIOUS
    <3> QED BY <2>2, <2>3, <3>10, <3>11, <3>12, <3>13 DEF Stands
  <2>7. CASE cut /\ LineStart(r.text, At)
    <3>1. ~ parsed.ok
      BY <2>0, <2>4, <2>7, OtherLine, Zenon DEF parsed
    <3>2. pc' = "parsed" /\ context'.state = "kExpectRequestLine" /\ cut'
      BY <1>1, <1>5, <2>7, <3>1
    <3>3. /\ "parsed" # "poll" /\ "parse" # "parsed"
          /\ "kExpectHeaders" # "kExpectRequestLine" /\ "kGotAll" # "kExpectRequestLine"
      OBVIOUS
    <3> QED BY <3>2, <3>3 DEF Stands
  <2> QED BY <2>3, <2>6, <2>7
<1>9. ParseInv'
  BY <1>8 DEF ParseInv
<1> QED BY <1>6, <1>7, <1>9 DEF Kept

\* The same in state kExpectHeaders: only the empty line of a well-formed request ends it.
LEMMA ParseHeaderKeeps == HttpInv /\ ParseHeader => Kept'
<1> SUFFICES ASSUME HttpInv, ParseHeader PROVE Kept'
  OBVIOUS
<1>1. /\ UNCHANGED <<requests, stream, answers, connState, received, cut>>
      /\ pc = "parse" /\ context.state = "kExpectHeaders"
  BY DEF ParseHeader, clientVars, connVars
<1>2. PICK crlf \in findCRLF :
        /\ IF Find(Line(crlf), 1, ":") <= Len(Line(crlf))
           THEN UNCHANGED <<pc, context>>
           ELSE pc' = "parsed" /\ context' = [context EXCEPT !.state = "kGotAll"]
        /\ inputBuffer' = RetrieveLine(crlf)
  BY DEF ParseHeader
<1> DEFINE line == Line(crlf)
            colon == Find(line, 1, ":")
            len == crlf - inputBuffer.readerIndex
<1>3. colon \in Nat /\ Len(line) \in Nat
  <2>1. line \in Seq(Byte)
    BY FoundLine DEF HttpInv
  <2>2. Finds(line, 1, ":", colon)
    BY <2>1, FindIsFirst
  <2> HIDE DEF line, colon
  <2> QED BY <2>1, <2>2 DEF Finds
<1>4. /\ colon <= Len(line) => pc' = pc /\ context' = context
      /\ colon > Len(line) => pc' = "parsed" /\ context' = [context EXCEPT !.state = "kGotAll"]
  <2> HIDE DEF colon
  <2>1. colon > Len(line) => ~ (colon <= Len(line))
    BY <1>3
  <2> QED BY <1>2, <2>1 DEF colon
<1> HIDE DEF colon, line
<1>5. ClientInv' /\ ReadInv' /\ AnswerInv'
  <2>1. RequestEnds' = RequestEnds
    BY <1>1, SameRequest
  <2> QED BY <1>1, <2>1, NoAnswer DEF HttpInv, ClientInv, ReadInv
<1>6. context \in [state : {"kExpectRequestLine", "kExpectHeaders", "kGotAll"},
                   path : Seq(Byte), ok : BOOLEAN] /\ context.ok
  BY <1>1 DEF HttpInv, ContextInv
<1>7. ContextInv'
  <2>1. CASE colon <= Len(line)
    BY <1>4, <2>1 DEF HttpInv, ContextInv
  <2>2. CASE colon > Len(line)
    <3>1. /\ context' \in [state : {"kExpectRequestLine", "kExpectHeaders", "kGotAll"},
                           path : Seq(Byte), ok : BOOLEAN]
          /\ context'.state = "kGotAll" /\ context'.ok = context.ok /\ pc' = "parsed"
      BY <1>4, <1>6, <2>2
    <3> QED BY <1>6, <3>1 DEF ContextInv
  <2> QED BY <1>3, <2>1, <2>2
<1>8. ASSUME connState' = "kConnected", AllWellFormed(Now)'
      PROVE  Stands(pc', context', At', cut', Whole', requests'[Now'])
  <2>1. AllWellFormed(Now) /\ connState = "kConnected"
    BY <1>1, <1>8, SameRequest
  <2> DEFINE r == requests[Now]
  <2>2. /\ requests'[Now'] = r /\ Whole' = Whole
        /\ EndsAt(requests, Len(answers))' = EndsAt(requests, Len(answers))
    BY <1>1, SameRequest DEF Whole
  <2>3. (cut \/ Whole) /\ LineStart(r.text, At) /\ context.path = r.path
    BY <1>1, <2>1 DEF HttpInv, ParseInv, Stands
  <2>4. /\ r.text \in Seq(Byte) /\ r.path \in Seq(Byte) /\ WellFormedRequest(r)
        /\ EndsAt(requests, Len(answers)) \in Nat
    BY <2>1, NextRequest
  <2> HIDE DEF r
  <2>5. LineOf(line, r.text, At, len)
    BY <2>1, <2>3, FoundInRequest DEF r, line
  <2>6. Pos' = Pos + len + 2
    BY <1>1, <1>2, RetrieveMoves DEF HttpInv
  <2> HIDE DEF len
  <2>7. Pos \in Nat /\ len \in Nat
    BY <2>5, BufferCells DEF HttpInv, LineOf
  <2>8. At' = At + len + 2
    BY <2>2, <2>4, <2>6, <2>7 DEF At
  <2>9. /\ colon <= Len(line) => LineStart(r.text, At + len + 2)
        /\ colon > Len(line) => At + len + 2 = Len(r.text)
    BY <2>3, <2>4, <2>5, OtherLine, Zenon DEF colon
  <2>10. CASE colon <= Len(line)
    <3>1. /\ pc' = "parse" /\ context'.state = "kExpectHeaders" /\ context'.path = r.path
          /\ cut' = cut
      BY <1>1, <1>4, <2>3, <2>10
    <3>2. "parse" # "poll" /\ "parse" # "parsed" /\ "kExpectHeaders" # "kExpectRequestLine"
      OBVIOUS
    <3>3. LineStart(r.text, At')
      BY <2>8, <2>9, <2>10
    <3> QED BY <2>2, <2>3, <3>1, <3>2, <3>3 DEF Stands
  <2>11. CASE colon > Len(line)
    <3>1. /\ pc' = "parsed" /\ context'.state = "kGotAll" /\ context'.path = r.path
      BY <1>4, <1>6, <2>3, <2>11
    <3>2. "parsed" # "poll" /\ "parse" # "parsed" /\ "kGotAll" # "kExpectHeaders"
      OBVIOUS
    <3>3. At' = Len(r.text)
      BY <2>8, <2>9, <2>11
    <3> QED BY <2>2, <3>1, <3>2, <3>3 DEF Stands
  <2> QED BY <1>3, <2>10, <2>11
<1>9. ParseInv'
  BY <1>8 DEF ParseInv
<1> QED BY <1>5, <1>7, <1>9 DEF Kept

\* No whole line is left only if a read ended inside a request: a request that has been
\* received as a whole has the empty line that ends it.
LEMMA ParseRunsDryKeeps == HttpInv /\ ParseRunsDry => Kept'
<1> SUFFICES ASSUME HttpInv, ParseRunsDry PROVE Kept'
  OBVIOUS
<1>1. /\ UNCHANGED <<requests, stream, answers, connState, received, inputBuffer, cut, context>>
      /\ pc = "parse" /\ pc' = "parsed" /\ findCRLF = {}
  BY DEF ParseRunsDry, clientVars, connVars, bufferVars
<1>2. ClientInv' /\ ReadInv' /\ AnswerInv'
  <2>1. RequestEnds' = RequestEnds
    BY <1>1, SameRequest
  <2> QED BY <1>1, <2>1, NoAnswer DEF HttpInv, ClientInv, ReadInv
<1>3. ContextInv'
  BY <1>1 DEF HttpInv, ContextInv
<1>4. context.state = "kExpectRequestLine" \/ context.state = "kExpectHeaders"
  BY <1>1 DEF HttpInv, ContextInv
<1>5. ASSUME connState' = "kConnected", AllWellFormed(Now)'
      PROVE  Stands(pc', context', At', cut', Whole', requests'[Now'])
  <2>1. AllWellFormed(Now) /\ connState = "kConnected"
    BY <1>1, <1>5, SameRequest
  <2> DEFINE r == requests[Now]
              e == EndsAt(requests, Len(answers))
  <2>2. requests'[Now'] = r /\ At' = At
    BY <1>1, SameRequest, SamePlace
  <2>3. /\ cut \/ Whole
        /\ At = 0 \/ LineStart(r.text, At)
        /\ context.state = "kExpectHeaders" => LineStart(r.text, At)
    BY <1>1, <1>4, <2>1 DEF HttpInv, ParseInv, Stands
  <2>4. /\ r.text \in Seq(Byte) /\ r.path \in Seq(Byte) /\ WellFormedRequest(r)
        /\ e \in Nat /\ EndsAt(requests, Now) = e + Len(r.text) /\ Holds(stream, e, r.text)
    BY <2>1, NextRequest
  <2> HIDE DEF r
  <2>5. cut
    <3> SUFFICES ASSUME ~ cut PROVE FALSE
      OBVIOUS
    <3> DEFINE m == Len(r.text)
                x == e + (m - 1)
    <3>1. /\ At \in Nat /\ At < m - 1 /\ m \in Nat /\ m >= 8
          /\ r.text[m - 1] = "CR" /\ r.text[m] = "LF"
      BY <2>3, <2>4, EndOfRequest
    <3>2. Pos \in Nat /\ received \in Nat
      BY BufferCells DEF HttpInv
    <3>3. received >= e + m
      BY <2>3, <2>4 DEF Whole
    <3> HIDE DEF m, e
    <3>4. At = Pos - e
      BY DEF At, e
    <3>5. x \in Nat /\ Pos < x /\ x < received /\ x + 1 = e + m /\ m - 1 \in 1 .. m /\ m \in 1 .. m
      BY <2>4, <3>1, <3>2, <3>3, <3>4
    <3>6. stream[x] = "CR" /\ stream[x + 1] = "LF"
      <4>1. stream[e + (m - 1)] = r.text[m - 1] /\ stream[e + m] = r.text[m]
        BY <2>4, <3>5 DEF Holds, m
      <4> QED BY <3>1, <3>5, <4>1
    <3> HIDE DEF x
    <3> QED BY <1>1, <3>5, <3>6, NoLineFound DEF HttpInv
  <2>6. "parsed" # "poll" /\ "parsed" # "parse" /\ context'.state # "kGotAll"
    BY <1>1, <1>4
  <2> QED BY <1>1, <2>2, <2>3, <2>5, <2>6 DEF Stands
<1>6. ParseInv'
  BY <1>5 DEF ParseInv
<1> QED BY <1>2, <1>3, <1>6 DEF Kept

\* The headers were not complete: the rest of the request begins with one of its lines.
LEMMA NeedsMoreKeeps == HttpInv /\ NeedsMore => Kept'
<1> SUFFICES ASSUME HttpInv, NeedsMore PROVE Kept'
  OBVIOUS
<1>1. /\ UNCHANGED <<requests, stream, answers, connState, received, inputBuffer, cut, context>>
      /\ pc = "parsed" /\ pc' = "poll" /\ context.ok /\ context.state # "kGotAll"
  BY DEF NeedsMore, clientVars, connVars, bufferVars
<1>2. ClientInv' /\ ReadInv' /\ AnswerInv'
  <2>1. RequestEnds' = RequestEnds
    BY <1>1, SameRequest
  <2> QED BY <1>1, <2>1, NoAnswer DEF HttpInv, ClientInv, ReadInv
<1>3. ContextInv' /\ context.state = "kExpectHeaders"
  BY <1>1 DEF HttpInv, ContextInv
<1>4. ASSUME connState' = "kConnected", AllWellFormed(Now)'
      PROVE  Stands(pc', context', At', cut', Whole', requests'[Now'])
  <2>1. AllWellFormed(Now) /\ connState = "kConnected"
    BY <1>1, <1>4, SameRequest
  <2>2. requests'[Now'] = requests[Now] /\ At' = At
    BY <1>1, SameRequest, SamePlace
  <2>3. cut /\ LineStart(requests[Now].text, At)
    BY <1>1, <1>3, <2>1 DEF HttpInv, ParseInv, Stands
  <2>4. "poll" # "parse" /\ "poll" # "parsed"
    OBVIOUS
  <2> QED BY <1>1, <2>2, <2>3, <2>4 DEF Stands
<1>5. ParseInv'
  BY <1>4 DEF ParseInv
<1> QED BY <1>2, <1>3, <1>5 DEF Kept

\* Deliver and stuttering change nothing that the invariant is about.
LEMMA OthersKeep == HttpInv /\ (Deliver \/ UNCHANGED httpVars) => Kept'
<1> SUFFICES ASSUME HttpInv, Deliver \/ UNCHANGED httpVars PROVE Kept'
  OBVIOUS
<1>1. UNCHANGED <<requests, stream, answers, connState, received, inputBuffer, cut, context, pc>>
  BY DEF Deliver, httpVars, clientVars, connVars, bufferVars
<1>2. ClientInv' /\ ReadInv' /\ AnswerInv'
  <2>1. RequestEnds' = RequestEnds
    BY <1>1, SameRequest
  <2> QED BY <1>1, <2>1, NoAnswer DEF HttpInv, ClientInv, ReadInv
<1>3. ContextInv'
  BY <1>1 DEF HttpInv, ContextInv
<1>4. /\ requests'[Now'] = requests[Now] /\ At' = At /\ Whole' = Whole
      /\ AllWellFormed(Now)' = AllWellFormed(Now)
  BY <1>1, SameRequest, SamePlace
<1>5. ParseInv'
  BY <1>1, <1>4 DEF HttpInv, ParseInv
<1> QED BY <1>2, <1>3, <1>5 DEF Kept

\* One more answer, to the request that is next: a 200 with what it asked for, or a 400
\* with a cause, and then the connection is shut down.
LEMMA OneMoreAnswer ==
  ASSUME HttpInv, connState = "kConnected", UNCHANGED <<requests, cut>>,
         NEW a \in [status : {200, 400}, path : Seq(Byte)],
         answers' = Append(answers, a),
         connState' \in {"kConnected", "kDisconnecting"},
         a.status = 400 => connState' = "kDisconnecting",
         a.status = 200 /\ AllWellFormed(Now) => a.path = requests[Now].path,
         a.status = 400 /\ AllWellFormed(Now) => cut
  PROVE  AnswerInv' /\ Len(answers') = Now
<1>1. answers \in Seq([status : {200, 400}, path : Seq(Byte)]) /\ Len(answers) \in Nat
  BY DEF HttpInv, AnswerInv
<1>2. /\ answers' \in Seq([status : {200, 400}, path : Seq(Byte)])
      /\ Len(answers') = Now /\ Now \in Nat /\ answers'[Now] = a
      /\ \A i \in 1 .. Len(answers) : answers'[i] = answers[i]
      /\ \A i \in 1 .. Now : i = Now \/ i \in 1 .. Len(answers)
  BY <1>1 DEF Now
<1>3. \A i : AllWellFormed(i)' = AllWellFormed(i)
  BY DEF AllWellFormed
<1>4. \A i \in 1 .. Len(answers) : answers[i].status # 400
  BY DEF HttpInv, AnswerInv
<1> HIDE DEF Now
<1>5. AnswersInOrder'
  <2> SUFFICES ASSUME NEW i \in 1 .. Now, AllWellFormed(i), answers'[i].status = 200
               PROVE  answers'[i].path = requests[i].path
    BY <1>2, <1>3 DEF AnswersInOrder
  <2>1. CASE i = Now
    BY <1>2, <2>1
  <2>2. CASE i \in 1 .. Len(answers)
    <3>1. answers'[i] = answers[i]
      BY <1>2, <2>2
    <3> QED BY <2>2, <3>1 DEF HttpInv, AnswerInv, AnswersInOrder
  <2> QED BY <1>2, <2>1, <2>2
<1>6. RefusedForCause'
  <2> SUFFICES ASSUME NEW i \in 1 .. Now, answers'[i].status = 400
               PROVE  i = Now /\ (AllWellFormed(i) => cut)
    BY <1>2, <1>3 DEF RefusedForCause
  <2>1. i = Now
    <3>1. i \in 1 .. Len(answers) => answers'[i] = answers[i] /\ answers[i].status # 400
      BY <1>2, <1>4
    <3> QED BY <1>2, <3>1
  <2> QED BY <1>2, <2>1
<1>7. ASSUME NEW i \in 1 .. Len(answers'), answers'[i].status = 400
      PROVE  connState' = "kDisconnecting"
  BY <1>2, <1>4, <1>7
<1> QED BY <1>2, <1>5, <1>6, <1>7 DEF AnswerInv

\* Behind an answered request the next one begins.
LEMMA NextBegins ==
  ASSUME HttpInv, UNCHANGED <<requests, received, inputBuffer>>, Len(answers') = Now,
         AllWellFormed(Now)', At = Len(requests[Now].text), AllWellFormed(Now)
  PROVE  At' = 0
<1>1. /\ EndsAt(requests, Len(answers)) \in Nat /\ requests[Now].text \in Seq(Byte)
      /\ EndsAt(requests, Now) = EndsAt(requests, Len(answers)) + Len(requests[Now].text)
  BY NextRequest
<1>2. Pos \in Nat /\ Len(requests[Now].text) \in Nat
  BY <1>1, BufferCells DEF HttpInv
<1>3. Pos = EndsAt(requests, Now)
  BY <1>1, <1>2 DEF At
<1>4. Pos' = Pos
  BY DEF Pos
<1>5. EndsAt(requests, Len(answers))' = EndsAt(requests, Now)
  BY DEF EndsAt
<1> QED BY <1>2, <1>3, <1>4, <1>5 DEF At

\* onMessage() refuses: the first line was not there or was no request line.
LEMMA BadRequestKeeps == HttpInv /\ BadRequest => Kept'
<1> SUFFICES ASSUME HttpInv, BadRequest PROVE Kept'
  OBVIOUS
<1> DEFINE a == [status |-> 400, path |-> <<>>]
<1>1. /\ UNCHANGED <<requests, stream, received, inputBuffer, cut, context>>
      /\ pc = "parsed" /\ pc' = "poll" /\ ~ context.ok
      /\ answers' = (IF connState = "kConnected" THEN Append(answers, a) ELSE answers)
      /\ connState' = "kDisconnecting"
  BY DEF BadRequest, clientVars, bufferVars, Send, Shutdown
<1>2. ClientInv' /\ ReadInv'
  <2>1. RequestEnds' = RequestEnds
    BY <1>1 DEF RequestEnds
  <2> QED BY <1>1, <2>1 DEF HttpInv, ClientInv, ReadInv
<1>3. ContextInv' /\ context.state # "kGotAll"
  BY <1>1 DEF HttpInv, ContextInv
<1>4. ParseInv'
  BY <1>1 DEF ParseInv
<1>5. AnswerInv'
  <2>1. CASE connState = "kConnected"
    <3>1. a \in [status : {200, 400}, path : Seq(Byte)] /\ a.status = 400
      <4>1. <<>> \in Seq(Byte)
        OBVIOUS
      <4> QED BY <4>1
    <3>2. AllWellFormed(Now) => cut
      BY <1>1, <1>3, <2>1 DEF HttpInv, ParseInv, Stands
    <3>3. answers' = Append(answers, a)
      BY <1>1, <2>1
    <3> HIDE DEF a
    <3>4. /\ connState' \in {"kConnected", "kDisconnecting"}
          /\ a.status = 400 => connState' = "kDisconnecting"
          /\ a.status = 200 /\ AllWellFormed(Now) => a.path = requests[Now].path
          /\ a.status = 400 /\ AllWellFormed(Now) => cut
      BY <1>1, <3>1, <3>2
    <3> QED BY <1>1, <2>1, <3>1, <3>3, <3>4, OneMoreAnswer
  <2>2. CASE connState # "kConnected"
    <3>1. UNCHANGED <<requests, answers, connState>> /\ (cut => cut')
      BY <1>1, <2>2 DEF HttpInv, AnswerInv
    <3> QED BY <3>1, NoAnswer
  <2> QED BY <2>1, <2>2
<1> QED BY <1>2, <1>3, <1>4, <1>5 DEF Kept

\* onRequest() answers what the present request asked for, all of which is parsed.
LEMMA OnRequestKeeps == HttpInv /\ OnRequest => Kept'
<1> SUFFICES ASSUME HttpInv, OnRequest PROVE Kept'
  OBVIOUS
<1> DEFINE a == [status |-> 200, path |-> context.path]
<1>1. /\ UNCHANGED <<requests, stream, received, inputBuffer, cut>>
      /\ pc = "parsed" /\ pc' = "poll" /\ context.state = "kGotAll" /\ context' = NewContext
      /\ answers' = (IF connState = "kConnected" THEN Append(answers, a) ELSE answers)
      /\ connState' = "kDisconnecting" \/ connState' = connState
  BY DEF OnRequest, clientVars, bufferVars, Send, Shutdown
<1>2. ClientInv' /\ ReadInv'
  <2>1. RequestEnds' = RequestEnds
    BY <1>1 DEF RequestEnds
  <2> QED BY <1>1, <2>1 DEF HttpInv, ClientInv, ReadInv
<1>3. ContextInv'
  <2>1. <<>> \in Seq(Byte)
    OBVIOUS
  <2> QED BY <1>1, <2>1 DEF ContextInv, NewContext
<1>4. CASE connState = "kConnected"
  <2>1. AllWellFormed(Now) => context.path = requests[Now].path /\ At = Len(requests[Now].text)
    BY <1>1, <1>4 DEF HttpInv, ParseInv, Stands
  <2>2. a \in [status : {200, 400}, path : Seq(Byte)] /\ a.status = 200 /\ a.path = context.path
    BY DEF HttpInv, ContextInv
  <2>3. answers' = Append(answers, a)
    BY <1>1, <1>4
  <2> HIDE DEF a
  <2>4. /\ connState' \in {"kConnected", "kDisconnecting"}
        /\ a.status = 400 => connState' = "kDisconnecting"
        /\ a.status = 200 /\ AllWellFormed(Now) => a.path = requests[Now].path
        /\ a.status = 400 /\ AllWellFormed(Now) => cut
    BY <1>1, <1>4, <2>1, <2>2
  <2>5. AnswerInv' /\ Len(answers') = Now
    BY <1>1, <1>4, <2>2, <2>3, <2>4, OneMoreAnswer
  <2>6. ASSUME connState' = "kConnected", AllWellFormed(Now)'
        PROVE  Stands(pc', context', At', cut', Whole', requests'[Now'])
    <3>1. Now \in Nat /\ Now' = Now + 1 /\ Len(requests) \in Nat
      BY <2>5 DEF Now, HttpInv, AnswerInv, ClientInv
    <3>2. AllWellFormed(Now)
      <4>1. Now' <= Len(requests) /\ \A j \in 1 .. Now' : WellFormedRequest(requests[j])
        BY <1>1, <2>6 DEF AllWellFormed
      <4>2. Now <= Len(requests) /\ \A j \in 1 .. Now : j \in 1 .. Now'
        BY <3>1, <4>1
      <4> QED BY <4>1, <4>2 DEF AllWellFormed
    <3>3. At' = 0
      BY <1>1, <2>1, <2>5, <2>6, <3>2, NextBegins
    <3>4. "poll" # "parse" /\ "poll" # "parsed"
      OBVIOUS
    <3> QED BY <1>1, <3>3, <3>4 DEF Stands
  <2>7. ParseInv'
    BY <2>6 DEF ParseInv
  <2> QED BY <1>2, <1>3, <2>5, <2>7 DEF Kept
<1>5. CASE connState # "kConnected"
  <2>1. UNCHANGED <<requests, answers, connState>> /\ (cut => cut') /\ connState' # "kConnected"
    BY <1>1, <1>5 DEF HttpInv, AnswerInv
  <2>2. AnswerInv' /\ ParseInv'
    BY <2>1, NoAnswer DEF ParseInv
  <2> QED BY <1>2, <1>3, <2>2 DEF Kept
<1> QED BY <1>4, <1>5

\* The invariant is inductive.
LEMMA NextHttpInv == HttpInv /\ [HttpNext]_httpVars => HttpInv'
<1> SUFFICES ASSUME HttpInv, [HttpNext]_httpVars PROVE HttpInv'
  OBVIOUS
<1>1. StreamInv'
  BY NextStream DEF HttpInv
<1>2. Kept'
  BY HandleReadKeeps, ParseRequestLineKeeps, ParseHeaderKeeps, ParseRunsDryKeeps,
     BadRequestKeeps, OnRequestKeeps, NeedsMoreKeeps, OthersKeep DEF HttpNext, LoopStep
<1> QED BY <1>1, <1>2 DEF HttpInv, Kept

\* Every state of a connection satisfies the invariant.
THEOREM HttpInvariant == HttpSpec => []HttpInv
BY InitStream, InitHttpInv, NextHttpInv, PTL DEF HttpSpec

\* Answers come in the order of the requests, for every client, every cut of its
\* stream and every size of the buffers: an answer that is not a refusal is the one to
\* the request of the same number, as long as the requests are well formed.
THEOREM AnswersAlwaysInOrder == HttpSpec => []AnswersInOrder
<1>1. HttpInv => AnswersInOrder
  BY DEF HttpInv, AnswerInv
<1> QED BY <1>1, HttpInvariant, PTL

\* onMessage() refuses nobody who sends well-formed requests and whose reads end with
\* a request, and it answers nothing after a refusal.
THEOREM RefusedOnlyForCause == HttpSpec => []RefusedForCause
<1>1. HttpInv => RefusedForCause
  BY DEF HttpInv, AnswerInv
<1> QED BY <1>1, HttpInvariant, PTL

-----------------------------------------------------------------------------
(* TcpServer with its EventLoopThreadPool.                                 *)

\* The phases of the owner in which the pool is destroyed, the phases of a thread in
\* which loop_ is set, and those in which its loop has been left.
Ending == {"destroy", "quit", "quitting", "join", "done"}
Published == {"published", "looping", "exited"}
Left == {"exited", "cleared", "ended"}

\* The destructor of the pool has called quit() on the loop.
Down(i) == opc \in Ending /\ (i < cur \/ (i = cur /\ opc \in {"quitting", "join"}))

ThreadTypes ==
  /\ tpc \in [Ids -> {"none", "begin", "create", "published", "looping", "exited",
                         "cleared", "ended"}]
  /\ selfQuit \subseteq Ids
  /\ opc \in {"start", "tid", "test", "wait", "run"} \cup Ending
  /\ cur \in 1 .. numThreads + 1
  /\ loops \in Seq(Ids) /\ next \in Nat

FlagTypes == loopPtr \in [Ids -> BOOLEAN] /\ quit \in [Ids -> BOOLEAN]

\* Once ~TcpServer has begun the base loop runs no functor any more.
ServerTypes ==
  /\ backlog \in Seq(Clients)
  /\ ioLoop \in [Clients -> Ids \cup {Base}]
  /\ connections \subseteq Clients
  /\ opc \notin Ending =>
       pending \in [Ids \cup {Base} ->
                      Seq({"established", "destroyed", "remove"} \X Clients)]

OwnerInv ==
  /\ opc \in {"tid", "test", "wait", "quit", "quitting", "join"} => cur \in Ids
  /\ next = 0 \/ next < Len(loops)

\* loop_ says where the thread is, and no loop that the owner has gone past, or is
\* about to use, is not there yet.
StartInv ==
  \A i \in Ids :
    /\ loopPtr[i] <=> tpc[i] \in Published
    /\ i < cur \/ opc \in Ending \cup {"run"} => tpc[i] \notin {"none", "begin", "create"}

\* Only the destructor of the pool ends a loop, as long as none ended itself.
QuitInv ==
  selfQuit = {} => \A i \in Ids : quit[i] \/ tpc[i] \in Left => Down(i)

ServerInv ==
  /\ ThreadTypes /\ FlagTypes /\ ServerTypes
  /\ OwnerInv /\ StartInv /\ QuitInv
  /\ LoopsAreThere

LEMMA ServerInit == Init => ServerInv
<1>. SUFFICES ASSUME Init
              PROVE  ServerInv
  OBVIOUS
<1>. USE DEF Init, PoolInit
<1>1. ThreadTypes
  BY ThreadsAssumption DEF ThreadTypes
<1>2. FlagTypes
  BY DEF FlagTypes
<1>3. ServerTypes
  BY DEF ServerTypes
<1>4. OwnerInv
  BY DEF OwnerInv
<1>5. StartInv
  BY DEF StartInv, Published, Ending, Ids
<1>6. QuitInv
  BY DEF QuitInv, Left
<1>7. LoopsAreThere
  BY DEF LoopsAreThere
<1>. QED  BY <1>1, <1>2, <1>3, <1>4, <1>5, <1>6, <1>7 DEF ServerInv

\* The steps of a thread on its own: one of the threads moves on.
LEMMA ThreadKeepsInv ==
  ASSUME ServerInv, fault = "none", NEW i \in Ids,
         ThreadMoves(i)
  PROVE  ServerInv'
<1>. USE DEF ServerInv
<1>1. /\ UNCHANGED <<Ids, Base, selfQuit, cur, loops, next, fault, backlog, ioLoop,
                     connections>>
      /\ \/ opc' = opc
         \/ opc \in {"tid", "wait"} /\ opc' = "test" /\ cur = i
  BY DEF ThreadMoves, PostTid, PublishLoop, EnterLoop, ExitLoop, ClearLoop,
     LoopDestroyed, ThreadEnds, serverVars, poolVars, Ids, Base
<1>2. \E to \in {"create", "published", "looping", "exited", "cleared", "ended"} :
         /\ tpc' = [tpc EXCEPT ![i] = to]
         /\ to = "exited" => quit[i]
         /\ to \in {"cleared", "ended"} => tpc[i] \in Left
         /\ tpc[i] \notin {"none", "begin", "create"} => to \notin {"create", "published"}
         /\ to = "create" => tpc[i] = "begin"
  BY DEF ThreadMoves, PostTid, PublishLoop, EnterLoop, ExitLoop, ClearLoop,
     LoopDestroyed, ThreadEnds, ThreadGoes, Left
<1>3. ThreadTypes'
  BY <1>1, <1>2 DEF ThreadTypes
<1>4. FlagTypes'
  BY <1>1 DEF FlagTypes, ThreadMoves, PostTid, PublishLoop, EnterLoop,
     ExitLoop, ClearLoop, LoopDestroyed, ThreadEnds
<1>5. ServerTypes'
  <2>1. pending' = pending \/ pending' = [pending EXCEPT ![i] = <<>>]
    BY DEF ThreadMoves, LoopDestroyed, serverVars
  <2>2. opc' \notin Ending => opc \notin Ending
    BY <1>1 DEF Ending
  <2>. DEFINE Functors == Seq({"established", "destroyed", "remove"} \X Clients)
  <2>3. ASSUME opc' \notin Ending
        PROVE  pending' \in [Ids \cup {Base} -> Functors]
    <3>1. pending \in [Ids \cup {Base} -> Functors] /\ <<>> \in Functors
      BY <2>2, <2>3 DEF ServerTypes
    <3>. HIDE DEF Functors
    <3>. QED  BY <2>1, <3>1
  <2>. QED  BY <1>1, <2>3 DEF ServerTypes
<1>6. OwnerInv'
  BY <1>1 DEF OwnerInv
<1>7. StartInv'
  <2>1. PICK to : /\ tpc' = [tpc EXCEPT ![i] = to]
                  /\ tpc[i] \notin {"none", "begin", "create"} => to \notin {"create", "published"}
                  /\ to \in {"create", "published", "looping", "exited", "cleared", "ended"}
                  /\ to = "create" => tpc[i] = "begin"
    BY <1>2
  <2>2. \A j \in Ids : j # i => tpc'[j] = tpc[j]
    BY <2>1 DEF ThreadTypes
  <2>3. tpc'[i] = to
    BY <2>1 DEF ThreadTypes
  <2>4. ASSUME NEW j \in Ids
        PROVE  loopPtr'[j] <=> tpc'[j] \in Published
    <3>. USE DEF StartInv, FlagTypes, ThreadTypes, ThreadGoes, Published
    <3>1. CASE PostTid(i)
      BY <3>1 DEF PostTid
    <3>2. CASE PublishLoop(i)
      BY <3>2 DEF PublishLoop
    <3>3. CASE EnterLoop(i)
      BY <3>3 DEF EnterLoop
    <3>4. CASE ExitLoop(i)
      BY <3>4 DEF ExitLoop
    <3>5. CASE ClearLoop(i)
      BY <3>5 DEF ClearLoop
    <3>6. CASE ThreadEnds(i)
      BY <3>6 DEF ThreadEnds
    <3>. QED
      BY <3>1, <3>2, <3>3, <3>4, <3>5, <3>6 DEF ThreadMoves, LoopDestroyed
  <2>5. opc' \in Ending \cup {"run"} => opc \in Ending \cup {"run"}
    BY <1>1 DEF Ending
  <2>6. ASSUME NEW j \in Ids, j < cur \/ opc' \in Ending \cup {"run"}
        PROVE  tpc'[j] \notin {"none", "begin", "create"}
    <3>1. tpc[j] \notin {"none", "begin", "create"}
      BY <2>5, <2>6 DEF StartInv
    <3>. QED  BY <2>1, <2>2, <2>3, <3>1
  <2>. QED  BY <1>1, <2>4, <2>6 DEF StartInv
<1>8. QuitInv'
  <2>. SUFFICES ASSUME selfQuit = {}, NEW j \in Ids, quit'[j] \/ tpc'[j] \in Left
                PROVE  Down(j)'
    BY <1>1 DEF QuitInv
  <2>1. quit'[j] => quit[j]
    BY DEF FlagTypes, ThreadMoves, PostTid, PublishLoop, EnterLoop, ExitLoop,
       ClearLoop, LoopDestroyed, ThreadEnds
  <2>2. tpc'[j] \in Left => tpc[j] \in Left \/ quit[j]
    BY <1>2 DEF ThreadTypes, Left
  <2>3. Down(j)
    BY <2>1, <2>2 DEF QuitInv
  <2>. QED  BY <1>1, <2>3 DEF Down, Ending
<1>9. LoopsAreThere'
  BY <1>1 DEF LoopsAreThere
<1>. QED  BY <1>3, <1>4, <1>5, <1>6, <1>7, <1>8, <1>9

LEMMA SelfQuitKeepsInv ==
  ASSUME ServerInv, fault = "none", NEW i \in Ids, SelfQuit(i), UNCHANGED serverVars
  PROVE  ServerInv'
<1>. USE DEF ServerInv
<1>1. /\ UNCHANGED <<Ids, Base, tpc, loopPtr, opc, cur, loops, next, fault, backlog,
                     ioLoop, connections, pending>>
      /\ selfQuit' = selfQuit \cup {i}
  BY DEF SelfQuit, serverVars, poolVars, Ids, Base
<1>2. quit' = [quit EXCEPT ![i] = TRUE]
  BY DEF SelfQuit
<1>3. ThreadTypes' /\ ServerTypes' /\ OwnerInv' /\ QuitInv'
  BY <1>1 DEF ThreadTypes, ServerTypes, OwnerInv, QuitInv
<1>4. FlagTypes'
  BY <1>1, <1>2 DEF FlagTypes
<1>5. StartInv'
  BY <1>1 DEF StartInv
<1>6. LoopsAreThere'
  BY <1>1 DEF LoopsAreThere
<1>. QED  BY <1>3, <1>4, <1>5, <1>6

\* The loop that the destructor is about to quit() has not been left.
LEMMA LoopIsUp ==
  ASSUME ServerInv, selfQuit = {}, opc \in {"destroy", "quit"}, cur \in Ids
  PROVE  loopPtr[cur]
<1>1. ~Down(cur) /\ cur \in Nat
  BY DEF ServerInv, ThreadTypes, Down
<1>2. tpc[cur] \notin Left
  BY <1>1 DEF ServerInv, QuitInv
<1>3. tpc[cur] \in Published
  BY <1>2 DEF ServerInv, StartInv, ThreadTypes, Published, Left, Ending
<1>. QED  BY <1>3 DEF ServerInv, StartInv

\* The owner, in start() and in the destructors.
LEMMA OwnerKeepsInv ==
  ASSUME ServerInv, fault = "none", OwnerMoves
  PROVE  ServerInv'
<1>. USE DEF ServerInv
<1>1. /\ UNCHANGED <<Ids, Base, selfQuit, next, backlog, ioLoop, connections, pending,
                     loopPtr>>
  BY DEF OwnerMoves, OwnerStep, StartThread, WaitForLoop, LoopStarted,
     AllStarted, TestLoopPtr, QuitLoop, QuitReadsThread, Join, Destroyed, threadVars,
     serverVars, poolVars, Ids, Base
<1>2. CASE StartThread
  <2>1. /\ UNCHANGED <<quit, cur, loops, fault>>
        /\ opc = "start" /\ opc' = "tid" /\ cur \in Ids
        /\ tpc' = [tpc EXCEPT ![cur] = "begin"] /\ tpc[cur] = "none"
    BY <1>2 DEF StartThread, ThreadGoes, poolVars
  <2>2. ThreadTypes'
    BY <1>1, <2>1 DEF ThreadTypes
  <2>3. FlagTypes' /\ OwnerInv' /\ LoopsAreThere'
    BY <1>1, <2>1 DEF FlagTypes, OwnerInv, LoopsAreThere
  <2>4. ServerTypes'
    BY <1>1, <2>1 DEF ServerTypes, Ending
  <2>5. StartInv'
    BY <1>1, <2>1 DEF StartInv, ThreadTypes, Published, Ending, Ids
  <2>6. QuitInv'
    BY <1>1, <2>1 DEF QuitInv, ThreadTypes, Down, Left, Ending
  <2>. QED  BY <2>2, <2>3, <2>4, <2>5, <2>6
<1>3. CASE WaitForLoop
  <2>1. /\ UNCHANGED <<tpc, quit, cur, loops, fault>>
        /\ opc = "test" /\ opc' = "wait"
    BY <1>3 DEF WaitForLoop, threadVars, poolVars
  <2>2. ThreadTypes' /\ FlagTypes' /\ OwnerInv' /\ LoopsAreThere'
    BY <1>1, <2>1 DEF ThreadTypes, FlagTypes, OwnerInv, LoopsAreThere
  <2>3. ServerTypes' /\ StartInv' /\ QuitInv'
    BY <1>1, <2>1 DEF ServerTypes, StartInv, QuitInv, Down, Ending
  <2>. QED  BY <2>2, <2>3
<1>4. CASE LoopStarted
  <2>1. /\ UNCHANGED <<tpc, quit, fault>>
        /\ opc = "test" /\ opc' = "start" /\ cur' = cur + 1
        /\ loops' = Append(loops, cur) /\ cur \in Ids
    BY <1>4 DEF LoopStarted, threadVars, OwnerInv
  <2>2. tpc[cur] \in Published
    BY <1>4, <2>1 DEF LoopStarted, StartInv
  <2>3. ThreadTypes' /\ OwnerInv'
    BY ThreadsAssumption, <1>1, <2>1 DEF ThreadTypes, OwnerInv, Ids
  <2>4. FlagTypes' /\ LoopsAreThere'
    BY <1>1, <2>1 DEF FlagTypes, LoopsAreThere
  <2>5. ServerTypes'
    BY <1>1, <2>1 DEF ServerTypes, Ending
  <2>6. StartInv'
    BY <1>1, <2>1, <2>2 DEF StartInv, ThreadTypes, Published, Ending, Ids
  <2>7. QuitInv'
    BY <1>1, <2>1 DEF QuitInv, Down, Ending
  <2>. QED  BY <2>3, <2>4, <2>5, <2>6, <2>7
<1>5. CASE AllStarted
  <2>1. /\ UNCHANGED <<tpc, quit, cur, loops, fault>>
        /\ opc = "start" /\ opc' = "run" /\ cur \notin Ids
    BY <1>5 DEF AllStarted, threadVars, poolVars
  <2>2. ThreadTypes' /\ FlagTypes' /\ OwnerInv' /\ LoopsAreThere'
    BY <1>1, <2>1 DEF ThreadTypes, FlagTypes, OwnerInv, LoopsAreThere
  <2>3. ServerTypes'
    BY <1>1, <2>1 DEF ServerTypes, Ending
  <2>4. \A i \in Ids : i < cur
    BY ThreadsAssumption, <2>1 DEF ThreadTypes, Ids
  <2>5. StartInv' /\ QuitInv'
    BY <1>1, <2>1, <2>4 DEF StartInv, QuitInv, Down, Ending
  <2>. QED  BY <2>2, <2>3, <2>5
<1>6. CASE TestLoopPtr
  <2>1. /\ UNCHANGED <<tpc, quit, loops>>
        /\ opc = "destroy" /\ cur \in Ids
        /\ \/ loopPtr[cur] /\ opc' = "quit" /\ UNCHANGED <<cur, fault>>
           \/ ~loopPtr[cur] /\ opc' = opc /\ cur' = cur + 1
    BY <1>6 DEF TestLoopPtr, threadVars, poolVars
  <2>2. selfQuit = {} => loopPtr[cur]
    BY <2>1, LoopIsUp
  <2>3. ThreadTypes'
    BY ThreadsAssumption, <1>1, <2>1 DEF ThreadTypes, Ids, Ending
  <2>4. FlagTypes' /\ OwnerInv'
    BY <1>1, <2>1 DEF FlagTypes, OwnerInv
  <2>5. ServerTypes' /\ StartInv'
    BY <1>1, <2>1 DEF ServerTypes, StartInv, Ending
  <2>6. QuitInv'
    BY <1>1, <2>1, <2>2 DEF QuitInv, Down, Ending
  <2>7. LoopsAreThere'
    BY <1>1, <2>1, <2>2 DEF LoopsAreThere
  <2>. QED  BY <2>3, <2>4, <2>5, <2>6, <2>7
<1>7. CASE QuitLoop
  <2>1. /\ UNCHANGED <<tpc, cur, loops>>
        /\ opc = "quit" /\ cur \in Ids
        /\ \/ opc' = "quitting" /\ fault' = fault /\ quit' = [quit EXCEPT ![cur] = TRUE]
           \/ ~loopPtr[cur] /\ UNCHANGED <<opc, quit>>
    BY <1>7 DEF QuitLoop, poolVars, OwnerInv
  <2>2. selfQuit = {} => loopPtr[cur]
    BY <2>1, LoopIsUp
  <2>3. ThreadTypes' /\ OwnerInv'
    BY <1>1, <2>1 DEF ThreadTypes, OwnerInv, Ending
  <2>4. FlagTypes'
    BY <1>1, <2>1 DEF FlagTypes
  <2>5. ServerTypes' /\ StartInv'
    BY <1>1, <2>1 DEF ServerTypes, StartInv, Ending
  <2>6. QuitInv'
    <3>. SUFFICES ASSUME selfQuit = {}, NEW i \in Ids, quit'[i] \/ tpc[i] \in Left
                  PROVE  Down(i)'
      BY <1>1, <2>1 DEF QuitInv
    <3>1. opc' = "quitting" /\ quit' = [quit EXCEPT ![cur] = TRUE]
      BY <2>1, <2>2
    <3>2. CASE i = cur
      BY <2>1, <3>1, <3>2 DEF Down, Ending
    <3>3. CASE i # cur
      <4>1. Down(i)
        BY <3>1, <3>3 DEF QuitInv, FlagTypes
      <4>. QED  BY <2>1, <3>1, <4>1 DEF Down, Ending
    <3>. QED  BY <3>2, <3>3
  <2>7. LoopsAreThere'
    BY <1>1, <2>1, <2>2 DEF LoopsAreThere
  <2>. QED  BY <2>3, <2>4, <2>5, <2>6, <2>7
<1>8. CASE Join \/ Destroyed
  <2>1. /\ UNCHANGED <<tpc, quit, loops, fault>>
        /\ \/ opc = "join" /\ opc' = "destroy" /\ cur' = cur + 1 /\ cur \in Ids
           \/ opc = "destroy" /\ opc' = "done" /\ cur' = cur
    BY <1>8 DEF Join, Destroyed, threadVars, poolVars, OwnerInv
  <2>2. ThreadTypes'
    BY ThreadsAssumption, <1>1, <2>1 DEF ThreadTypes, Ids, Ending
  <2>3. FlagTypes' /\ OwnerInv' /\ LoopsAreThere'
    BY <1>1, <2>1 DEF FlagTypes, OwnerInv, LoopsAreThere
  <2>4. ServerTypes' /\ StartInv'
    BY <1>1, <2>1 DEF ServerTypes, StartInv, Ending
  <2>5. QuitInv'
    BY <1>1, <2>1 DEF QuitInv, Down, Ending, ThreadTypes, Ids
  <2>. QED  BY <2>2, <2>3, <2>4, <2>5
<1>9. CASE QuitReadsThread
  <2>1. /\ UNCHANGED <<tpc, quit, cur, loops>>
        /\ opc = "quitting" /\ cur \in Ids
        /\ \/ opc' = "join" /\ fault' = fault
           \/ opc' = opc /\ fault' = "late"
    BY <1>9 DEF QuitReadsThread, threadVars, poolVars, OwnerInv
  <2>2. ThreadTypes' /\ OwnerInv'
    BY <1>1, <2>1 DEF ThreadTypes, OwnerInv, Ending
  <2>3. FlagTypes' /\ LoopsAreThere'
    BY <1>1, <2>1 DEF FlagTypes, LoopsAreThere
  <2>4. ServerTypes' /\ StartInv'
    BY <1>1, <2>1 DEF ServerTypes, StartInv, Ending
  <2>5. QuitInv'
    BY <1>1, <2>1 DEF QuitInv, Down, Ending
  <2>. QED  BY <2>2, <2>3, <2>4, <2>5
<1>. QED  BY <1>2, <1>3, <1>4, <1>5, <1>6, <1>7, <1>8, <1>9 DEF OwnerMoves, OwnerStep

\* While the server runs every loop exists, unless one ended itself.
LEMMA LoopsAreUp ==
  ASSUME ServerInv, selfQuit = {}, opc = "run", NEW i \in Ids \cup {Base}
  PROVE  LoopAlive(i)
<1>1. CASE i = Base
  BY <1>1 DEF LoopAlive
<1>2. CASE i \in Ids
  <2>1. tpc[i] \notin Left
    BY <1>2 DEF ServerInv, QuitInv, Down, Ending
  <2>. QED  BY <1>2, <2>1 DEF ServerInv, StartInv, ThreadTypes, Left, Ending, LoopAlive
<1>. QED  BY <1>1, <1>2

\* What the server does with its connections leaves the threads alone.
LEMMA ServerKeepsInv ==
  ASSUME ServerInv, fault = "none",
         \/ listen \/ handleRead \/ removeConnectionInLoop \/ Destructor
         \/ \E c \in Clients : Connect(c) \/ handleClose(c)
         \/ \E i \in Ids : Serve(i)
  PROVE  ServerInv'
<1>. USE DEF ServerInv
<1>1. UNCHANGED <<Ids, Base, tpc, loopPtr, quit, selfQuit, loops>>
  BY DEF listen, handleRead, newConnection, getNextLoop, removeConnectionInLoop,
     Destructor, BeginDestroy, Connect, handleClose, Serve, RunEstablished,
     RunDestroyed, Run, threadPoolVars, threadVars, poolVars, Ids, Base
<1>2. FlagTypes'
  BY <1>1 DEF FlagTypes
<1>. DEFINE Functors == Seq({"established", "destroyed", "remove"} \X Clients)
<1>3. ServerTypes <=>
        /\ backlog \in Seq(Clients)
        /\ ioLoop \in [Clients -> Ids \cup {Base}]
        /\ connections \subseteq Clients
        /\ opc \notin Ending => pending \in [Ids \cup {Base} -> Functors]
  BY DEF ServerTypes
<1>4. ServerTypes' <=>
        /\ backlog' \in Seq(Clients)
        /\ ioLoop' \in [Clients -> Ids \cup {Base}]
        /\ connections' \subseteq Clients
        /\ opc' \notin Ending => pending' \in [Ids \cup {Base} -> Functors]
  BY <1>1 DEF ServerTypes
<1>5. /\ \A q \in Functors : q # <<>> => /\ Tail(q) \in Functors
                                         /\ Head(q)[2] \in Clients
      /\ \A q \in Functors, c \in Clients :
           \A call \in {"established", "destroyed", "remove"} :
             Append(q, <<call, c>>) \in Functors
  OBVIOUS
<1>. HIDE DEF Functors
<1>6. CASE listen \/ \E c \in Clients : Connect(c)
  <2>1. /\ UNCHANGED <<opc, cur, next, fault, ioLoop, connections, pending>>
        /\ backlog' = backlog \/ \E c \in Clients : backlog' = Append(backlog, c)
    BY <1>6 DEF listen, Connect, threadPoolVars, poolVars
  <2>2. ThreadTypes' /\ OwnerInv' /\ StartInv' /\ QuitInv' /\ LoopsAreThere'
    BY <1>1, <2>1 DEF ThreadTypes, OwnerInv, StartInv, QuitInv, Down, LoopsAreThere
  <2>3. ServerTypes'
    BY <1>3, <1>4, <2>1
  <2>. QED  BY <1>2, <2>2, <2>3
<1>7. CASE (\E c \in Clients : handleClose(c)) \/ \E i \in Ids : Serve(i)
  <2>1. /\ UNCHANGED <<opc, cur, next, fault, ioLoop, connections, backlog>>
        /\ \/ \E i \in Ids : pending[i] # <<>> /\ pending' = [pending EXCEPT ![i] = Tail(@)]
           \/ \E c \in Clients :
                pending' = [pending EXCEPT ![Base] = Append(@, <<"remove", c>>)]
    BY <1>7 DEF handleClose, Serve, RunEstablished, RunDestroyed, Run,
       threadPoolVars, poolVars
  <2>2. ThreadTypes' /\ OwnerInv' /\ StartInv' /\ QuitInv' /\ LoopsAreThere'
    BY <1>1, <2>1 DEF ThreadTypes, OwnerInv, StartInv, QuitInv, Down, LoopsAreThere
  <2>3. opc \notin Ending => pending' \in [Ids \cup {Base} -> Functors]
    <3>. SUFFICES ASSUME opc \notin Ending
                  PROVE  pending' \in [Ids \cup {Base} -> Functors]
      OBVIOUS
    <3>1. pending \in [Ids \cup {Base} -> Functors]
      BY <1>3
    <3>2. ASSUME NEW i \in Ids, pending[i] # <<>>,
                 pending' = [pending EXCEPT ![i] = Tail(@)]
          PROVE  pending' \in [Ids \cup {Base} -> Functors]
      <4>1. Tail(pending[i]) \in Functors
        BY <1>5, <3>1, <3>2
      <4>. QED  BY <3>1, <3>2, <4>1
    <3>3. ASSUME NEW c \in Clients,
                 pending' = [pending EXCEPT ![Base] = Append(@, <<"remove", c>>)]
          PROVE  pending' \in [Ids \cup {Base} -> Functors]
      <4>1. Append(pending[Base], <<"remove", c>>) \in Functors
        BY <1>5, <3>1
      <4>. QED  BY <3>1, <3>3, <4>1
    <3>. QED  BY <2>1, <3>2, <3>3
  <2>4. ServerTypes'
    BY <1>3, <1>4, <2>1, <2>3
  <2>. QED  BY <1>2, <2>2, <2>4
<1>8. CASE handleRead
  <2>. DEFINE c == Head(backlog)
  <2>1. /\ UNCHANGED <<opc, cur>> /\ opc = "run"
        /\ backlog # <<>> /\ backlog' = Tail(backlog) /\ c \in Clients
        /\ connections' = connections \cup {c}
        /\ ioLoop' = [ioLoop EXCEPT ![c] = last']
        /\ last' = IF loops = <<>> THEN Base ELSE loops[next + 1]
        /\ next' = IF loops = <<>> THEN next ELSE After(next)
        /\ Queue(last', <<"established", c>>)
    BY <1>8 DEF handleRead, newConnection, getNextLoop, ServerTypes
  <2>2. last' \in Ids \cup {Base}
    BY <2>1 DEF ThreadTypes, OwnerInv
  <2>3. next' \in Nat /\ (next' = 0 \/ next' < Len(loops))
    BY <2>1 DEF ThreadTypes, OwnerInv, After
  <2>4. ThreadTypes' /\ OwnerInv' /\ StartInv' /\ QuitInv'
    BY <1>1, <2>1, <2>3 DEF ThreadTypes, OwnerInv, StartInv, QuitInv, Down
  <2>5. LoopsAreThere'
    BY <1>1, <2>1, <2>2, LoopsAreUp DEF Queue, LoopsAreThere
  <2>6. pending \in [Ids \cup {Base} -> Functors]
    BY <1>3, <2>1 DEF Ending
  <2>7. pending' \in [Ids \cup {Base} -> Functors]
    <3>1. Append(pending[last'], <<"established", c>>) \in Functors
      BY <1>5, <2>1, <2>2, <2>6
    <3>. QED  BY <2>1, <2>2, <2>6, <3>1 DEF Queue
  <2>8. backlog' \in Seq(Clients) /\ connections' \subseteq Clients
    BY <1>3, <2>1
  <2>9. ioLoop' \in [Clients -> Ids \cup {Base}]
    BY <1>3, <2>1, <2>2
  <2>. QED  BY <1>2, <1>4, <2>4, <2>5, <2>7, <2>8, <2>9
<1>9. CASE removeConnectionInLoop
  <2>. DEFINE c == Head(pending[Base])[2]
  <2>1. /\ UNCHANGED <<opc, cur, next, backlog, ioLoop>> /\ opc = "run"
        /\ pending[Base] # <<>> /\ connections' \subseteq connections
        /\ IF LoopAlive(ioLoop[c])
           THEN /\ pending' = [pending EXCEPT ![Base] = Tail(@),
                                 ![ioLoop[c]] = Append(@, <<"destroyed", c>>)]
                /\ fault' = fault
           ELSE pending' = pending
    BY <1>9 DEF removeConnectionInLoop, Erased, threadPoolVars, poolVars
  <2>2. pending \in [Ids \cup {Base} -> Functors]
    BY <1>3, <2>1 DEF Ending
  <2>3. c \in Clients /\ ioLoop[c] \in Ids \cup {Base}
    BY <1>3, <1>5, <2>1, <2>2
  <2>4. ThreadTypes' /\ OwnerInv' /\ StartInv' /\ QuitInv'
    BY <1>1, <2>1 DEF ThreadTypes, OwnerInv, StartInv, QuitInv, Down
  <2>5. LoopsAreThere'
    BY <1>1, <2>1, <2>3, LoopsAreUp DEF LoopsAreThere
  <2>6. pending' \in [Ids \cup {Base} -> Functors]
    <3>. DEFINE rest == [pending EXCEPT ![Base] = Tail(@)]
    <3>1. rest \in [Ids \cup {Base} -> Functors]
      BY <1>5, <2>1, <2>2
    <3>2. Append(rest[ioLoop[c]], <<"destroyed", c>>) \in Functors
      BY <1>5, <2>3, <3>1
    <3>3. [rest EXCEPT ![ioLoop[c]] = Append(@, <<"destroyed", c>>)]
             \in [Ids \cup {Base} -> Functors]
      BY <2>3, <3>1, <3>2
    <3>4. CASE LoopAlive(ioLoop[c])
      <4>1. pending' = [rest EXCEPT ![ioLoop[c]] = Append(@, <<"destroyed", c>>)]
        BY <2>1, <3>4
      <4>. QED  BY <3>3, <4>1
    <3>5. CASE ~LoopAlive(ioLoop[c])
      <4>1. pending' = pending
        BY <2>1, <3>5
      <4>. QED  BY <2>2, <4>1
    <3>. QED  BY <3>4, <3>5
  <2>7. ServerTypes'
    BY <1>3, <1>4, <2>1, <2>6
  <2>. QED  BY <1>2, <2>4, <2>5, <2>7
<1>10. CASE Destructor
  <2>1. /\ opc = "run" /\ opc' = "destroy" /\ cur' = 1
        /\ UNCHANGED <<next, backlog, ioLoop>> /\ connections' = {}
        /\ fault' = IF \E c \in connections : ~LoopAlive(ioLoop[c]) THEN "freed" ELSE fault
    BY <1>10 DEF Destructor, BeginDestroy, poolVars
  <2>2. ThreadTypes' /\ OwnerInv'
    BY ThreadsAssumption, <1>1, <2>1 DEF ThreadTypes, OwnerInv, Ending
  <2>3. StartInv'
    BY <1>1, <2>1 DEF StartInv, Ending
  <2>4. QuitInv'
    BY <1>1, <2>1 DEF QuitInv, Down, Ending
  <2>5. LoopsAreThere'
    BY <1>1, <1>3, <2>1, LoopsAreUp DEF LoopsAreThere
  <2>6. ServerTypes'
    BY <1>3, <1>4, <2>1 DEF Ending
  <2>. QED  BY <1>2, <2>2, <2>3, <2>4, <2>5, <2>6
<1>. QED  BY <1>6, <1>7, <1>8, <1>9, <1>10

LEMMA ServerStep == ServerInv /\ [Next]_vars => ServerInv'
<1>. SUFFICES ASSUME ServerInv, [Next]_vars
              PROVE  ServerInv'
  OBVIOUS
<1>1. CASE UNCHANGED vars
  <2>1. UNCHANGED <<Ids, Base, tpc, loopPtr, quit, selfQuit, opc, cur, loops, next,
                    fault, backlog, ioLoop, connections, pending>>
    BY <1>1 DEF vars, threadPoolVars, threadVars, poolVars, serverVars, Ids,
       Base
  <2>2. ThreadTypes' /\ FlagTypes' /\ ServerTypes'
    BY <2>1 DEF ServerInv, ThreadTypes, FlagTypes, ServerTypes
  <2>3. OwnerInv' /\ StartInv' /\ QuitInv' /\ LoopsAreThere'
    BY <2>1 DEF ServerInv, OwnerInv, StartInv, QuitInv, Down, LoopsAreThere
  <2>. QED  BY <2>2, <2>3 DEF ServerInv
<1>2. ASSUME Next, NEW i \in Ids, ThreadMoves(i)
      PROVE  ServerInv'
  BY <1>2, ThreadKeepsInv DEF Next
<1>3. ASSUME Next, NEW i \in Ids, SelfQuit(i), UNCHANGED serverVars
      PROVE  ServerInv'
  BY <1>3, SelfQuitKeepsInv DEF Next
<1>4. CASE Next /\ OwnerMoves
  BY <1>4, OwnerKeepsInv DEF Next
<1>. QED  BY <1>1, <1>2, <1>3, <1>4, ServerKeepsInv DEF Next

\* ServerInv holds in every state of the server, its owner and its threads.
THEOREM ServerInvariant ==
  SafetySpec => []ServerInv
<1>1. Init => ServerInv
  BY ServerInit
<1>2. ServerInv /\ [Next]_vars => ServerInv'
  BY ServerStep
<1>. QED  BY <1>1, <1>2, PTL DEF SafetySpec

\* For every number of threads, clients and descriptors: no connection and no functor
\* is given to a loop that is not there, and ~EventLoopThread neither follows a null
\* pointer nor frees what its thread still uses, unless a callback ended a loop; what
\* is left is the read of threadId_ in the quit() that ends a loop.
THEOREM LoopsAreAlwaysThere ==
  SafetySpec => []LoopsAreThere
<1>1. ServerInv => LoopsAreThere
  BY DEF ServerInv
<1>. QED  BY <1>1, ServerInvariant, PTL

-----------------------------------------------------------------------------
(* TcpServer: every descriptor is accounted for.  A loop's queue is seen   *)
(* through In(): which functor waits in which loop.                        *)

Functor == {"established", "destroyed", "remove"} \X Clients
Places == Ids \cup {Base}

\* Functor f waits in the queue of loop i.
In(Q, i, f) == i \in DOMAIN Q /\ \E k \in DOMAIN Q[i] : Q[i][k] = f

\* A connection has one functor at most, in all queues together.
Unique(Q) ==
  \A i \in DOMAIN Q, j \in DOMAIN Q : \A k \in DOMAIN Q[i], l \in DOMAIN Q[j] :
    Q[i][k][2] = Q[j][l][2] => i = j /\ k = l

Pushed(Q, p, f) == [Q EXCEPT ![p] = Append(Q[p], f)]
Popped(Q, p) == [Q EXCEPT ![p] = Tail(Q[p])]
Cleared(Q, p) == [Q EXCEPT ![p] = <<>>]

LEMMA PushFunctor ==
  ASSUME NEW Q \in [Places -> Seq(Functor)], NEW p \in Places, NEW f \in Functor, Unique(Q),
         \A i \in Places : \A g \in Functor : In(Q, i, g) => g[2] # f[2]
  PROVE  /\ Pushed(Q, p, f) \in [Places -> Seq(Functor)]
         /\ \A i \in Places : \A g \in Functor :
              In(Pushed(Q, p, f), i, g) <=> In(Q, i, g) \/ (i = p /\ g = f)
         /\ Unique(Pushed(Q, p, f))
<1>. DEFINE R == Pushed(Q, p, f)
<1>0. R = [Q EXCEPT ![p] = Append(Q[p], f)]
  BY DEF Pushed
<1>. HIDE DEF R
<1>1. R \in [Places -> Seq(Functor)]
  BY <1>0
<1>2. \A i \in Places : /\ Len(Q[i]) \in Nat /\ DOMAIN Q[i] = 1 .. Len(Q[i])
                        /\ \A k \in DOMAIN Q[i] : Q[i][k] \in Functor /\ In(Q, i, Q[i][k])
  BY DEF In
<1>3. /\ DOMAIN R[p] = 1 .. Len(Q[p]) + 1 /\ R[p][Len(Q[p]) + 1] = f
      /\ \A k \in DOMAIN Q[p] : R[p][k] = Q[p][k]
      /\ \A i \in Places \ {p} : R[i] = Q[i]
  BY <1>0, <1>2
<1>4. \A i \in Places : \A k \in DOMAIN R[i] :
        \/ k \in DOMAIN Q[i] /\ R[i][k] = Q[i][k] /\ R[i][k][2] # f[2]
        \/ i = p /\ k = Len(Q[p]) + 1 /\ R[i][k] = f
  BY <1>2, <1>3
<1>5. \A i \in Places : \A k \in DOMAIN Q[i] : k \in DOMAIN R[i] /\ R[i][k] = Q[i][k]
  BY <1>2, <1>3
<1>6. Unique(R)
  BY <1>1, <1>4 DEF Unique
<1>7. ASSUME NEW i \in Places, NEW g \in Functor
      PROVE  In(R, i, g) <=> In(Q, i, g) \/ (i = p /\ g = f)
  <2>1. In(R, i, g) => In(Q, i, g) \/ (i = p /\ g = f)
    BY <1>1, <1>4 DEF In
  <2>2. In(Q, i, g) => In(R, i, g)
    BY <1>1, <1>5 DEF In
  <2>3. In(R, p, f)
    <3>1. Len(Q[p]) + 1 \in DOMAIN R[p] /\ R[p][Len(Q[p]) + 1] = f
      BY <1>2, <1>3
    <3>. QED  BY <1>1, <3>1 DEF In
  <2>. QED  BY <2>1, <2>2, <2>3
<1>. QED  BY <1>1, <1>6, <1>7 DEF R

LEMMA PopFunctor ==
  ASSUME NEW Q \in [Places -> Seq(Functor)], NEW p \in Places, Unique(Q), Q[p] # <<>>
  PROVE  /\ Popped(Q, p) \in [Places -> Seq(Functor)]
         /\ Head(Q[p]) \in Functor /\ In(Q, p, Head(Q[p]))
         /\ \A i \in Places : \A g \in Functor :
              In(Popped(Q, p), i, g) <=> In(Q, i, g) /\ g[2] # Head(Q[p])[2]
         /\ Unique(Popped(Q, p))
<1>. DEFINE f == Head(Q[p])
            R == Popped(Q, p)
<1>0. R = [Q EXCEPT ![p] = Tail(Q[p])]
  BY DEF Popped
<1>. HIDE DEF R
<1>1. R \in [Places -> Seq(Functor)] /\ f \in Functor /\ f = Q[p][1] /\ 1 \in DOMAIN Q[p]
  BY <1>0
<1>2. \A i \in Places : Len(Q[i]) \in Nat /\ DOMAIN Q[i] = 1 .. Len(Q[i])
  OBVIOUS
<1>3. /\ DOMAIN R[p] = 1 .. Len(Q[p]) - 1
      /\ \A k \in DOMAIN R[p] : R[p][k] = Q[p][k + 1]
      /\ \A i \in Places \ {p} : R[i] = Q[i]
  BY <1>0, <1>2
<1>. HIDE DEF f
<1>. DEFINE old(i, k) == IF i = p THEN k + 1 ELSE k
<1>4. \A i \in Places : \A k \in DOMAIN R[i] :
        old(i, k) \in DOMAIN Q[i] /\ R[i][k] = Q[i][old(i, k)] /\ k \in Int
  <2>. SUFFICES ASSUME NEW i \in Places, NEW k \in DOMAIN R[i]
                PROVE  old(i, k) \in DOMAIN Q[i] /\ R[i][k] = Q[i][old(i, k)] /\ k \in Int
    OBVIOUS
  <2>1. CASE i = p
    BY <1>2, <1>3, <2>1
  <2>2. CASE i # p
    BY <1>2, <1>3, <2>2
  <2>. QED  BY <2>1, <2>2
<1>5. \A i \in Places : \A k \in DOMAIN R[i] : R[i][k][2] # f[2]
  <2>. SUFFICES ASSUME NEW i \in Places, NEW k \in DOMAIN R[i], R[i][k][2] = f[2]
                PROVE  FALSE
    OBVIOUS
  <2>1. i = p /\ old(i, k) = 1
    BY <1>1, <1>4 DEF Unique
  <2>. QED  BY <1>2, <1>3, <2>1
<1>6. \A i \in Places : \A k \in DOMAIN Q[i] : Q[i][k][2] # f[2] =>
        \E l \in DOMAIN R[i] : R[i][l] = Q[i][k]
  <2>. SUFFICES ASSUME NEW i \in Places, NEW k \in DOMAIN Q[i], Q[i][k][2] # f[2]
                PROVE  \E l \in DOMAIN R[i] : R[i][l] = Q[i][k]
    OBVIOUS
  <2>1. CASE i = p
    <3>1. k \in 2 .. Len(Q[p])
      BY <1>1, <1>2, <2>1
    <3>2. k - 1 \in DOMAIN R[p] /\ R[p][k - 1] = Q[p][k]
      BY <1>2, <1>3, <3>1
    <3>. QED  BY <2>1, <3>2
  <2>. QED  BY <1>3, <2>1
<1>7. Unique(R)
  <2>. SUFFICES ASSUME NEW i \in Places, NEW j \in Places, NEW k \in DOMAIN R[i],
                       NEW l \in DOMAIN R[j], R[i][k][2] = R[j][l][2]
                PROVE  i = j /\ k = l
    BY <1>1 DEF Unique
  <2>1. i = j /\ old(i, k) = old(j, l)
    BY <1>4 DEF Unique
  <2>. QED  BY <1>4, <2>1
<1>8. ASSUME NEW i \in Places, NEW g \in Functor
      PROVE  In(R, i, g) <=> In(Q, i, g) /\ g[2] # f[2]
  <2>1. In(R, i, g) => In(Q, i, g) /\ g[2] # f[2]
    BY <1>1, <1>4, <1>5 DEF In
  <2>2. In(Q, i, g) /\ g[2] # f[2] => In(R, i, g)
    BY <1>1, <1>6 DEF In
  <2>. QED  BY <2>1, <2>2
<1>9. In(Q, p, f)
  BY <1>1 DEF In
<1>. QED  BY <1>1, <1>7, <1>8, <1>9 DEF f, R

LEMMA ClearFunctors ==
  ASSUME NEW Q \in [Places -> Seq(Functor)], NEW p \in Places, Unique(Q)
  PROVE  /\ \A i \in Places : \A g \in Functor : In(Cleared(Q, p), i, g) <=> In(Q, i, g) /\ i # p
         /\ Unique(Cleared(Q, p))
<1>. DEFINE R == Cleared(Q, p)
<1>1. DOMAIN R = Places /\ DOMAIN R[p] = {} /\ \A i \in Places \ {p} : R[i] = Q[i]
  BY DEF Cleared
<1>. HIDE DEF R
<1>2. Unique(R)
  BY <1>1 DEF Unique
<1>3. \A i \in Places : \A g \in Functor : In(R, i, g) <=> In(Q, i, g) /\ i # p
  BY <1>1 DEF In
<1>. QED  BY <1>2, <1>3 DEF R

LEMMA SeqOfNothing == SetToSeq({}) = <<>>
<1>. DEFINE D == [1 .. 0 -> {}]
<1>1. Cardinality({}) = 0
  BY FS_EmptySet
<1>2. <<>> \in D /\ IsInjective(<<>>)
  BY DEF IsInjective
<1>3. SetToSeq({}) = CHOOSE f \in D : IsInjective(f)
  BY <1>1 DEF SetToSeq
<1>4. \A f \in D : f = <<>>
  OBVIOUS
<1>. HIDE DEF D
<1>5. (CHOOSE f \in D : IsInjective(f)) \in D
  BY <1>2
<1>6. SetToSeq({}) \in D
  BY <1>3, <1>5
<1>. QED  BY <1>4, <1>6

ConnStates == {"trying", "backlog", "connecting", "up", "closed", "destroyed"}

\* The loops are there when the server runs, and until ~TcpServer only a callback
\* ends one of them.
SetupInv ==
  opc \notin Ending =>
    /\ cur > 1 => loops # <<>>
    /\ opc = "run" => cur = numThreads + 1
    /\ \A i \in Ids : quit[i] \/ tpc[i] \in Left => i \in selfQuit

\* A client waits once to be accepted.
BacklogInv ==
  opc \notin Ending =>
    /\ \A k \in DOMAIN backlog : conn[backlog[k]] = "backlog"
    /\ \A k, l \in DOMAIN backlog : backlog[k] = backlog[l] => k = l

\* What a functor that waits in loop i says about the connection that it holds.
FitsHere(i, f) ==
  LET c == f[2] IN
  /\ f[1] = "established" => i = ioLoop[c] /\ conn[c] = "connecting"
  /\ f[1] = "remove" =>
       i = Base /\ conn[c] = "closed" /\ (c \in connections \/ fault # "none")
  /\ f[1] = "destroyed" => i = ioLoop[c] /\ conn[c] = "closed" /\ c \notin connections

FunctorInv ==
  opc \notin Ending =>
    /\ Unique(pending)
    /\ \A i \in Places : \A f \in Functor : In(pending, i, f) => FitsHere(i, f)

\* Who owns a connection in each of its states.
OwnedInv ==
  opc \notin Ending =>
    \A c \in Clients :
      /\ conn[c] \in {"connecting", "up"} => c \in connections
      /\ c \in connections => conn[c] \in {"connecting", "up", "closed"}
      /\ conn[c] \in {"connecting", "up", "closed"} => ioLoop[c] \in Ids
      /\ conn[c] = "closed" =>
           \/ \E i \in Places : \E f \in Functor : In(pending, i, f) /\ f[2] = c
           \/ ioLoop[c] \in selfQuit

\* The base loop is only asked to remove connections, also while it runs no more.
BaseInv ==
  /\ DOMAIN pending = Places
  /\ pending[Base] \in Seq({"remove"} \X Clients)
  /\ opc \in Ending => connections = {}

\* A loop that is gone has no functors, and ~TcpServer outlives all loops.
EndedInv ==
  /\ fault = "none" => \A i \in Ids : tpc[i] = "ended" => pending[i] = <<>>
  /\ fault = "none" /\ opc \in Ending => \A i \in Ids : i < cur => tpc[i] = "ended"
  /\ opc = "done" => fault = "none" /\ cur = numThreads + 1

FdInv ==
  /\ conn \in [Clients -> ConnStates]
  /\ SetupInv /\ BacklogInv /\ FunctorInv /\ OwnedInv
  /\ BaseInv /\ EndedInv

LEMMA BaseIsNoId == Base \notin Ids /\ Base \in Places /\ Ids \subseteq Places
BY ThreadsAssumption DEF Base, Ids, Places

LEMMA PendingType == ServerInv /\ opc \notin Ending => pending \in [Places -> Seq(Functor)]
BY DEF ServerInv, ServerTypes, Places, Functor

LEMMA FdInit == Init => FdInv
<1>. SUFFICES ASSUME Init PROVE FdInv
  OBVIOUS
<1>. USE DEF Init, PoolInit
<1>1. pending = [i \in Places |-> <<>>]
  BY DEF Places
<1>2. conn \in [Clients -> ConnStates]
  BY DEF ConnStates
<1>3. SetupInv /\ BacklogInv /\ EndedInv
  BY ThreadsAssumption DEF SetupInv, BacklogInv, EndedInv, Left, Ending
<1>4. FunctorInv
  <2>1. \A i \in DOMAIN pending : DOMAIN pending[i] = {}
    BY <1>1
  <2>. QED  BY <2>1 DEF FunctorInv, Unique, In
<1>5. OwnedInv
  BY DEF OwnedInv
<1>6. BaseInv
  BY <1>1, BaseIsNoId DEF BaseInv, Ending
<1>. QED  BY <1>2, <1>3, <1>4, <1>5, <1>6 DEF FdInv

\* The threads and the owner leave the connections alone, until a thread ends.
LEMMA PoolKeepsFds ==
  ASSUME ServerInv, FdInv, fault = "none", UNCHANGED serverVars,
         \/ OwnerMoves
         \/ \E i \in Ids : SelfQuit(i)
         \/ \E i \in Ids : PostTid(i) \/ PublishLoop(i) \/ EnterLoop(i) \/ ExitLoop(i) \/ ClearLoop(i)
  PROVE  FdInv'
<1>. USE DEF FdInv
<1>1. UNCHANGED <<Ids, Base, Places, Functor, backlog, conn, ioLoop, connections, pending>>
  BY DEF serverVars, Ids, Base, Places, Functor
<1>2. CASE \E i \in Ids : SelfQuit(i)
  <2>. PICK i \in Ids : SelfQuit(i)
    BY <1>2
  <2>1. /\ UNCHANGED <<tpc, opc, cur, loops, fault>>
        /\ selfQuit' = selfQuit \cup {i}
        /\ quit' = [quit EXCEPT ![i] = TRUE]
    BY DEF SelfQuit, poolVars
  <2>2. SetupInv'
    BY <1>1, <2>1 DEF SetupInv, ServerInv, FlagTypes
  <2>3. OwnedInv'
    BY <1>1, <2>1 DEF OwnedInv, In
  <2>4. BacklogInv' /\ FunctorInv'
    BY <1>1, <2>1 DEF BacklogInv, FunctorInv, FitsHere
  <2>5. BaseInv' /\ EndedInv'
    BY <1>1, <2>1 DEF BaseInv, EndedInv
  <2>. QED  BY <1>1, <2>2, <2>3, <2>4, <2>5
<1>3. CASE \E i \in Ids :
             PostTid(i) \/ PublishLoop(i) \/ EnterLoop(i) \/ ExitLoop(i) \/ ClearLoop(i)
  <2>. PICK i \in Ids :
             PostTid(i) \/ PublishLoop(i) \/ EnterLoop(i) \/ ExitLoop(i) \/ ClearLoop(i)
    BY <1>3
  <2>1. /\ UNCHANGED <<cur, loops, fault, selfQuit>>
        /\ opc' = opc \/ (opc \in {"tid", "wait"} /\ opc' = "test")
        /\ quit' = quit \/ quit' = [quit EXCEPT ![i] = FALSE]
    BY DEF PostTid, PublishLoop, EnterLoop, ExitLoop, ClearLoop, poolVars
  <2>2. \E to \in {"create", "published", "looping", "exited", "cleared"} :
          /\ tpc' = [tpc EXCEPT ![i] = to] /\ tpc[i] # "ended"
          /\ to \in Left => tpc[i] \in Left \/ quit[i]
    BY DEF PostTid, PublishLoop, EnterLoop, ExitLoop, ClearLoop, ThreadGoes, Left
  <2>3. SetupInv'
    BY <1>1, <2>1, <2>2 DEF SetupInv, ServerInv, ThreadTypes, FlagTypes, Ending
  <2>4. OwnedInv'
    BY <1>1, <2>1 DEF OwnedInv, In, Ending
  <2>5. BacklogInv' /\ FunctorInv'
    BY <1>1, <2>1 DEF BacklogInv, FunctorInv, FitsHere, Ending
  <2>6. BaseInv'
    BY <1>1, <2>1 DEF BaseInv, Ending
  <2>7. EndedInv'
    BY <1>1, <2>1, <2>2 DEF EndedInv, ServerInv, ThreadTypes, Ending
  <2>. QED  BY <1>1, <2>3, <2>4, <2>5, <2>6, <2>7
<1>4. CASE OwnerMoves
  <2>1. /\ selfQuit' = selfQuit
        /\ opc \notin Ending => fault' = fault /\ quit' = quit /\ opc' \notin Ending
        /\ opc \in Ending => opc' \in Ending
    BY <1>4 DEF OwnerMoves, OwnerStep, StartThread, WaitForLoop, LoopStarted, AllStarted,
       TestLoopPtr, QuitLoop, QuitReadsThread, Join, Destroyed, threadVars, Ending
  <2>2. OwnedInv'
    BY <1>1, <2>1 DEF OwnedInv, In
  <2>3. BacklogInv' /\ FunctorInv' /\ BaseInv'
    BY <1>1, <2>1 DEF BacklogInv, FunctorInv, FitsHere, BaseInv
  <2>4. \/ UNCHANGED tpc
        \/ tpc' = [tpc EXCEPT ![cur] = "begin"] /\ cur \in Ids /\ opc \notin Ending
                    /\ tpc[cur] = "none"
    BY <1>4 DEF OwnerMoves, OwnerStep, StartThread, WaitForLoop, LoopStarted, AllStarted,
       TestLoopPtr, QuitLoop, QuitReadsThread, Join, Destroyed, threadVars, ThreadGoes, Ending
  <2>5. SetupInv'
    <3>. SUFFICES ASSUME opc \notin Ending PROVE SetupInv'
      BY <2>1 DEF SetupInv
    <3>1. \A i \in Ids : quit'[i] \/ tpc'[i] \in Left => i \in selfQuit'
      BY <2>1, <2>4 DEF SetupInv, ServerInv, ThreadTypes, Left
    <3>2. loops' \in Seq(Ids) /\ cur' \in Int
      <4>1. loops' = loops \/ (cur \in Ids /\ loops' = Append(loops, cur))
        BY <1>4 DEF OwnerMoves, OwnerStep, StartThread, WaitForLoop, LoopStarted, AllStarted,
           TestLoopPtr, QuitLoop, QuitReadsThread, Join, Destroyed, poolVars, ServerInv, OwnerInv
      <4>2. cur' = cur \/ cur' = cur + 1
        BY <1>4 DEF OwnerMoves, OwnerStep, StartThread, WaitForLoop, LoopStarted, AllStarted,
           TestLoopPtr, QuitLoop, QuitReadsThread, Join, Destroyed
      <4>. QED  BY ThreadsAssumption, <4>1, <4>2 DEF ServerInv, ThreadTypes
    <3>3. (cur' > 1 => loops' # <<>>) /\ (opc' = "run" => cur' = numThreads + 1)
      <4>1. CASE LoopStarted
        BY <4>1 DEF LoopStarted, ServerInv, ThreadTypes
      <4>2. CASE AllStarted
        BY <4>2, ThreadsAssumption DEF AllStarted, ServerInv, ThreadTypes, SetupInv, poolVars, Ids
      <4>3. CASE StartThread \/ WaitForLoop
        BY <4>3 DEF StartThread, WaitForLoop, SetupInv, poolVars
      <4>. QED  BY <1>4, <4>1, <4>2, <4>3 DEF OwnerMoves, OwnerStep, TestLoopPtr, QuitLoop,
                QuitReadsThread, Join, Destroyed, Ending
    <3>. QED  BY <1>1, <3>1, <3>3 DEF SetupInv
  <2>6. EndedInv'
    <3>1. \A i \in Ids : tpc'[i] = "ended" <=> tpc[i] = "ended"
      BY <2>4 DEF ServerInv, ThreadTypes
    <3>2. fault' = "none" => \A i \in Ids : tpc'[i] = "ended" => pending'[i] = <<>>
      BY <1>1, <3>1 DEF EndedInv
    <3>3. fault' = "none" /\ opc' \in Ending => \A i \in Ids : i < cur' => tpc'[i] = "ended"
      <4>1. CASE TestLoopPtr \/ Join
        <5>1. cur' = cur \/ (cur' = cur + 1 /\ (fault' = "none" => tpc[cur] = "ended"))
          <6>1. CASE Join
            BY <6>1 DEF Join
          <6>2. CASE TestLoopPtr /\ loopPtr[cur]
            BY <6>2 DEF TestLoopPtr
          <6>3. CASE TestLoopPtr /\ ~loopPtr[cur]
            BY <6>3 DEF TestLoopPtr
          <6>. QED  BY <4>1, <6>1, <6>2, <6>3
        <5>. QED  BY <2>1, <3>1, <4>1, <5>1 DEF EndedInv, ServerInv, ThreadTypes, Ids,
                  TestLoopPtr, Join, Ending
      <4>2. CASE QuitLoop \/ QuitReadsThread \/ Destroyed
        BY <2>1, <3>1, <4>2 DEF QuitLoop, QuitReadsThread, Destroyed, EndedInv, Ending
      <4>. QED  BY <1>4, <2>1, <4>1, <4>2 DEF OwnerMoves, OwnerStep, StartThread, WaitForLoop,
                LoopStarted, AllStarted, Ending
    <3>4. opc' = "done" => fault' = "none" /\ cur' = numThreads + 1
      BY <1>4, ThreadsAssumption DEF OwnerMoves, OwnerStep, StartThread, WaitForLoop, LoopStarted,
         AllStarted, TestLoopPtr, QuitLoop, QuitReadsThread, Join, Destroyed, ServerInv,
         ThreadTypes, Ids, Ending
    <3>. QED  BY <1>1, <3>2, <3>3, <3>4 DEF EndedInv
  <2>. QED  BY <1>1, <2>2, <2>3, <2>5, <2>6
<1>. QED  BY <1>2, <1>3, <1>4

\* A connection that is not accepted, is up or is gone has no functor.
LEMMA NoFunctorOf ==
  ASSUME ServerInv, FdInv, opc \notin Ending, NEW c \in Clients,
         conn[c] \notin {"connecting", "closed"},
         NEW i \in Places, NEW f \in Functor, In(pending, i, f)
  PROVE  f[2] # c
<1>1. FitsHere(i, f)
  BY DEF FdInv, FunctorInv
<1>2. f[1] \in {"established", "destroyed", "remove"}
  BY DEF Functor
<1>. QED  BY <1>1, <1>2 DEF FitsHere

LEMMA ListenKeepsFds ==
  ASSUME ServerInv, FdInv, fault = "none", listen
  PROVE  FdInv'
<1>1. UNCHANGED <<Ids, Base, Places, Functor, tpc, quit, selfQuit, opc, cur, loops, fault,
                  backlog, conn, ioLoop, connections, pending>>
  BY DEF listen, threadPoolVars, threadVars, poolVars, Ids, Base, Places, Functor
<1>2. SetupInv' /\ BacklogInv' /\ FunctorInv'
  BY <1>1 DEF FdInv, SetupInv, BacklogInv, FunctorInv, FitsHere
<1>3. OwnedInv' /\ BaseInv' /\ EndedInv'
  BY <1>1 DEF FdInv, OwnedInv, BaseInv, EndedInv, In
<1>. QED  BY <1>1, <1>2, <1>3 DEF FdInv

\* A step on client c leaves what FunctorInv and OwnedInv say of the others.
LEMMA OthersKeepFds ==
  ASSUME ServerInv, FdInv, opc \notin Ending, NEW c \in Clients, fault' = fault \/ fault' # "none",
         \A d \in Clients \ {c} : /\ conn'[d] = conn[d] /\ ioLoop'[d] = ioLoop[d]
                                  /\ d \in connections' <=> d \in connections,
         selfQuit \subseteq selfQuit',
         \A i \in Places : \A f \in Functor :
           f[2] # c => (In(pending', i, f) <=> In(pending, i, f)),
         NEW d \in Clients \ {c}
  PROVE  /\ conn'[d] \in {"connecting", "up"} => d \in connections'
         /\ d \in connections' => conn'[d] \in {"connecting", "up", "closed"}
         /\ conn'[d] \in {"connecting", "up", "closed"} => ioLoop'[d] \in Ids
         /\ conn'[d] = "closed" =>
              \/ \E i \in Places : \E f \in Functor : In(pending', i, f) /\ f[2] = d
              \/ ioLoop'[d] \in selfQuit'
         /\ \A i \in Places : \A f \in Functor :
              f[2] = d /\ In(pending', i, f) => FitsHere(i, f)'
<1>1. Base' = Base
  BY DEF Base
<1>2. \A i \in Places : \A f \in Functor :
              f[2] = d /\ In(pending', i, f) => FitsHere(i, f)'
  BY <1>1 DEF FdInv, FunctorInv, FitsHere
<1>. QED  BY <1>2 DEF FdInv, OwnedInv

LEMMA FdsByClient ==
  ASSUME ServerInv, FdInv, opc \notin Ending, NEW c \in Clients, fault' = fault \/ fault' # "none",
         conn' \in [Clients -> ConnStates],
         \A d \in Clients \ {c} : /\ conn'[d] = conn[d] /\ ioLoop'[d] = ioLoop[d]
                                  /\ d \in connections' <=> d \in connections,
         selfQuit \subseteq selfQuit',
         \A i \in Places : \A f \in Functor :
           f[2] # c => (In(pending', i, f) <=> In(pending, i, f)),
         Unique(pending'),
         \A i \in Places : \A f \in Functor : f[2] = c /\ In(pending', i, f) => FitsHere(i, f)',
         conn'[c] \in {"connecting", "up"} => c \in connections',
         c \in connections' => conn'[c] \in {"connecting", "up", "closed"},
         conn'[c] \in {"connecting", "up", "closed"} => ioLoop'[c] \in Ids,
         conn'[c] = "closed" =>
           \/ \E i \in Places : \E f \in Functor : In(pending', i, f) /\ f[2] = c
           \/ ioLoop'[c] \in selfQuit'
  PROVE  FunctorInv' /\ OwnedInv'
<1>1. UNCHANGED <<Ids, Base, Places, Functor>>
  BY DEF Ids, Base, Places, Functor
<1>2. \A i \in Places : \A f \in Functor : In(pending', i, f) => FitsHere(i, f)'
  <2>. SUFFICES ASSUME NEW i \in Places, NEW f \in Functor, In(pending', i, f)
                PROVE  FitsHere(i, f)'
    OBVIOUS
  <2>1. f[2] \in Clients
    BY DEF Functor
  <2>2. CASE f[2] = c
    BY <2>2
  <2>3. CASE f[2] # c
    BY <2>1, <2>3, OthersKeepFds
  <2>. QED  BY <2>2, <2>3
<1>3. FunctorInv'
  BY <1>1, <1>2 DEF FunctorInv, Unique, In
<1>4. ASSUME NEW d \in Clients
      PROVE  /\ conn'[d] \in {"connecting", "up"} => d \in connections'
             /\ d \in connections' => conn'[d] \in {"connecting", "up", "closed"}
             /\ conn'[d] \in {"connecting", "up", "closed"} => ioLoop'[d] \in Ids
             /\ conn'[d] = "closed" =>
                  \/ \E i \in Places : \E f \in Functor : In(pending', i, f) /\ f[2] = d
                  \/ ioLoop'[d] \in selfQuit'
  <2>1. CASE d = c
    BY <2>1
  <2>2. CASE d # c
    BY <2>2, OthersKeepFds
  <2>. QED  BY <2>1, <2>2
<1>5. OwnedInv'
  BY <1>1, <1>4 DEF OwnedInv, In
<1>. QED  BY <1>3, <1>5

LEMMA ConnectKeepsFds ==
  ASSUME ServerInv, FdInv, fault = "none", NEW c \in Clients, Connect(c)
  PROVE  FdInv'
<1>. USE DEF FdInv
<1>1. /\ UNCHANGED <<Ids, Base, Places, Functor, tpc, quit, selfQuit, opc, cur, loops, fault,
                     ioLoop, connections, pending>>
      /\ conn[c] = "trying" /\ conn' = [conn EXCEPT ![c] = "backlog"]
      /\ backlog' = Append(backlog, c)
  BY DEF Connect, threadPoolVars, threadVars, poolVars, Ids, Base, Places, Functor
<1>2. conn' \in [Clients -> ConnStates]
  BY <1>1 DEF ConnStates
<1>3. SetupInv' /\ BaseInv' /\ EndedInv'
  BY <1>1 DEF SetupInv, BaseInv, EndedInv
<1>4. BacklogInv'
  <2>1. backlog \in Seq(Clients) /\ \A k \in DOMAIN backlog : backlog[k] \in Clients
    BY DEF ServerInv, ServerTypes
  <2>2. /\ DOMAIN backlog' = DOMAIN backlog \cup {Len(backlog) + 1}
        /\ backlog'[Len(backlog) + 1] = c
        /\ \A k \in DOMAIN backlog : backlog'[k] = backlog[k]
    BY <1>1, <2>1
  <2>. QED  BY <1>1, <2>1, <2>2 DEF BacklogInv
<1>5. opc \notin Ending => FunctorInv' /\ OwnedInv'
  <2>. SUFFICES ASSUME opc \notin Ending PROVE FunctorInv' /\ OwnedInv'
    OBVIOUS
  <2>1. \A i \in Places : \A f \in Functor : In(pending, i, f) => f[2] # c
    BY <1>1, NoFunctorOf
  <2>2. conn'[c] = "backlog" /\ c \notin connections /\ Unique(pending)
    BY <1>1 DEF OwnedInv, FunctorInv
  <2>. QED  BY <1>1, <1>2, <2>1, <2>2, FdsByClient
<1>6. FunctorInv' /\ OwnedInv'
  BY <1>1, <1>5 DEF FunctorInv, OwnedInv
<1>. QED  BY <1>2, <1>3, <1>4, <1>6

LEMMA handleReadKeepsFds ==
  ASSUME ServerInv, FdInv, fault = "none", handleRead
  PROVE  FdInv'
<1>. USE DEF FdInv
<1>. DEFINE c == Head(backlog)
            f == <<"established", c>>
<1>1. /\ UNCHANGED <<Ids, Base, Places, Functor, tpc, quit, selfQuit, opc, cur, loops>>
      /\ opc = "run" /\ backlog # <<>> /\ backlog' = Tail(backlog)
      /\ conn' = [conn EXCEPT ![c] = "connecting"]
      /\ ioLoop' = [ioLoop EXCEPT ![c] = last']
      /\ connections' = connections \cup {c}
      /\ last' = IF loops = <<>> THEN Base ELSE loops[next + 1]
      /\ Queue(last', f)
  BY DEF handleRead, newConnection, getNextLoop, threadVars, Ids, Base, Places, Functor
<1>2. backlog \in Seq(Clients) /\ c \in Clients /\ c = backlog[1] /\ 1 \in DOMAIN backlog
  BY <1>1 DEF ServerInv, ServerTypes
<1>3. last' \in Ids /\ last' # Base /\ last' \in Places
  <2>1. loops # <<>>
    BY <1>1, ThreadsAssumption, ServerAssumption DEF SetupInv, Ending
  <2>. QED  BY <1>1, <2>1, BaseIsNoId DEF ServerInv, ThreadTypes, OwnerInv
<1>4. opc \notin Ending /\ conn[c] = "backlog" /\ f \in Functor /\ f[1] = "established" /\ f[2] = c
  BY <1>1, <1>2 DEF BacklogInv, Ending, Functor
<1>5. /\ conn' \in [Clients -> ConnStates] /\ conn'[c] = "connecting"
      /\ \A d \in Clients \ {c} : conn'[d] = conn[d] /\ ioLoop'[d] = ioLoop[d]
      /\ ioLoop'[c] = last'
  BY <1>1, <1>2 DEF ConnStates, ServerInv, ServerTypes
<1>6. pending \in [Places -> Seq(Functor)]
  BY <1>4, PendingType
<1>7. /\ \/ fault' = fault /\ pending' = [pending EXCEPT ![last'] = Append(pending[last'], f)]
            /\ LoopAlive(last')
         \/ fault' = "freed" /\ pending' = pending
  BY <1>1 DEF Queue
<1>8. \A i \in Places : \A g \in Functor : In(pending, i, g) => g[2] # c
  BY <1>2, <1>4, NoFunctorOf
<1>. HIDE DEF f, c
<1>9. /\ Unique(pending')
      /\ \A i \in Places : \A g \in Functor :
           In(pending', i, g) => In(pending, i, g) \/ (i = last' /\ g = f)
      /\ \A i \in Places : \A g \in Functor : In(pending, i, g) => In(pending', i, g)
  <2>1. CASE pending' = pending
    BY <1>4, <2>1 DEF FunctorInv
  <2>2. CASE pending' = [pending EXCEPT ![last'] = Append(pending[last'], f)]
    <3>1. Unique(pending) /\ \A i \in Places : \A g \in Functor : In(pending, i, g) => g[2] # f[2]
      BY <1>4, <1>8 DEF FunctorInv
    <3>2. /\ \A i \in Places : \A g \in Functor :
               In(pending', i, g) <=> In(pending, i, g) \/ (i = last' /\ g = f)
          /\ Unique(pending')
      <4>1. pending' = Pushed(pending, last', f)
        BY <2>2 DEF Pushed
      <4>. QED  BY <1>3, <1>4, <1>6, <3>1, <4>1, PushFunctor
    <3>. QED  BY <3>2
  <2>. QED  BY <1>7, <2>1, <2>2
<1>10. FunctorInv' /\ OwnedInv'
  <2>1. \A i \in Places : \A g \in Functor : g[2] = c /\ In(pending', i, g) => FitsHere(i, g)'
    BY <1>4, <1>5, <1>8, <1>9 DEF FitsHere
  <2>2. \A i \in Places : \A g \in Functor : g[2] # c => (In(pending', i, g) <=> In(pending, i, g))
    BY <1>4, <1>9
  <2>. QED  BY <1>1, <1>2, <1>3, <1>4, <1>5, <1>7, <1>9, <2>1, <2>2, FdsByClient
<1>11. BacklogInv'
  <2>1. /\ DOMAIN backlog' = 1 .. Len(backlog) - 1
        /\ \A k \in DOMAIN backlog' : /\ k + 1 \in DOMAIN backlog /\ backlog'[k] = backlog[k + 1]
                                       /\ backlog[k + 1] \in Clients /\ k \in Nat \ {0}
    BY <1>1, <1>2
  <2>2. \A k \in DOMAIN backlog' : backlog'[k] # c
    BY <1>2, <1>4, <2>1 DEF BacklogInv
  <2>. QED  BY <1>1, <1>4, <1>5, <2>1, <2>2 DEF BacklogInv
<1>12. SetupInv'
  BY <1>1 DEF SetupInv
<1>13. BaseInv'
  <2>1. DOMAIN pending' = Places /\ pending'[Base] = pending[Base]
    BY <1>3, <1>6, <1>7, BaseIsNoId
  <2>. QED  BY <1>1, <1>4, <2>1 DEF BaseInv
<1>14. EndedInv'
  <2>1. \A i \in Ids : tpc[i] = "ended" => pending'[i] = pending[i]
    BY <1>3, <1>6, <1>7, BaseIsNoId DEF LoopAlive
  <2>. QED  BY <1>1, <1>4, <2>1 DEF EndedInv
<1>. QED  BY <1>5, <1>10, <1>11, <1>12, <1>13, <1>14

LEMMA removeKeepsFds ==
  ASSUME ServerInv, FdInv, fault = "none", removeConnectionInLoop
  PROVE  FdInv'
<1>. USE DEF FdInv
<1>. DEFINE h == Head(pending[Base])
            c == h[2]
            f == <<"destroyed", c>>
            rest == Popped(pending, Base)
<1>1. /\ UNCHANGED <<Ids, Base, Places, Functor, tpc, quit, selfQuit, opc, cur, loops, backlog,
                     conn, ioLoop>>
      /\ opc = "run" /\ pending[Base] # <<>> /\ connections' = connections \ {c}
      /\ IF LoopAlive(ioLoop[c])
         THEN /\ pending' = [pending EXCEPT ![Base] = Tail(@), ![ioLoop[c]] = Append(@, f)]
              /\ fault' = fault
         ELSE fault' = "freed" /\ pending' = pending
  BY DEF removeConnectionInLoop, Erased, threadPoolVars, threadVars, poolVars, Ids, Base,
     Places, Functor
<1>2. opc \notin Ending /\ pending \in [Places -> Seq(Functor)] /\ Unique(pending)
  BY <1>1, PendingType DEF Ending, FunctorInv
<1>3. h \in {"remove"} \X Clients
  BY <1>1 DEF BaseInv
<1>4. h[1] = "remove" /\ c \in Clients /\ f \in Functor /\ f[1] = "destroyed" /\ f[2] = c
  BY <1>3 DEF Functor
<1>5. /\ rest \in [Places -> Seq(Functor)] /\ h \in Functor /\ In(pending, Base, h)
      /\ \A i \in Places : \A g \in Functor : In(rest, i, g) <=> In(pending, i, g) /\ g[2] # c
      /\ Unique(rest)
  BY <1>1, <1>2, BaseIsNoId, PopFunctor
<1>6. conn[c] = "closed" /\ c \in connections
  BY <1>2, <1>4, <1>5, BaseIsNoId DEF FunctorInv, FitsHere
<1>7. ioLoop[c] \in Ids /\ ioLoop[c] # Base /\ ioLoop[c] \in Places
  BY <1>2, <1>4, <1>6, BaseIsNoId DEF OwnedInv
<1>8. pending' = [rest EXCEPT ![ioLoop[c]] = Append(rest[ioLoop[c]], f)] \/ pending' = pending
  BY <1>1 DEF Popped
<1>9. \/ /\ pending' = Pushed(rest, ioLoop[c], f) /\ fault' = fault
         /\ LoopAlive(ioLoop[c])
      \/ pending' = pending /\ fault' = "freed"
  BY <1>1 DEF Popped, Pushed
<1>10. /\ pending'[Base] \in {pending[Base], Tail(pending[Base])}
       /\ DOMAIN pending' = Places
       /\ fault' = "none" => \A i \in Ids : tpc[i] = "ended" => pending'[i] = pending[i]
  BY <1>2, <1>7, <1>9, BaseIsNoId DEF Pushed, Popped, LoopAlive
<1>. HIDE DEF rest, f, c, h
<1>11. /\ Unique(pending')
       /\ \A i \in Places : \A g \in Functor :
            g[2] # c => (In(pending', i, g) <=> In(pending, i, g))
       /\ \A i \in Places : \A g \in Functor :
            In(pending', i, g) /\ g[2] = c =>
              (g = f /\ i = ioLoop[c]) \/ (fault' # "none" /\ In(pending, i, g))
       /\ \E i \in Places : \E g \in Functor : In(pending', i, g) /\ g[2] = c
  <2>1. CASE pending' = Pushed(rest, ioLoop[c], f)
    <3>1. /\ Unique(pending')
          /\ \A i \in Places : \A g \in Functor :
               In(pending', i, g) <=> In(rest, i, g) \/ (i = ioLoop[c] /\ g = f)
      <4>1. \A i \in Places : \A g \in Functor : In(rest, i, g) => g[2] # f[2]
        BY <1>4, <1>5
      <4>2. rest \in [Places -> Seq(Functor)] /\ Unique(rest) /\ f \in Functor
        BY <1>4, <1>5
      <4>3. /\ Unique(Pushed(rest, ioLoop[c], f))
            /\ \A i \in Places : \A g \in Functor :
                 In(Pushed(rest, ioLoop[c], f), i, g)
                   <=> In(rest, i, g) \/ (i = ioLoop[c] /\ g = f)
        BY <1>7, <4>1, <4>2, PushFunctor
      <4>. QED  BY <2>1, <4>3
    <3>. QED  BY <1>4, <1>5, <1>7, <3>1
  <2>2. CASE pending' = pending /\ fault' = "freed"
    BY <1>2, <1>4, <1>5, <2>2, BaseIsNoId DEF c
  <2>. QED  BY <1>9, <2>1, <2>2
<1>12. FunctorInv' /\ OwnedInv'
  <2>1. \A i \in Places : \A g \in Functor : g[2] = c /\ In(pending', i, g) => FitsHere(i, g)'
    <3>. SUFFICES ASSUME NEW i \in Places, NEW g \in Functor, g[2] = c, In(pending', i, g)
                  PROVE  FitsHere(i, g)'
      OBVIOUS
    <3>1. CASE g = f /\ i = ioLoop[c]
      BY <1>1, <1>4, <1>6, <3>1 DEF FitsHere
    <3>2. CASE fault' # "none" /\ In(pending, i, g)
      BY <1>1, <1>2, <3>2 DEF FunctorInv, FitsHere
    <3>. QED  BY <1>11, <3>1, <3>2
  <2>2. conn' \in [Clients -> ConnStates] /\ conn'[c] = "closed" /\ ioLoop'[c] \in Ids
    BY <1>1, <1>6, <1>7
  <2>3. \A d \in Clients \ {c} : /\ conn'[d] = conn[d] /\ ioLoop'[d] = ioLoop[d]
                                 /\ d \in connections' <=> d \in connections
    BY <1>1
  <2>4. fault' = fault \/ fault' # "none"
    BY <1>9
  <2>. QED  BY <1>1, <1>2, <1>4, <1>11, <2>1, <2>2, <2>3, <2>4, FdsByClient
<1>13. SetupInv' /\ BacklogInv'
  BY <1>1 DEF SetupInv, BacklogInv
<1>14. BaseInv'
  <2>1. pending[Base] \in Seq({"remove"} \X Clients)
    BY DEF BaseInv
  <2>2. Tail(pending[Base]) \in Seq({"remove"} \X Clients)
    BY <1>1, <2>1
  <2>. QED  BY <1>1, <1>2, <1>10, <2>1, <2>2 DEF BaseInv
<1>15. EndedInv'
  BY <1>1, <1>2, <1>10 DEF EndedInv, Ending
<1>. QED  BY <1>1, <1>12, <1>13, <1>14, <1>15

LEMMA RunKeepsFds ==
  ASSUME ServerInv, FdInv, fault = "none", NEW i \in Ids, Serve(i)
  PROVE  FdInv'
<1>. USE DEF FdInv
<1>. DEFINE f == Head(pending[i])
            c == f[2]
<1>1. /\ UNCHANGED <<Ids, Base, Places, Functor, tpc, quit, selfQuit, opc, cur, loops, backlog,
                     ioLoop, connections, fault>>
      /\ pending[i] # <<>> /\ tpc[i] = "looping" /\ pending' = Popped(pending, i)
      /\ \/ f[1] = "established" /\ conn' = [conn EXCEPT ![c] = "up"]
         \/ f[1] = "destroyed" /\ conn' = [conn EXCEPT ![c] = "destroyed"]
  BY DEF Serve, RunEstablished, RunDestroyed, Run, threadPoolVars, threadVars, poolVars, Ids,
     Base, Places, Functor, Popped
<1>2. conn' \in [Clients -> ConnStates]
  BY <1>1 DEF ConnStates
<1>3. /\ DOMAIN pending' = Places
      /\ \A j \in Places \ {i} : pending'[j] = pending[j]
  BY <1>1 DEF BaseInv, Popped
<1>4. SetupInv'
  BY <1>1 DEF SetupInv
<1>5. BaseInv'
  BY <1>1, <1>3, BaseIsNoId DEF BaseInv
<1>6. EndedInv'
  BY <1>1, <1>3, BaseIsNoId DEF EndedInv
<1>7. CASE opc \in Ending
  BY <1>1, <1>2, <1>4, <1>5, <1>6, <1>7 DEF BacklogInv, FunctorInv, OwnedInv
<1>8. CASE opc \notin Ending
  <2>1. pending \in [Places -> Seq(Functor)] /\ Unique(pending) /\ i \in Places
    BY <1>8, PendingType, BaseIsNoId DEF FunctorInv
  <2>2. /\ f \in Functor /\ In(pending, i, f)
        /\ \A j \in Places : \A g \in Functor :
             In(pending', j, g) <=> In(pending, j, g) /\ g[2] # c
        /\ Unique(pending')
    BY <1>1, <2>1, PopFunctor
  <2>3. FitsHere(i, f) /\ c \in Clients
    BY <1>8, <2>1, <2>2 DEF FunctorInv, Functor
  <2>. HIDE DEF f
  <2>4. \/ conn[c] = "connecting" /\ conn'[c] = "up"
        \/ conn[c] = "closed" /\ conn'[c] = "destroyed" /\ c \notin connections
    BY <1>1, <2>3 DEF FitsHere
  <2>. HIDE DEF c
  <2>5. \A d \in Clients \ {c} : conn'[d] = conn[d]
    BY <1>1, <2>3
  <2>6. FunctorInv' /\ OwnedInv'
    <3>1. /\ conn'[c] \in {"connecting", "up"} => c \in connections'
          /\ c \in connections' => conn'[c] \in {"connecting", "up", "closed"}
          /\ conn'[c] \in {"connecting", "up", "closed"} => ioLoop'[c] \in Ids
          /\ conn'[c] # "closed"
      BY <1>1, <1>8, <2>3, <2>4 DEF OwnedInv
    <3>. QED  BY <1>1, <1>2, <1>8, <2>2, <2>3, <2>5, <3>1, FdsByClient
  <2>7. BacklogInv'
    <3>1. \A k \in DOMAIN backlog : backlog[k] \in Clients /\ backlog[k] # c
      BY <1>8, <2>4 DEF BacklogInv, ServerInv, ServerTypes
    <3>. QED  BY <1>1, <1>8, <2>5, <3>1 DEF BacklogInv
  <2>. QED  BY <1>2, <1>4, <1>5, <1>6, <2>6, <2>7
<1>. QED  BY <1>7, <1>8

LEMMA handleCloseKeepsFds ==
  ASSUME ServerInv, FdInv, fault = "none", NEW c \in Clients, handleClose(c)
  PROVE  FdInv'
<1>. USE DEF FdInv
<1>. DEFINE f == <<"remove", c>>
<1>1. /\ UNCHANGED <<Ids, Base, Places, Functor, tpc, quit, selfQuit, opc, cur, loops, backlog,
                     ioLoop, connections, fault>>
      /\ conn[c] = "up" /\ conn' = [conn EXCEPT ![c] = "closed"]
      /\ pending' = Pushed(pending, Base, f)
  BY DEF handleClose, threadPoolVars, threadVars, poolVars, Ids, Base, Places, Functor, Pushed
<1>2. /\ conn' \in [Clients -> ConnStates] /\ conn'[c] = "closed"
      /\ \A d \in Clients \ {c} : conn'[d] = conn[d]
  BY <1>1 DEF ConnStates
<1>3. /\ DOMAIN pending' = Places
      /\ \A i \in Places \ {Base} : pending'[i] = pending[i]
      /\ pending'[Base] = Append(pending[Base], f)
  BY <1>1, BaseIsNoId DEF BaseInv, Pushed
<1>4. f \in Functor /\ f[1] = "remove" /\ f[2] = c /\ f \in {"remove"} \X Clients
  BY DEF Functor
<1>. HIDE DEF f
<1>5. SetupInv'
  BY <1>1 DEF SetupInv
<1>6. BaseInv'
  BY <1>1, <1>3, <1>4 DEF BaseInv
<1>7. EndedInv'
  BY <1>1, <1>3, BaseIsNoId DEF EndedInv
<1>8. CASE opc \in Ending
  BY <1>1, <1>2, <1>5, <1>6, <1>7, <1>8 DEF BacklogInv, FunctorInv, OwnedInv
<1>9. CASE opc \notin Ending
  <2>1. /\ pending \in [Places -> Seq(Functor)] /\ Unique(pending)
        /\ \A i \in Places : \A g \in Functor : In(pending, i, g) => g[2] # f[2]
    BY <1>1, <1>4, <1>9, PendingType, NoFunctorOf DEF FunctorInv
  <2>2. /\ \A i \in Places : \A g \in Functor :
             In(pending', i, g) <=> In(pending, i, g) \/ (i = Base /\ g = f)
        /\ Unique(pending')
    BY <1>1, <1>4, <2>1, BaseIsNoId, PushFunctor
  <2>3. c \in connections /\ ioLoop[c] \in Ids
    BY <1>1, <1>9 DEF OwnedInv
  <2>4. \A i \in Places : \A g \in Functor : g[2] = c /\ In(pending', i, g) => FitsHere(i, g)'
    BY <1>1, <1>2, <1>4, <2>1, <2>2, <2>3 DEF FitsHere
  <2>5. \E i \in Places : \E g \in Functor : In(pending', i, g) /\ g[2] = c
    BY <1>4, <2>2, BaseIsNoId
  <2>6. \A i \in Places : \A g \in Functor : g[2] # c => (In(pending', i, g) <=> In(pending, i, g))
    BY <1>4, <2>2
  <2>7. FunctorInv' /\ OwnedInv'
    BY <1>1, <1>2, <1>9, <2>2, <2>3, <2>4, <2>5, <2>6, FdsByClient
  <2>8. BacklogInv'
    <3>1. \A k \in DOMAIN backlog : backlog[k] \in Clients /\ backlog[k] # c
      BY <1>1, <1>9 DEF BacklogInv, ServerInv, ServerTypes
    <3>. QED  BY <1>1, <1>2, <1>9, <3>1 DEF BacklogInv
  <2>. QED  BY <1>2, <1>5, <1>6, <1>7, <2>7, <2>8
<1>. QED  BY <1>8, <1>9

LEMMA LoopDestroyedKeepsFds ==
  ASSUME ServerInv, FdInv, fault = "none", NEW i \in Ids, LoopDestroyed(i)
  PROVE  FdInv'
<1>. USE DEF FdInv
<1>1. /\ UNCHANGED <<Ids, Base, Places, Functor, quit, selfQuit, opc, cur, loops, backlog, conn,
                     ioLoop, connections, fault>>
      /\ tpc[i] = "cleared" /\ tpc' = [tpc EXCEPT ![i] = "ended"]
      /\ pending' = Cleared(pending, i)
  BY DEF LoopDestroyed, ThreadEnds, ThreadGoes, poolVars, Ids, Base, Places, Functor, Cleared
<1>2. /\ DOMAIN pending' = Places /\ pending'[i] = <<>> /\ i # Base /\ i \in Places
      /\ \A j \in Places \ {i} : pending'[j] = pending[j]
  BY <1>1, BaseIsNoId DEF BaseInv, Cleared
<1>3. /\ \A j \in Ids \ {i} : tpc'[j] = tpc[j]
      /\ tpc'[i] = "ended"
  BY <1>1 DEF ServerInv, ThreadTypes
<1>4. SetupInv'
  <2>1. opc \notin Ending => \A j \in Ids : quit'[j] \/ tpc'[j] \in Left => j \in selfQuit'
    BY <1>1, <1>3 DEF SetupInv, Left
  <2>. QED  BY <1>1, <2>1 DEF SetupInv
<1>5. BaseInv'
  BY <1>1, <1>2, BaseIsNoId DEF BaseInv
<1>6. EndedInv'
  BY <1>1, <1>2, <1>3, BaseIsNoId DEF EndedInv
<1>7. BacklogInv'
  BY <1>1 DEF BacklogInv
<1>8. CASE opc \in Ending
  BY <1>1, <1>4, <1>5, <1>6, <1>7, <1>8 DEF FunctorInv, OwnedInv
<1>9. CASE opc \notin Ending
  <2>1. pending \in [Places -> Seq(Functor)] /\ Unique(pending)
    BY <1>9, PendingType DEF FunctorInv
  <2>2. /\ \A j \in Places : \A g \in Functor : In(pending', j, g) <=> In(pending, j, g) /\ j # i
        /\ Unique(pending')
    BY <1>1, <1>2, <2>1, ClearFunctors
  <2>3. FunctorInv'
    BY <1>1, <1>9, <2>2 DEF FunctorInv, FitsHere
  <2>4. i \in selfQuit
    BY <1>1, <1>9 DEF SetupInv, Left
  <2>5. ASSUME NEW c \in Clients, conn[c] = "closed"
        PROVE  \/ \E j \in Places : \E g \in Functor : In(pending', j, g) /\ g[2] = c
               \/ ioLoop[c] \in selfQuit
    <3>. SUFFICES ASSUME ioLoop[c] \notin selfQuit
                  PROVE  \E j \in Places : \E g \in Functor : In(pending', j, g) /\ g[2] = c
      OBVIOUS
    <3>1. PICK j \in Places, g \in Functor : In(pending, j, g) /\ g[2] = c
      BY <1>9, <2>5 DEF OwnedInv
    <3>2. FitsHere(j, g) /\ g[1] \in {"established", "destroyed", "remove"}
      BY <1>9, <3>1 DEF FunctorInv, Functor
    <3>3. j # i
      BY <1>2, <2>4, <2>5, <3>1, <3>2 DEF FitsHere
    <3>. QED  BY <2>2, <3>1, <3>3
  <2>6. OwnedInv'
    <3>1. \A c \in Clients : conn'[c] = "closed" =>
            \/ \E j \in Places' : \E g \in Functor' : In(pending', j, g) /\ g[2] = c
            \/ ioLoop'[c] \in selfQuit'
      BY <1>1, <2>5
    <3>2. \A c \in Clients :
            /\ conn'[c] \in {"connecting", "up"} => c \in connections'
            /\ c \in connections' => conn'[c] \in {"connecting", "up", "closed"}
            /\ conn'[c] \in {"connecting", "up", "closed"} => ioLoop'[c] \in Ids'
      BY <1>1, <1>9 DEF OwnedInv
    <3>. QED  BY <3>1, <3>2 DEF OwnedInv, In
  <2>. QED  BY <1>1, <1>4, <1>5, <1>6, <1>7, <2>3, <2>6
<1>. QED  BY <1>8, <1>9

\* ~TcpServer gives no functor to the base loop, and none to a loop that is gone.
LEMMA DestructorKeepsFds ==
  ASSUME ServerInv, FdInv, fault = "none", Destructor
  PROVE  FdInv'
<1>. USE DEF FdInv
<1>. DEFINE Of(i) == {<<"destroyed", c>> : c \in {d \in connections : ioLoop[d] = i}}
<1>1. /\ UNCHANGED <<Ids, Base, Places, tpc, conn>>
      /\ opc = "run" /\ opc' = "destroy" /\ cur' = 1 /\ connections' = {}
      /\ pending' = [i \in DOMAIN pending |-> pending[i] \o SetToSeq(Of(i))]
      /\ fault' = IF \E c \in connections : ~LoopAlive(ioLoop[c]) THEN "freed" ELSE fault
  BY DEF Destructor, BeginDestroy, threadVars, Ids, Base, Places
<1>2. pending \in [Places -> Seq(Functor)] /\ opc \notin Ending /\ opc' \in Ending
  BY <1>1, PendingType DEF Ending
<1>3. \A c \in connections : ioLoop[c] \in Ids
  BY <1>2 DEF OwnedInv, ServerInv, ServerTypes
<1>4. Of(Base) = {}
  BY <1>3, BaseIsNoId
<1>5. \A i \in Ids : fault' = "none" /\ tpc[i] = "ended" => Of(i) = {}
  BY <1>1, <1>3, BaseIsNoId DEF LoopAlive
<1>6. DOMAIN pending' = Places /\ \A i \in Places : pending'[i] = pending[i] \o SetToSeq(Of(i))
  BY <1>1, <1>2
<1>. HIDE DEF Of
<1>7. \A i \in Places : Of(i) = {} => pending'[i] = pending[i]
  <2>. SUFFICES ASSUME NEW i \in Places, Of(i) = {} PROVE pending'[i] = pending[i]
    OBVIOUS
  <2>1. pending'[i] = pending[i] \o <<>>
    BY <1>6, SeqOfNothing
  <2>. QED  BY <1>2, <2>1
<1>8. BaseInv'
  BY <1>1, <1>2, <1>4, <1>6, <1>7, BaseIsNoId DEF BaseInv
<1>9. EndedInv'
  <2>1. fault' = "none" => \A i \in Ids : tpc[i] = "ended" => pending'[i] = <<>>
    BY <1>5, <1>7, BaseIsNoId DEF EndedInv
  <2>2. \A i \in Ids : ~ (i < 1)
    BY DEF Ids
  <2>. QED  BY <1>1, <2>1, <2>2 DEF EndedInv
<1>. QED  BY <1>1, <1>2, <1>8, <1>9 DEF SetupInv, BacklogInv, FunctorInv, OwnedInv

LEMMA FdStep == ServerInv /\ FdInv /\ [Next]_vars => FdInv'
<1>. SUFFICES ASSUME ServerInv, FdInv, [Next]_vars
              PROVE  FdInv'
  OBVIOUS
<1>1. CASE UNCHANGED vars
  <2>1. UNCHANGED <<Ids, Base, Places, Functor, tpc, quit, selfQuit, opc, cur, loops, fault,
                    backlog, conn, ioLoop, connections, pending>>
    BY <1>1 DEF vars, serverVars, threadPoolVars, threadVars, poolVars, Ids, Base, Places, Functor
  <2>2. SetupInv' /\ BacklogInv' /\ FunctorInv'
    BY <2>1 DEF FdInv, SetupInv, BacklogInv, FunctorInv, FitsHere
  <2>3. OwnedInv' /\ BaseInv' /\ EndedInv'
    BY <2>1 DEF FdInv, OwnedInv, BaseInv, EndedInv, In
  <2>. QED  BY <2>1, <2>2, <2>3 DEF FdInv
<1>2. ASSUME fault = "none", OwnerMoves
      PROVE  FdInv'
  BY <1>2, PoolKeepsFds DEF OwnerMoves
<1>3. ASSUME fault = "none", listen \/ handleRead \/ removeConnectionInLoop \/ Destructor
      PROVE  FdInv'
  BY <1>3, ListenKeepsFds, handleReadKeepsFds, removeKeepsFds, DestructorKeepsFds
<1>4. ASSUME fault = "none", NEW c \in Clients, Connect(c) \/ handleClose(c)
      PROVE  FdInv'
  BY <1>4, ConnectKeepsFds, handleCloseKeepsFds
<1>5. ASSUME fault = "none", NEW i \in Ids, ThreadMoves(i)
      PROVE  FdInv'
  <2>1. CASE LoopDestroyed(i)
    BY <1>5, <2>1, LoopDestroyedKeepsFds
  <2>2. CASE (PostTid(i) \/ PublishLoop(i) \/ EnterLoop(i) \/ ExitLoop(i) \/ ClearLoop(i))
               /\ UNCHANGED serverVars
    BY <1>5, <2>2, PoolKeepsFds
  <2>. QED  BY <1>5, <2>1, <2>2 DEF ThreadMoves
<1>6. ASSUME fault = "none", NEW i \in Ids, Serve(i)
      PROVE  FdInv'
  BY <1>6, RunKeepsFds
<1>7. ASSUME fault = "none", NEW i \in Ids, SelfQuit(i), UNCHANGED serverVars
      PROVE  FdInv'
  BY <1>7, PoolKeepsFds
<1>. QED  BY <1>1, <1>2, <1>3, <1>4, <1>5, <1>6, <1>7 DEF Next

LEMMA FdsFollow == ServerInv /\ FdInv => FdsAccounted
<1>. SUFFICES ASSUME ServerInv, FdInv
              PROVE  FdsAccounted
  OBVIOUS
<1>. USE DEF FdInv
<1>1. ASSUME opc = "run", NEW c \in Clients
      PROVE  /\ conn[c] = "destroyed" => c \notin Open
             /\ conn[c] = "closed" => Queued(c) \/ ioLoop[c] \in selfQuit
             /\ conn[c] \in {"connecting", "up"} => c \in connections
  <2>1. opc \notin Ending /\ pending \in [Places -> Seq(Functor)]
    BY <1>1, PendingType DEF Ending
  <2>2. \A i \in Places : \A k \in DOMAIN pending[i] :
          pending[i][k] \in Functor /\ In(pending, i, pending[i][k])
    BY <2>1 DEF In
  <2>3. conn[c] = "destroyed" => ~ Queued(c) /\ c \notin connections
    <3>. SUFFICES ASSUME conn[c] = "destroyed" PROVE ~ Queued(c) /\ c \notin connections
      OBVIOUS
    <3>1. \A i \in Places : \A k \in DOMAIN pending[i] : pending[i][k][2] # c
      BY <2>1, <2>2, NoFunctorOf
    <3>. QED  BY <2>1, <3>1 DEF Queued, OwnedInv
  <2>4. \A i \in Places : \A f \in Functor : In(pending, i, f) /\ f[2] = c => Queued(c)
    BY DEF In, Queued
  <2>. QED  BY <2>1, <2>3, <2>4 DEF OwnedInv, Open
<1>2. ASSUME opc = "done", NEW c \in Open
      PROVE  <<"remove", c>> \in Range(pending[Base])
  <2>1. \A i \in Ids : tpc[i] = "ended"
    BY <1>2, ThreadsAssumption DEF EndedInv, Ending, Ids
  <2>2. \A i \in Ids : DOMAIN pending[i] = {}
    BY <1>2, <2>1 DEF EndedInv
  <2>3. connections = {} /\ DOMAIN pending = Places
    BY <1>2 DEF BaseInv, Ending
  <2>4. PICK i \in Places : \E k \in DOMAIN pending[i] : pending[i][k][2] = c
    BY <2>3 DEF Open, Queued
  <2>5. i = Base
    BY <2>2, <2>4 DEF Places
  <2>6. PICK k \in DOMAIN pending[Base] : pending[Base][k][2] = c
    BY <2>4, <2>5
  <2>7. pending[Base][k] \in {"remove"} \X Clients
    BY <2>6 DEF BaseInv
  <2>8. pending[Base][k] = <<"remove", c>>
    BY <2>6, <2>7
  <2>. QED  BY <2>6, <2>8 DEF Range
<1>. QED  BY <1>1, <1>2 DEF FdsAccounted

\* For every number of threads, clients and descriptors, and whichever loops end
\* themselves: newConnection(), removeConnectionInLoop() and the functors they queue
\* lose no connection, its descriptor is closed when it is destroyed, and ~TcpServer
\* leaves none but those that the base loop was still asked to remove.
THEOREM FdsAlwaysAccounted ==
  SafetySpec => []FdsAccounted
<1>1. Init => FdInv
  BY FdInit
<1>2. ServerInv /\ FdInv /\ [Next]_vars => FdInv'
  BY FdStep
<1>3. ServerInv /\ FdInv => FdsAccounted
  BY FdsFollow
<1>. QED  BY <1>1, <1>2, <1>3, ServerInvariant, PTL DEF SafetySpec
=============================================================================
