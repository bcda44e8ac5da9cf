-------------------------- MODULE AsyncLoggingProofs --------------------------
(* Proofs about AsyncLogging, for every size of the buffers and any number *)
(* of lines.                                                               *)
EXTENDS AsyncLogging, TLAPS, WellFoundedInduction

\* A fresh buffer is a buffer.
LEMMA FreshIsBuffer == Fresh \in Buffer /\ Fresh # None
<1>1. <<>> \in Seq(Nat)
  OBVIOUS
<1>2. Fresh \in Buffer
  BY <1>1 DEF Fresh, Buffer
<1> QED
  BY <1>2, LogAssumption

\* What the operations on a buffer return.
LEMMA BufferOps ==
  ASSUME NEW b \in Buffer, NEW line \in Nat
  PROVE  /\ AppendTo(b, line) \in Buffer
         /\ reset(b) \in Buffer
<1>1. b.lines \in Seq(Nat) /\ b.rest \in Seq(Nat)
  BY DEF Buffer
<1>2. Append(b.lines, line) \in Seq(Nat)
  BY <1>1
<1>3. b.rest # <<>> => Tail(b.rest) \in Seq(Nat)
  BY <1>1
<1>4. b.lines \o b.rest \in Seq(Nat) /\ <<>> \in Seq(Nat)
  BY <1>1
<1> QED
  BY <1>1, <1>2, <1>3, <1>4 DEF AppendTo, reset, Buffer

\* The logger starts in the invariant.
LEMMA InitBufferInv == Init => BufferInv
<1> SUFFICES ASSUME Init PROVE BufferInv
  OBVIOUS
<1>1. /\ currentBuffer = Fresh /\ nextBuffer = Fresh
      /\ newBuffer1 = Fresh /\ newBuffer2 = Fresh
      /\ buffers \in Seq(Buffer) /\ buffersToWrite \in Seq(Buffer)
      /\ Len(buffersToWrite) = 0
  BY DEF Init
<1>2. TypeOK
  BY <1>1, FreshIsBuffer DEF Init, TypeOK
<1> QED
  BY <1>1, <1>2, FreshIsBuffer DEF Init, BufferInv

\* append() takes the spare buffer only together with a push to buffers_.
LEMMA AppendKeepsInv == BufferInv /\ append => BufferInv'
<1> SUFFICES ASSUME BufferInv, append PROVE BufferInv'
  OBVIOUS
<1>t. TypeOK
  BY DEF BufferInv
<1>1. currentBuffer \in Buffer /\ appended + 1 \in Nat /\ None \notin Buffer
  BY <1>t, LogAssumption DEF BufferInv, TypeOK
<1>2. CASE avail(currentBuffer) > 1
  <2>1. currentBuffer' \in Buffer
    BY <1>1, <1>2, BufferOps DEF append
  <2> QED
    BY <1>1, <1>2, <1>t, <2>1 DEF append, BufferInv, TypeOK, backVars
<1>3. CASE ~(avail(currentBuffer) > 1)
  <2>1. PICK b \in NextBuffers :
          /\ buffers' = Append(buffers, currentBuffer)
          /\ currentBuffer' = AppendTo(b, appended + 1)
          /\ nextBuffer' = None
    BY <1>3 DEF append
  <2>2. [lines |-> <<>>, rest |-> <<Junk>>] \in Buffer
    BY DEF Buffer, Junk
  <2>3. b \in Buffer
    BY <2>2, <1>t, FreshIsBuffer DEF NextBuffers, TypeOK
  <2>4. currentBuffer' \in Buffer
    BY <1>1, <2>1, <2>3, BufferOps
  <2>5. buffers' \in Seq(Buffer) /\ buffers' # <<>>
    BY <1>1, <1>t, <2>1 DEF TypeOK
  <2> QED
    BY <1>1, <1>t, <2>1, <2>4, <2>5 DEF append, BufferInv, TypeOK, backVars
<1> QED
  BY <1>2, <1>3

\* If the swap gives newBuffer2 away, buffers_ was not empty.
LEMMA SwapKeepsInv == BufferInv /\ SwapBuffers => BufferInv'
<1> SUFFICES ASSUME BufferInv, SwapBuffers PROVE BufferInv'
  OBVIOUS
<1>t. TypeOK
  BY DEF BufferInv
<1>1. currentBuffer \in Buffer /\ newBuffer1 # None /\ newBuffer2 # None
  BY <1>t DEF BufferInv, TypeOK, SwapBuffers
<1>2. /\ buffersToWrite' \in Seq(Buffer)
      /\ Len(buffersToWrite') = Len(buffers) + 1
      /\ Len(buffers) \in Nat
      /\ buffers # <<>> => Len(buffers) >= 1
  BY <1>1, <1>t DEF TypeOK, SwapBuffers
<1>3. newBuffer2' = None => Len(buffersToWrite') >= 2
  BY <1>1, <1>2 DEF BufferInv, SwapBuffers
<1>4. nextBuffer' # None
  BY <1>1 DEF SwapBuffers
<1>5. TypeOK'
  BY <1>t, <1>2 DEF TypeOK, SwapBuffers
<1>6. written' <= Len(buffersToWrite')
  <2>1. written = 0
    BY <1>t DEF BufferInv, SwapBuffers, TypeOK
  <2> QED
    BY <1>2, <2>1 DEF SwapBuffers
<1> QED
  BY <1>1, <1>2, <1>3, <1>4, <1>5, <1>6 DEF BufferInv, SwapBuffers

\* The vector has enough buffers for those that are missing.
LEMMA ReturnKeepsInv == BufferInv /\ ReturnBuffers => BufferInv'
<1> SUFFICES ASSUME BufferInv, ReturnBuffers PROVE BufferInv'
  OBVIOUS
<1> DEFINE kept == Kept(Len(buffersToWrite))
           second == IF newBuffer1 = None THEN kept - 1 ELSE kept
<1>t. TypeOK
  BY DEF BufferInv
<1>1. Len(buffersToWrite) \in Nat /\ Len(buffersToWrite) >= 1
  BY <1>t DEF BufferInv, TypeOK, ReturnBuffers
<1>2. kept \in 1 .. Len(buffersToWrite)
  BY <1>1 DEF Kept
<1>3. newBuffer2 = None => second \in 1 .. Len(buffersToWrite)
  <2>1. newBuffer2 = None => Len(buffersToWrite) >= 2
    BY DEF BufferInv, ReturnBuffers
  <2> QED
    BY <1>1, <2>1 DEF Kept
<1>4. \A i \in 1 .. Len(buffersToWrite) : reset(buffersToWrite[i]) \in Buffer
  <2>1. \A i \in 1 .. Len(buffersToWrite) : buffersToWrite[i] \in Buffer
    BY <1>t DEF TypeOK
  <2> QED
    BY <2>1, BufferOps
<1>5. newBuffer1' \in Buffer
  BY <1>2, <1>4, <1>t DEF ReturnBuffers, TypeOK
<1>6. newBuffer2' \in Buffer
  <2>1. CASE newBuffer2 = None
    <3>1. newBuffer2' = reset(buffersToWrite[second])
      BY <2>1 DEF ReturnBuffers
    <3> QED
      BY <2>1, <3>1, <1>3, <1>4
  <2>2. CASE newBuffer2 # None
    BY <2>2, <1>t DEF ReturnBuffers, TypeOK
  <2> QED
    BY <2>1, <2>2
<1>7. /\ buffersToWrite' = <<>> /\ written' = 0 /\ pc' = "test"
      /\ UNCHANGED <<currentBuffer, nextBuffer, buffers, off, running, appended>>
  BY DEF ReturnBuffers, frontVars
<1>8. newBuffer1' # None /\ newBuffer2' # None
  BY <1>5, <1>6, LogAssumption
<1>9. TypeOK'
  BY <1>5, <1>6, <1>7, <1>t DEF TypeOK
<1> QED
  BY <1>7, <1>8, <1>9 DEF BufferInv

\* Writing a buffer moves nothing but the index and the file.
LEMMA WriteKeepsInv == BufferInv /\ WriteBuffer => BufferInv'
<1> SUFFICES ASSUME BufferInv, WriteBuffer PROVE BufferInv'
  OBVIOUS
<1>t. TypeOK
  BY DEF BufferInv
<1>1. written + 1 \in 1 .. Len(buffersToWrite) /\ Len(buffersToWrite) \in Nat
  BY <1>t DEF TypeOK, WriteBuffer
<1>2. TypeOK'
  BY <1>1, <1>t DEF TypeOK, WriteBuffer, frontVars
<1> QED
  BY <1>1, <1>2 DEF BufferInv, WriteBuffer, frontVars

\* After a short write the backend is where it was, further on in the buffer.
LEMMA WriteShortKeepsInv == BufferInv /\ WriteShort => BufferInv'
<1> SUFFICES ASSUME BufferInv, WriteShort PROVE BufferInv'
  OBVIOUS
<1>1. TypeOK
  BY DEF BufferInv
<1>2. \E n \in Nat : off' = off + n
  BY DEF WriteShort
<1>3. TypeOK'
  BY <1>1, <1>2 DEF TypeOK, WriteShort, frontVars
<1> QED
  BY <1>3 DEF BufferInv, WriteShort, frontVars

\* Every step keeps the invariant.
LEMMA StepBufferInv == BufferInv /\ [Next]_vars => BufferInv'
<1> SUFFICES ASSUME BufferInv, [Next]_vars PROVE BufferInv'
  OBVIOUS
<1> USE DEF frontVars, backVars
<1>1. CASE start
  BY <1>1 DEF start, BufferInv, TypeOK
<1>2. CASE append
  BY <1>2, AppendKeepsInv
<1>3. CASE stop
  BY <1>3 DEF stop, BufferInv, TypeOK
<1>4. CASE TestRunning
  BY <1>4 DEF TestRunning, BufferInv, TypeOK
<1>5. CASE WaitForBuffers
  BY <1>5 DEF WaitForBuffers, BufferInv, TypeOK
<1>6. CASE SwapBuffers
  BY <1>6, SwapKeepsInv
<1>7. CASE WriteBuffer
  BY <1>7, WriteKeepsInv
<1>8. CASE ReturnBuffers
  BY <1>8, ReturnKeepsInv
<1>9. CASE UNCHANGED vars
  BY <1>9 DEF vars, BufferInv, TypeOK
<1>10. CASE OpenLogFile
  BY <1>10 DEF OpenLogFile, BufferInv, TypeOK
<1>11. CASE WriteShort
  BY <1>11, WriteShortKeepsInv
<1>12. CASE ClockStep
  BY <1>12 DEF ClockStep, BufferInv, TypeOK
<1> QED
  BY <1>1, <1>2, <1>3, <1>4, <1>5, <1>6, <1>7, <1>8, <1>9, <1>10, <1>11, <1>12 DEF Next, BackendStep

-----------------------------------------------------------------------------
\* The invariant of the five buffer pointers holds whatever the size of the
\* buffers and the number of lines.
THEOREM BufferInvariant == SafetySpec => []BufferInv
  BY InitBufferInv, StepBufferInv, PTL DEF SafetySpec

\* Neither append() nor the backend ever uses a null buffer or pops from an
\* empty vector.
THEOREM BuffersAlwaysSuffice == SafetySpec => []BuffersSuffice
<1>1. BufferInv => BuffersSuffice
  <2> SUFFICES ASSUME BufferInv PROVE BuffersSuffice
    OBVIOUS
  <2>1. Len(buffersToWrite) \in Nat
    BY DEF BufferInv, TypeOK
  <2>2. pc = "write" => Kept(Len(buffersToWrite)) >= Missing
    BY <2>1 DEF BufferInv, Kept, Missing
  <2> QED
    BY <2>2 DEF BufferInv, BuffersSuffice
<1> QED
  BY <1>1, BufferInvariant, PTL

-----------------------------------------------------------------------------
(* The files are rolled in time.                                           *)

\* The quotient by kRollPerSeconds, as a multiple below.
LEMMA PeriodBelow ==
  ASSUME NEW t \in Nat
  PROVE  /\ t \div kRollPerSeconds \in Nat
         /\ Period(t) \in Nat
         /\ Period(t) <= t /\ t < Period(t) + kRollPerSeconds
BY FileAssumption, Z3 DEF Period

\* A later time is not of an earlier day.
LEMMA PeriodMonotone ==
  ASSUME NEW a \in Nat, NEW b \in Nat, a <= b
  PROVE  Period(a) <= Period(b)
BY FileAssumption, Z3 DEF Period

\* The inductive invariant behind RollsInTime.  The file's day is that of its roll.
\* Unless the clock was set back, no roll is later than now; and once appends of
\* another day are in the file the day of now stays another one, so that each of
\* them has counted towards checkEveryN and the count can only end in a roll.
RollInv ==
  /\ now \in Nat /\ clockBack \in BOOLEAN
  /\ writtenBytes \in Nat /\ count \in Nat /\ count < checkEveryN
  /\ startOfPeriod \in Nat /\ lastRoll \in Nat /\ lastFlush \in Nat
  /\ lastAppend \in Nat /\ overdue \in Nat
  /\ startOfPeriod = Period(lastRoll)
  /\ writtenBytes > rollSize => lastAppend <= lastRoll
  /\ ~clockBack => /\ lastRoll <= now
                   /\ overdue <= count
                   /\ overdue > 0 => Period(now) > startOfPeriod

\* The file is opened in the invariant.
LEMMA InitRollInv == Init => RollInv
<1> SUFFICES ASSUME Init PROVE RollInv
  OBVIOUS
<1>1. Period(0) = 0
  BY PeriodBelow
<1>2. clockBack \in BOOLEAN
  BY DEF Init, FileInit
<1>3. /\ now = 1 /\ writtenBytes = 0 /\ count = 0 /\ startOfPeriod = 0 /\ lastRoll = 0
      /\ lastFlush = 0 /\ lastAppend = 0 /\ overdue = 0
  BY DEF Init, FileInit
<1>4. startOfPeriod = Period(lastRoll)
  BY <1>1, <1>3
<1> QED BY <1>2, <1>3, <1>4, FileAssumption DEF RollInv

\* rollFile() keeps it, when late counts as overdue would.
LEMMA RollFileKeepsInv ==
  ASSUME RollInv, NEW bytes \in Nat, NEW late \in Nat, rollFile(bytes, late),
         now' = now, clockBack' = clockBack,
         count' \in Nat, count' < checkEveryN, lastAppend' \in Nat,
         bytes > rollSize => lastAppend' <= now,
         MayRoll \/ clockBack \/ late <= count',
         MayRoll \/ clockBack \/ late = overdue
  PROVE  RollInv'
<1>1. CASE MayRoll
  <2>1. /\ lastRoll' = now /\ lastFlush' = now /\ startOfPeriod' = Period(now)
        /\ writtenBytes' = 0 /\ overdue' = 0
    BY <1>1 DEF rollFile
  <2>2. Period(now) \in Nat /\ Period(lastRoll)' = Period(now)
    BY <2>1, PeriodBelow DEF RollInv, Period
  <2> QED BY <2>1, <2>2, FileAssumption DEF RollInv
<1>2. CASE ~MayRoll
  <2>1. now <= lastRoll
    BY <1>2 DEF MayRoll, RollInv
  <2> QED BY <1>2, <2>1 DEF RollInv, rollFile, Period
<1> QED BY <1>1, <1>2

\* appendInLock() keeps it, whichever of the tests succeeds.
LEMMA AppendInLockKeepsInv ==
  ASSUME RollInv, NEW cells, appendInLock(cells, SIZE)
  PROVE  RollInv'
<1> DEFINE bytes == UpTo(rollSize + 1, writtenBytes + SIZE)
           late == IF Period(now) = startOfPeriod THEN overdue
                   ELSE UpTo(checkEveryN, overdue + 1)
<1>1. /\ bytes \in Nat /\ late \in Nat
      /\ now' = now /\ clockBack' = clockBack /\ lastAppend' = now
  BY FileAssumption, LogAssumption DEF RollInv, UpTo, appendInLock, clockVars
<1>2. Period(now) \in Nat
  BY PeriodBelow DEF RollInv
<1>3. ~clockBack => Period(now) >= startOfPeriod
  BY PeriodMonotone DEF RollInv
<1>4. ~clockBack => late <= count + 1
  BY <1>1, FileAssumption DEF RollInv, UpTo
<1>5. ~clockBack /\ ~MayRoll => Period(now) = startOfPeriod
  BY DEF MayRoll, RollInv
<1>6. ~clockBack /\ Period(now) = startOfPeriod => overdue = 0 /\ late = 0
  BY <1>2 DEF RollInv
<1> HIDE DEF bytes, late
<1>7. CASE bytes > rollSize
  <2>1. rollFile(bytes, late) /\ count' = count
    BY <1>7 DEF appendInLock, bytes, late
  <2> QED BY <1>1, <1>5, <1>6, <2>1, RollFileKeepsInv DEF RollInv
<1>8. CASE bytes <= rollSize /\ count + 1 < checkEveryN
  <2>1. Keep(bytes, late) /\ count' = count + 1
    BY <1>1, <1>8, FileAssumption DEF appendInLock, bytes, late
  <2>2. late > 0 /\ ~clockBack => Period(now) > startOfPeriod
    BY <1>2, <1>3, <1>6 DEF RollInv
  <2>3. Period(lastRoll)' = Period(lastRoll) /\ Period(now)' = Period(now)
    BY <1>1, <2>1 DEF Keep, Period
  <2> QED BY <1>1, <1>4, <1>8, <2>1, <2>2, <2>3, FileAssumption DEF RollInv, Keep
<1>9. CASE bytes <= rollSize /\ ~(count + 1 < checkEveryN)
  <2>0. count' = 0 /\ ~(bytes > rollSize)
    BY <1>1, <1>9, FileAssumption DEF appendInLock, bytes, late
  <2>1. CASE Period(now) # startOfPeriod
    <3>1. rollFile(bytes, late)
      BY <1>9, <2>0, <2>1 DEF appendInLock, bytes, late
    <3>2. MayRoll \/ clockBack
      BY <1>5, <2>1
    <3> QED BY <1>1, <2>0, <3>1, <3>2, FileAssumption, RollFileKeepsInv DEF RollInv
  <2>2. CASE Period(now) = startOfPeriod
    <3>1. /\ writtenBytes' = bytes /\ overdue' = late
          /\ startOfPeriod' = startOfPeriod /\ lastRoll' = lastRoll
          /\ lastFlush' \in Nat
      BY <1>9, <2>0, <2>2 DEF appendInLock, bytes, late, Keep, RollInv
    <3> QED BY <1>1, <1>6, <1>9, <2>0, <2>2, <3>1, FileAssumption DEF RollInv, Period
  <2> QED BY <2>1, <2>2
<1> QED BY <1>1, <1>7, <1>8, <1>9, FileAssumption DEF RollInv

\* The clock goes on, or is set back.
LEMMA ClockKeepsRollInv == RollInv /\ SetClock => RollInv'
<1> SUFFICES ASSUME RollInv, SetClock PROVE RollInv'
  OBVIOUS
<1>1. now' \in Nat /\ clockBack' \in BOOLEAN
  BY FileAssumption DEF SetClock, RollInv
<1>2. ~clockBack' => now' >= now /\ ~clockBack
  <2>1. clockBack \/ now' < now => clockBack'
    BY DEF SetClock
  <2> QED BY <1>1, <2>1 DEF RollInv
<1>3. ~clockBack' => Period(now') >= Period(now)
  BY <1>1, <1>2, PeriodMonotone DEF RollInv
<1>4. Period(now) \in Nat /\ Period(now') \in Nat
  BY <1>1, PeriodBelow DEF RollInv
<1> HIDE DEF Period
<1>5. Period(lastRoll') = Period(lastRoll)
  BY DEF SetClock, rollVars
<1>6. Period(now)' = Period(now')
  BY DEF Period
<1>7. Period(lastRoll)' = Period(lastRoll')
  BY DEF Period
<1> QED BY <1>1, <1>2, <1>3, <1>4, <1>5, <1>6, <1>7 DEF RollInv, SetClock, rollVars

\* Every step keeps it.
LEMMA StepRollInv == RollInv /\ [Next]_vars => RollInv'
<1> SUFFICES ASSUME RollInv, [Next]_vars PROVE RollInv'
  OBVIOUS
<1>1. CASE UNCHANGED fileVars
  BY <1>1 DEF fileVars, clockVars, rollVars, RollInv, Period
<1>2. CASE OpenLogFile
  <2>1. rollFile(0, 0) /\ UNCHANGED <<now, clockBack, count, lastAppend>>
    BY <1>2 DEF OpenLogFile, OpenFile, clockVars
  <2>2. overdue = 0 \/ MayRoll \/ clockBack
    BY <2>1 DEF RollInv, MayRoll
  <2>3. ~(0 > rollSize) /\ 0 <= count'
    BY <2>1, FileAssumption DEF RollInv
  <2> QED BY <2>1, <2>2, <2>3, RollFileKeepsInv DEF RollInv
<1>3. CASE WriteShort
  BY <1>3 DEF WriteShort, WriteSome, clockVars, rollVars, RollInv, Period
<1>4. CASE WriteBuffer
  BY <1>4, AppendInLockKeepsInv DEF WriteBuffer
<1>5. CASE ReturnBuffers
  BY <1>5 DEF ReturnBuffers, flush, clockVars, rollVars, RollInv, Period
<1>6. CASE ClockStep
  BY <1>6, ClockKeepsRollInv DEF ClockStep
<1> QED
  BY <1>1, <1>2, <1>3, <1>4, <1>5, <1>6
  DEF Next, BackendStep, start, append, stop, TestRunning, WaitForBuffers,
      SwapBuffers, vars

\* A file is rolled in time, for every size, interval and number of buffers: one that
\* is too large took nothing after the second of its beginning, and fewer than
\* checkEveryN_ appends of another day go to a file, unless the clock is set back.
THEOREM RollsInTimeAlways == SafetySpec => []RollsInTime
<1>1. RollInv => RollsInTime
  BY FileAssumption DEF RollInv, RollsInTime
<1> QED BY <1>1, InitRollInv, StepRollInv, PTL DEF SafetySpec

-----------------------------------------------------------------------------
(* Lines are conserved.  First, what FlattenSeq() computes.                *)

\* A set of numbers has a least one.  Induction is done with it: the least number that
\* does not have a property is looked at.
LEMMA LeastElement ==
  ASSUME NEW S \in SUBSET Nat, S # {}
  PROVE  \E x \in S : \A y \in Nat : y < x => y \notin S
<1> DEFINE R == {ss \in Nat \X Nat : ss[1] < ss[2]}
<1>1. IsWellFoundedOn(R, Nat)
  BY NatLessThanWellFounded DEF OpToRel
<1>2. \A x, y \in Nat : <<y, x>> \notin R => ~ (y < x)
  OBVIOUS
<1> HIDE DEF R
<1>3. \E x \in S : \A y \in S : <<y, x>> \notin R
  BY <1>1, WFMin
<1> QED BY <1>2, <1>3

\* The lines of one buffer.
Lines == Seq(Nat)

\* Sequences of lines are put together, nothing being neutral.
LEMMA Concat ==
  ASSUME NEW s \in Lines, NEW t \in Lines
  PROVE  /\ s \o t \in Lines /\ <<>> \in Lines
         /\ <<>> \o s = s /\ s \o <<>> = s
BY DEF Lines

\* The order of putting together does not matter.
LEMMA ConcatAssociates ==
  ASSUME NEW s \in Lines, NEW t \in Lines, NEW u \in Lines
  PROVE  (s \o t) \o u = s \o (t \o u)
BY DEF Lines

\* f[i] is the concatenation of the first i of ss, for all i up to m.
Joins(f, ss, m) ==
  /\ f \in [1 .. m -> Lines]
  /\ m >= 1 => f[1] = ss[1]
  /\ \A i \in 1 .. m - 1 : f[i + 1] = f[i] \o ss[i + 1]

\* The concatenations exist.
LEMMA JoinsExists ==
  ASSUME NEW ss \in Seq(Lines), NEW n \in 0 .. Len(ss)
  PROVE  \E f : Joins(f, ss, n)
<1> DEFINE Bad == {m \in 0 .. Len(ss) : ~ \E f : Joins(f, ss, m)}
<1>0. Bad \in SUBSET Nat /\ \A m \in Bad : m \in 0 .. Len(ss) /\ ~ \E f : Joins(f, ss, m)
  OBVIOUS
<1>00. \A m \in 0 .. Len(ss) : m \notin Bad => \E f : Joins(f, ss, m)
  OBVIOUS
<1> HIDE DEF Bad
<1> SUFFICES ASSUME Bad # {} PROVE FALSE
  BY <1>00
<1>1. PICK m \in Bad : \A k \in Nat : k < m => k \notin Bad
  BY <1>0, LeastElement
<1>2. m \in 0 .. Len(ss) /\ (~ \E f : Joins(f, ss, m)) /\ Len(ss) \in Nat
  BY <1>0
<1>3. CASE m = 0
  <2> DEFINE f == [i \in 1 .. 0 |-> <<>>]
  <2>1. Joins(f, ss, 0)
    BY DEF Joins
  <2> QED BY <1>2, <1>3, <2>1
<1>4. CASE m = 1
  <2> DEFINE f == [i \in 1 .. 1 |-> ss[1]]
  <2>0. ss[1] \in Lines
    BY <1>2, <1>4
  <2>1. Joins(f, ss, 1)
    BY <2>0 DEF Joins
  <2> QED BY <1>2, <1>4, <2>1
<1>5. CASE m > 1
  <2>1. m - 1 \in 0 .. Len(ss) /\ m - 1 \in Nat /\ m - 1 < m /\ m \in Nat
    BY <1>2, <1>5
  <2>2. PICK g : Joins(g, ss, m - 1)
    BY <1>00, <1>1, <2>1
  <2> DEFINE f == [i \in 1 .. m |-> IF i = m THEN g[m - 1] \o ss[m] ELSE g[i]]
  <2>3. \A i \in 1 .. m - 1 : g[i] \in Lines
    BY <2>2 DEF Joins
  <2>4. ss[m] \in Lines /\ g[m - 1] \in Lines
    BY <1>2, <1>5, <2>1, <2>3
  <2>5. f \in [1 .. m -> Lines]
    BY <2>1, <2>3, <2>4, Concat
  <2>6. ASSUME NEW i \in 1 .. m - 1 PROVE f[i + 1] = f[i] \o ss[i + 1]
    <3>1. CASE i = m - 1
      <4>1. i + 1 = m /\ i + 1 \in 1 .. m /\ i \in 1 .. m /\ i # m
        BY <1>5, <2>1, <3>1
      <4>2. f[i + 1] = g[m - 1] \o ss[m] /\ f[i] = g[i]
        BY <4>1
      <4> QED BY <3>1, <4>1, <4>2
    <3>2. CASE i < m - 1
      <4>1. i \in 1 .. (m - 1) - 1 /\ i + 1 \in 1 .. m /\ i \in 1 .. m /\ i # m /\ i + 1 # m
        BY <2>1, <3>2
      <4>2. f[i + 1] = g[i + 1] /\ f[i] = g[i]
        BY <4>1
      <4>3. g[i + 1] = g[i] \o ss[i + 1]
        BY <2>2, <4>1 DEF Joins
      <4> QED BY <4>2, <4>3
    <3>3. i = m - 1 \/ i < m - 1
      BY <2>1
    <3> QED BY <3>1, <3>2, <3>3
  <2>7. f[1] = ss[1]
    BY <1>5, <2>1, <2>2 DEF Joins
  <2> HIDE DEF f
  <2>8. Joins(f, ss, m)
    BY <2>5, <2>6, <2>7 DEF Joins
  <2> QED BY <1>2, <2>8
<1> QED BY <1>2, <1>3, <1>4, <1>5

\* Where two sequences agree their concatenations do.
LEMMA JoinsAgree ==
  ASSUME NEW ss, NEW tt, NEW f, NEW g, NEW m \in Nat, NEW n \in Nat,
         Joins(f, ss, m), Joins(g, tt, n), NEW k \in Nat, k <= m, k <= n,
         \A i \in 1 .. k : ss[i] = tt[i]
  PROVE  \A i \in 1 .. k : f[i] = g[i]
<1> DEFINE Bad == {i \in 1 .. k : f[i] # g[i]}
<1>0. Bad \in SUBSET Nat /\ \A i : i \in Bad <=> i \in 1 .. k /\ f[i] # g[i]
  OBVIOUS
<1> HIDE DEF Bad
<1> SUFFICES ASSUME Bad # {} PROVE FALSE
  BY <1>0
<1>1. PICK i \in Bad : \A j \in Nat : j < i => j \notin Bad
  BY <1>0, LeastElement
<1>2. i \in 1 .. k /\ f[i] # g[i]
  BY <1>0
<1>3. i # 1
  BY <1>2 DEF Joins
<1> DEFINE j == i - 1
<1>4. j \in 1 .. k /\ j \in Nat /\ j < i /\ j + 1 = i /\ j \in 1 .. m - 1 /\ j \in 1 .. n - 1
  BY <1>2, <1>3
<1> HIDE DEF j
<1>5. f[j] = g[j]
  BY <1>0, <1>1, <1>4
<1>6. f[j + 1] = f[j] \o ss[j + 1] /\ g[j + 1] = g[j] \o tt[j + 1]
  BY <1>4 DEF Joins
<1> QED BY <1>2, <1>4, <1>5, <1>6

\* FlattenSeq() is the last of them.
LEMMA FlattenIsJoin ==
  ASSUME NEW ss \in Seq(Lines), ss # <<>>, NEW f, Joins(f, ss, Len(ss))
  PROVE  FlattenSeq(ss) = f[Len(ss)]
<1> DEFINE n == Len(ss)
            Eq(h) == h = [i \in 1 .. n |-> IF i = 1 THEN ss[i] ELSE h[i - 1] \o ss[i]]
            F == CHOOSE h : Eq(h)
<1>1. n \in Nat /\ n >= 1
  OBVIOUS
<1>2. FlattenSeq(ss) = F[n]
  BY <1>1 DEF FlattenSeq
<1> HIDE DEF n
<1>3. Eq(f)
  <2>1. f = [i \in 1 .. n |-> f[i]]
    BY DEF Joins, n
  <2>2. ASSUME NEW i \in 1 .. n PROVE f[i] = IF i = 1 THEN ss[i] ELSE f[i - 1] \o ss[i]
    <3>1. CASE i = 1
      BY <1>1, <3>1 DEF Joins, n
    <3>2. CASE i # 1
      <4>1. i - 1 \in 1 .. n - 1 /\ (i - 1) + 1 = i
        BY <1>1, <3>2
      <4>2. f[(i - 1) + 1] = f[i - 1] \o ss[(i - 1) + 1]
        BY <4>1 DEF Joins, n
      <4> QED BY <3>2, <4>1, <4>2
    <3> QED BY <3>1, <3>2
  <2> QED BY <2>1, <2>2
<1>4. Eq(F)
  <2> HIDE DEF Eq
  <2> QED BY <1>3
<1> HIDE DEF F
<1>5. /\ F[1] = ss[1]
      /\ \A i \in 1 .. n - 1 : F[i + 1] = F[i] \o ss[i + 1]
  <2>1. \A i \in 1 .. n : F[i] = IF i = 1 THEN ss[i] ELSE F[i - 1] \o ss[i]
    BY <1>4
  <2>2. F[1] = ss[1]
    BY <1>1, <2>1
  <2>3. ASSUME NEW i \in 1 .. n - 1 PROVE F[i + 1] = F[i] \o ss[i + 1]
    <3>1. i + 1 \in 1 .. n /\ i + 1 # 1 /\ (i + 1) - 1 = i
      BY <1>1
    <3> QED BY <2>1, <3>1
  <2> QED BY <2>2, <2>3
<1> DEFINE Bad == {i \in 1 .. n : F[i] # f[i]}
<1>6. Bad = {}
  <2>0. Bad \in SUBSET Nat /\ \A i : i \in Bad <=> i \in 1 .. n /\ F[i] # f[i]
    OBVIOUS
  <2> HIDE DEF Bad
  <2> SUFFICES ASSUME Bad # {} PROVE FALSE
    OBVIOUS
  <2>1. PICK i \in Bad : \A j \in Nat : j < i => j \notin Bad
    BY <2>0, LeastElement
  <2>2. i \in 1 .. n /\ F[i] # f[i]
    BY <2>0
  <2>3. i # 1
    BY <1>1, <1>5, <2>2 DEF Joins, n
  <2> DEFINE j == i - 1
  <2>4. j \in 1 .. n /\ j \in Nat /\ j < i /\ j + 1 = i /\ j \in 1 .. n - 1
    BY <1>1, <2>2, <2>3
  <2> HIDE DEF j
  <2>5. F[j + 1] = F[j] \o ss[j + 1] /\ f[j + 1] = f[j] \o ss[j + 1]
    BY <1>5, <2>4 DEF Joins, n
  <2>6. F[j] = f[j]
    BY <2>0, <2>1, <2>4
  <2> QED BY <2>2, <2>4, <2>5, <2>6
<1>7. n \in 1 .. n
  BY <1>1
<1> QED BY <1>2, <1>6, <1>7 DEF n

\* What it is of nothing.
LEMMA FlattenNone == FlattenSeq(<<>>) = <<>>
BY DEF FlattenSeq

\* It is a sequence of lines.
LEMMA FlattenType ==
  ASSUME NEW ss \in Seq(Lines)
  PROVE  FlattenSeq(ss) \in Lines
<1>1. CASE ss = <<>>
  <2>1. <<>> \in Lines
    BY DEF Lines
  <2> QED BY <1>1, <2>1, FlattenNone
<1>2. CASE ss # <<>>
  <2>0. Len(ss) \in 0 .. Len(ss)
    OBVIOUS
  <2>1. PICK f : Joins(f, ss, Len(ss))
    BY <2>0, JoinsExists
  <2>2. FlattenSeq(ss) = f[Len(ss)] /\ Len(ss) \in 1 .. Len(ss)
    BY <1>2, <2>1, FlattenIsJoin
  <2> QED BY <2>1, <2>2 DEF Joins
<1> QED BY <1>1, <1>2

\* What it is of one sequence more at the end.
LEMMA FlattenAppend ==
  ASSUME NEW ss \in Seq(Lines), NEW s \in Lines
  PROVE  FlattenSeq(Append(ss, s)) = FlattenSeq(ss) \o s
<1> DEFINE tt == Append(ss, s)
            n == Len(ss)
<1>1. /\ n \in Nat /\ tt \in Seq(Lines) /\ tt # <<>> /\ Len(tt) = n + 1
      /\ tt[n + 1] = s /\ \A i \in 1 .. n : ss[i] = tt[i]
  OBVIOUS
<1>0. n \in 0 .. Len(ss) /\ n + 1 \in 0 .. n + 1 /\ (ss # <<>> => n >= 1)
  OBVIOUS
<1> HIDE DEF tt
<1>2. PICK g : Joins(g, tt, n + 1)
  BY <1>0, <1>1, JoinsExists
<1>3. FlattenSeq(tt) = g[n + 1]
  BY <1>1, <1>2, FlattenIsJoin
<1>4. CASE ss = <<>>
  <2>1. n = 0 /\ FlattenSeq(ss) = <<>>
    BY <1>4, FlattenNone
  <2>2. g[1] = s
    BY <1>1, <1>2, <2>1 DEF Joins
  <2> QED BY <1>3, <2>1, <2>2, Concat DEF tt
<1>5. CASE ss # <<>>
  <2>1. PICK f : Joins(f, ss, n)
    BY <1>0, <1>1, JoinsExists
  <2>2. n >= 1 /\ FlattenSeq(ss) = f[n] /\ n \in 1 .. n
    BY <1>0, <1>1, <1>5, <2>1, FlattenIsJoin
  <2> HIDE DEF n
  <2>3. f[n] = g[n]
    <3>1. n \in Nat /\ n + 1 \in Nat /\ n <= n /\ n <= n + 1 /\ \A i \in 1 .. n : ss[i] = tt[i]
      BY <1>1
    <3>2. \A i \in 1 .. n : f[i] = g[i]
      BY <1>2, <2>1, <3>1, JoinsAgree
    <3> QED BY <2>2, <3>2
  <2>4. g[n + 1] = g[n] \o s
    <3>1. n \in 1 .. (n + 1) - 1
      BY <1>1, <2>2
    <3> QED BY <1>1, <1>2, <3>1 DEF Joins
  <2> QED BY <1>3, <2>2, <2>3, <2>4 DEF tt
<1> QED BY <1>4, <1>5

\* What it is of one sequence more at the beginning.
LEMMA FlattenHead ==
  ASSUME NEW ss \in Seq(Lines), ss # <<>>
  PROVE  FlattenSeq(ss) = ss[1] \o FlattenSeq(Tail(ss))
<1> DEFINE tt == Tail(ss)
            n == Len(ss)
            m == n - 1
<1>b. n \in Nat /\ n >= 1 /\ n \in 0 .. Len(ss)
  OBVIOUS
<1>c. tt \in Seq(Lines) /\ Len(tt) = m
  OBVIOUS
<1>d. \A i \in 1 .. n : ss[i] \in Lines
  OBVIOUS
<1>1. /\ n \in Nat /\ n >= 1 /\ tt \in Seq(Lines) /\ Len(tt) = m
      /\ \A i \in 1 .. n : ss[i] \in Lines
      /\ n \in 0 .. Len(ss)
  BY <1>b, <1>c, <1>d
<1>a. \A i \in 1 .. m : tt[i] = ss[i + 1]
  <2>1. \A i \in 1 .. Len(ss) - 1 : Tail(ss)[i] = ss[i + 1]
    OBVIOUS
  <2> QED BY <2>1
<1>2. tt = <<>> <=> n = 1
  <2>1. \A t \in Seq(Lines) : t = <<>> <=> Len(t) = 0
    OBVIOUS
  <2> HIDE DEF tt
  <2> QED BY <1>b, <1>c, <2>1
<1>0. n = Len(ss) /\ m \in Nat /\ n = m + 1 /\ ss[1] \in Lines /\ m \in 0 .. Len(tt)
  BY <1>1
<1> HIDE DEF tt, n, m
<1>3. PICK f : Joins(f, ss, n)
  BY <1>0, <1>1, JoinsExists
<1>4. FlattenSeq(ss) = f[n]
  BY <1>0, <1>3, FlattenIsJoin
<1>5. CASE m = 0
  <2>1. f[1] = ss[1] /\ FlattenSeq(tt) = <<>>
    BY <1>0, <1>1, <1>2, <1>3, <1>5, FlattenNone DEF Joins
  <2>2. FlattenSeq(ss) = ss[1] /\ ss[1] \o <<>> = ss[1]
    BY <1>0, <1>4, <1>5, <2>1, Concat
  <2> QED BY <2>1, <2>2 DEF tt
<1>6. CASE m # 0
  <2>1. PICK g : Joins(g, tt, m)
    BY <1>0, <1>1, JoinsExists
  <2>2. FlattenSeq(tt) = g[m]
    BY <1>0, <1>1, <1>2, <1>6, <2>1, FlattenIsJoin
  <2> DEFINE Bad == {i \in 1 .. m : f[i + 1] # ss[1] \o g[i]}
  <2>3. Bad = {}
    <3>a. \A i \in 1 .. m : i \in Bad <=> f[i + 1] # ss[1] \o g[i]
      BY Zenon
    <3>00. Bad \subseteq 1 .. m
      OBVIOUS
    <3>b. 1 .. m \subseteq Nat
      BY <1>0
    <3>0. Bad \in SUBSET Nat /\ \A i \in 1 .. m : i \in Bad <=> f[i + 1] # ss[1] \o g[i]
      BY <3>a, <3>b, <3>00
    <3> HIDE DEF Bad
    <3> SUFFICES ASSUME Bad # {} PROVE FALSE
      OBVIOUS
    <3>1. PICK i \in Bad : \A j \in Nat : j < i => j \notin Bad
      BY <3>0, LeastElement
    <3>2. i \in 1 .. m /\ f[i + 1] # ss[1] \o g[i]
      BY <3>0, <3>00
    <3>3. f[i + 1] = f[i] \o ss[i + 1]
      <4>1. i \in 1 .. n - 1
        BY <1>0, <3>2
      <4> QED BY <1>3, <4>1 DEF Joins
    <3>4. i # 1
      <4> SUFFICES ASSUME i = 1 PROVE FALSE
        OBVIOUS
      <4>1. f[1] = ss[1] /\ g[1] = tt[1]
        BY <1>0, <1>3, <1>6, <2>1 DEF Joins
      <4>2. tt[i] = ss[i + 1]
        BY <1>a, <3>2
      <4> QED BY <3>2, <3>3, <4>1, <4>2
    <3> DEFINE j == i - 1
    <3>5. j \in 1 .. m /\ j \in Nat /\ j < i /\ j + 1 = i /\ j \in 1 .. m - 1 /\ i + 1 \in 1 .. n
      BY <1>0, <3>2, <3>4
    <3> HIDE DEF j
    <3>6. f[j + 1] = ss[1] \o g[j]
      BY <3>0, <3>1, <3>5
    <3>7. g[j + 1] = g[j] \o tt[j + 1] /\ g[j] \in Lines
      BY <2>1, <3>5 DEF Joins
    <3>8. tt[i] = ss[i + 1] /\ ss[i + 1] \in Lines
      BY <1>1, <1>a, <3>2, <3>5
    <3>9. f[i] = ss[1] \o g[j] /\ g[i] = g[j] \o ss[i + 1]
      BY <3>5, <3>6, <3>7, <3>8
    <3>10. (ss[1] \o g[j]) \o ss[i + 1] = ss[1] \o (g[j] \o ss[i + 1])
      BY <1>0, <3>7, <3>8, ConcatAssociates
    <3> QED BY <3>2, <3>3, <3>9, <3>10
  <2>4. m \in 1 .. m
    BY <1>0, <1>6
  <2>5. f[m + 1] = ss[1] \o g[m]
    BY <2>3, <2>4
  <2> QED BY <1>0, <1>4, <2>2, <2>5 DEF tt
<1> QED BY <1>5, <1>6

-----------------------------------------------------------------------------
(* The lines of several buffers.                                           *)

\* The lines of buffers, with one buffer more at either end.
LEMMA LinesOfOps ==
  /\ LinesOf(<<>>) = <<>>
  /\ \A bs \in Seq(Buffer) : LinesOf(bs) \in Lines
  /\ \A bs \in Seq(Buffer) : \A b \in Buffer : LinesOf(Append(bs, b)) = LinesOf(bs) \o b.lines
  /\ \A bs \in Seq(Buffer) : bs # <<>> => LinesOf(bs) = bs[1].lines \o LinesOf(Tail(bs))
<1> DEFINE seqs(bs) == [i \in DOMAIN bs |-> bs[i].lines]
<1>1. \A b \in Buffer : b.lines \in Lines
  BY DEF Buffer, Lines
<1>2. ASSUME NEW bs \in Seq(Buffer)
      PROVE  /\ seqs(bs) \in Seq(Lines) /\ Len(seqs(bs)) = Len(bs)
             /\ \A i \in 1 .. Len(bs) : seqs(bs)[i] = bs[i].lines
  <2>1. DOMAIN bs = 1 .. Len(bs) /\ Len(bs) \in Nat /\ \A i \in 1 .. Len(bs) : bs[i] \in Buffer
    OBVIOUS
  <2>2. \A i \in 1 .. Len(bs) : bs[i].lines \in Lines
    BY <1>1, <2>1
  <2>3. seqs(bs) = [i \in 1 .. Len(bs) |-> bs[i].lines]
    BY <2>1
  <2> HIDE DEF seqs
  <2> QED BY <2>1, <2>2, <2>3
<1>3. LinesOf(<<>>) = <<>>
  <2>1. seqs(<<>>) = <<>>
    OBVIOUS
  <2> QED BY <2>1, FlattenNone DEF LinesOf
<1>4. ASSUME NEW bs \in Seq(Buffer) PROVE LinesOf(bs) \in Lines
  <2>1. LinesOf(bs) = FlattenSeq(seqs(bs)) /\ seqs(bs) \in Seq(Lines)
    BY <1>2 DEF LinesOf
  <2> HIDE DEF seqs
  <2> QED BY <2>1, FlattenType
<1>5. ASSUME NEW bs \in Seq(Buffer), NEW b \in Buffer
      PROVE  LinesOf(Append(bs, b)) = LinesOf(bs) \o b.lines
  <2> DEFINE cs == Append(bs, b)
  <2>1. /\ LinesOf(bs) = FlattenSeq(seqs(bs)) /\ LinesOf(cs) = FlattenSeq(seqs(cs))
    BY DEF LinesOf
  <2>2. /\ cs \in Seq(Buffer) /\ Len(cs) = Len(bs) + 1 /\ Len(bs) \in Nat /\ cs[Len(bs) + 1] = b
        /\ \A i \in 1 .. Len(bs) : cs[i] = bs[i]
    OBVIOUS
  <2> HIDE DEF seqs, cs
  <2>3. /\ seqs(bs) \in Seq(Lines) /\ Len(seqs(bs)) = Len(bs)
        /\ seqs(cs) \in Seq(Lines) /\ Len(seqs(cs)) = Len(bs) + 1
        /\ \A i \in 1 .. Len(bs) : seqs(bs)[i] = bs[i].lines
        /\ \A i \in 1 .. Len(bs) + 1 : seqs(cs)[i] = cs[i].lines
    BY <1>2, <2>2
  <2>4. b.lines \in Lines
    BY <1>1
  <2>5. \A i \in 1 .. Len(bs) + 1 : seqs(cs)[i] = Append(seqs(bs), b.lines)[i]
    BY <2>2, <2>3, <2>4
  <2>6. /\ Append(seqs(bs), b.lines) \in Seq(Lines) /\ Len(Append(seqs(bs), b.lines)) = Len(bs) + 1
    BY <2>3, <2>4
  <2>7. seqs(cs) = Append(seqs(bs), b.lines)
    BY <2>3, <2>5, <2>6
  <2>8. FlattenSeq(Append(seqs(bs), b.lines)) = FlattenSeq(seqs(bs)) \o b.lines
    BY <2>3, <2>4, FlattenAppend
  <2> QED BY <2>1, <2>7, <2>8 DEF cs
<1>6. ASSUME NEW bs \in Seq(Buffer), bs # <<>>
      PROVE  LinesOf(bs) = bs[1].lines \o LinesOf(Tail(bs))
  <2> DEFINE cs == Tail(bs)
  <2>1. /\ LinesOf(bs) = FlattenSeq(seqs(bs)) /\ LinesOf(cs) = FlattenSeq(seqs(cs))
    BY DEF LinesOf
  <2>2. /\ cs \in Seq(Buffer) /\ Len(cs) = Len(bs) - 1 /\ Len(bs) \in Nat /\ Len(bs) >= 1
    BY <1>6
  <2>3. \A i \in 1 .. Len(bs) - 1 : cs[i] = bs[i + 1]
    BY <1>6
  <2> HIDE DEF seqs, cs
  <2>4. /\ seqs(bs) \in Seq(Lines) /\ Len(seqs(bs)) = Len(bs)
        /\ seqs(cs) \in Seq(Lines) /\ Len(seqs(cs)) = Len(bs) - 1
        /\ \A i \in 1 .. Len(bs) : seqs(bs)[i] = bs[i].lines
        /\ \A i \in 1 .. Len(bs) - 1 : seqs(cs)[i] = cs[i].lines
    BY <1>2, <2>2
  <2>5. \A ss \in Seq(Lines) : ss = <<>> <=> Len(ss) = 0
    OBVIOUS
  <2>6. seqs(bs) # <<>> /\ seqs(bs)[1] = bs[1].lines
    BY <2>2, <2>4, <2>5
  <2>7. /\ Tail(seqs(bs)) \in Seq(Lines) /\ Len(Tail(seqs(bs))) = Len(bs) - 1
        /\ \A i \in 1 .. Len(bs) - 1 : Tail(seqs(bs))[i] = seqs(bs)[i + 1]
    BY <2>2, <2>4, <2>6
  <2>8. \A i \in 1 .. Len(bs) - 1 : seqs(cs)[i] = Tail(seqs(bs))[i]
    <3> SUFFICES ASSUME NEW i \in 1 .. Len(bs) - 1 PROVE seqs(cs)[i] = Tail(seqs(bs))[i]
      OBVIOUS
    <3>1. i + 1 \in 1 .. Len(bs)
      BY <2>2
    <3> QED BY <2>3, <2>4, <2>7, <3>1
  <2>9. seqs(cs) = Tail(seqs(bs))
    BY <2>4, <2>7, <2>8
  <2>10. FlattenSeq(seqs(bs)) = seqs(bs)[1] \o FlattenSeq(Tail(seqs(bs)))
    BY <2>4, <2>6, FlattenHead
  <2> QED BY <2>1, <2>6, <2>9, <2>10 DEF cs
<1> QED BY <1>3, <1>4, <1>5, <1>6

\* The lines of the buffers from the j-th on.
From(bs, j) == LinesOf(SubSeq(bs, j, Len(bs)))

\* They are the lines of the j-th and those from the next on.
LEMMA FromOps ==
  ASSUME NEW bs \in Seq(Buffer)
  PROVE  /\ From(bs, 1) = LinesOf(bs)
         /\ From(bs, Len(bs) + 1) = <<>>
         /\ \A j \in 1 .. Len(bs) + 1 : From(bs, j) \in Lines
         /\ \A j \in 1 .. Len(bs) : From(bs, j) = bs[j].lines \o From(bs, j + 1)
<1>1. SubSeq(bs, 1, Len(bs)) = bs /\ SubSeq(bs, Len(bs) + 1, Len(bs)) = <<>>
  OBVIOUS
<1>2. ASSUME NEW j \in 1 .. Len(bs) + 1
      PROVE  /\ SubSeq(bs, j, Len(bs)) \in Seq(Buffer)
             /\ Len(SubSeq(bs, j, Len(bs))) = Len(bs) + 1 - j
             /\ \A i \in 1 .. Len(bs) + 1 - j : SubSeq(bs, j, Len(bs))[i] = bs[j + i - 1]
  OBVIOUS
<1>3. ASSUME NEW j \in 1 .. Len(bs)
      PROVE  From(bs, j) = bs[j].lines \o From(bs, j + 1)
  <2> DEFINE cs == SubSeq(bs, j, Len(bs))
              ds == SubSeq(bs, j + 1, Len(bs))
              n == Len(bs) - j
  <2>1. n \in Nat /\ j \in 1 .. Len(bs) + 1 /\ j + 1 \in 1 .. Len(bs) + 1
    OBVIOUS
  <2>2. /\ cs \in Seq(Buffer) /\ Len(cs) = n + 1 /\ ds \in Seq(Buffer) /\ Len(ds) = n
    BY <1>2, <2>1
  <2>3. /\ \A i \in 1 .. n + 1 : cs[i] = bs[j + i - 1]
        /\ \A i \in 1 .. n : ds[i] = bs[j + i]
    BY <1>2, <2>1
  <2>4. LinesOf(cs) = From(bs, j) /\ LinesOf(ds) = From(bs, j + 1)
    BY DEF From
  <2> HIDE DEF cs, ds, n
  <2>a. Len(bs) \in Nat /\ j + 1 - 1 = j /\ j \in Nat /\ 1 \in 1 .. n + 1
    BY <2>1
  <2>5. cs # <<>> /\ cs[1] = bs[j]
    <3>1. \A t \in Seq(Buffer) : t = <<>> => Len(t) = 0
      OBVIOUS
    <3>2. cs # <<>>
      BY <2>1, <2>2, <3>1
    <3>3. cs[1] = bs[j + 1 - 1]
      BY <2>3, <2>a
    <3> QED BY <2>a, <3>2, <3>3
  <2>6. Tail(cs) = ds
    <3>1. Tail(cs) \in Seq(Buffer) /\ Len(Tail(cs)) = n
      BY <2>1, <2>2, <2>5
    <3>2. \A i \in 1 .. n : Tail(cs)[i] = cs[i + 1]
      BY <2>1, <2>2, <2>5
    <3>3. ASSUME NEW i \in 1 .. n PROVE Tail(cs)[i] = ds[i]
      <4>1. i + 1 \in 1 .. n + 1 /\ j + (i + 1) - 1 = j + i
        BY <2>1, <2>a
      <4>2. cs[i + 1] = bs[j + (i + 1) - 1]
        BY <2>3, <4>1
      <4> QED BY <2>3, <3>2, <4>1, <4>2
    <3> QED BY <2>1, <2>2, <3>1, <3>3
  <2> QED BY <2>2, <2>4, <2>5, <2>6, LinesOfOps
<1> QED BY <1>1, <1>2, <1>3, LinesOfOps DEF From

-----------------------------------------------------------------------------
(* Numbered lines, and the file.                                           *)

\* The n numbers that come after a.
Num(a, n) == [i \in 1 .. n |-> a + i]

\* It is the sequence with these numbers at its places.
LEMMA NumIs ==
  ASSUME NEW u \in Lines, NEW a \in Nat, NEW n \in Nat
  PROVE  u = Num(a, n) <=> Len(u) = n /\ \A i \in 1 .. n : u[i] = a + i
<1>1. Num(a, n) \in Seq(Nat) /\ Len(Num(a, n)) = n /\ \A i \in 1 .. n : Num(a, n)[i] = a + i
  BY DEF Num
<1>2. u \in Seq(Nat)
  BY DEF Lines
<1>3. ASSUME Len(u) = n, \A i \in 1 .. n : u[i] = a + i PROVE u = Num(a, n)
  <2> DEFINE v == Num(a, n)
  <2>1. v \in Seq(Nat) /\ Len(v) = n /\ \A i \in 1 .. n : v[i] = u[i]
    BY <1>1, <1>3
  <2> HIDE DEF v
  <2>2. u = v
    BY <1>2, <1>3, <2>1
  <2> QED BY <2>2 DEF v
<1> QED BY <1>1, <1>3

\* The places of a concatenation.
LEMMA ConcatCells ==
  ASSUME NEW s \in Lines, NEW t \in Lines
  PROVE  /\ Len(s) \in Nat /\ Len(t) \in Nat /\ s \o t \in Lines
         /\ Len(s \o t) = Len(s) + Len(t)
         /\ \A i \in 1 .. Len(s) : (s \o t)[i] = s[i]
         /\ \A i \in 1 .. Len(t) : (s \o t)[Len(s) + i] = t[i]
BY DEF Lines

\* A sequence of consecutive numbers is cut in two, or made of two.
LEMMA NumSplit ==
  ASSUME NEW s \in Lines, NEW t \in Lines, NEW a \in Nat, NEW n \in Nat
  PROVE  s \o t = Num(a, n) <=>
           s = Num(a, Len(s)) /\ t = Num(a + Len(s), Len(t)) /\ n = Len(s) + Len(t)
<1> DEFINE r == s \o t
            x == Len(s)
            y == Len(t)
<1>1. /\ x \in Nat /\ y \in Nat /\ r \in Lines /\ Len(r) = x + y /\ a + x \in Nat
      /\ \A i \in 1 .. x : r[i] = s[i]
      /\ \A i \in 1 .. y : r[x + i] = t[i]
  BY ConcatCells
<1>0. x = Len(s) /\ y = Len(t)
  OBVIOUS
<1> SUFFICES r = Num(a, n) <=> s = Num(a, x) /\ t = Num(a + x, y) /\ n = x + y
  OBVIOUS
<1> HIDE DEF r, x, y
<1>2. /\ r = Num(a, n) <=> x + y = n /\ \A i \in 1 .. n : r[i] = a + i
      /\ s = Num(a, x) <=> \A i \in 1 .. x : s[i] = a + i
      /\ t = Num(a + x, y) <=> \A i \in 1 .. y : t[i] = (a + x) + i
  <2>1. r = Num(a, n) <=> Len(r) = n /\ \A i \in 1 .. n : r[i] = a + i
    BY <1>1, NumIs
  <2>2. s = Num(a, x) <=> Len(s) = x /\ \A i \in 1 .. x : s[i] = a + i
    BY <1>1, NumIs
  <2>3. t = Num(a + x, y) <=> Len(t) = y /\ \A i \in 1 .. y : t[i] = (a + x) + i
    BY <1>1, NumIs
  <2> QED BY <1>0, <1>1, <2>1, <2>2, <2>3
<1>3. ASSUME x + y = n, \A i \in 1 .. n : r[i] = a + i
      PROVE  (\A i \in 1 .. x : s[i] = a + i) /\ (\A i \in 1 .. y : t[i] = (a + x) + i)
  <2>1. ASSUME NEW i \in 1 .. x PROVE s[i] = a + i
    <3>1. i \in 1 .. n
      BY <1>1, <1>3
    <3> QED BY <1>1, <1>3, <3>1
  <2>2. ASSUME NEW i \in 1 .. y PROVE t[i] = (a + x) + i
    <3>1. x + i \in 1 .. n /\ a + (x + i) = (a + x) + i
      BY <1>1, <1>3
    <3>2. r[x + i] = t[i] /\ r[x + i] = a + (x + i)
      BY <1>1, <1>3, <3>1
    <3> QED BY <3>1, <3>2
  <2> QED BY <2>1, <2>2
<1>4. ASSUME x + y = n, \A i \in 1 .. x : s[i] = a + i, \A i \in 1 .. y : t[i] = (a + x) + i,
             NEW i \in 1 .. n
      PROVE  r[i] = a + i
  <2>1. CASE i \in 1 .. x
    BY <1>1, <1>4, <2>1
  <2>2. CASE i \notin 1 .. x
    <3>1. i - x \in 1 .. y /\ x + (i - x) = i /\ (a + x) + (i - x) = a + i
      BY <1>1, <1>4, <2>2
    <3>2. r[x + (i - x)] = t[i - x] /\ t[i - x] = (a + x) + (i - x)
      BY <1>1, <1>4, <3>1
    <3> QED BY <3>1, <3>2
  <2> QED BY <2>1, <2>2
<1> QED BY <1>2, <1>3, <1>4

\* s holds the n numbers that come after a.
IsNum(s, a, n) == s = Num(a, n)

\* The same, for the use of it.
LEMMA IsNumSplit ==
  ASSUME NEW s \in Lines, NEW t \in Lines, NEW a \in Nat, NEW n \in Nat
  PROVE  IsNum(s \o t, a, n) <=>
           IsNum(s, a, Len(s)) /\ IsNum(t, a + Len(s), Len(t)) /\ n = Len(s) + Len(t)
BY NumSplit DEF IsNum

\* m is the greatest of the numbers in s, and each number comes after the one before.
IsTop(s, m) == /\ \A i \in DOMAIN s : s[i] <= m
               /\ m = 0 \/ \E i \in DOMAIN s : s[i] = m
Ordered(s) == \A i \in DOMAIN s : s[i] > 1 => \E j \in 1 .. i - 1 : s[j] >= s[i] - 1

\* There is one such number, the one that InFile takes.
LEMMA TopIsMax ==
  ASSUME NEW s \in Seq(Nat), NEW m \in Nat, IsTop(s, m)
  PROVE  Max({0} \cup Range(s)) = m
<1> DEFINE S == {0} \cup Range(s)
<1>1. m \in S /\ \A y \in S : y \in Nat /\ m >= y
  BY DEF IsTop, Range
<1>2. Max(S) = CHOOSE x \in S : \A y \in S : x >= y
  BY DEF Max
<1> HIDE DEF S
<1>3. Max(S) \in S /\ \A y \in S : Max(S) >= y
  BY <1>1, <1>2
<1>4. Max(S) = m
  <2>1. Max(S) \in Nat /\ m \in Nat /\ m >= Max(S) /\ Max(S) >= m
    BY <1>1, <1>3
  <2> QED BY <2>1
<1> QED BY <1>4 DEF S

\* Writing the next k lines, and then old ones.
LEMMA FileGrows ==
  ASSUME NEW s \in Seq(Nat), NEW m \in Nat, IsTop(s, m), Ordered(s),
         NEW c \in Seq(Nat), NEW k \in 0 .. Len(c),
         \A i \in 1 .. k : c[i] = m + i,
         \A i \in k + 1 .. Len(c) : c[i] <= m
  PROVE  s \o c \in Seq(Nat) /\ IsTop(s \o c, m + k) /\ Ordered(s \o c)
<1> DEFINE r == s \o c
<1>1. /\ Len(s) \in Nat /\ Len(c) \in Nat /\ r \in Seq(Nat) /\ Len(r) = Len(s) + Len(c)
      /\ DOMAIN s = 1 .. Len(s) /\ DOMAIN r = 1 .. Len(s) + Len(c)
      /\ \A i \in 1 .. Len(s) : r[i] = s[i] /\ s[i] \in Nat
      /\ \A i \in 1 .. Len(c) : r[Len(s) + i] = c[i] /\ c[i] \in Nat
  OBVIOUS
<1> HIDE DEF r
<1>2. ASSUME NEW i \in DOMAIN r
      PROVE  \/ i \in 1 .. Len(s) /\ r[i] = s[i]
             \/ \E p \in 1 .. Len(c) : i = Len(s) + p /\ r[i] = c[p]
  <2>1. CASE i <= Len(s)
    BY <1>1, <2>1
  <2>2. CASE i > Len(s)
    <3>1. i - Len(s) \in 1 .. Len(c) /\ i = Len(s) + (i - Len(s))
      BY <1>1, <2>2
    <3> QED BY <1>1, <3>1
  <2> QED BY <1>1, <2>1, <2>2
<1>3. ASSUME NEW p \in 1 .. Len(c)
      PROVE  (p <= k /\ c[p] = m + p) \/ (p > k /\ c[p] <= m)
  <2>1. CASE p <= k
    <3>1. p \in 1 .. k
      BY <1>1, <2>1
    <3>2. c[p] = m + p
      BY <3>1, Zenon
    <3> QED BY <2>1, <3>2, Zenon
  <2>2. CASE p > k
    <3>1. p \in k + 1 .. Len(c)
      BY <1>1, <2>2
    <3> QED BY <2>2, <3>1
  <2> QED BY <1>1, <2>1, <2>2
<1>4. \A i \in DOMAIN r : r[i] <= m + k
  <2> SUFFICES ASSUME NEW i \in DOMAIN r PROVE r[i] <= m + k
    OBVIOUS
  <2>1. CASE i \in 1 .. Len(s) /\ r[i] = s[i]
    BY <1>1, <2>1 DEF IsTop
  <2>2. ASSUME NEW p \in 1 .. Len(c), r[i] = c[p] PROVE r[i] <= m + k
    <3>1. CASE p <= k /\ c[p] = m + p
      BY <2>2, <3>1
    <3>2. CASE p > k /\ c[p] <= m
      <4>1. c[p] \in Nat
        BY <1>1
      <4>2. \A v \in Nat : v <= m => v <= m + k
        OBVIOUS
      <4> QED BY <2>2, <3>2, <4>1, <4>2, Zenon
    <3> QED BY <1>3, <3>1, <3>2
  <2> QED BY <1>2, <2>1, <2>2
<1>5. m > 0 => \E j \in 1 .. Len(s) : r[j] = m
  BY <1>1 DEF IsTop
<1>6. m + k = 0 \/ \E i \in DOMAIN r : r[i] = m + k
  <2>1. CASE k = 0
    <3>1. 1 .. Len(s) \subseteq DOMAIN r
      BY <1>1
    <3>2. m > 0 => \E i \in DOMAIN r : r[i] = m
      BY <1>5, <3>1
    <3> QED BY <2>1, <3>2
  <2>2. CASE k # 0
    <3>1. k \in 1 .. Len(c) /\ c[k] = m + k /\ r[Len(s) + k] = c[k] /\ Len(s) + k \in DOMAIN r
      BY <1>1, <2>2
    <3> QED BY <3>1
  <2> QED BY <2>1, <2>2
<1>7. Ordered(r)
  <2> SUFFICES ASSUME NEW i \in DOMAIN r, r[i] > 1
                PROVE  \E j \in 1 .. i - 1 : r[j] >= r[i] - 1
    BY DEF Ordered
  <2>1. CASE i \in 1 .. Len(s) /\ r[i] = s[i]
    <3>1. PICK j \in 1 .. i - 1 : s[j] >= s[i] - 1
      BY <1>1, <2>1 DEF Ordered
    <3>2. r[j] = s[j]
      BY <1>1, <2>1, <3>1
    <3> QED BY <2>1, <3>1, <3>2
  <2>2. ASSUME NEW p \in 1 .. Len(c), i = Len(s) + p, r[i] = c[p]
        PROVE  \E j \in 1 .. i - 1 : r[j] >= r[i] - 1
    <3>0. r[i] \in Nat /\ Len(s) \in Nat /\ p \in Nat /\ p >= 1 /\ k \in Nat
      BY <1>1, <2>2
    <3>1. CASE r[i] <= m + 1 /\ m > 0
      <4>1. PICK j \in 1 .. Len(s) : r[j] = m
        BY <1>5, <3>1
      <4>2. j \in 1 .. i - 1 /\ m >= r[i] - 1
        BY <2>2, <3>0, <3>1, <4>1
      <4> QED BY <4>1, <4>2
    <3>2. CASE p > 1 /\ p <= k
      <4> DEFINE q == p - 1
      <4>1. q \in 1 .. Len(c) /\ q \in 1 .. k /\ Len(s) + q \in 1 .. i - 1 /\ m + q >= (m + p) - 1
        BY <2>2, <3>0, <3>2
      <4> HIDE DEF q
      <4>2. r[Len(s) + q] = c[q] /\ c[q] = m + q
        BY <1>1, <4>1
      <4>3. c[p] = m + p
        BY <1>3, <3>0, <3>2
      <4> QED BY <2>2, <4>1, <4>2, <4>3
    <3>3. (r[i] <= m + 1 /\ m > 0) \/ (p > 1 /\ p <= k)
      <4>1. CASE p <= k /\ c[p] = m + p
        <5>1. p = 1 => r[i] = m + 1
          BY <2>2, <4>1
        <5> QED BY <3>0, <4>1, <5>1
      <4>2. CASE p > k /\ c[p] <= m
        <5>1. r[i] <= m
          BY <2>2, <4>2
        <5>2. \A v \in Nat : v > 1 /\ v <= m => v <= m + 1 /\ m > 0
          OBVIOUS
        <5> QED BY <3>0, <5>1, <5>2, Zenon
      <4> QED BY <1>3, <4>1, <4>2
    <3> QED BY <3>1, <3>2, <3>3
  <2> QED BY <1>2, <2>1, <2>2
<1>8. IsTop(r, m + k)
  BY <1>4, <1>6 DEF IsTop
<1> QED BY <1>1, <1>7, <1>8 DEF r

-----------------------------------------------------------------------------
(* The cells of one buffer.                                                *)

\* The lines from the a-th on.
LEMMA SubLines ==
  ASSUME NEW s \in Lines, NEW a \in Nat
  PROVE  /\ SubSeq(s, a + 1, Len(s)) \in Lines
         /\ a <= Len(s) => /\ Len(SubSeq(s, a + 1, Len(s))) = Len(s) - a
                           /\ \A i \in 1 .. Len(s) - a : SubSeq(s, a + 1, Len(s))[i] = s[a + i]
         /\ a >= Len(s) => SubSeq(s, a + 1, Len(s)) = <<>>
<1>1. Len(s) \in Nat /\ s \in Seq(Nat) /\ <<>> \in Seq(Nat)
  BY DEF Lines
<1>2. CASE a < Len(s)
  BY <1>1, <1>2 DEF Lines
<1>3. CASE a >= Len(s)
  BY <1>1, <1>3 DEF Lines
<1> QED BY <1>1, <1>2, <1>3

\* The n cells c of a buffer from the o-th on: lines p, the next ones to be written,
\* and then cells of earlier use.
Splits(b, o, n, c) ==
  \E p \in Lines :
    /\ SubSeq(b.lines, o + 1, Len(b.lines))
         = p \o SubSeq(b.lines, (o + n) + 1, Len(b.lines))
    /\ Len(p) \in 0 .. Len(c)
    /\ \A i \in 1 .. Len(p) : c[i] = p[i]
    /\ \A i \in Len(p) + 1 .. Len(c) : \E j \in DOMAIN b.rest : c[i] = b.rest[j]

\* Every part of a buffer's cells is of that form: the lines come before the rest.
LEMMA WriteSplits ==
  ASSUME NEW b \in Buffer, NEW o \in Nat, NEW n \in Nat, o + n <= Len(Contents(b))
  PROVE  /\ SubSeq(Contents(b), o + 1, o + n) \in Lines
         /\ Splits(b, o, n, SubSeq(Contents(b), o + 1, o + n))
<1> DEFINE l == b.lines
            t == b.rest
            L == Len(b.lines)
            T == Len(b.rest)
            d == Contents(b)
            c == SubSeq(d, o + 1, o + n)
<1>1. l \in Lines /\ t \in Lines
  BY DEF Buffer, Lines
<1>2. /\ L \in Nat /\ T \in Nat /\ d \in Lines /\ Len(d) = L + T
      /\ \A i \in 1 .. L : d[i] = l[i]
      /\ \A i \in 1 .. T : d[L + i] = t[i]
  BY <1>1, ConcatCells DEF Contents
<1>3. l \in Seq(Nat) /\ DOMAIN t = 1 .. T /\ L = Len(l) /\ \A i \in 1 .. L : l[i] \in Nat
  BY <1>1 DEF Lines
<1> HIDE DEF l, t, L, T, d
<1>4. c \in Lines /\ Len(c) = n /\ \A i \in 1 .. n : c[i] = d[o + i]
  <2>1. d \in Seq(Nat) /\ o + n <= Len(d)
    BY <1>2 DEF Lines, d
  <2>2. /\ SubSeq(d, o + 1, o + n) \in Seq(Nat) /\ Len(SubSeq(d, o + 1, o + n)) = n
        /\ \A i \in 1 .. n : SubSeq(d, o + 1, o + n)[i] = d[o + i]
    BY <2>1
  <2> QED BY <2>2 DEF Lines
<1> HIDE DEF c
<1> DEFINE k == IF o >= L THEN 0 ELSE IF o + n <= L THEN n ELSE L - o
            p == [i \in 1 .. k |-> l[o + i]]
            u == SubSeq(l, o + 1, L)
            v == SubSeq(l, (o + n) + 1, L)
<1>5. k \in 0 .. n /\ (k > 0 => o + k <= L) /\ (k < n => o + k >= L)
  BY <1>2
<1>6. /\ u \in Lines /\ v \in Lines
      /\ o <= L => Len(u) = L - o /\ \A i \in 1 .. L - o : u[i] = l[o + i]
      /\ o >= L => u = <<>>
      /\ o + n <= L => Len(v) = L - (o + n) /\ \A i \in 1 .. L - (o + n) : v[i] = l[(o + n) + i]
      /\ o + n >= L => v = <<>>
  <2>1. o + n \in Nat
    OBVIOUS
  <2> QED BY <1>1, <1>3, <2>1, SubLines
<1>7. p \in Lines /\ Len(p) = k /\ \A i \in 1 .. k : p[i] = l[o + i]
  <2> HIDE DEF k
  <2>1. \A i \in 1 .. k : o + i \in 1 .. L
    BY <1>2, <1>5
  <2>2. \A i \in 1 .. k : l[o + i] \in Nat
    BY <1>3, <2>1
  <2>3. k \in Nat
    BY <1>5
  <2>4. p \in Seq(Nat)
    BY <2>2, <2>3
  <2> QED BY <2>3, <2>4 DEF Lines
<1>8. u = p \o v
  <2> HIDE DEF p, u, v
  <2>1. CASE o >= L
    <3>1. k = 0 /\ o + n >= L
      BY <1>2, <2>1
    <3>2. p = <<>>
      BY <1>7, <3>1 DEF Lines
    <3>3. u = <<>> /\ v = <<>>
      BY <1>6, <2>1, <3>1
    <3> QED BY <1>6, <3>2, <3>3, Concat
  <2>2. CASE o < L /\ o + n >= L
    <3>1. k = L - o /\ v = <<>> /\ o <= L
      BY <1>2, <1>6, <2>2
    <3>2. p = u
      <4> HIDE DEF k
      <4>1. p \in Seq(Nat) /\ u \in Seq(Nat) /\ Len(p) = L - o /\ Len(u) = L - o
        BY <1>6, <1>7, <3>1 DEF Lines
      <4>2. \A i \in 1 .. L - o : p[i] = u[i]
        BY <1>6, <1>7, <3>1
      <4> QED BY <4>1, <4>2
    <3> QED BY <1>6, <3>1, <3>2, Concat
  <2>3. CASE o < L /\ o + n < L
    <3>1. k = n /\ o <= L /\ o + n <= L
      BY <1>2, <2>3
    <3> HIDE DEF k
    <3> DEFINE w == p \o v
    <3>2. /\ Len(p) = n /\ Len(v) = L - (o + n) /\ w \in Lines /\ Len(w) = L - o
          /\ \A i \in 1 .. n : w[i] = p[i]
          /\ \A i \in 1 .. L - (o + n) : w[n + i] = v[i]
      <4>1. Len(p) = n /\ Len(v) = L - (o + n) /\ p \in Lines /\ v \in Lines
        BY <1>6, <1>7, <3>1
      <4>2. /\ w \in Lines /\ Len(w) = Len(p) + Len(v)
            /\ \A i \in 1 .. Len(p) : w[i] = p[i]
            /\ \A i \in 1 .. Len(v) : w[Len(p) + i] = v[i]
        BY <4>1, ConcatCells
      <4>3. n + (L - (o + n)) = L - o
        BY <1>2
      <4> HIDE DEF w
      <4> QED BY <4>1, <4>2, <4>3
    <3> HIDE DEF w
    <3>3. ASSUME NEW i \in 1 .. L - o PROVE w[i] = u[i]
      <4>1. CASE i <= n
        <5>1. i \in 1 .. n
          BY <1>2, <4>1
        <5> QED BY <1>6, <1>7, <3>1, <3>2, <5>1
      <4>2. CASE i > n
        <5> DEFINE j == i - n
        <5>1. j \in 1 .. L - (o + n) /\ n + j = i /\ (o + n) + j = o + i
          BY <1>2, <3>1, <4>2
        <5> HIDE DEF j
        <5>2. w[n + j] = v[j] /\ v[j] = l[(o + n) + j] /\ u[i] = l[o + i]
          BY <1>6, <3>1, <3>2, <5>1
        <5> QED BY <5>1, <5>2
      <4> QED BY <1>2, <4>1, <4>2
    <3>4. w \in Seq(Nat) /\ u \in Seq(Nat) /\ Len(u) = L - o /\ Len(w) = L - o /\ L - o \in Nat
      BY <1>2, <1>6, <3>1, <3>2 DEF Lines
    <3>5. w = u
      BY <3>3, <3>4
    <3> QED BY <3>5 DEF w
  <2> QED BY <1>2, <2>1, <2>2, <2>3
<1> HIDE DEF k, p, u, v
<1>9. ASSUME NEW i \in 1 .. Len(p) PROVE c[i] = p[i]
  <2>1. i \in 1 .. n /\ i \in 1 .. k /\ o + i \in 1 .. L
    BY <1>2, <1>5, <1>7
  <2> QED BY <1>2, <1>4, <1>7, <2>1
<1>10. ASSUME NEW i \in Len(p) + 1 .. Len(c) PROVE \E j \in DOMAIN t : c[i] = t[j]
  <2> DEFINE j == o + i - L
  <2>1. i \in 1 .. n /\ j \in 1 .. T /\ L + j = o + i
    <3>0. Len(p) = k /\ Len(c) = n /\ i \in Len(p) + 1 .. Len(c)
      BY <1>4, <1>7
    <3>a. i \in k + 1 .. n
      BY <3>0, Zenon
    <3>1. i \in k + 1 .. n /\ k < n
      BY <1>5, <3>a
    <3>2. o + n <= L + T
      BY <1>2 DEF d
    <3> QED BY <1>2, <1>5, <3>1, <3>2
  <2> HIDE DEF j
  <2>2. c[i] = d[o + i] /\ d[L + j] = t[j]
    BY <1>2, <1>4, <2>1
  <2> QED BY <1>3, <2>1, <2>2
<1>11. Len(p) \in 0 .. Len(c)
  BY <1>4, <1>5, <1>7
<1>12. Splits(b, o, n, c)
  BY <1>7, <1>8, <1>9, <1>10, <1>11 DEF Splits, u, v, l, t, L
<1> QED BY <1>4, <1>12 DEF c, d

-----------------------------------------------------------------------------
(* The invariant.                                                          *)

\* The lines still to be written of bs, w of which are written and o cells of the next.
Pending(bs, w, o) ==
  IF w = Len(bs) THEN <<>>
  ELSE SubSeq(bs[w + 1].lines, o + 1, Len(bs[w + 1].lines)) \o From(bs, w + 2)

\* Of buffers of which nothing is written these are all lines.
LEMMA PendingOps ==
  ASSUME NEW bs \in Seq(Buffer), NEW w \in 0 .. Len(bs), NEW o \in Nat
  PROVE  /\ Pending(bs, w, o) \in Lines
         /\ Pending(bs, w, 0) = From(bs, w + 1)
<1>1. CASE w = Len(bs)
  <2>1. Pending(bs, w, o) = <<>> /\ Pending(bs, w, 0) = <<>>
    BY <1>1 DEF Pending
  <2>2. From(bs, w + 1) = <<>> /\ <<>> \in Lines
    <3>1. From(bs, Len(bs) + 1) = <<>>
      BY FromOps
    <3>2. <<>> \in Lines
      BY DEF Lines
    <3> QED BY <1>1, <3>1, <3>2
  <2> QED BY <2>1, <2>2
<1>2. CASE w # Len(bs)
  <2>1. /\ w + 1 \in 1 .. Len(bs) /\ w + 2 \in 1 .. Len(bs) + 1 /\ (w + 1) + 1 = w + 2
        /\ Len(bs) \in Nat
    BY <1>2
  <2> DEFINE l == bs[w + 1].lines
  <2>2. l \in Lines
    <3>1. bs[w + 1] \in Buffer
      BY <2>1
    <3> QED BY <3>1 DEF Buffer, Lines
  <2>3. From(bs, w + 2) \in Lines
    BY <2>1, FromOps
  <2>4. From(bs, w + 1) = l \o From(bs, (w + 1) + 1)
    BY <2>1, FromOps
  <2>5. SubSeq(l, o + 1, Len(l)) \in Lines
    BY <2>2, SubLines
  <2>6. SubSeq(l, 0 + 1, Len(l)) = l
    <3> HIDE DEF l
    <3> QED BY <2>2 DEF Lines
  <2>7. /\ Pending(bs, w, o) = SubSeq(l, o + 1, Len(l)) \o From(bs, w + 2)
        /\ Pending(bs, w, 0) = SubSeq(l, 0 + 1, Len(l)) \o From(bs, w + 2)
    BY <1>2 DEF Pending
  <2> HIDE DEF l
  <2> QED BY <2>1, <2>3, <2>4, <2>5, <2>6, <2>7, Concat
<1> QED BY <1>1, <1>2

\* No number in s is greater than m.
AtMost(s, m) == \A i \in DOMAIN s : s[i] <= m

\* A spare buffer is empty, and its cells hold lines of the file.
Spare(b, m) == b # None => b.lines = <<>> /\ AtMost(b.rest, m)
\* A buffer in use has lines up to the n-th.
Filled(b, m, n) == AtMost(b.rest, m) /\ AtMost(b.lines, n)

\* All that was passed to append() and is not in the file.
Held == ToWrite \o LinesOf(buffers) \o currentBuffer.lines

\* The file is in order, and InFile is its last line.
FileInv == /\ file \in Seq(Nat) /\ InFile \in Nat
           /\ IsTop(file, InFile) /\ Ordered(file)
\* What is held are the lines that follow.
NumberInv == /\ InFile <= appended
             /\ Held = Num(InFile, appended - InFile)
\* The cells from cur_ on hold lines of the file, those of the spare buffers too; the
\* lines of the buffers that are being written are in the file or about to be.
OldInv ==
  /\ Spare(nextBuffer, InFile) /\ Spare(newBuffer1, InFile) /\ Spare(newBuffer2, InFile)
  /\ Filled(currentBuffer, InFile, appended)
  /\ \A i \in DOMAIN buffers : Filled(buffers[i], InFile, appended)
  /\ \A i \in DOMAIN buffersToWrite :
       Filled(buffersToWrite[i], InFile, InFile + Len(ToWrite))
\* A buffer is partly written only while there is one to write.
OffInv == off > 0 => /\ written < Len(buffersToWrite)
                     /\ off <= Len(Contents(buffersToWrite[written + 1]))
\* Between two rounds everything is flushed.
DurableInv == pc # "write" => durable = Len(file)

\* The inductive invariant behind LinesConserved.  OldInv is what keeps a buffer that
\* is used again from bringing in a line that is not in the file yet.
LineInv == FileInv /\ NumberInv /\ OldInv /\ OffInv /\ DurableInv

\* The bound is kept by the operations on a buffer.
LEMMA AtMostOps ==
  /\ \A s \in Lines : \A m, n \in Nat : AtMost(s, m) /\ m <= n => AtMost(s, n)
  /\ \A m \in Nat : AtMost(<<>>, m)
  /\ \A s \in Lines : \A m, x \in Nat : AtMost(s, m) /\ x <= m => AtMost(Append(s, x), m)
  /\ \A s \in Lines : \A m \in Nat : s # <<>> /\ AtMost(s, m) => AtMost(Tail(s), m)
  /\ \A s, t \in Lines : \A m \in Nat : AtMost(s, m) /\ AtMost(t, m) => AtMost(s \o t, m)
<1> USE DEF AtMost, Lines
<1>1. ASSUME NEW s \in Lines, NEW m \in Nat, NEW n \in Nat, AtMost(s, m), m <= n PROVE AtMost(s, n)
  <2>1. \A i \in DOMAIN s : s[i] \in Nat
    OBVIOUS
  <2>2. \A x \in Nat : x <= m => x <= n
    BY <1>1
  <2> QED BY <1>1, <2>1, <2>2
<1>2. ASSUME NEW m \in Nat PROVE AtMost(<<>>, m)
  OBVIOUS
<1>3. ASSUME NEW s \in Lines, NEW m \in Nat, NEW x \in Nat, AtMost(s, m), x <= m
      PROVE  AtMost(Append(s, x), m)
  BY <1>3
<1>4. ASSUME NEW s \in Lines, NEW m \in Nat, s # <<>>, AtMost(s, m) PROVE AtMost(Tail(s), m)
  BY <1>4
<1>5. ASSUME NEW s \in Lines, NEW t \in Lines, NEW m \in Nat, AtMost(s, m), AtMost(t, m)
      PROVE  AtMost(s \o t, m)
  BY <1>5
<1> QED BY <1>1, <1>2, <1>3, <1>4, <1>5

\* The bounds grow.
LEMMA OldGrows ==
  ASSUME NEW m \in Nat, NEW n \in Nat, m <= n, NEW a \in Nat, NEW b \in Nat, a <= b
  PROVE  /\ \A x \in Buffer \cup {None} : Spare(x, m) => Spare(x, n)
         /\ \A x \in Buffer : Filled(x, m, a) => Filled(x, n, b)
<1>1. \A x \in Buffer : x.lines \in Lines /\ x.rest \in Lines
  BY DEF Buffer, Lines
<1> QED BY <1>1, AtMostOps DEF Spare, Filled

\* The shapes of what is held.
LEMMA Shapes ==
  ASSUME NEW bs \in Seq(Buffer), NEW w \in Nat, w <= Len(bs), NEW o \in Nat,
         NEW fs \in Seq(Buffer), NEW b \in Buffer
  PROVE  /\ Pending(bs, w, o) \in Lines /\ LinesOf(fs) \in Lines /\ b.lines \in Lines
         /\ Pending(bs, w, o) \o LinesOf(fs) \in Lines
         /\ Pending(bs, w, o) \o LinesOf(fs) \o b.lines \in Lines
         /\ Len(Pending(bs, w, o)) \in Nat
<1>1. w \in 0 .. Len(bs)
  OBVIOUS
<1>2. Pending(bs, w, o) \in Lines /\ LinesOf(fs) \in Lines /\ b.lines \in Lines
  BY <1>1, PendingOps, LinesOfOps DEF Buffer, Lines
<1> QED BY <1>2, ConcatCells

\* The definitions of the model, before and after a step.
LEMMA ToWriteIs ==
  /\ ToWrite = Pending(buffersToWrite, written, off)
  /\ ToWrite' = Pending(buffersToWrite', written', off')
  /\ InFile' = Max({0} \cup Range(file'))
  /\ Held' = ToWrite' \o LinesOf(buffers') \o (currentBuffer').lines
<1>1. ToWrite = Pending(buffersToWrite, written, off)
  BY DEF ToWrite, Pending, From
<1>2. ToWrite' = Pending(buffersToWrite', written', off')
  BY DEF ToWrite, Pending, From
<1> QED BY <1>1, <1>2 DEF InFile, Held

\* The logger starts in the invariant.
LEMMA InitLineInv == Init => LineInv
<1> SUFFICES ASSUME Init PROVE LineInv
  OBVIOUS
<1>1. /\ currentBuffer = Fresh /\ nextBuffer = Fresh /\ buffers = <<>>
      /\ newBuffer1 = Fresh /\ newBuffer2 = Fresh /\ buffersToWrite = <<>>
      /\ written = 0 /\ off = 0 /\ appended = 0 /\ file = <<>> /\ durable = 0
  BY DEF Init, FileInit
<1>2. file \in Seq(Nat) /\ DOMAIN file = {} /\ Len(file) = 0
  BY <1>1
<1>3. IsTop(file, 0) /\ Ordered(file)
  BY <1>2 DEF IsTop, Ordered
<1>4. InFile = 0
  <2>1. InFile = Max({0} \cup Range(file))
    BY DEF InFile
  <2>2. \A m \in Nat : IsTop(file, m) => Max({0} \cup Range(file)) = m
    <3>1. file \in Seq(Nat)
      BY <1>2
    <3> QED BY <3>1, TopIsMax, Zenon
  <2> QED BY <1>3, <2>1, <2>2
<1>5. FileInv
  BY <1>2, <1>3, <1>4 DEF FileInv
<1>6. ToWrite = <<>> /\ LinesOf(buffers) = <<>>
  BY <1>1, LinesOfOps DEF ToWrite
<1>7. Held = Num(0, 0)
  <2>1. Held = <<>> \o <<>> \o <<>>
    BY <1>1, <1>6 DEF Held, Fresh
  <2>2. <<>> = Num(0, 0)
    BY DEF Num
  <2> QED BY <2>1, <2>2
<1>8. NumberInv
  BY <1>1, <1>4, <1>7 DEF NumberInv
<1>9. OldInv
  <2>1. Spare(Fresh, 0) /\ Filled(Fresh, 0, 0)
    BY AtMostOps DEF Fresh, Spare, Filled
  <2>2. DOMAIN buffers = {} /\ DOMAIN buffersToWrite = {}
    BY <1>1
  <2> QED BY <1>1, <1>4, <2>1, <2>2 DEF OldInv
<1>10. OffInv
  BY <1>1 DEF OffInv
<1>11. DurableInv
  BY <1>1, <1>2 DEF DurableInv
<1> QED BY <1>5, <1>8, <1>9, <1>10, <1>11 DEF LineInv

\* A step that moves no line.
LEMMA QuietKeepsLines ==
  ASSUME LineInv, UNCHANGED <<frontVars, backVars, appended, file>>, DurableInv'
  PROVE  LineInv'
<1>1. UNCHANGED <<currentBuffer, nextBuffer, buffers, newBuffer1, newBuffer2,
                  buffersToWrite, written, off, appended, file>>
  BY DEF frontVars, backVars
<1>2. ToWrite' = ToWrite /\ InFile' = InFile
  BY <1>1, ToWriteIs DEF InFile
<1>3. Held' = Held
  BY <1>1, <1>2, ToWriteIs DEF Held
<1>4. FileInv'
  BY <1>1, <1>2 DEF LineInv, FileInv, IsTop, Ordered
<1>5. NumberInv'
  BY <1>1, <1>2, <1>3 DEF LineInv, NumberInv, Num
<1>6. OldInv'
  BY <1>1, <1>2 DEF LineInv, OldInv, Spare, Filled, AtMost
<1>7. OffInv'
  BY <1>1 DEF LineInv, OffInv, Contents
<1> QED BY <1>4, <1>5, <1>6, <1>7 DEF LineInv

\* It says more than the property.
LEMMA LinesConservedIs == BufferInv /\ LineInv => LinesConserved
  BY DEF LineInv, FileInv, NumberInv, DurableInv, LinesConserved, Held, Num, Ordered

-----------------------------------------------------------------------------
(* The steps.                                                              *)

\* What the type says of the buffers.
LEMMA BuffersTyped ==
  ASSUME BufferInv
  PROVE  /\ buffersToWrite \in Seq(Buffer) /\ written \in Nat /\ off \in Nat
         /\ Len(buffersToWrite) \in Nat /\ written <= Len(buffersToWrite)
         /\ buffers \in Seq(Buffer) /\ currentBuffer \in Buffer /\ appended \in Nat
         /\ nextBuffer \in Buffer \cup {None} /\ newBuffer1 \in Buffer \cup {None}
         /\ newBuffer2 \in Buffer \cup {None}
         /\ currentBuffer.lines \in Lines /\ currentBuffer.rest \in Lines
         /\ ToWrite \in Lines /\ Len(ToWrite) \in Nat /\ LinesOf(buffers) \in Lines
         /\ ToWrite \o LinesOf(buffers) \in Lines /\ Held \in Lines
<1>1. /\ buffersToWrite \in Seq(Buffer) /\ written \in Nat /\ off \in Nat
      /\ written <= Len(buffersToWrite) /\ buffers \in Seq(Buffer)
      /\ currentBuffer \in Buffer /\ appended \in Nat
      /\ nextBuffer \in Buffer \cup {None} /\ newBuffer1 \in Buffer \cup {None}
      /\ newBuffer2 \in Buffer \cup {None}
  BY DEF BufferInv, TypeOK
<1>2. Len(buffersToWrite) \in Nat
  BY <1>1
<1>3. currentBuffer.lines \in Lines /\ currentBuffer.rest \in Lines
  BY <1>1 DEF Buffer, Lines
<1> QED BY <1>1, <1>2, <1>3, Shapes, ToWriteIs DEF Held

\* One more number.
LEMMA NumAppend ==
  ASSUME NEW s \in Lines, NEW a \in Nat, NEW n \in Nat, s = Num(a, n)
  PROVE  s \o <<a + n + 1>> = Num(a, n + 1)
<1>1. <<a + n + 1>> \in Lines /\ Len(<<a + n + 1>>) = 1 /\ <<a + n + 1>>[1] = a + n + 1
  BY DEF Lines
<1>2. Len(s) = n
  BY NumIs
<1>3. <<a + n + 1>> = Num(a + n, 1)
  <2>1. a + n \in Nat /\ \A i \in 1 .. 1 : i = 1
    OBVIOUS
  <2> DEFINE u == <<a + n + 1>>
  <2>2. u \in Lines /\ Len(u) = 1 /\ \A i \in 1 .. 1 : u[i] = (a + n) + i
    BY <1>1, <2>1
  <2> HIDE DEF u
  <2>3. u = Num(a + n, 1)
    BY <2>1, <2>2, NumIs
  <2> QED BY <2>3 DEF u
<1> DEFINE u == <<a + n + 1>>
<1>4. /\ u \in Lines /\ Len(u) = 1 /\ n + 1 = Len(s) + Len(u) /\ n + 1 \in Nat
      /\ IsNum(u, a + Len(s), Len(u)) /\ IsNum(s, a, Len(s))
  BY <1>1, <1>2, <1>3 DEF IsNum
<1> HIDE DEF u
<1>5. IsNum(s \o u, a, n + 1)
  BY <1>4, IsNumSplit
<1> QED BY <1>5 DEF u, IsNum

\* What a buffer holds after a line is added to it.
LEMMA AppendToIs ==
  ASSUME NEW b \in Buffer, NEW x \in Nat, avail(b) > 1, NEW m \in Nat, NEW n \in Nat,
         Filled(b, m, n), n <= x
  PROVE  /\ AppendTo(b, x).lines = b.lines \o <<x>>
         /\ Filled(AppendTo(b, x), m, x)
<1>1. b.lines \in Lines /\ b.rest \in Lines
  BY DEF Buffer, Lines
<1>2. /\ AppendTo(b, x).lines = Append(b.lines, x)
      /\ AppendTo(b, x).rest = IF b.rest = <<>> THEN <<>> ELSE Tail(b.rest)
  BY DEF AppendTo
<1>3. Append(b.lines, x) = b.lines \o <<x>>
  <2> DEFINE l == b.lines
              u == <<x>>
              r == l \o u
              q == Append(l, x)
              z == Len(l)
  <2>1. l \in Seq(Nat) /\ z \in Nat /\ u \in Seq(Nat) /\ Len(u) = 1 /\ u[1] = x
    BY <1>1 DEF Lines
  <2> HIDE DEF l, u
  <2>2. q \in Seq(Nat) /\ Len(q) = z + 1 /\ q[z + 1] = x /\ \A i \in 1 .. z : q[i] = l[i]
    BY <2>1
  <2>3. /\ r \in Seq(Nat) /\ Len(r) = z + 1
        /\ \A i \in 1 .. z : r[i] = l[i]
        /\ \A i \in 1 .. 1 : r[z + i] = u[i]
    <3>1. l \in Lines /\ u \in Lines
      BY <2>1 DEF Lines
    <3>2. /\ r \in Lines /\ Len(r) = Len(l) + Len(u)
          /\ \A i \in 1 .. Len(l) : r[i] = l[i]
          /\ \A i \in 1 .. Len(u) : r[Len(l) + i] = u[i]
      BY <3>1, ConcatCells
    <3> HIDE DEF r
    <3> QED BY <2>1, <3>2 DEF Lines
  <2> HIDE DEF r, q, z
  <2>4. \A i \in 1 .. z + 1 : r[i] = q[i]
    <3>1. 1 \in 1 .. 1 /\ \A i \in 1 .. z + 1 : i \in 1 .. z \/ i = z + 1
      BY <2>1
    <3> QED BY <2>1, <2>2, <2>3, <3>1
  <2>5. r = q
    BY <2>1, <2>2, <2>3, <2>4
  <2> QED BY <2>5 DEF r, q, l, u
<1>4. AtMost(Append(b.lines, x), x)
  <2>1. AtMost(b.lines, x)
    BY <1>1, AtMostOps DEF Filled
  <2> QED BY <1>1, <2>1, AtMostOps
<1>5. AtMost(AppendTo(b, x).rest, m)
  BY <1>1, <1>2, AtMostOps DEF Filled
<1> QED BY <1>2, <1>3, <1>4, <1>5 DEF Filled

\* append() adds its line at the end of what is held.
LEMMA AppendKeepsLines ==
  ASSUME BufferInv, LineInv, append
  PROVE  LineInv'
<1> DEFINE x == appended + 1
<1>1. /\ appended' = x /\ x \in Nat /\ appended \in Nat /\ appended <= x
      /\ UNCHANGED <<newBuffer1, newBuffer2, buffersToWrite, written, off, pc, file, durable>>
  BY BuffersTyped DEF append, backVars, fileVars
<1>2. ToWrite' = ToWrite /\ InFile' = InFile /\ InFile \in Nat
  BY <1>1, ToWriteIs DEF InFile, LineInv, FileInv
<1>3. /\ Held' = Held \o <<x>>
      /\ Filled(currentBuffer', InFile, x)
      /\ Spare(nextBuffer', InFile)
      /\ \A i \in DOMAIN buffers' : Filled(buffers'[i], InFile, appended)
  <2>1. CASE avail(currentBuffer) > 1
    <3>1. currentBuffer' = AppendTo(currentBuffer, x) /\ UNCHANGED <<nextBuffer, buffers>>
      BY <2>1 DEF append
    <3>2. /\ (currentBuffer').lines = currentBuffer.lines \o <<x>>
          /\ Filled(currentBuffer', InFile, x)
      BY <1>1, <1>2, <2>1, <3>1, AppendToIs, BuffersTyped DEF LineInv, OldInv
    <3>3. Held' = (ToWrite \o LinesOf(buffers)) \o (currentBuffer.lines \o <<x>>)
      BY <1>2, <3>1, <3>2, ToWriteIs
    <3>4. <<x>> \in Lines
      BY <1>1 DEF Lines
    <3>5. Held' = Held \o <<x>>
      BY <3>3, <3>4, BuffersTyped, ConcatAssociates DEF Held
    <3> QED BY <3>1, <3>2, <3>5 DEF LineInv, OldInv
  <2>2. CASE ~ (avail(currentBuffer) > 1)
    <3>1. PICK b \in NextBuffers :
            /\ buffers' = Append(buffers, currentBuffer)
            /\ currentBuffer' = AppendTo(b, x)
            /\ nextBuffer' = None
      BY <2>2 DEF append
    <3>2. b \in Buffer /\ b.lines = <<>> /\ AtMost(b.rest, InFile)
      <4>1. CASE nextBuffer # None
        BY <4>1, BuffersTyped DEF NextBuffers, LineInv, OldInv, Spare
      <4>2. CASE nextBuffer = None
        <5>1. [lines |-> <<>>, rest |-> <<Junk>>] \in Buffer
          BY DEF Buffer, Junk
        <5>2. AtMost(<<Junk>>, InFile) /\ AtMost(<<>>, InFile)
          BY <1>2, AtMostOps DEF AtMost, Junk
        <5> QED BY <4>2, <5>1, <5>2, FreshIsBuffer DEF NextBuffers, Fresh
      <4> QED BY <4>1, <4>2
    <3>3. avail(b) > 1
      BY <3>2, LogAssumption DEF avail
    <3>4. Filled(b, InFile, appended)
      BY <1>1, <3>2, AtMostOps DEF Filled
    <3>5. <<x>> \in Lines
      BY <1>1 DEF Lines
    <3>6. (currentBuffer').lines = <<x>> /\ Filled(currentBuffer', InFile, x)
      BY <1>1, <1>2, <3>1, <3>2, <3>3, <3>4, <3>5, AppendToIs, Concat
    <3>7. LinesOf(buffers') = LinesOf(buffers) \o currentBuffer.lines
      BY <3>1, BuffersTyped, LinesOfOps
    <3>8. Held' = (ToWrite \o (LinesOf(buffers) \o currentBuffer.lines)) \o <<x>>
      BY <1>2, <3>6, <3>7, ToWriteIs
    <3>9. Held' = Held \o <<x>>
      BY <3>8, BuffersTyped, ConcatAssociates DEF Held
    <3>10. ASSUME NEW i \in DOMAIN buffers' PROVE Filled(buffers'[i], InFile, appended)
      <4>1. buffers \in Seq(Buffer) /\ currentBuffer \in Buffer
        BY BuffersTyped
      <4>2. buffers'[i] = currentBuffer \/ (i \in DOMAIN buffers /\ buffers'[i] = buffers[i])
        BY <3>1, <4>1
      <4> QED BY <4>2 DEF LineInv, OldInv
    <3>11. Spare(nextBuffer', InFile)
      BY <3>1 DEF Spare
    <3> QED BY <3>6, <3>9, <3>10, <3>11
  <2> QED BY <2>1, <2>2
<1>4. BufferInv'
  BY AppendKeepsInv
<1>5. OldInv'
  <2>1. buffers' \in Seq(Buffer)
    BY <1>4 DEF BufferInv, TypeOK
  <2>2. ASSUME NEW i \in DOMAIN buffers' PROVE Filled(buffers'[i], InFile, x)
    <3>1. buffers'[i] \in Buffer
      BY <2>1
    <3> QED BY <1>1, <1>2, <1>3, <3>1, OldGrows
  <2> QED BY <1>1, <1>2, <1>3, <2>2 DEF LineInv, OldInv
<1>6. NumberInv'
  <2> DEFINE n == appended - InFile
  <2>1. n \in Nat /\ InFile + n + 1 = x /\ n + 1 = x - InFile
    BY <1>1, <1>2 DEF LineInv, NumberInv
  <2>2. Held = Num(InFile, n) /\ Held \in Lines
    BY BuffersTyped DEF LineInv, NumberInv
  <2> HIDE DEF n
  <2>3. Held \o <<InFile + n + 1>> = Num(InFile, n + 1)
    BY <1>2, <2>1, <2>2, NumAppend
  <2>4. Held' = Num(InFile, x - InFile)
    BY <1>3, <2>1, <2>3
  <2>5. InFile' <= appended'
    BY <1>1, <1>2 DEF LineInv, NumberInv
  <2> QED BY <1>1, <1>2, <2>4, <2>5 DEF NumberInv, Num
<1>7. FileInv'
  BY <1>1, <1>2 DEF LineInv, FileInv, IsTop, Ordered
<1>8. OffInv'
  BY <1>1 DEF LineInv, OffInv, Contents
<1>9. DurableInv'
  BY <1>1 DEF LineInv, DurableInv
<1> QED BY <1>5, <1>6, <1>7, <1>8, <1>9 DEF LineInv

\* The swap takes all that is held over to the backend.
LEMMA SwapKeepsLines ==
  ASSUME BufferInv, LineInv, SwapBuffers
  PROVE  LineInv'
<1>1. /\ buffersToWrite' = Append(buffers, currentBuffer) /\ buffers' = <<>>
      /\ currentBuffer' = newBuffer1 /\ newBuffer1' = None
      /\ nextBuffer' = IF nextBuffer = None THEN newBuffer2 ELSE nextBuffer
      /\ newBuffer2' = IF nextBuffer = None THEN None ELSE newBuffer2
      /\ pc' = "write" /\ written' = written /\ off' = off /\ appended' = appended /\ file' = file
  BY DEF SwapBuffers, fileVars
<1>2. /\ buffersToWrite = <<>> /\ Len(buffersToWrite) = 0
      /\ newBuffer1 \in Buffer /\ newBuffer1 # None
      /\ written = 0 /\ off = 0
  BY BuffersTyped DEF SwapBuffers, BufferInv, LineInv, OffInv
<1>3. ToWrite = <<>>
  BY <1>2 DEF ToWrite
<1>4. BufferInv'
  BY SwapKeepsInv
<1>5. buffersToWrite' \in Seq(Buffer)
  BY <1>4 DEF BufferInv, TypeOK
<1>6. ToWrite' = LinesOf(buffersToWrite')
  <2>1. 0 \in 0 .. Len(buffersToWrite') /\ 0 + 1 = 1
    BY <1>5
  <2>2. ToWrite' = Pending(buffersToWrite', 0, 0)
    BY <1>1, <1>2, ToWriteIs
  <2> QED BY <1>5, <2>1, <2>2, PendingOps, FromOps
<1>7. LinesOf(buffersToWrite') = LinesOf(buffers) \o currentBuffer.lines
  BY <1>1, BuffersTyped, LinesOfOps
<1>8. (currentBuffer').lines = <<>>
  BY <1>1, <1>2 DEF LineInv, OldInv, Spare
<1>9. Held = ToWrite' /\ Held' = ToWrite'
  <2>1. Held = LinesOf(buffers) \o currentBuffer.lines
    BY <1>3, BuffersTyped, Concat DEF Held
  <2>2. ToWrite' \in Lines
    BY <1>6, <1>7, <2>1, BuffersTyped
  <2>3. Held' = (ToWrite' \o <<>>) \o <<>>
    BY <1>1, <1>8, ToWriteIs, LinesOfOps
  <2> QED BY <1>6, <1>7, <2>1, <2>2, <2>3, Concat
<1>10. InFile' = InFile /\ InFile \in Nat
  BY <1>1, ToWriteIs DEF InFile, LineInv, FileInv
<1>11. InFile + Len(ToWrite') = appended
  <2>1. appended - InFile \in Nat /\ appended \in Nat
    BY <1>10, BuffersTyped DEF LineInv, NumberInv
  <2>2. Len(Held) = appended - InFile
    BY <1>10, <2>1, BuffersTyped, NumIs DEF LineInv, NumberInv
  <2> QED BY <1>9, <1>10, <2>1, <2>2
<1>12. OldInv'
  <2>1. ASSUME NEW i \in DOMAIN buffersToWrite'
        PROVE  Filled(buffersToWrite'[i], InFile, appended)
    <3>1. buffers \in Seq(Buffer) /\ currentBuffer \in Buffer
      BY BuffersTyped
    <3>2. \/ buffersToWrite'[i] = currentBuffer
          \/ i \in DOMAIN buffers /\ buffersToWrite'[i] = buffers[i]
      BY <1>1, <3>1
    <3> QED BY <3>2 DEF LineInv, OldInv
  <2>2. Filled(currentBuffer', InFile, appended)
    BY <1>1, <1>2, <1>8, AtMostOps, BuffersTyped DEF LineInv, OldInv, Spare, Filled
  <2>3. Spare(nextBuffer', InFile) /\ Spare(newBuffer1', InFile) /\ Spare(newBuffer2', InFile)
    BY <1>1 DEF LineInv, OldInv, Spare
  <2>4. DOMAIN buffers' = {}
    BY <1>1
  <2> QED BY <1>1, <1>10, <1>11, <2>1, <2>2, <2>3, <2>4 DEF OldInv
<1>13. NumberInv'
  BY <1>1, <1>9, <1>10 DEF LineInv, NumberInv, Num
<1>14. FileInv'
  BY <1>1, <1>10 DEF LineInv, FileInv, IsTop, Ordered
<1>15. OffInv' /\ DurableInv'
  BY <1>1, <1>2 DEF OffInv, DurableInv
<1> QED BY <1>12, <1>13, <1>14, <1>15 DEF LineInv

\* Cells go to the file: the lines p, which are the next ones, and old lines.
LEMMA WriteKeepsLines ==
  ASSUME BufferInv, BufferInv', LineInv, OffInv', pc = "write", pc' = pc,
         UNCHANGED <<currentBuffer, nextBuffer, buffers, newBuffer1, newBuffer2,
                     buffersToWrite, appended>>,
         NEW c \in Lines, file' = file \o c,
         NEW p \in Lines, ToWrite = p \o ToWrite',
         Len(p) \in 0 .. Len(c),
         \A i \in 1 .. Len(p) : c[i] = p[i],
         \A i \in Len(p) + 1 .. Len(c) : c[i] <= InFile
  PROVE  LineInv'
<1> DEFINE k == Len(p)
            h == Held'
            n == appended - InFile
<1>1. /\ InFile \in Nat /\ appended \in Nat /\ n \in Nat /\ InFile + n = appended
      /\ Held = Num(InFile, n) /\ file \in Seq(Nat) /\ IsTop(file, InFile) /\ Ordered(file)
  BY BuffersTyped DEF LineInv, NumberInv, FileInv
<1>2. ToWrite' \in Lines /\ Len(ToWrite') \in Nat /\ h \in Lines
  <2>1. /\ buffersToWrite' \in Seq(Buffer) /\ written' \in Nat /\ off' \in Nat
        /\ written' <= Len(buffersToWrite') /\ buffers' \in Seq(Buffer) /\ currentBuffer' \in Buffer
    BY DEF BufferInv, TypeOK
  <2> QED BY <2>1, Shapes, ToWriteIs
<1>3. Held = p \o h
  <2>1. h = (ToWrite' \o LinesOf(buffers)) \o currentBuffer.lines
    BY ToWriteIs
  <2>2. Held = ((p \o ToWrite') \o LinesOf(buffers)) \o currentBuffer.lines
    BY DEF Held
  <2> DEFINE t == ToWrite'
              f == LinesOf(buffers)
              l == currentBuffer.lines
  <2>3. t \in Lines /\ f \in Lines /\ l \in Lines /\ t \o f \in Lines
    BY <1>2, BuffersTyped, ConcatCells
  <2>4. (p \o t) \o f = p \o (t \o f)
    BY <2>3, ConcatAssociates
  <2>5. (p \o (t \o f)) \o l = p \o ((t \o f) \o l)
    BY <2>3, ConcatAssociates
  <2> QED BY <2>1, <2>2, <2>4, <2>5
<1> HIDE DEF h, n
<1>4. /\ p = Num(InFile, k) /\ h = Num(InFile + k, Len(h)) /\ n = k + Len(h)
      /\ k \in Nat /\ Len(h) \in Nat
  <2>1. k \in Nat /\ Len(h) \in Nat
    BY <1>2 DEF Lines
  <2>2. IsNum(p \o h, InFile, n)
    BY <1>1, <1>3 DEF IsNum
  <2>3. IsNum(p, InFile, Len(p)) /\ IsNum(h, InFile + Len(p), Len(h)) /\ n = Len(p) + Len(h)
    BY <1>1, <1>2, <2>2, IsNumSplit
  <2> QED BY <2>1, <2>3 DEF IsNum
<1>5. \A i \in 1 .. k : c[i] = InFile + i
  <2>1. \A i \in 1 .. k : p[i] = InFile + i
    BY <1>1, <1>4, NumIs
  <2> QED BY <2>1
<1>6. file' \in Seq(Nat) /\ IsTop(file', InFile + k) /\ Ordered(file')
  <2>1. c \in Seq(Nat) /\ k \in 0 .. Len(c) /\ \A i \in k + 1 .. Len(c) : c[i] <= InFile
    BY DEF Lines
  <2> HIDE DEF k
  <2> QED BY <1>1, <1>5, <2>1, FileGrows
<1>7. InFile' = InFile + k /\ InFile + k \in Nat /\ InFile <= InFile + k
  <2>1. InFile + k \in Nat /\ InFile <= InFile + k
    BY <1>1, <1>4
  <2> HIDE DEF k
  <2> QED BY <1>6, <2>1, ToWriteIs, TopIsMax
<1>8. FileInv'
  BY <1>6, <1>7 DEF FileInv, IsTop, Ordered
<1>9. NumberInv'
  <2>1. InFile + k <= appended /\ appended - (InFile + k) = Len(h)
    BY <1>1, <1>4
  <2> QED BY <1>4, <1>7, <2>1 DEF NumberInv, Num, h
<1>10. InFile' + Len(ToWrite') = InFile + Len(ToWrite) /\ Len(ToWrite) \in Nat
  <2>1. Len(ToWrite) = k + Len(ToWrite')
    BY <1>2, ConcatCells
  <2> QED BY <1>1, <1>2, <1>4, <1>7, <2>1
<1>11. OldInv'
  <2>1. \A x \in Buffer \cup {None} : Spare(x, InFile) => Spare(x, InFile')
    BY <1>1, <1>7, OldGrows
  <2>2. \A x \in Buffer : \A a \in Nat : Filled(x, InFile, a) => Filled(x, InFile', a)
    BY <1>1, <1>7, OldGrows
  <2>3. Spare(nextBuffer, InFile') /\ Spare(newBuffer1, InFile') /\ Spare(newBuffer2, InFile')
    BY <2>1, BuffersTyped DEF LineInv, OldInv
  <2>4. Filled(currentBuffer, InFile', appended)
    BY <2>2, BuffersTyped DEF LineInv, OldInv
  <2>5. \A i \in DOMAIN buffers : Filled(buffers[i], InFile', appended)
    <3>1. \A i \in DOMAIN buffers : buffers[i] \in Buffer
      BY BuffersTyped
    <3> QED BY <1>1, <2>2, <3>1 DEF LineInv, OldInv
  <2>6. \A i \in DOMAIN buffersToWrite : Filled(buffersToWrite[i], InFile', InFile + Len(ToWrite))
    <3>1. \A i \in DOMAIN buffersToWrite : buffersToWrite[i] \in Buffer
      BY BuffersTyped
    <3>2. InFile + Len(ToWrite) \in Nat
      BY <1>1, <1>10
    <3> QED BY <2>2, <3>1, <3>2 DEF LineInv, OldInv
  <2> QED BY <1>10, <2>3, <2>4, <2>5, <2>6 DEF OldInv
<1>12. DurableInv'
  BY DEF DurableInv
<1> QED BY <1>8, <1>9, <1>11, <1>12 DEF LineInv

\* The next cells of the buffer that is being written.
LEMMA NextCells ==
  ASSUME BufferInv, LineInv, written < Len(buffersToWrite),
         NEW b, b = buffersToWrite[written + 1]
  PROVE  /\ b \in Buffer /\ Contents(b) \in Lines
         /\ off \in Nat /\ Len(Contents(b)) \in Nat /\ off <= Len(Contents(b))
         /\ \A n \in Nat : \A c :
              /\ off + n <= Len(Contents(b))
              /\ c = SubSeq(Contents(b), off + 1, off + n)
              => /\ c \in Lines
                 /\ \E p \in Lines :
                      /\ ToWrite = p \o (SubSeq(b.lines, (off + n) + 1, Len(b.lines))
                                           \o From(buffersToWrite, written + 2))
                      /\ Len(p) \in 0 .. Len(c)
                      /\ \A i \in 1 .. Len(p) : c[i] = p[i]
                      /\ \A i \in Len(p) + 1 .. Len(c) : c[i] <= InFile
<1>1. /\ buffersToWrite \in Seq(Buffer) /\ written \in Nat /\ off \in Nat
      /\ Len(buffersToWrite) \in Nat
  BY BuffersTyped
<1>2. written + 1 \in DOMAIN buffersToWrite /\ written + 2 \in 1 .. Len(buffersToWrite) + 1
  BY <1>1
<1>3. b \in Buffer
  BY <1>1, <1>2
<1>4. b.lines \in Lines /\ b.rest \in Lines
  BY <1>3 DEF Buffer, Lines
<1>5. Contents(b) \in Lines /\ Len(Contents(b)) \in Nat
  <2>1. Contents(b) \in Lines
    BY <1>4, ConcatCells DEF Contents
  <2> QED BY <2>1 DEF Lines
<1>6. off <= Len(Contents(b))
  BY <1>1, <1>5 DEF LineInv, OffInv
<1>7. AtMost(b.rest, InFile)
  BY <1>2 DEF LineInv, OldInv, Filled
<1>8. ASSUME NEW n \in Nat, NEW c, off + n <= Len(Contents(b)),
             c = SubSeq(Contents(b), off + 1, off + n)
      PROVE  /\ c \in Lines
             /\ \E p \in Lines :
                  /\ ToWrite = p \o (SubSeq(b.lines, (off + n) + 1, Len(b.lines))
                                       \o From(buffersToWrite, written + 2))
                  /\ Len(p) \in 0 .. Len(c)
                  /\ \A i \in 1 .. Len(p) : c[i] = p[i]
                  /\ \A i \in Len(p) + 1 .. Len(c) : c[i] <= InFile
  <2> DEFINE u == SubSeq(b.lines, off + 1, Len(b.lines))
              v == SubSeq(b.lines, (off + n) + 1, Len(b.lines))
              w == From(buffersToWrite, written + 2)
  <2>1. c \in Lines
    BY <1>1, <1>3, <1>8, WriteSplits
  <2>a. Splits(b, off, n, c)
    BY <1>1, <1>3, <1>8, WriteSplits
  <2>2. PICK p \in Lines :
              /\ u = p \o v
              /\ Len(p) \in 0 .. Len(c)
              /\ \A i \in 1 .. Len(p) : c[i] = p[i]
              /\ \A i \in Len(p) + 1 .. Len(c) : \E j \in DOMAIN b.rest : c[i] = b.rest[j]
    BY <2>a DEF Splits
  <2>3. ToWrite = u \o w
    <3>1. written # Len(buffersToWrite)
      BY <1>1
    <3> QED BY <3>1, ToWriteIs DEF Pending
  <2>4. v \in Lines /\ w \in Lines
    <3>1. off + n \in Nat
      BY <1>1
    <3>2. w \in Lines
      BY <1>1, <1>2, FromOps
    <3> QED BY <1>4, <3>1, <3>2, SubLines
  <2> HIDE DEF u, v, w
  <2>5. ToWrite = p \o (v \o w)
    BY <2>2, <2>3, <2>4, ConcatAssociates
  <2>6. \A i \in Len(p) + 1 .. Len(c) : c[i] <= InFile
    BY <1>7, <2>2, Zenon DEF AtMost
  <2> QED BY <2>1, <2>2, <2>5, <2>6 DEF v, w
<1> QED BY <1>1, <1>3, <1>5, <1>6, <1>8

\* A short write.
LEMMA ShortKeepsLines ==
  ASSUME BufferInv, LineInv, WriteShort
  PROVE  LineInv'
<1> DEFINE b == buffersToWrite[written + 1]
            d == Contents(b)
<1>1. /\ pc = "write" /\ pc' = pc /\ written < Len(buffersToWrite) /\ written' = written
      /\ UNCHANGED <<currentBuffer, nextBuffer, buffers, newBuffer1, newBuffer2,
                     buffersToWrite, appended>>
  BY DEF WriteShort, frontVars
<1>2. PICK n \in 1 .. Len(Left) - 1 : file' = file \o SubSeq(Left, 1, n) /\ off' = off + n
  BY DEF WriteShort, WriteSome
<1>3. Left = SubSeq(d, off + 1, Len(d))
  BY DEF Left
<1>4. /\ b \in Buffer /\ d \in Lines /\ off \in Nat /\ Len(d) \in Nat /\ off <= Len(d)
  BY <1>1, NextCells
<1> DEFINE c == SubSeq(d, off + 1, off + n)
<1> HIDE DEF b, d
<1>5. /\ Left \in Lines /\ Len(Left) = Len(d) - off
      /\ \A i \in 1 .. Len(d) - off : Left[i] = d[off + i]
  BY <1>3, <1>4, SubLines
<1>6. n \in Nat /\ off + n <= Len(d) /\ n <= Len(Left)
  BY <1>4, <1>5
<1>7. SubSeq(Left, 1, n) = c
  <2>1. d \in Seq(Nat) /\ Left \in Seq(Nat)
    BY <1>4, <1>5 DEF Lines
  <2> DEFINE e == SubSeq(Left, 1, n)
  <2>2. e \in Seq(Nat) /\ Len(e) = n /\ \A i \in 1 .. n : e[i] = Left[i]
    BY <1>6, <2>1
  <2>3. c \in Seq(Nat) /\ Len(c) = n /\ \A i \in 1 .. n : c[i] = d[off + i]
    BY <1>4, <1>6, <2>1
  <2> HIDE DEF e, c
  <2>4. \A i \in 1 .. n : e[i] = c[i]
    <3>1. \A i \in 1 .. n : i \in 1 .. Len(d) - off
      BY <1>4, <1>6
    <3> QED BY <1>5, <2>2, <2>3, <3>1
  <2>5. e = c
    BY <1>6, <2>2, <2>3, <2>4
  <2> QED BY <2>5 DEF e
<1>8. PICK p \in Lines :
              /\ ToWrite = p \o (SubSeq(b.lines, (off + n) + 1, Len(b.lines))
                                   \o From(buffersToWrite, written + 2))
              /\ Len(p) \in 0 .. Len(c)
              /\ \A i \in 1 .. Len(p) : c[i] = p[i]
              /\ \A i \in Len(p) + 1 .. Len(c) : c[i] <= InFile
  BY <1>1, <1>6, NextCells DEF b, d
<1>9. c \in Lines
  BY <1>1, <1>6, NextCells DEF b, d
<1>10. ToWrite' = SubSeq(b.lines, (off + n) + 1, Len(b.lines)) \o From(buffersToWrite, written + 2)
  <2>1. ToWrite' = Pending(buffersToWrite, written, off + n)
    BY <1>1, <1>2, ToWriteIs
  <2>2. written # Len(buffersToWrite)
    BY <1>1, BuffersTyped
  <2> QED BY <2>1, <2>2 DEF Pending, b
<1>11. OffInv'
  BY <1>1, <1>2, <1>6 DEF OffInv, Contents, b, d
<1>12. BufferInv'
  BY WriteShortKeepsInv
<1>13. file' = file \o c /\ ToWrite = p \o ToWrite'
  BY <1>2, <1>7, <1>8, <1>10
<1> HIDE DEF c
<1> QED BY <1>1, <1>8, <1>9, <1>11, <1>12, <1>13, WriteKeepsLines

\* The rest of a buffer is written.
LEMMA BufferKeepsLines ==
  ASSUME BufferInv, LineInv, WriteBuffer
  PROVE  LineInv'
<1> DEFINE b == buffersToWrite[written + 1]
            d == Contents(b)
            n == Len(d) - off
            c == SubSeq(d, off + 1, off + n)
<1>1. /\ pc = "write" /\ pc' = pc /\ written < Len(buffersToWrite)
      /\ written' = written + 1 /\ off' = 0
      /\ UNCHANGED <<currentBuffer, nextBuffer, buffers, newBuffer1, newBuffer2,
                     buffersToWrite, appended>>
  BY DEF WriteBuffer, frontVars
<1>2. file' = file \o SubSeq(d, off + 1, Len(d))
  BY DEF WriteBuffer, appendInLock, Left
<1>3. /\ b \in Buffer /\ d \in Lines /\ off \in Nat /\ Len(d) \in Nat /\ off <= Len(d)
  BY <1>1, NextCells
<1>4. n \in Nat /\ off + n = Len(d)
  BY <1>3
<1> HIDE DEF b, d, n
<1>a. off + n <= Len(d)
  BY <1>3, <1>4
<1>5. c \in Lines /\ file' = file \o c
  <2>1. c \in Lines
    BY <1>1, <1>4, <1>a, NextCells DEF b, d
  <2> QED BY <1>2, <1>4, <2>1
<1>6. PICK p \in Lines :
              /\ ToWrite = p \o (SubSeq(b.lines, (off + n) + 1, Len(b.lines))
                                   \o From(buffersToWrite, written + 2))
              /\ Len(p) \in 0 .. Len(c)
              /\ \A i \in 1 .. Len(p) : c[i] = p[i]
              /\ \A i \in Len(p) + 1 .. Len(c) : c[i] <= InFile
  BY <1>1, <1>4, <1>a, NextCells DEF b, d
<1>7. SubSeq(b.lines, (off + n) + 1, Len(b.lines)) = <<>>
  <2>1. b.lines \in Lines /\ b.rest \in Lines
    BY <1>3 DEF Buffer, Lines
  <2>2. Len(d) >= Len(b.lines)
    <3>1. Len(d) = Len(b.lines) + Len(b.rest) /\ Len(b.lines) \in Nat /\ Len(b.rest) \in Nat
      BY <2>1, ConcatCells DEF d, Contents
    <3>2. \A x, y \in Nat : x + y >= x
      OBVIOUS
    <3> QED BY <3>1, <3>2, Zenon
  <2> QED BY <1>3, <1>4, <2>1, <2>2, SubLines
<1>8. ToWrite' = From(buffersToWrite, written + 2) /\ From(buffersToWrite, written + 2) \in Lines
  <2>1. /\ buffersToWrite \in Seq(Buffer) /\ written \in Nat /\ Len(buffersToWrite) \in Nat
    BY BuffersTyped
  <2>2. /\ written + 1 \in 0 .. Len(buffersToWrite) /\ (written + 1) + 1 = written + 2
        /\ written + 2 \in 1 .. Len(buffersToWrite) + 1 /\ 0 \in Nat
    BY <1>1, <2>1
  <2>3. ToWrite' = Pending(buffersToWrite, written + 1, 0)
    BY <1>1, ToWriteIs
  <2>4. Pending(buffersToWrite, written + 1, 0) = From(buffersToWrite, (written + 1) + 1)
    BY <2>1, <2>2, PendingOps
  <2> QED BY <2>1, <2>2, <2>3, <2>4, FromOps
<1>9. ToWrite = p \o ToWrite'
  BY <1>6, <1>7, <1>8, Concat
<1>10. OffInv'
  BY <1>1 DEF OffInv
<1>11. BufferInv'
  BY WriteKeepsInv
<1> HIDE DEF c
<1> QED BY <1>1, <1>5, <1>6, <1>9, <1>10, <1>11, WriteKeepsLines

\* The buffers that come back hold lines of the file only.
LEMMA ReturnKeepsLines ==
  ASSUME BufferInv, LineInv, ReturnBuffers
  PROVE  LineInv'
<1> DEFINE kept == Kept(Len(buffersToWrite))
            second == IF newBuffer1 = None THEN kept - 1 ELSE kept
<1>1. /\ pc = "write" /\ pc' = "test" /\ written = Len(buffersToWrite)
      /\ buffersToWrite' = <<>> /\ written' = 0 /\ off' = off
      /\ durable' = Len(file) /\ file' = file
      /\ UNCHANGED <<currentBuffer, nextBuffer, buffers, appended>>
  BY DEF ReturnBuffers, flush, frontVars
<1>2. /\ buffersToWrite \in Seq(Buffer) /\ Len(buffersToWrite) \in Nat
      /\ Len(buffersToWrite) >= 1 /\ off = 0
  BY <1>1, BuffersTyped DEF BufferInv, LineInv, OffInv
<1>3. ToWrite = <<>> /\ ToWrite' = <<>> /\ Len(ToWrite) = 0
  BY <1>1 DEF ToWrite
<1>4. InFile' = InFile /\ InFile \in Nat
  BY <1>1, ToWriteIs DEF InFile, LineInv, FileInv
<1>5. ASSUME NEW i \in 1 .. Len(buffersToWrite) PROVE Spare(reset(buffersToWrite[i]), InFile)
  <2> DEFINE b == buffersToWrite[i]
  <2>1. b \in Buffer /\ i \in DOMAIN buffersToWrite
    BY <1>2
  <2>2. b.lines \in Lines /\ b.rest \in Lines
    BY <2>1 DEF Buffer, Lines
  <2>3. AtMost(b.rest, InFile) /\ AtMost(b.lines, InFile)
    BY <1>3, <1>4, <2>1 DEF LineInv, OldInv, Filled
  <2> HIDE DEF b
  <2>4. AtMost(b.lines \o b.rest, InFile)
    BY <1>4, <2>2, <2>3, AtMostOps
  <2> QED BY <2>4 DEF Spare, reset, b
<1>6. kept \in 1 .. Len(buffersToWrite)
  BY <1>2 DEF Kept
<1>7. newBuffer2 = None => second \in 1 .. Len(buffersToWrite)
  <2>1. newBuffer2 = None => Len(buffersToWrite) >= 2
    BY <1>1 DEF BufferInv
  <2> QED BY <1>2, <2>1 DEF Kept
<1>8. /\ newBuffer1' = IF newBuffer1 = None THEN reset(buffersToWrite[kept]) ELSE newBuffer1
      /\ newBuffer2' = IF newBuffer2 = None THEN reset(buffersToWrite[second]) ELSE newBuffer2
  BY DEF ReturnBuffers
<1> HIDE DEF kept, second
<1>9. Spare(newBuffer1', InFile) /\ Spare(newBuffer2', InFile)
  BY <1>5, <1>6, <1>7, <1>8 DEF LineInv, OldInv
<1>10. OldInv'
  <2>1. DOMAIN buffersToWrite' = {}
    BY <1>1
  <2> QED BY <1>1, <1>4, <1>9, <2>1 DEF LineInv, OldInv
<1>11. NumberInv'
  <2>1. Held' = Held
    BY <1>1, <1>3, ToWriteIs DEF Held
  <2> QED BY <1>1, <1>4, <2>1 DEF LineInv, NumberInv, Num
<1>12. FileInv'
  BY <1>1, <1>4 DEF LineInv, FileInv, IsTop, Ordered
<1>13. OffInv' /\ DurableInv'
  BY <1>1, <1>2 DEF OffInv, DurableInv
<1> QED BY <1>10, <1>11, <1>12, <1>13 DEF LineInv

\* Every step keeps it.
LEMMA StepLineInv == BufferInv /\ LineInv /\ [Next]_vars => LineInv'
<1> SUFFICES ASSUME BufferInv, LineInv, [Next]_vars PROVE LineInv'
  OBVIOUS
<1>0. DurableInv
  BY DEF LineInv
<1>1. CASE start
  <2>1. DurableInv' /\ UNCHANGED <<frontVars, backVars, appended, file>>
    BY <1>0, <1>1 DEF start, DurableInv, fileVars
  <2> QED BY <2>1, QuietKeepsLines
<1>2. CASE append
  BY <1>2, AppendKeepsLines
<1>3. CASE stop
  <2>1. DurableInv' /\ UNCHANGED <<frontVars, backVars, appended, file>>
    BY <1>0, <1>3 DEF stop, DurableInv, fileVars
  <2> QED BY <2>1, QuietKeepsLines
<1>4. CASE TestRunning \/ WaitForBuffers
  <2>1. DurableInv' /\ UNCHANGED <<frontVars, backVars, appended, file>>
    BY <1>0, <1>4 DEF TestRunning, WaitForBuffers, DurableInv, fileVars
  <2> QED BY <2>1, QuietKeepsLines
<1>5. CASE OpenLogFile
  <2>1. DurableInv' /\ UNCHANGED <<frontVars, backVars, appended, file>>
    BY <1>0, <1>5 DEF OpenLogFile, OpenFile, rollFile, DurableInv
  <2> QED BY <2>1, QuietKeepsLines
<1>6. CASE SwapBuffers
  BY <1>6, SwapKeepsLines
<1>7. CASE WriteShort
  BY <1>7, ShortKeepsLines
<1>8. CASE WriteBuffer
  BY <1>8, BufferKeepsLines
<1>9. CASE ReturnBuffers
  BY <1>9, ReturnKeepsLines
<1>10. CASE ClockStep
  <2>1. DurableInv' /\ UNCHANGED <<frontVars, backVars, appended, file>>
    BY <1>0, <1>10 DEF ClockStep, SetClock, DurableInv
  <2> QED BY <2>1, QuietKeepsLines
<1>11. CASE UNCHANGED vars
  <2>1. DurableInv' /\ UNCHANGED <<frontVars, backVars, appended, file>>
    BY <1>0, <1>11 DEF vars, fileVars, DurableInv
  <2> QED BY <2>1, QuietKeepsLines
<1> QED
  BY <1>1, <1>2, <1>3, <1>4, <1>5, <1>6, <1>7, <1>8, <1>9, <1>10, <1>11 DEF Next, BackendStep

\* No line is lost, doubled or reordered between append() and the files, for every size
\* of the buffers, any number of lines and every way in which the writes are cut, and
\* nothing from the unused part of a buffer comes into the file before its time.
THEOREM LinesAlwaysConserved == SafetySpec => []LinesConserved
  BY BufferInvariant, InitLineInv, StepLineInv, LinesConservedIs, PTL DEF SafetySpec

=============================================================================
