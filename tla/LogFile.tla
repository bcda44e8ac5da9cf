------------------------------- MODULE LogFile -------------------------------
(***************************************************************************)
(* The log file behind the logger's backend thread: LogFile.cc, which      *)
(* starts a new file when one is too large or of an earlier day, and       *)
(* FileUtil.cc, which writes through the buffer of a FILE.                 *)
(*                                                                         *)
(* The files are one sequence of cells, since they are opened for          *)
(* appending, one after the other.  Time is counted in seconds of the wall *)
(* clock, which may be set back; a day has kRollPerSeconds of them.        *)
(***************************************************************************)
EXTENDS Integers, Sequences

CONSTANTS
  rollSize, flushInterval, checkEveryN, kRollPerSeconds,
  MaxTime    \* bound: the latest time

ASSUME FileAssumption ==
  /\ rollSize \in Nat /\ flushInterval \in Nat /\ MaxTime \in Nat \ {0}
  /\ checkEveryN \in Nat \ {0} /\ kRollPerSeconds \in Nat \ {0}

VARIABLES
  now,            \* time(NULL)
  file,           \* the cells written to all files so far
  durable,        \* how many of them have left the buffer of the FILE
  writtenBytes,   \* writtenBytes_ of the present file
  count,          \* count_
  startOfPeriod, lastRoll, lastFlush,   \* startOfPeriod_, lastRoll_, lastFlush_
  lastAppend,     \* history: when the file was last appended to
  overdue,        \* history: appends to the present file on another day than its own
  clockBack       \* history: the clock was set back

clockVars == <<now, clockBack>>
rollVars == <<writtenBytes, count, startOfPeriod, lastRoll, lastFlush, lastAppend, overdue>>
fileVars == <<clockVars, file, durable, rollVars>>

FileInit ==
  /\ now = 1 /\ clockBack = FALSE
  /\ file = <<>> /\ durable = 0 /\ writtenBytes = 0 /\ count = 0
  /\ startOfPeriod = 0 /\ lastRoll = 0 /\ lastFlush = 0
  /\ lastAppend = 0 /\ overdue = 0

\* Midnight before t.
Period(t) == (t \div kRollPerSeconds) * kRollPerSeconds

-----------------------------------------------------------------------------
\* rollFile(), with bytes and late for the present file if it is kept: there is no
\* new file in the second of the last one.  The old file is closed and so flushed.
MayRollMutant == now > lastRoll + 1
MayRoll == now > lastRoll

rollFile(bytes, late) ==
  IF MayRoll
  THEN /\ lastRoll' = now /\ lastFlush' = now /\ startOfPeriod' = Period(now)
       /\ writtenBytes' = 0 /\ overdue' = 0
       /\ durable' = Len(file')
  ELSE /\ writtenBytes' = bytes /\ overdue' = late
       /\ UNCHANGED <<durable, lastRoll, lastFlush, startOfPeriod>>

\* The constructor.
OpenFile == UNCHANGED <<clockVars, file, count, lastAppend>> /\ rollFile(0, 0)

\* FileUtil::append() goes on after a short write with what is left.
WriteSome(cells) == file' = file \o cells /\ UNCHANGED <<clockVars, durable, rollVars>>

UpTo(bound, n) == IF n > bound THEN bound ELSE n   \* more makes no difference

Keep(bytes, late) ==
  /\ writtenBytes' = bytes /\ overdue' = late
  /\ UNCHANGED <<durable, startOfPeriod, lastRoll, lastFlush>>

\* appendInLock(): the last write of len bytes, then the tests.  The day and the
\* time of the last flush are looked at once in checkEveryN appends.
appendInLock(cells, len) ==
  LET bytes == UpTo(rollSize + 1, writtenBytes + len)
      late == IF Period(now) = startOfPeriod THEN overdue
              ELSE UpTo(checkEveryN, overdue + 1)
  IN /\ file' = file \o cells
     /\ lastAppend' = now
     /\ UNCHANGED clockVars
     /\ IF bytes > rollSize THEN rollFile(bytes, late) /\ UNCHANGED count
        ELSE IF count + 1 < checkEveryN THEN Keep(bytes, late) /\ count' = count + 1
        ELSE /\ count' = 0
             /\ IF Period(now) # startOfPeriod THEN rollFile(bytes, late)
                ELSE IF now - lastFlush > flushInterval
                THEN /\ lastFlush' = now /\ durable' = Len(file')
                     /\ writtenBytes' = bytes /\ overdue' = late
                     /\ UNCHANGED <<startOfPeriod, lastRoll>>
                ELSE Keep(bytes, late)

flush == durable' = Len(file) /\ UNCHANGED <<clockVars, file, rollVars>>

\* The clock goes on, up to MaxTime, or is set back, once.
SetClock ==
  /\ now' \in 1 .. MaxTime \ {now}
  /\ now' > now => now' = now + 1
  /\ now' < now => ~clockBack
  /\ clockBack' = (clockBack \/ now' < now)
  /\ UNCHANGED <<file, durable, rollVars>>

-----------------------------------------------------------------------------
FileTypeOK ==
  /\ now \in 1 .. MaxTime /\ clockBack \in BOOLEAN
  /\ file \in Seq(Nat) /\ durable \in 0 .. Len(file)
  /\ writtenBytes \in Nat /\ count \in 0 .. checkEveryN - 1
  /\ startOfPeriod \in Nat /\ lastRoll \in Nat /\ lastFlush \in Nat
  /\ lastAppend \in Nat /\ overdue \in Nat

\* Files are rolled in time: one that is larger than rollSize_ was last appended to
\* in the second in which it was begun, and fewer than checkEveryN appends of
\* another day go to a file, as long as the clock is not set back.
RollsInTime ==
  ~clockBack => /\ writtenBytes > rollSize => lastAppend <= lastRoll
                /\ overdue < checkEveryN
=============================================================================
