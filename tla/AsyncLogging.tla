----------------------------- MODULE AsyncLogging -----------------------------
(***************************************************************************)
(* The asynchronous logger (src/logger/AsyncLogging.cc): any thread calls  *)
(* append(), which fills fixed-size buffers under mutex_; one backend      *)
(* thread swaps the filled buffers out, writes them to the file and hands  *)
(* two of them back for reuse.  The file is LogFile's.                     *)
(*                                                                         *)
(* A line takes one cell of a buffer of SIZE cells (the code passes every  *)
(* line with the same length, that of the line's own fixed buffer).  Lines *)
(* are numbered in the order in which append() takes the lock.  A buffer   *)
(* is a record of its lines, data_ up to cur_, and of rest, what the cells *)
(* from cur_ on still hold from earlier use (zero bytes are left out).     *)
(*                                                                         *)
(* wait_for() is not in a loop that tests a condition, so the backend goes *)
(* on after a notification, after three seconds or for no reason alike.    *)
(***************************************************************************)
EXTENDS LogFile, SequencesExt

CONSTANTS
  SIZE,      \* cells of a buffer, FixedBuffer's template argument
  None,      \* a null BufferPtr
  MaxLines,  \* bound: lines logged
  MaxCells   \* bound: cells in the file before a round without a new line

Junk == 0                                  \* an uninitialised cell
Buffer == [lines : Seq(Nat), rest : Seq(Nat)]
Fresh == [lines |-> <<>>, rest |-> <<>>]   \* a buffer after bzero()

ASSUME LogAssumption ==
  /\ SIZE \in Nat /\ SIZE >= 2
  /\ MaxLines \in Nat /\ MaxCells \in Nat
  /\ None \notin Buffer

VARIABLES
  currentBuffer, nextBuffer, buffers,  \* currentBuffer_, nextBuffer_, buffers_
  newBuffer1, newBuffer2,              \* the backend's spare buffers
  buffersToWrite,                      \* its vector
  written,                             \* how many of buffersToWrite are in the file
  off,                                 \* how many cells of the next one are in the file
  pc,                                  \* where the backend thread is
  running,                             \* running_
  appended                             \* history: lines passed to append() so far

frontVars == <<currentBuffer, nextBuffer, buffers>>
backVars == <<newBuffer1, newBuffer2, buffersToWrite, written, off>>
vars == <<frontVars, backVars, pc, running, appended, fileVars>>

Init ==
  /\ currentBuffer = Fresh /\ nextBuffer = Fresh /\ buffers = <<>>
  /\ newBuffer1 = Fresh /\ newBuffer2 = Fresh /\ buffersToWrite = <<>>
  /\ written = 0 /\ off = 0
  /\ pc = "created"
  /\ running = FALSE
  /\ appended = 0
  /\ FileInit

-----------------------------------------------------------------------------
(* FixedBuffer.                                                            *)

avail(b) == SIZE - Len(b.lines)

\* A line overwrites the cell at cur_; one that does not fit is dropped.
AppendTo(b, line) ==
  IF avail(b) > 1
  THEN [lines |-> Append(b.lines, line),
        rest |-> IF b.rest = <<>> THEN <<>> ELSE Tail(b.rest)]
  ELSE b

\* reset() moves cur_ back and leaves the bytes where they are.
reset(b) == [lines |-> <<>>, rest |-> b.lines \o b.rest]

\* data() with length(): all cells, not only those up to cur_.
Contents(b) == b.lines \o b.rest

-----------------------------------------------------------------------------
(* The calls of other threads.                                             *)

\* running_ is set before the thread starts.
start ==
  /\ pc = "created"
  /\ running' = TRUE
  /\ pc' = "open"
  /\ UNCHANGED <<frontVars, backVars, appended, fileVars>>

\* The buffer that append() goes on with: the spare one, or a new one whose
\* memory was not cleared.
NextBuffers == IF nextBuffer # None THEN {nextBuffer}
               ELSE {Fresh, [lines |-> <<>>, rest |-> <<Junk>>]}

append ==
  /\ appended < MaxLines
  /\ appended' = appended + 1
  /\ IF avail(currentBuffer) > 1
     THEN /\ currentBuffer' = AppendTo(currentBuffer, appended + 1)
          /\ UNCHANGED <<nextBuffer, buffers>>
     ELSE \E b \in NextBuffers :
            /\ buffers' = Append(buffers, currentBuffer)
            /\ currentBuffer' = AppendTo(b, appended + 1)
            /\ nextBuffer' = None
  /\ UNCHANGED <<backVars, pc, running, fileVars>>

\* stop() then joins the backend, which the caller's next step waits for.
stop ==
  /\ running
  /\ running' = FALSE
  /\ UNCHANGED <<frontVars, backVars, pc, appended, fileVars>>

-----------------------------------------------------------------------------
(* threadFunc().                                                           *)

OpenLogFile ==
  /\ pc = "open"
  /\ OpenFile
  /\ pc' = "test"
  /\ UNCHANGED <<frontVars, backVars, running, appended>>

TestRunning ==
  /\ pc = "test"
  /\ pc' = IF running THEN "lock" ELSE "done"
  /\ UNCHANGED <<frontVars, backVars, running, appended, fileVars>>

WaitForBuffers ==
  /\ pc = "lock"
  /\ buffers = <<>>
  /\ pc' = "wait"
  /\ UNCHANGED <<frontVars, backVars, running, appended, fileVars>>

WaitForeverMutant ==
  /\ buffers # <<>>
  /\ pc \in {"lock", "wait"}
  /\ buffersToWrite' = Append(buffers, currentBuffer)
  /\ buffers' = <<>>
  /\ currentBuffer' = newBuffer1 /\ newBuffer1' = None
  /\ nextBuffer' = IF nextBuffer = None THEN newBuffer2 ELSE nextBuffer
  /\ newBuffer2' = IF nextBuffer = None THEN None ELSE newBuffer2
  /\ pc' = "write"
  /\ UNCHANGED <<written, off, running, appended, fileVars>>

\* The critical section, at once or after wait_for(): the current buffer goes
\* too, full or not, and the spare buffers take the places.  A round without a
\* new line writes the old cells of a buffer once more, so these are bounded.
SwapBuffers ==
  /\ pc \in {"lock", "wait"}
  /\ pc = "lock" => buffers # <<>>
  /\ buffers = <<>> /\ currentBuffer.lines = <<>> => Len(file) < MaxCells
  /\ buffersToWrite' = Append(buffers, currentBuffer)
  /\ buffers' = <<>>
  /\ currentBuffer' = newBuffer1 /\ newBuffer1' = None
  /\ nextBuffer' = IF nextBuffer = None THEN newBuffer2 ELSE nextBuffer
  /\ newBuffer2' = IF nextBuffer = None THEN None ELSE newBuffer2
  /\ pc' = "write"
  /\ UNCHANGED <<written, off, running, appended, fileVars>>

\* What is still to be written of the next buffer.
LeftMutant == Contents(buffersToWrite[written + 1])
Left == LET cells == Contents(buffersToWrite[written + 1])
        IN SubSeq(cells, off + 1, Len(cells))

WriteShort ==
  /\ pc = "write" /\ written < Len(buffersToWrite)
  /\ \E n \in 1 .. Len(Left) - 1 : /\ WriteSome(SubSeq(Left, 1, n))
                                   /\ off' = off + n
  /\ UNCHANGED <<frontVars, newBuffer1, newBuffer2, buffersToWrite, written, pc,
                 running, appended>>

WriteBuffer ==
  /\ pc = "write" /\ written < Len(buffersToWrite)
  /\ appendInLock(Left, SIZE)
  /\ written' = written + 1 /\ off' = 0
  /\ UNCHANGED <<frontVars, newBuffer1, newBuffer2, buffersToWrite, pc, running,
                 appended>>

\* Two buffers at most are kept; newBuffer1 is the last of them, newBuffer2 the
\* one before.
KeptMutant(n) == IF n > 1 THEN 1 ELSE n
Kept(n) == IF n > 2 THEN 2 ELSE n

ReturnBuffers ==
  LET kept == Kept(Len(buffersToWrite))
      second == IF newBuffer1 = None THEN kept - 1 ELSE kept
  IN /\ pc = "write"
     /\ written = Len(buffersToWrite)
     /\ newBuffer1' = IF newBuffer1 = None THEN reset(buffersToWrite[kept])
                      ELSE newBuffer1
     /\ newBuffer2' = IF newBuffer2 = None THEN reset(buffersToWrite[second])
                      ELSE newBuffer2
     /\ buffersToWrite' = <<>> /\ written' = 0
     /\ flush
     /\ pc' = "test"
     /\ UNCHANGED <<frontVars, off, running, appended>>

-----------------------------------------------------------------------------
BackendStep ==
  \/ OpenLogFile \/ TestRunning \/ WaitForBuffers \/ SwapBuffers
  \/ WriteShort \/ WriteBuffer \/ ReturnBuffers

\* The clock is only looked at by the backend's file, so it is enough that it moves
\* before it is.
ClockStep == pc \in {"open", "write"} /\ SetClock /\ UNCHANGED <<frontVars, backVars, pc, running, appended>>

Next == start \/ append \/ stop \/ BackendStep \/ ClockStep

\* The backend runs on: it gets the mutex, wait_for() ends within 3 s, and the
\* file system takes the data in the end.
Fairness == WF_vars(BackendStep)

SafetySpec == Init /\ [][Next]_vars
Spec == SafetySpec /\ Fairness

-----------------------------------------------------------------------------
(* Properties.                                                             *)

TypeOK ==
  /\ currentBuffer \in Buffer \cup {None} /\ nextBuffer \in Buffer \cup {None}
  /\ newBuffer1 \in Buffer \cup {None} /\ newBuffer2 \in Buffer \cup {None}
  /\ buffers \in Seq(Buffer) /\ buffersToWrite \in Seq(Buffer)
  /\ written \in Nat /\ off \in Nat
  /\ pc \in {"created", "open", "test", "lock", "wait", "write", "done"}
  /\ running \in BOOLEAN
  /\ appended \in Nat

\* The buffers that the backend must hand back to itself after writing.
Missing == (IF newBuffer1 = None THEN 1 ELSE 0) + (IF newBuffer2 = None THEN 1 ELSE 0)

\* No null pointer is used: append() always has a current buffer, the swap finds
\* both spare buffers, and after the writing enough buffers are left in the
\* vector to replace those that were given away.
BuffersSuffice ==
  /\ currentBuffer # None
  /\ pc \in {"lock", "wait"} => newBuffer1 # None /\ newBuffer2 # None
  /\ pc = "write" => Kept(Len(buffersToWrite)) >= Missing

\* The inductive invariant behind it: the spare buffer of the front is taken
\* only together with a push to buffers_, so whenever the backend gives both of
\* its own away there are two buffers to write.
BufferInv ==
  /\ TypeOK
  /\ currentBuffer # None
  /\ nextBuffer = None => buffers # <<>>
  /\ pc # "write" => /\ newBuffer1 # None /\ newBuffer2 # None
                     /\ buffersToWrite = <<>>
  /\ pc = "write" => Len(buffersToWrite) >= 1
  /\ pc = "write" /\ newBuffer2 = None => Len(buffersToWrite) >= 2
  /\ written <= Len(buffersToWrite)

LinesOf(bs) == FlattenSeq([i \in DOMAIN bs |-> bs[i].lines])

\* The number of the last line that is in the file; lines are numbered from 1.
InFile == Max({0} \cup Range(file))

\* The lines of the backend that are not in the file yet.
ToWrite ==
  IF written = Len(buffersToWrite) THEN <<>>
  ELSE LET lines == buffersToWrite[written + 1].lines
       IN SubSeq(lines, off + 1, Len(lines))
            \o LinesOf(SubSeq(buffersToWrite, written + 2, Len(buffersToWrite)))

\* No line is lost, doubled or reordered on its way from append() through the swaps
\* and short writes to the files: the lines in the files, those the backend has
\* still to write, those in buffers_ and those in the current buffer are together
\* the lines passed to append(), in order.  What the unused part of a buffer brings
\* into the file besides (length() is the capacity, and reset() does not clear) is
\* a line that is already there, never one that comes later.  Between two rounds
\* all that was taken over is flushed, so that stop() leaves behind only what
\* append() was given since the last swap.
LinesConserved ==
  /\ \A i \in DOMAIN file : file[i] > 1 => \E j \in 1 .. i - 1 : file[j] >= file[i] - 1
  /\ ToWrite \o LinesOf(buffers) \o currentBuffer.lines
       = [i \in 1 .. appended - InFile |-> InFile + i]
  /\ pc # "write" => durable = Len(file)

\* Every line logged is written and flushed, within the timeout of wait_for(), unless
\* the logger is stopped.
LineIsWritten ==
  \A n \in 1 .. MaxLines :
    (running /\ appended >= n)
      ~> (~running \/ \E i \in 1 .. durable : file[i] = n)
=============================================================================
