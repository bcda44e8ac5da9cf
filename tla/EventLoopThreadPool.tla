------------------------- MODULE EventLoopThreadPool -------------------------
(***************************************************************************)
(* The threads that run the sub loops: EventLoopThread.cc, base/Thread.cc  *)
(* and EventLoopThreadPool.cc.  The owner (the base loop's thread) starts  *)
(* them one after the other, hands their loops out in turn and in the end  *)
(* destroys the pool, which destroys every EventLoopThread in order.       *)
(*                                                                         *)
(* Of a loop only this matters here: loop() first sets quit_ to FALSE, and *)
(* ends some time after quit_ was set (EventLoop).  The EventLoop object   *)
(* lives on the thread's stack.  A callback may end its own loop.          *)
(* TcpServer composes the pool with the server that uses it.               *)
(***************************************************************************)
EXTENDS Integers, Sequences

CONSTANT numThreads    \* numThreads_

ASSUME ThreadsAssumption == numThreads \in Nat

Ids == 1 .. numThreads   \* the sub loops and their threads
Base == 0                \* baseLoop_

VARIABLES
  tpc,        \* per thread: where it is in threadFunc()
  loopPtr,    \* per thread: loop_ is set
  quit,       \* per loop: quit_
  lostQuit,   \* history: loops that overwrote a quit() when they entered loop()
  selfQuit,   \* history: loops that were ended by one of their own callbacks
  opc,        \* the owner
  cur,        \* the thread that the owner starts or destroys
  loops,      \* loops_
  next,       \* next_ (counted from 0)
  last,       \* history: the loop handed out last
  fault       \* history: "null", "freed" or "late" (quit() on a loop that has
              \* ended meanwhile): undefined behaviour from there on

threadVars == <<tpc, loopPtr, quit, lostQuit, selfQuit>>
poolVars == <<loops, next, last>>
threadPoolVars == <<threadVars, opc, cur, poolVars>>

PoolInit ==
  /\ tpc = [i \in Ids |-> "none"]
  /\ loopPtr = [i \in Ids |-> FALSE]
  /\ quit = [i \in Ids |-> FALSE]
  /\ lostQuit = {} /\ selfQuit = {}
  /\ opc = "start" /\ cur = 1
  /\ loops = <<>> /\ next = 0
  /\ last = Base
  /\ fault = "none"

-----------------------------------------------------------------------------
(* A thread of the pool.                                                   *)

ThreadGoes(i, from, to) ==
  /\ tpc[i] = from
  /\ tpc' = [tpc EXCEPT ![i] = to]

\* The thread posts the semaphore that Thread::start() waits for.
PostTid(i) ==
  /\ ThreadGoes(i, "begin", "create")
  /\ opc' = IF opc = "tid" /\ cur = i THEN "test" ELSE opc
  /\ UNCHANGED <<loopPtr, quit, lostQuit, selfQuit, cur, poolVars, fault>>

\* After the loop was constructed and the user's init callback was called.
PublishLoop(i) ==
  /\ ThreadGoes(i, "create", "published")
  /\ loopPtr' = [loopPtr EXCEPT ![i] = TRUE]
  /\ opc' = IF opc = "wait" /\ cur = i THEN "test" ELSE opc
  /\ UNCHANGED <<quit, lostQuit, selfQuit, cur, poolVars, fault>>

EnterLoop(i) ==
  /\ ThreadGoes(i, "published", "looping")
  /\ quit' = [quit EXCEPT ![i] = FALSE]
  /\ lostQuit' = IF quit[i] THEN lostQuit \cup {i} ELSE lostQuit
  /\ UNCHANGED <<loopPtr, selfQuit, opc, cur, poolVars, fault>>

\* A callback run by the loop calls quit().
SelfQuit(i) ==
  /\ tpc[i] = "looping"
  /\ ~quit[i]
  /\ quit' = [quit EXCEPT ![i] = TRUE]
  /\ selfQuit' = selfQuit \cup {i}
  /\ UNCHANGED <<tpc, loopPtr, lostQuit, opc, cur, poolVars, fault>>

ExitLoop(i) ==
  /\ ThreadGoes(i, "looping", "exited")
  /\ quit[i]
  /\ UNCHANGED <<loopPtr, quit, lostQuit, selfQuit, opc, cur, poolVars, fault>>

ClearLoop(i) ==
  /\ ThreadGoes(i, "exited", "cleared")
  /\ loopPtr' = [loopPtr EXCEPT ![i] = FALSE]
  /\ UNCHANGED <<quit, lostQuit, selfQuit, opc, cur, poolVars, fault>>

\* The mutex is unlocked, the loop destroyed and the thread ends.
ThreadEnds(i) ==
  /\ ThreadGoes(i, "cleared", "ended")
  /\ UNCHANGED <<loopPtr, quit, lostQuit, selfQuit, opc, cur, poolVars, fault>>

\* The EventLoop object exists.
LoopAlive(i) == i = Base \/ tpc[i] \in {"published", "looping", "exited", "cleared"}

-----------------------------------------------------------------------------
(* The owner: start().                                                     *)

StartThread ==
  /\ opc = "start" /\ cur \in Ids
  /\ ThreadGoes(cur, "none", "begin")
  /\ opc' = "tid"
  /\ UNCHANGED <<loopPtr, quit, lostQuit, selfQuit, cur, poolVars, fault>>

WaitForLoop ==
  /\ opc = "test" /\ ~loopPtr[cur]
  /\ opc' = "wait"
  /\ UNCHANGED <<threadVars, cur, poolVars, fault>>

StartedUntestedMutant ==
  /\ opc = "test"
  /\ loops' = Append(loops, cur)
  /\ cur' = cur + 1
  /\ opc' = "start"
  /\ UNCHANGED <<threadVars, next, last, fault>>

LoopStarted ==
  /\ opc = "test" /\ loopPtr[cur]
  /\ loops' = Append(loops, cur)
  /\ cur' = cur + 1
  /\ opc' = "start"
  /\ UNCHANGED <<threadVars, next, last, fault>>

AllStarted ==
  /\ opc = "start" /\ cur \notin Ids
  /\ opc' = "run"
  /\ UNCHANGED <<threadVars, cur, poolVars, fault>>

-----------------------------------------------------------------------------
(* The owner: getNextLoop() and the destructors.                           *)

After(n) == IF n + 1 >= Len(loops) THEN 0 ELSE n + 1

getNextLoop ==
  /\ opc = "run"
  /\ last' = IF loops = <<>> THEN Base ELSE loops[next + 1]
  /\ next' = IF loops = <<>> THEN next ELSE After(next)
  /\ UNCHANGED <<threadVars, opc, cur, loops>>

\* ~EventLoopThreadPool destroys threads_ from the first to the last.
BeginDestroy ==
  /\ opc = "run"
  /\ opc' = "destroy" /\ cur' = 1
  /\ UNCHANGED <<threadVars, poolVars>>

\* ~EventLoopThread: loop_ is read without the mutex.  A thread that is not
\* joined is detached and its EventLoopThread freed.
TestLoopPtr ==
  /\ opc = "destroy" /\ cur \in Ids
  /\ IF loopPtr[cur]
     THEN /\ opc' = "quit"
          /\ UNCHANGED <<cur, fault>>
     ELSE /\ cur' = cur + 1
          /\ fault' = IF tpc[cur] = "ended" THEN fault ELSE "freed"
          /\ UNCHANGED opc
  /\ UNCHANGED <<threadVars, poolVars>>

QuitForgottenMutant ==
  /\ opc = "quit"
  /\ opc' = "quitting"
  /\ UNCHANGED <<threadVars, cur, poolVars, fault>>

\* loop_->quit(), its first half: loop_ is read again, and quit_ set.
QuitLoop ==
  /\ opc = "quit"
  /\ IF loopPtr[cur]
     THEN /\ quit' = [quit EXCEPT ![cur] = TRUE]
          /\ opc' = "quitting"
          /\ UNCHANGED fault
     ELSE /\ fault' = "null"
          /\ UNCHANGED <<quit, opc>>
  /\ UNCHANGED <<tpc, loopPtr, lostQuit, selfQuit, cur, poolVars>>

\* Its second half, isInLoopThread(), reads threadId_ of the loop.  The loop may have
\* seen quit_ in between, ended, and been destroyed with its thread's stack: the read
\* may still find a value that makes no difference, or anything may happen.
QuitReadsThread ==
  /\ opc = "quitting"
  /\ \/ opc' = "join" /\ UNCHANGED fault
     \/ tpc[cur] = "ended" /\ fault' = "late" /\ UNCHANGED opc
  /\ UNCHANGED <<threadVars, cur, poolVars>>

Join ==
  /\ opc = "join"
  /\ tpc[cur] = "ended"
  /\ opc' = "destroy" /\ cur' = cur + 1
  /\ UNCHANGED <<threadVars, poolVars, fault>>

Destroyed ==
  /\ opc = "destroy" /\ cur \notin Ids
  /\ opc' = "done"
  /\ UNCHANGED <<threadVars, cur, poolVars, fault>>

-----------------------------------------------------------------------------
OwnerStep ==
  \/ StartThread \/ WaitForLoop \/ LoopStarted \/ AllStarted
  \/ TestLoopPtr \/ QuitLoop \/ QuitReadsThread \/ Join \/ Destroyed

-----------------------------------------------------------------------------
(* Properties.                                                             *)

TypeOK ==
  /\ tpc \in [Ids -> {"none", "begin", "create", "published", "looping", "exited",
                      "cleared", "ended"}]
  /\ loopPtr \in [Ids -> BOOLEAN] /\ quit \in [Ids -> BOOLEAN]
  /\ lostQuit \subseteq Ids /\ selfQuit \subseteq Ids
  /\ opc \in {"start", "tid", "test", "wait", "run", "destroy", "quit", "quitting", "join",
             "done"}
  /\ cur \in 1 .. numThreads + 1
  /\ loops \in Seq(Ids) /\ next \in Nat
  /\ last \in Ids \cup {Base}
  /\ fault \in {"none", "null", "freed", "late"}

\* Nothing that is not there is used, as long as no callback ended a loop by itself:
\* a connection, or a functor for one, is given to a loop that exists, neither too
\* soon after its thread was started nor after it was destroyed; and the destructor,
\* which reads loop_ without the mutex, neither follows a null pointer nor frees a
\* mutex that its thread still uses.  The one exception that needs no callback is in
\* quit(): between its two halves the loop that the destructor is just ending may
\* see quit_ and be gone before its threadId_ is read.
LoopsAreThere ==
  \/ fault = "none"
  \/ selfQuit # {}
  \/ fault = "late" /\ opc = "quitting"

\* The destructor of the pool comes to an end, unless a loop entered loop() after
\* quit() was called on it, which forgets the quit().
DestroyReturns == opc = "destroy" ~> (opc = "done" \/ fault # "none" \/ lostQuit # {})
=============================================================================
