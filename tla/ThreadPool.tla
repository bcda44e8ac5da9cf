------------------------------ MODULE ThreadPool ------------------------------
(***************************************************************************)
(* The worker pool (src/base/ThreadPool.cc): tasks are queued under mutex_ *)
(* by any thread, tasks included, and taken by the workers, which sleep on *)
(* cond_ while there is nothing to do.                                     *)
(*                                                                         *)
(* A critical section is one action.  wait() is left after a notification  *)
(* or for no reason; either way the worker tests the queue again.  A task  *)
(* is a number, in the order of the calls of add().  A task, or the init   *)
(* callback, may throw: the worker logs that and ends.  Threads outside    *)
(* the pool do not use it once its destructor has begun.                   *)
(***************************************************************************)
EXTENDS Integers, Sequences, FiniteSets

CONSTANTS
  threadSize,   \* threadSize_
  MaxTasks      \* bound: tasks added

ASSUME ThreadPoolAssumption == threadSize \in Nat \ {0} /\ MaxTasks \in Nat

Workers == 1 .. threadSize

VARIABLES
  queue,      \* queue_
  running,    \* running_
  wpc,        \* per worker: where it is in runInThread()
  opc,        \* the owner of the pool
  created,    \* threads_.size()
  added,      \* history: calls of add()
  begun,      \* history: tasks that were begun
  stopped,    \* history: stop() was called after start()
  late,       \* history: tasks added from outside after that
  crashed     \* history: an exception ended a worker

ownerVars == <<opc, created>>
histVars == <<added, begun, stopped, late, crashed>>
vars == <<queue, running, wpc, ownerVars, histVars>>

Init ==
  /\ queue = <<>> /\ running = FALSE
  /\ wpc = [w \in Workers |-> "none"]
  /\ opc = "created" /\ created = 0
  /\ added = 0 /\ begun = 0 /\ stopped = FALSE /\ late = {} /\ crashed = FALSE

Waiting == {w \in Workers : wpc[w] = "wait"}
AllEnded == \A w \in Workers : wpc[w] = "ended"

-----------------------------------------------------------------------------
(* Calls from any thread.                                                  *)

\* notify_one() wakes one of the workers that wait, if there is one.
notify_oneMutant == UNCHANGED wpc
notify_one ==
  IF Waiting = {} THEN UNCHANGED wpc
  ELSE \E w \in Waiting : wpc' = [wpc EXCEPT ![w] = "test"]

PushTask ==
  /\ added < MaxTasks
  /\ added' = added + 1
  /\ queue' = Append(queue, added + 1)
  /\ notify_one
  /\ UNCHANGED <<running, ownerVars, begun, stopped, crashed>>

\* add() by a thread outside the pool.
add ==
  /\ opc \in {"created", "starting", "run"}
  /\ PushTask
  /\ late' = IF stopped THEN late \cup {added + 1} ELSE late

\* add() by a task, which may come while the destructor waits for the workers.
AddInTask(w) == wpc[w] = "busy" /\ PushTask /\ UNCHANGED late

\* The body of stop(), with notify_all().
Stop ==
  /\ running' = FALSE
  /\ wpc' = [w \in Workers |-> IF w \in Waiting THEN "test" ELSE wpc[w]]
  /\ stopped' = (stopped \/ opc # "created")
  /\ UNCHANGED <<queue, created, added, begun, late, crashed>>

stop == opc \in {"created", "starting", "run"} /\ Stop /\ UNCHANGED opc

-----------------------------------------------------------------------------
(* The owner: start() and the destructor.                                  *)

\* running_ is set without the mutex, before there is a worker.
start ==
  /\ opc = "created"
  /\ opc' = "starting" /\ running' = TRUE
  /\ UNCHANGED <<queue, wpc, created, histVars>>

StartThread ==
  /\ opc = "starting" /\ created < threadSize
  /\ created' = created + 1
  /\ opc' = IF created' = threadSize THEN "run" ELSE opc
  /\ wpc' = [wpc EXCEPT ![created'] = "begin"]
  /\ UNCHANGED <<queue, running, histVars>>

\* The destructor stops the pool and joins the threads one after the other.
Destroy == opc \in {"created", "run"} /\ Stop /\ opc' = "join"

Joined ==
  /\ opc = "join"
  /\ \A w \in 1 .. created : wpc[w] = "ended"
  /\ opc' = "done"
  /\ UNCHANGED <<queue, running, wpc, created, histVars>>

-----------------------------------------------------------------------------
(* A worker: runInThread().                                                *)

WorkerGoes(w, from, to) ==
  /\ wpc[w] = from
  /\ wpc' = [wpc EXCEPT ![w] = to]
  /\ UNCHANGED <<running, ownerVars, added, stopped, late>>

TakeTask(w) ==
  /\ queue # <<>>
  /\ WorkerGoes(w, "test", "busy")
  /\ queue' = Tail(queue) /\ begun' = begun + 1
  /\ UNCHANGED crashed

\* running_ is looked at only when the queue is empty.
NothingToDoMutant == TRUE
NothingToDo == queue = <<>>

\* The steps that leave the queue alone: the init callback has returned; the
\* worker waits, or leaves; the task has returned.
Moves(w) ==
  \/ WorkerGoes(w, "begin", "test")
  \/ NothingToDo /\ running /\ WorkerGoes(w, "test", "wait")
  \/ NothingToDo /\ ~running /\ WorkerGoes(w, "test", "ended")
  \/ WorkerGoes(w, "busy", "test")

Proceed(w) == Moves(w) /\ UNCHANGED <<queue, begun, crashed>>
Wakeup(w) == WorkerGoes(w, "wait", "test") /\ UNCHANGED <<queue, begun, crashed>>

\* catch(...) is outside the loop.
Throw(w) ==
  /\ \E from \in {"begin", "busy"} : WorkerGoes(w, from, "ended")
  /\ crashed' = TRUE
  /\ UNCHANGED <<queue, begun>>

-----------------------------------------------------------------------------
OwnerStep == StartThread \/ Joined
WorkerStep(w) == TakeTask(w) \/ Proceed(w)

Next ==
  \/ add \/ stop \/ start \/ Destroy \/ OwnerStep
  \/ \E w \in Workers : WorkerStep(w) \/ AddInTask(w) \/ Throw(w) \/ Wakeup(w)

\* Threads that can run do, and tasks return.  Nobody needs to add a task, to
\* destroy the pool or to wake a worker up for no reason.
Fairness == WF_vars(OwnerStep) /\ \A w \in Workers : WF_vars(WorkerStep(w))

SafetySpec == Init /\ [][Next]_vars
Spec == SafetySpec /\ Fairness

-----------------------------------------------------------------------------
(* Properties.                                                             *)

TypeOK ==
  /\ queue \in Seq(1 .. MaxTasks) /\ running \in BOOLEAN
  /\ wpc \in [Workers -> {"none", "begin", "test", "wait", "busy", "ended"}]
  /\ opc \in {"created", "starting", "run", "join", "done"}
  /\ created \in 0 .. threadSize
  /\ added \in 0 .. MaxTasks /\ begun \in 0 .. MaxTasks
  /\ stopped \in BOOLEAN /\ late \subseteq 1 .. MaxTasks /\ crashed \in BOOLEAN

\* No worker oversleeps: while one waits on cond_ the pool is running and every
\* task in the queue has a worker of its own that is about to test the queue,
\* although add() wakes one worker only and a task may end by an exception.
NobodyOversleeps ==
  Waiting # {} =>
    /\ running
    /\ Len(queue) <= Cardinality({w \in Workers : wpc[w] = "test"})

\* Once the threads are started every task is begun, those added before start()
\* and after stop() too.  The exceptions: all workers have ended, and either the
\* task came from outside after stop() or an exception ended one of them.
TaskIsRun ==
  \A t \in 1 .. MaxTasks :
    (created > 0 /\ added >= t)
      ~> (begun >= t \/ (AllEnded /\ (t \in late \/ crashed)))

\* The destructor returns, and only after all tasks were taken and have returned,
\* again unless a task came from outside after stop(), an exception ended a
\* worker, or the pool was never started.
DestructorDrains ==
  opc = "join" ~> /\ opc = "done"
                  /\ queue = <<>> \/ late # {} \/ crashed \/ created = 0
=============================================================================
