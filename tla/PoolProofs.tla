------------------------------ MODULE PoolProofs ------------------------------
(***************************************************************************)
(* Proofs about the pools of the library: the workers (ThreadPool) and the *)
(* memory (MemoryPool).  They share no variable.                           *)
(*                                                                         *)
(* ThreadPool: for any number of workers and tasks, PoolInv counts the     *)
(* workers that are about to test the queue against the tasks in it, which *)
(* says that no notification is lost; JoinInv adds that the destructor     *)
(* leaves no worker behind.                                                *)
(*                                                                         *)
(* MemoryPool: for any sequence of calls, MemoryInv says where the areas   *)
(* lie in their blocks, and LeakInv that whatever was taken from the       *)
(* system is in one of the lists of the pool.                              *)
(***************************************************************************)
EXTENDS ThreadPool, MemoryPool, FiniteSetTheorems, WellFoundedInduction, TLAPS

-----------------------------------------------------------------------------
(* ThreadPool.                                                             *)

Testing == {w \in Workers : wpc[w] = "test"}
Ended == {w \in Workers : wpc[w] = "ended"}
Active == {w \in Workers : wpc[w] \notin {"none", "ended"}}

\* Workers are created in order, and a task is in the queue or was begun.
CreatedInv ==
  /\ added = begun + Len(queue)
  /\ \A w \in Workers : w > created => wpc[w] = "none"
  /\ opc = "created" => created = 0

\* A worker leaves by an exception or after stop(), and then while there is a task
\* another one is there to take it, unless the task was late.
EndInv ==
  /\ opc = "starting" \/ created > 0 => running \/ stopped
  /\ Ended # {} => crashed \/ stopped
  /\ Ended # {} /\ queue # <<>> => crashed \/ late # {} \/ Active # {}

PoolInv ==
  /\ TypeOK
  /\ CreatedInv
  /\ EndInv
  /\ NobodyOversleeps

\* The destructor returns with an empty queue, unless a task came from outside after
\* stop(), an exception ended a worker, or the pool was never started: the part of
\* DestructorDrains that needs no fairness.
DrainedWhenDone ==
  opc = "done" => queue = <<>> \/ late # {} \/ crashed \/ created = 0

LEMMA TestingFinite ==
  /\ IsFiniteSet(Testing)
  /\ Cardinality(Testing) \in Nat
<1>1. IsFiniteSet(Workers)
  BY FS_Interval, ThreadPoolAssumption DEF Workers
<1>2. Testing \in SUBSET Workers
  BY DEF Testing
<1>3. IsFiniteSet(Testing)
  BY <1>1, <1>2, FS_Subset
<1>. QED  BY <1>3, FS_CardinalityType

\* A worker that begins or ceases to test the queue changes their number by one.
LEMMA TestingCount ==
  ASSUME TypeOK,
         NEW w \in Workers, NEW to, wpc' = [wpc EXCEPT ![w] = to]
  PROVE  /\ wpc[w] # "test" /\ to = "test" =>
              Cardinality(Testing') = Cardinality(Testing) + 1
         /\ wpc[w] # "test" /\ to # "test" => Testing' = Testing
         /\ wpc[w] = "test" /\ to # "test" =>
              Cardinality(Testing') = Cardinality(Testing) - 1
         /\ \A v \in Workers : v # w => wpc'[v] = wpc[v]
         /\ wpc'[w] = to
<1>1. /\ \A v \in Workers : v # w => wpc'[v] = wpc[v]
      /\ wpc'[w] = to
      /\ Workers' = Workers
  BY DEF TypeOK, Workers
<1>2. ASSUME wpc[w] # "test", to = "test"
      PROVE  Cardinality(Testing') = Cardinality(Testing) + 1
  <2>1. Testing' = Testing \cup {w} /\ w \notin Testing
    BY <1>1, <1>2 DEF Testing
  <2>. QED  BY <2>1, TestingFinite, FS_AddElement
<1>3. ASSUME wpc[w] # "test", to # "test"
      PROVE  Testing' = Testing
  BY <1>1, <1>3 DEF Testing
<1>4. ASSUME wpc[w] = "test", to # "test"
      PROVE  Cardinality(Testing') = Cardinality(Testing) - 1
  <2>1. Testing' = Testing \ {w} /\ w \in Testing
    BY <1>1, <1>4 DEF Testing
  <2>. QED  BY <2>1, TestingFinite, FS_RemoveElement
<1>. QED  BY <1>1, <1>2, <1>3, <1>4

\* NobodyOversleeps, with a name for the workers that are about to test the queue.
LEMMA Awake ==
  NobodyOversleeps <=>
    (Waiting # {} => running /\ Len(queue) <= Cardinality(Testing))
BY DEF NobodyOversleeps, Testing

LEMMA PoolInit == Init => PoolInv
<1>. SUFFICES ASSUME Init
              PROVE  PoolInv
  OBVIOUS
<1>1. TypeOK
  <2>1. running \in BOOLEAN /\ stopped \in BOOLEAN /\ crashed \in BOOLEAN
    BY DEF Init
  <2>2. queue \in Seq(1 .. MaxTasks) /\ late \subseteq 1 .. MaxTasks
    BY DEF Init
  <2>. QED  BY <2>1, <2>2, ThreadPoolAssumption DEF Init, TypeOK
<1>2. CreatedInv /\ EndInv /\ NobodyOversleeps
  BY DEF Init, CreatedInv, EndInv, Ended, NobodyOversleeps, Waiting, Workers
<1>. QED  BY <1>1, <1>2 DEF PoolInv

\* add(), by whoever: the task has a worker of its own if one waits.
LEMMA PushTaskKeepsInv ==
  ASSUME PoolInv, PushTask,
         \/ opc \in {"created", "starting", "run"}
              /\ late' = (IF stopped THEN late \cup {added + 1} ELSE late)
         \/ (\E w \in Workers : wpc[w] = "busy") /\ late' = late
  PROVE  PoolInv'
<1>. USE DEF PoolInv
<1>1. /\ Workers' = Workers
      /\ queue' = Append(queue, added + 1) /\ added' = added + 1
      /\ Len(queue') = Len(queue) + 1 /\ queue' # <<>>
      /\ UNCHANGED <<running, opc, created, begun, stopped, crashed>>
      /\ Len(queue) \in Nat
  BY DEF PushTask, ownerVars, TypeOK, Workers
<1>2. \/ Waiting = {} /\ wpc' = wpc
      \/ \E w \in Waiting : wpc' = [wpc EXCEPT ![w] = "test"]
  BY DEF PushTask, notify_one
<1>3. late' \subseteq 1 .. MaxTasks
  <2>1. added + 1 \in 1 .. MaxTasks /\ late \subseteq 1 .. MaxTasks
    BY ThreadPoolAssumption DEF PushTask, TypeOK
  <2>. QED  BY <2>1
<1>4. wpc' \in [Workers -> {"none", "begin", "test", "wait", "busy", "ended"}]
  BY <1>2 DEF TypeOK
<1>5. TypeOK'
  BY <1>1, <1>3, <1>4, ThreadPoolAssumption DEF TypeOK, PushTask
<1>6. \A w \in Workers : \/ wpc'[w] = wpc[w]
                         \/ wpc[w] = "wait" /\ wpc'[w] = "test"
  BY <1>2 DEF TypeOK, Waiting
<1>7. CreatedInv'
  BY <1>1, <1>6 DEF CreatedInv, TypeOK
<1>8. EndInv'
  <2>1. Ended' = Ended /\ Active' = Active
    BY <1>1, <1>6 DEF Ended, Active
  <2>2. Ended # {} => crashed \/ late' # {} \/ Active # {}
    <3>1. CASE opc \in {"created", "starting", "run"}
                 /\ late' = (IF stopped THEN late \cup {added + 1} ELSE late)
      BY <3>1 DEF EndInv
    <3>2. CASE (\E w \in Workers : wpc[w] = "busy") /\ late' = late
      BY <3>2 DEF Active
    <3>. QED  BY <3>1, <3>2
  <2>. QED  BY <1>1, <2>1, <2>2 DEF EndInv
<1>9. NobodyOversleeps'
  <2>1. CASE Waiting = {} /\ wpc' = wpc
    BY <1>1, <2>1 DEF NobodyOversleeps, Waiting
  <2>2. ASSUME NEW w \in Waiting, wpc' = [wpc EXCEPT ![w] = "test"]
        PROVE  NobodyOversleeps'
    <3>1. w \in Workers /\ wpc[w] = "wait"
      BY DEF Waiting
    <3>2. Cardinality(Testing') = Cardinality(Testing) + 1
      BY <2>2, <3>1, TestingCount
    <3>3. running /\ Len(queue) <= Cardinality(Testing)
      BY <2>2, Awake
    <3>4. running'
      BY <1>1, <3>3
    <3>5. Len(queue') <= Cardinality(Testing')
      BY <1>1, <3>2, <3>3, TestingFinite
    <3>. QED  BY <3>4, <3>5 DEF NobodyOversleeps, Testing
  <2>. QED  BY <1>2, <2>1, <2>2
<1>. QED  BY <1>5, <1>7, <1>8, <1>9

\* stop() and the destructor wake everybody up.
LEMMA StopKeepsInv ==
  ASSUME PoolInv, Stop,
         opc' = opc \/ opc' = "join"
  PROVE  PoolInv'
<1>. USE DEF PoolInv
<1>1. /\ Workers' = Workers
      /\ UNCHANGED <<queue, created, added, begun, late, crashed>>
      /\ wpc' = [w \in Workers |-> IF w \in Waiting THEN "test" ELSE wpc[w]]
  BY DEF Stop, Workers
<1>2. running' = FALSE /\ stopped' = (stopped \/ opc # "created")
  BY DEF Stop
<1>3. wpc' \in [Workers -> {"none", "begin", "test", "wait", "busy", "ended"}]
  BY <1>1 DEF TypeOK
<1>4. running' \in BOOLEAN /\ stopped' \in BOOLEAN
  BY <1>2
<1>5. TypeOK'
  BY <1>1, <1>3, <1>4 DEF TypeOK
<1>6. \A w \in Workers : \/ wpc'[w] = wpc[w] /\ wpc[w] # "wait"
                         \/ wpc[w] = "wait" /\ wpc'[w] = "test"
  BY <1>1 DEF Waiting
<1>7. CreatedInv'
  BY <1>1, <1>6 DEF CreatedInv
<1>8. EndInv'
  <2>1. Ended' = Ended /\ Active' = Active
    BY <1>1, <1>6 DEF Ended, Active
  <2>2. opc' = "starting" \/ created > 0 => opc # "created"
    BY DEF CreatedInv
  <2>. QED  BY <1>1, <1>2, <2>1, <2>2 DEF EndInv
<1>9. Waiting' = {}
  BY <1>1, <1>6 DEF Waiting
<1>. QED  BY <1>5, <1>7, <1>8, <1>9 DEF NobodyOversleeps

LEMMA StartThreadKeepsInv == PoolInv /\ StartThread => PoolInv'
<1>. SUFFICES ASSUME PoolInv, StartThread
              PROVE  PoolInv'
  OBVIOUS
<1>. USE DEF PoolInv
<1>1. /\ created + 1 \in Workers /\ created' = created + 1
      /\ wpc' = [wpc EXCEPT ![created + 1] = "begin"]
      /\ wpc[created + 1] = "none"
      /\ UNCHANGED <<Workers, queue, running, added, begun, stopped, late, crashed>>
      /\ opc = "starting" /\ opc' \in {"starting", "run"}
      /\ created \in Nat /\ created' \in 0 .. threadSize
  BY ThreadPoolAssumption DEF StartThread, CreatedInv, TypeOK, Workers, histVars
<1>2. TypeOK'
  BY <1>1 DEF TypeOK
<1>3. /\ Testing' = Testing
      /\ \A v \in Workers : v # created + 1 => wpc'[v] = wpc[v]
      /\ wpc'[created + 1] = "begin"
  BY <1>1, TestingCount
<1>4. CreatedInv'
  BY <1>1, <1>3 DEF CreatedInv, Workers
<1>5. EndInv'
  <2>1. Ended' = Ended /\ Active \subseteq Active'
    BY <1>1, <1>3 DEF Ended, Active
  <2>2. running \/ stopped
    BY <1>1 DEF EndInv
  <2>. QED  BY <1>1, <2>1, <2>2 DEF EndInv
<1>6. Waiting' = Waiting
  BY <1>1, <1>3 DEF Waiting
<1>7. NobodyOversleeps'
  BY <1>1, <1>3, <1>6 DEF NobodyOversleeps, Testing
<1>. QED  BY <1>2, <1>4, <1>5, <1>7

\* The steps of a worker, of which those that leave "test" matter: they take a task,
\* or find the queue empty.
LEMMA WorkerKeepsInv ==
  ASSUME PoolInv, NEW w \in Workers, TakeTask(w) \/ Proceed(w) \/ Wakeup(w) \/ Throw(w)
  PROVE  PoolInv'
<1>. USE DEF PoolInv
<1>. DEFINE from == wpc[w]
            to == wpc'[w]
<1>1. /\ UNCHANGED <<Workers, running, opc, created, added, stopped, late>>
      /\ from \in {"begin", "test", "wait", "busy"}
      /\ to \in {"test", "wait", "busy", "ended"}
      /\ wpc' = [wpc EXCEPT ![w] = to]
  BY DEF TakeTask, Proceed, Moves, Wakeup, Throw, WorkerGoes, ownerVars, Workers, TypeOK
<1>2. \/ TakeTask(w) /\ from = "test" /\ to = "busy"
      \/ UNCHANGED <<queue, begun>>
  BY DEF TakeTask, Proceed, Wakeup, Throw, WorkerGoes, TypeOK
<1>3. crashed' \in BOOLEAN /\ (crashed => crashed')
  BY DEF TakeTask, Proceed, Wakeup, Throw, TypeOK
<1>4. /\ from = "test" /\ to # "busy" => queue = <<>> /\ UNCHANGED queue
      /\ from = "test" /\ to = "wait" => running
      /\ from = "test" /\ to = "ended" => ~running
      /\ from = "test" => to # "test"
  BY DEF TakeTask, Proceed, Moves, Wakeup, Throw, WorkerGoes, NothingToDo, TypeOK
<1>5. /\ from = "test" \/ ~(to = "busy" \/ to = "wait")
      /\ to = "ended" => from = "test" \/ crashed'
  BY DEF TakeTask, Proceed, Moves, Wakeup, Throw, WorkerGoes, TypeOK
<1>6. /\ added = begun' + Len(queue') /\ begun' \in 0 .. MaxTasks
      /\ queue' \in Seq(1 .. MaxTasks)
      /\ TakeTask(w) => Len(queue') = Len(queue) - 1
      /\ Len(queue) \in Nat
  <2>1. added = begun + Len(queue) /\ begun \in Nat /\ added \in 0 .. MaxTasks
        /\ queue \in Seq(1 .. MaxTasks) /\ Len(queue) \in Nat
    BY DEF CreatedInv, TypeOK
  <2>2. CASE TakeTask(w)
    <3>1. queue # <<>> /\ queue' = Tail(queue) /\ begun' = begun + 1
      BY <2>2 DEF TakeTask
    <3>2. queue' \in Seq(1 .. MaxTasks) /\ Len(queue') = Len(queue) - 1 /\ Len(queue') \in Nat
      BY <2>1, <3>1
    <3>. QED  BY <2>1, <3>1, <3>2, ThreadPoolAssumption
  <2>3. CASE UNCHANGED <<queue, begun>> /\ ~TakeTask(w)
    <3>1. queue' = queue /\ begun' = begun
      BY <2>3
    <3>2. begun \in 0 .. MaxTasks
      BY <2>1, ThreadPoolAssumption
    <3>. QED  BY <2>1, <2>3, <3>1, <3>2
  <2>. QED  BY <1>2, <2>2, <2>3
<1>7. TypeOK'
  BY <1>1, <1>3, <1>6 DEF TypeOK
<1>8. \A v \in Workers : v # w => wpc'[v] = wpc[v]
  BY <1>1, TestingCount
<1>9. CreatedInv'
  BY <1>1, <1>6, <1>8 DEF CreatedInv
<1>10. EndInv'
  <2>1. Ended' # {} => crashed' \/ stopped
    <3>1. CASE to = "ended"
      <4>1. CASE from = "test"
        <5>1. ~running /\ created > 0
          BY <1>1, <1>4, <3>1, <4>1 DEF CreatedInv, TypeOK, Workers
        <5>. QED  BY <5>1 DEF EndInv
      <4>. QED  BY <1>5, <3>1, <4>1
    <3>2. CASE to # "ended"
      BY <1>1, <1>3, <1>8, <3>2 DEF EndInv, Ended
    <3>. QED  BY <3>1, <3>2
  <2>2. queue' # <<>> => crashed' \/ w \in Active'
    <3>1. CASE to = "ended"
      BY <1>4, <1>5, <3>1
    <3>2. CASE to # "ended"
      BY <1>1, <3>2 DEF Active
    <3>. QED  BY <3>1, <3>2
  <2>. QED  BY <1>1, <2>1, <2>2 DEF EndInv
<1>11. NobodyOversleeps'
  <2>. SUFFICES ASSUME Waiting' # {}
                PROVE  running /\ Len(queue') <= Cardinality(Testing')
    <3>1. running' = running
      BY <1>1
    <3>. QED  BY <3>1 DEF NobodyOversleeps, Testing
  <2>1. CASE from = "test" /\ to = "wait"
    <3>1. running /\ queue' = <<>>
      BY <1>4, <2>1
    <3>2. Cardinality(Testing') \in Nat
      <4>1. IsFiniteSet(Workers) /\ Testing' \in SUBSET Workers
        BY <1>1, FS_Interval, ThreadPoolAssumption DEF Workers, Testing
      <4>. QED  BY <4>1, FS_Subset, FS_CardinalityType
    <3>. QED  BY <3>1, <3>2
  <2>2. CASE ~(from = "test" /\ to = "wait")
    <3>1. Waiting # {}
      BY <1>1, <1>5, <1>8, <2>2 DEF Waiting
    <3>2. running /\ Len(queue) <= Cardinality(Testing)
      BY <3>1, Awake
    <3>3. CASE from = "test"
      <4>1. to = "busy"
        BY <1>1, <1>4, <2>2, <3>2, <3>3
      <4>2. TakeTask(w)
        BY <3>3, <4>1 DEF Proceed, Moves, Wakeup, Throw, WorkerGoes, TypeOK
      <4>3. Cardinality(Testing') = Cardinality(Testing) - 1
        BY <1>1, <3>3, <4>1, TestingCount
      <4>. QED  BY <1>6, <3>2, <4>2, <4>3, TestingFinite
    <3>4. CASE from # "test"
      <4>1. Len(queue') = Len(queue)
        BY <1>2, <3>4
      <4>2. Cardinality(Testing') >= Cardinality(Testing)
        BY <1>1, <3>4, TestingCount, TestingFinite
      <4>3. Cardinality(Testing') \in Nat
        <5>1. IsFiniteSet(Workers) /\ Testing' \in SUBSET Workers
          BY <1>1, FS_Interval, ThreadPoolAssumption DEF Workers, Testing
        <5>. QED  BY <5>1, FS_Subset, FS_CardinalityType
      <4>. QED  BY <1>6, <3>2, <4>1, <4>2, <4>3, TestingFinite
    <3>. QED  BY <3>3, <3>4
  <2>. QED  BY <2>1, <2>2
<1>. QED  BY <1>7, <1>9, <1>10, <1>11

LEMMA PoolStep == PoolInv /\ [Next]_vars => PoolInv'
<1>. SUFFICES ASSUME PoolInv, [Next]_vars
              PROVE  PoolInv'
  OBVIOUS
<1>1. CASE add
  BY <1>1, PushTaskKeepsInv DEF add
<1>2. CASE stop \/ Destroy
  BY <1>2, StopKeepsInv DEF stop, Destroy
<1>3. CASE start
  <2>1. /\ opc = "created" /\ opc' = "starting"
        /\ UNCHANGED <<Workers, queue, wpc, created, added, begun, stopped, late, crashed>>
    BY <1>3 DEF start, histVars, Workers
  <2>2. running' = TRUE
    BY <1>3 DEF start
  <2>3. running' \in BOOLEAN
    BY <2>2
  <2>4. TypeOK'
    BY <2>1, <2>3 DEF PoolInv, TypeOK
  <2>5. CreatedInv'
    BY <2>1 DEF PoolInv, CreatedInv
  <2>6. EndInv' /\ NobodyOversleeps'
    BY <2>1, <2>2 DEF PoolInv, EndInv, Ended, Active, NobodyOversleeps, Waiting
  <2>. QED  BY <2>4, <2>5, <2>6 DEF PoolInv
<1>4. CASE StartThread
  BY <1>4, StartThreadKeepsInv
<1>5. CASE Joined \/ UNCHANGED vars
  <2>1. /\ opc' = opc \/ opc' = "done"
        /\ UNCHANGED <<Workers, queue, running, wpc, created, added, begun, stopped, late,
                       crashed>>
    BY <1>5 DEF Joined, vars, ownerVars, histVars, Workers
  <2>2. TypeOK'
    BY <2>1 DEF PoolInv, TypeOK
  <2>3. CreatedInv' /\ EndInv' /\ NobodyOversleeps'
    BY <2>1 DEF PoolInv, CreatedInv, EndInv, Ended, Active, NobodyOversleeps, Waiting
  <2>. QED  BY <2>2, <2>3 DEF PoolInv
<1>6. ASSUME NEW w \in Workers, TakeTask(w) \/ Proceed(w) \/ Wakeup(w) \/ Throw(w)
      PROVE  PoolInv'
  BY <1>6, WorkerKeepsInv
<1>7. ASSUME NEW w \in Workers, AddInTask(w)
      PROVE  PoolInv'
  BY <1>7, PushTaskKeepsInv DEF AddInTask
<1>. QED  BY <1>1, <1>2, <1>3, <1>4, <1>5, <1>6, <1>7 DEF Next, OwnerStep, WorkerStep

\* PoolInv holds in every state of the pool of workers.
THEOREM PoolInvariant == SafetySpec => []PoolInv
<1>1. Init => PoolInv
  BY PoolInit
<1>2. PoolInv /\ [Next]_vars => PoolInv'
  BY PoolStep
<1>. QED  BY <1>1, <1>2, PTL DEF SafetySpec

\* No worker sleeps while a task waits for one, and none sleeps through stop(),
\* whatever the number of threads and tasks: add() with its one notification, the
\* loop of take() and the exceptions that end a worker.
THEOREM NobodyEverOversleeps == SafetySpec => []NobodyOversleeps
<1>1. PoolInv => NobodyOversleeps
  BY DEF PoolInv
<1>. QED  BY <1>1, PoolInvariant, PTL

\* join() has come to its end for every thread.
JoinInv == opc = "done" => \A w \in Workers : w <= created => wpc[w] = "ended"

LEMMA JoinStep == PoolInv /\ JoinInv /\ [Next]_vars => JoinInv'
<1>. SUFFICES ASSUME PoolInv, JoinInv, [Next]_vars, opc' = "done"
              PROVE  \A w \in Workers : w <= created' => wpc'[w] = "ended"
  BY DEF JoinInv, Workers
<1>1. CASE opc # "done"
  <2>1. CASE Joined
    BY <2>1 DEF Joined, PoolInv, TypeOK, Workers
  <2>. QED
    BY <1>1, <2>1 DEF Next, add, stop, start, Destroy, OwnerStep, StartThread, WorkerStep,
       AddInTask, PushTask, TakeTask, Proceed, Moves, Wakeup, Throw, WorkerGoes, vars, ownerVars
<1>2. CASE opc = "done"
  <2>1. \A w \in Workers : wpc[w] \in {"none", "ended"}
    BY <1>2 DEF PoolInv, CreatedInv, JoinInv, TypeOK, Workers
  <2>2. ~add /\ ~stop /\ ~start /\ ~Destroy /\ ~OwnerStep
    BY <1>2 DEF add, stop, start, Destroy, OwnerStep, StartThread, Joined
  <2>3. \A w \in Workers : ~(WorkerStep(w) \/ AddInTask(w) \/ Throw(w) \/ Wakeup(w))
    BY <2>1 DEF WorkerStep, AddInTask, TakeTask, Proceed, Moves, Wakeup, Throw, WorkerGoes
  <2>4. UNCHANGED vars
    BY <2>2, <2>3 DEF Next
  <2>. QED  BY <1>2, <2>4 DEF JoinInv, vars, ownerVars
<1>. QED  BY <1>1, <1>2

\* When the destructor of ThreadPool returns, the workers having been joined, every
\* task was begun, with the exceptions that DrainedWhenDone names.
THEOREM AlwaysDrained == SafetySpec => []DrainedWhenDone
<1>1. Init => JoinInv
  BY DEF Init, JoinInv
<1>2. PoolInv /\ JoinInv => DrainedWhenDone
  <2>. SUFFICES ASSUME PoolInv, JoinInv, opc = "done", queue # <<>>, created # 0
                PROVE  late # {} \/ crashed
    BY DEF DrainedWhenDone
  <2>1. 1 \in Workers /\ 1 <= created
    BY ThreadPoolAssumption DEF PoolInv, TypeOK, Workers
  <2>2. 1 \in Ended
    BY <2>1 DEF JoinInv, Ended
  <2>3. Active = {}
    BY DEF PoolInv, CreatedInv, JoinInv, TypeOK, Active, Workers
  <2>. QED  BY <2>2, <2>3 DEF PoolInv, EndInv
<1>. QED  BY <1>1, <1>2, PoolInvariant, JoinStep, PTL DEF SafetySpec

-----------------------------------------------------------------------------
(* MemoryPool.                                                             *)

\* What mp_align() is computed from: the number of alignments that n bytes take.
Slots(n) == (n + MP_ALIGNMENT - 1) \div MP_ALIGNMENT

LEMMA Division ==
  ASSUME NEW n \in Nat
  PROVE  /\ n \div MP_ALIGNMENT \in Nat
         /\ MP_ALIGNMENT * (n \div MP_ALIGNMENT) <= n
         /\ n < MP_ALIGNMENT * (n \div MP_ALIGNMENT) + MP_ALIGNMENT
BY MemoryAssumption

LEMMA DivisionBound ==
  ASSUME NEW n \in Nat, NEW k \in Nat, MP_ALIGNMENT * k <= n
  PROVE  k <= n \div MP_ALIGNMENT
<1>1. MP_ALIGNMENT \in Nat \ {0}
  BY MemoryAssumption
<1>. DEFINE q == n \div MP_ALIGNMENT
<1>2. q \in Nat /\ n < MP_ALIGNMENT * q + MP_ALIGNMENT
  BY Division
<1>. HIDE DEF q
<1>3. ASSUME q + 1 <= k
      PROVE  FALSE
  <2>1. MP_ALIGNMENT * (q + 1) <= MP_ALIGNMENT * k
    BY <1>1, <1>2, <1>3
  <2>2. MP_ALIGNMENT * (q + 1) = MP_ALIGNMENT * q + MP_ALIGNMENT
    BY <1>1, <1>2
  <2>. QED  BY <1>1, <1>2, <2>1, <2>2
<1>4. k <= q
  BY <1>2, <1>3
<1>. QED  BY <1>4 DEF q

\* mp_align() rounds up to a multiple of the alignment, and leaves one alone.
LEMMA Aligned ==
  ASSUME NEW n \in Nat
  PROVE  /\ mp_align(n) \in Nat /\ Slots(n) \in Nat
         /\ mp_align(n) = MP_ALIGNMENT * Slots(n)
         /\ n <= mp_align(n)
         /\ mp_align(n) % MP_ALIGNMENT = 0
         /\ n % MP_ALIGNMENT = 0 => mp_align(n) = n
<1>1. MP_ALIGNMENT \in Nat \ {0} /\ n + MP_ALIGNMENT - 1 \in Nat
  BY MemoryAssumption
<1>. DEFINE s == Slots(n)
<1>2. /\ s \in Nat
      /\ MP_ALIGNMENT * s <= n + MP_ALIGNMENT - 1
      /\ n + MP_ALIGNMENT - 1 < MP_ALIGNMENT * s + MP_ALIGNMENT
  BY <1>1, Division DEF Slots
<1>3. mp_align(n) = MP_ALIGNMENT * s
  BY <1>1, <1>2 DEF mp_align, Slots
<1>. HIDE DEF s
<1>4. MP_ALIGNMENT * s \in Nat /\ n <= MP_ALIGNMENT * s
  BY <1>1, <1>2
<1>5. (MP_ALIGNMENT * s) % MP_ALIGNMENT = 0
  BY <1>1, <1>2
<1>6. ASSUME n % MP_ALIGNMENT = 0
      PROVE  MP_ALIGNMENT * s = n
  <2>. DEFINE k == n \div MP_ALIGNMENT
  <2>1. k \in Nat /\ n = MP_ALIGNMENT * k
    BY <1>1, <1>6, Division
  <2>. HIDE DEF k
  <2>2. ASSUME s >= k + 1
        PROVE  FALSE
    <3>1. MP_ALIGNMENT * s >= MP_ALIGNMENT * (k + 1)
      BY <1>1, <1>2, <2>1, <2>2
    <3>2. MP_ALIGNMENT * (k + 1) = MP_ALIGNMENT * k + MP_ALIGNMENT
      BY <1>1, <2>1
    <3>. QED  BY <1>1, <1>2, <2>1, <3>1, <3>2
  <2>3. ASSUME s + 1 <= k
        PROVE  FALSE
    <3>1. MP_ALIGNMENT * (s + 1) <= MP_ALIGNMENT * k
      BY <1>1, <1>2, <2>1, <2>3
    <3>2. MP_ALIGNMENT * (s + 1) = MP_ALIGNMENT * s + MP_ALIGNMENT
      BY <1>1, <1>2
    <3>. QED  BY <1>1, <1>4, <2>1, <3>1, <3>2
  <2>4. s = k
    BY <1>2, <2>1, <2>2, <2>3
  <2>. QED  BY <2>1, <2>4
<1>. QED  BY <1>2, <1>3, <1>4, <1>5, <1>6 DEF s

\* One more area takes at least one more alignment, and a page has fewer of them than
\* an unsigned int has values.
LEMMA SlotsGrow ==
  ASSUME NEW n \in Nat, NEW size \in Nat \ {0}
  PROVE  /\ Slots(n) + 1 <= Slots(mp_align(n) + size)
         /\ mp_align(n) + size <= PAGE_SIZE => Slots(n) + 1 < 2^Width
<1>1. MP_ALIGNMENT \in Nat \ {0} /\ PAGE_SIZE \in Nat
  BY MemoryAssumption
<1>2. /\ Slots(n) \in Nat /\ mp_align(n) \in Nat
      /\ mp_align(n) = MP_ALIGNMENT * Slots(n)
  BY Aligned
<1>3. MP_ALIGNMENT * (Slots(n) + 1) = MP_ALIGNMENT * Slots(n) + MP_ALIGNMENT
  BY <1>1, <1>2
<1>4. MP_ALIGNMENT * (Slots(n) + 1) <= mp_align(n) + size + MP_ALIGNMENT - 1
  BY <1>1, <1>2, <1>3
<1>5. Slots(n) + 1 <= Slots(mp_align(n) + size)
  <2>1. mp_align(n) + size + MP_ALIGNMENT - 1 \in Nat /\ Slots(n) + 1 \in Nat
    BY <1>1, <1>2
  <2>. QED  BY <1>4, <2>1, DivisionBound DEF Slots
<1>6. ASSUME mp_align(n) + size <= PAGE_SIZE
      PROVE  Slots(n) + 1 < 2^Width
  <2>. DEFINE k == PAGE_SIZE \div MP_ALIGNMENT
  <2>1. k \in Nat /\ PAGE_SIZE = MP_ALIGNMENT * k /\ k < 2^Width
    BY MemoryAssumption, <1>1, Division
  <2>2. 2^Width \in Int
    BY MemoryAssumption
  <2>. HIDE DEF k
  <2>3. MP_ALIGNMENT * Slots(n) < MP_ALIGNMENT * k
    BY <1>1, <1>2, <1>6, <2>1
  <2>4. Slots(n) < k
    <3>1. ASSUME k <= Slots(n)
          PROVE  MP_ALIGNMENT * k <= MP_ALIGNMENT * Slots(n)
      BY <1>1, <1>2, <2>1, <3>1
    <3>. QED  BY <1>1, <1>2, <2>1, <2>3, <3>1
  <2>. QED  BY <1>2, <2>1, <2>2, <2>4
<1>. QED  BY <1>5, <1>6

LEMMA SlotsOfPage ==
  ASSUME NEW n \in Nat, n <= PAGE_SIZE
  PROVE  Slots(n) < 2^Width
<1>1. MP_ALIGNMENT \in Nat \ {0} /\ PAGE_SIZE \in Nat /\ 2^Width \in Int
  BY MemoryAssumption
<1>. DEFINE k == PAGE_SIZE \div MP_ALIGNMENT
<1>2. k \in Nat /\ PAGE_SIZE = MP_ALIGNMENT * k /\ k < 2^Width
  BY MemoryAssumption, <1>1, Division
<1>. HIDE DEF k
<1>3. n + MP_ALIGNMENT - 1 \in Nat
  BY <1>1
<1>4. Slots(n) \in Nat /\ MP_ALIGNMENT * Slots(n) <= n + MP_ALIGNMENT - 1
  BY <1>3, Division DEF Slots
<1>5. ASSUME k + 1 <= Slots(n)
      PROVE  FALSE
  <2>1. MP_ALIGNMENT * (k + 1) <= MP_ALIGNMENT * Slots(n)
    BY <1>1, <1>2, <1>4, <1>5
  <2>2. MP_ALIGNMENT * (k + 1) = MP_ALIGNMENT * k + MP_ALIGNMENT
    BY <1>1, <1>2
  <2>. QED  BY <1>1, <1>2, <1>4, <2>1, <2>2
<1>. QED  BY <1>1, <1>2, <1>4, <1>5

\* Counts of references are numbers below 2^Width.
LEMMA Wrapped ==
  ASSUME NEW n \in Int
  PROVE  Wrap(n) \in Nat /\ (n \in Nat /\ n < 2^Width => Wrap(n) = n)
<1>. DEFINE m == 2^Width
<1>1. m \in Int
  BY MemoryAssumption
<1>2. m > 0
  <2>1. PAGE_SIZE \div MP_ALIGNMENT \in Nat
    BY MemoryAssumption, Division
  <2>. QED  BY MemoryAssumption, <1>1, <2>1
<1>. HIDE DEF m
<1>3. n % m \in Nat /\ (n \in Nat /\ n < m => n % m = n)
  BY <1>1, <1>2
<1>. QED  BY <1>3 DEF m, Wrap

LEMMA LeastElement ==
  ASSUME NEW S \in SUBSET Nat, S # {}
  PROVE  \E x \in S : \A y \in S : x <= y
<1>. DEFINE R == {ss \in Nat \X Nat : ss[1] < ss[2]}
<1>1. IsWellFoundedOn(R, Nat)
  BY NatLessThanWellFounded DEF OpToRel
<1>2. \A x, y \in Nat : <<y, x>> \notin R => x <= y
  OBVIOUS
<1>. HIDE DEF R
<1>. QED  BY <1>1, <1>2, WFMin

LEMMA MinMax ==
  ASSUME NEW S, NEW n \in Nat, S \subseteq 0 .. n, S # {}
  PROVE  Min(S) \in S /\ Max(S) \in S
<1>1. Min(S) \in S
  <2>1. S \in SUBSET Nat
    OBVIOUS
  <2>2. \E x \in S : \A y \in S : x <= y
    BY <2>1, LeastElement
  <2>. QED  BY <2>2 DEF Min
<1>2. Max(S) \in S
  <2>. DEFINE T == {n - x : x \in S}
  <2>1. T \in SUBSET Nat /\ T # {}
    <3>1. \A x \in S : n - x \in Nat
      OBVIOUS
    <3>2. \E x \in S : n - x \in T
      OBVIOUS
    <3>. QED  BY <3>1, <3>2
  <2>2. PICK t \in T : \A u \in T : t <= u
    BY <2>1, LeastElement
  <2>3. PICK x \in S : t = n - x
    BY <2>2
  <2>4. \A y \in S : x >= y
    BY <2>2, <2>3
  <2>. QED  BY <2>4 DEF Max
<1>. QED  BY <1>1, <1>2

In(S, i) == {a \in S : a.page = i}

AreaRecords == [page : Nat, from : Nat, to : Nat]
PageRecords == [last : Nat, quote : Nat, failed : Nat]

\* Where an area may be.
Placed(a, p) ==
  /\ a.page \in DOMAIN p
  /\ Start(a.page) <= a.from /\ a.from < a.to /\ a.to <= PAGE_SIZE
  /\ a.from % MP_ALIGNMENT = 0

\* quote_ of a page p is the number of the areas in it, which are those of the user, U,
\* and those of the LargeNodes, N; all of them are below last_.
Counted(p, U, N) ==
  /\ \A a \in U \cup N : a.to <= p.last
  /\ p.quote = Cardinality(U) + Cardinality(N)
  /\ p.quote <= Slots(p.last)

\* The pages p, of which those in d began with some other quote_.
Layout(p, d, U, N) ==
  /\ p \in Seq(PageRecords)
  /\ U \in SUBSET AreaRecords /\ N \in SUBSET AreaRecords
  /\ IsFiniteSet(U) /\ IsFiniteSet(N)
  /\ \A i \in DOMAIN p : Start(i) <= p[i].last /\ p[i].last <= PAGE_SIZE
  /\ \A a \in U \cup N : Placed(a, p)
  /\ \A i \in DOMAIN p \ d : Counted(p[i], In(U, i), In(N, i))

LEMMA LayoutIsSymmetric ==
  ASSUME NEW p, NEW d, NEW U, NEW N, Layout(p, d, U, N)
  PROVE  Layout(p, d, N, U)
<1>1. \A i : /\ IsFiniteSet(In(U, i)) /\ IsFiniteSet(In(N, i))
             /\ Cardinality(In(U, i)) \in Nat /\ Cardinality(In(N, i)) \in Nat
  <2>. TAKE i
  <2>1. In(U, i) \in SUBSET U /\ In(N, i) \in SUBSET N
    BY DEF In
  <2>2. IsFiniteSet(In(U, i)) /\ IsFiniteSet(In(N, i))
    BY <2>1, FS_Subset DEF Layout
  <2>. QED  BY <2>2, FS_CardinalityType
<1>2. \A i \in DOMAIN p \ d : Counted(p[i], In(N, i), In(U, i))
  BY <1>1 DEF Layout, Counted
<1>. QED  BY <1>2 DEF Layout

\* Areas below last_ and an area behind it.
LEMMA AddArea ==
  ASSUME NEW U, IsFiniteSet(U), NEW x \in AreaRecords, x \notin U
  PROVE  /\ IsFiniteSet(U \cup {x})
         /\ In(U \cup {x}, x.page) = In(U, x.page) \cup {x}
         /\ Cardinality(In(U \cup {x}, x.page)) = Cardinality(In(U, x.page)) + 1
         /\ \A i : i # x.page => In(U \cup {x}, i) = In(U, i)
<1>1. IsFiniteSet(U \cup {x})
  BY FS_AddElement
<1>2. In(U \cup {x}, x.page) = In(U, x.page) \cup {x} /\ x \notin In(U, x.page)
  BY DEF In
<1>3. IsFiniteSet(In(U, x.page))
  <2>1. In(U, x.page) \in SUBSET U
    BY DEF In
  <2>. QED  BY <2>1, FS_Subset
<1>4. Cardinality(In(U \cup {x}, x.page)) = Cardinality(In(U, x.page)) + 1
  BY <1>2, <1>3, FS_AddElement
<1>5. \A i : i # x.page => In(U \cup {x}, i) = In(U, i)
  BY DEF In
<1>. QED  BY <1>1, <1>2, <1>4, <1>5

\* An area that is cut from a page behind last_ fits into the layout, and overlaps with
\* no other if quote_ of the page is right.
LEMMA InPageKeepsLayout ==
  ASSUME NEW U, NEW N, Layout(pages, dirty, U, N),
         NEW i \in DOMAIN pages, NEW size \in Nat \ {0}, HasRoom(i, size)
  PROVE  LET r == InPage(i, size)
             x == Area(i, r.at, size)
         IN /\ r.page = i /\ r.dirty = dirty /\ r.current = current
            /\ DOMAIN r.pages = DOMAIN pages
            /\ Layout(r.pages, dirty, U \cup {x}, N)
            /\ i \notin dirty => \A a \in U \cup N : ~Overlap(a, x)
<1>. DEFINE r == InPage(i, size)
            at == mp_align(pages[i].last)
            x == Area(i, at, size)
<1>1. pages \in Seq(PageRecords) /\ pages[i] \in PageRecords /\ i \in Nat
  BY DEF Layout
<1>2. pages[i].last \in Nat /\ pages[i].quote \in Nat
  BY <1>1 DEF PageRecords
<1>3. at \in Nat /\ pages[i].last <= at /\ at % MP_ALIGNMENT = 0
  BY <1>2, Aligned
<1>4. at + size <= PAGE_SIZE /\ PAGE_SIZE \in Nat
  BY MemoryAssumption, <1>3 DEF HasRoom
<1>5. Wrap(pages[i].quote + 1) \in Nat
  BY <1>2, Wrapped
<1>6. /\ r.page = i /\ r.dirty = dirty /\ r.current = current /\ r.at = at
      /\ r.pages = [pages EXCEPT ![i].last = at + size,
                                 ![i].quote = Wrap(pages[i].quote + 1)]
  BY DEF InPage
<1>. DEFINE q == Wrap(pages[i].quote + 1)
<1>. HIDE DEF r, at, q
<1>7. /\ DOMAIN r.pages = DOMAIN pages
      /\ r.pages[i] = [last |-> at + size, quote |-> q, failed |-> pages[i].failed]
      /\ \A j \in DOMAIN pages : j # i => r.pages[j] = pages[j]
  BY <1>1, <1>6 DEF PageRecords, q
<1>8. r.pages \in Seq(PageRecords)
  <2>1. [last |-> at + size, quote |-> q, failed |-> pages[i].failed] \in PageRecords
    BY <1>1, <1>3, <1>5 DEF PageRecords, q
  <2>2. r.pages = [pages EXCEPT ![i] = [last |-> at + size, quote |-> q,
                                        failed |-> pages[i].failed]]
    BY <1>1, <1>6 DEF PageRecords, q
  <2>. QED  BY <1>1, <2>1, <2>2
<1>9. x \in AreaRecords /\ x.page = i /\ x.from = at /\ x.to = at + size
  BY <1>1, <1>3 DEF AreaRecords, Area
<1>. HIDE DEF x
<1>10. Start(i) <= at
  BY MemoryAssumption, <1>1, <1>2, <1>3 DEF Layout, Start
<1>11. ASSUME i \notin dirty
       PROVE  /\ \A a \in U \cup N : ~Overlap(a, x)
              /\ x \notin U
  <2>1. \A a \in U \cup N : a.page = i => a.to <= at
    <3>1. Counted(pages[i], In(U, i), In(N, i))
      BY <1>11 DEF Layout
    <3>2. \A a \in U \cup N : a.page = i => a \in AreaRecords /\ a.to <= pages[i].last
      BY <3>1 DEF Layout, Counted, In
    <3>. QED  BY <1>2, <1>3, <3>2 DEF AreaRecords
  <2>2. \A a \in U \cup N : a \in AreaRecords
    BY DEF Layout
  <2>. QED  BY <1>3, <1>9, <2>1, <2>2 DEF Overlap, AreaRecords
<1>12. IsFiniteSet(U \cup {x}) /\ U \cup {x} \in SUBSET AreaRecords
  BY <1>9, FS_AddElement DEF Layout
<1>13. \A j \in DOMAIN r.pages : Start(j) <= r.pages[j].last /\ r.pages[j].last <= PAGE_SIZE
  <2>1. Start(i) <= at + size
    BY MemoryAssumption, <1>3, <1>10 DEF Start
  <2>. QED  BY <1>4, <1>7, <2>1 DEF Layout
<1>14. \A a \in (U \cup {x}) \cup N : Placed(a, r.pages)
  <2>1. Placed(x, r.pages)
    BY <1>3, <1>4, <1>7, <1>9, <1>10 DEF Placed
  <2>. QED  BY <1>7, <2>1 DEF Layout, Placed
<1>15. ASSUME NEW j \in DOMAIN r.pages \ dirty
       PROVE  Counted(r.pages[j], In(U \cup {x}, j), In(N, j))
  <2>1. Counted(pages[j], In(U, j), In(N, j))
    BY <1>7, <1>15 DEF Layout
  <2>2. CASE j # i
    <3>1. In(U \cup {x}, j) = In(U, j)
      BY <1>9, <2>2 DEF In
    <3>. QED  BY <1>7, <2>1, <2>2, <3>1
  <2>3. CASE j = i
    <3>1. x \notin U
      BY <1>11, <1>15, <2>3
    <3>2. /\ In(U \cup {x}, i) = In(U, i) \cup {x}
          /\ Cardinality(In(U \cup {x}, i)) = Cardinality(In(U, i)) + 1
      BY <1>9, <3>1, AddArea DEF Layout
    <3>3. pages[i].quote + 1 <= Slots(at + size) /\ pages[i].quote + 1 < 2^Width
      <4>1. Slots(pages[i].last) \in Nat /\ Slots(at + size) \in Nat
        <5>1. at + size \in Nat
          BY <1>3
        <5>. QED  BY <1>2, <5>1, Aligned
      <4>2. /\ Slots(pages[i].last) + 1 <= Slots(at + size)
            /\ Slots(pages[i].last) + 1 < 2^Width
        BY <1>2, <1>4, SlotsGrow DEF at
      <4>3. 2^Width \in Int
        BY MemoryAssumption
      <4>4. pages[i].quote <= Slots(pages[i].last)
        BY <2>1, <2>3 DEF Counted
      <4>. QED  BY <1>2, <4>1, <4>2, <4>3, <4>4
    <3>4. q = pages[i].quote + 1
      BY <1>2, <3>3, Wrapped DEF q
    <3>5. \A a \in In(U, i) \cup In(N, i) : a \in AreaRecords /\ a.to <= pages[i].last
      BY <2>1, <2>3 DEF Counted, In, Layout
    <3>6. \A a \in In(U \cup {x}, i) \cup In(N, i) : a.to <= at + size
      BY <1>2, <1>3, <1>9, <3>2, <3>5 DEF AreaRecords
    <3>7. Cardinality(In(U, i)) \in Nat /\ Cardinality(In(N, i)) \in Nat
      <4>1. In(U, i) \in SUBSET U /\ In(N, i) \in SUBSET N
        BY DEF In
      <4>2. IsFiniteSet(In(U, i)) /\ IsFiniteSet(In(N, i))
        BY <4>1, FS_Subset DEF Layout
      <4>. QED  BY <4>2, FS_CardinalityType
    <3>8. q = Cardinality(In(U \cup {x}, i)) + Cardinality(In(N, i))
      BY <2>1, <2>3, <3>2, <3>4, <3>7 DEF Counted
    <3>9. r.pages[j].last = at + size /\ r.pages[j].quote = q
      BY <1>7, <2>3
    <3>10. q <= Slots(at + size)
      BY <3>3, <3>4
    <3>. QED  BY <2>3, <3>6, <3>8, <3>9, <3>10 DEF Counted
  <2>. QED  BY <2>2, <2>3
<1>16. Layout(r.pages, dirty, U \cup {x}, N)
  BY <1>8, <1>12, <1>13, <1>14, <1>15 DEF Layout
<1>17. Area(i, r.at, size) = x
  BY <1>6 DEF x
<1>. QED  BY <1>6, <1>7, <1>11, <1>16, <1>17 DEF r

\* So does the first area of a new page, which counts right if quote_ began at zero.
LEMMA InNewPageKeepsLayout ==
  ASSUME NEW U, NEW N, Layout(pages, dirty, U, N), pages # <<>>,
         current \in Nat \ {0}, NEW size \in Nat \ {0}, SizeofSmallNode + size <= PAGE_SIZE,
         NEW g \in Garbage
  PROVE  LET r == InNewPage(size, g)
             x == Area(r.page, r.at, size)
         IN /\ r.page # Null /\ dirty \subseteq r.dirty /\ r.current \in Nat \ {0}
            /\ Layout(r.pages, r.dirty, U \cup {x}, N)
            /\ \A a \in U \cup N : ~Overlap(a, x)
            /\ r.pages # <<>>
<1>. DEFINE r == InNewPage(size, g)
            n == Len(pages) + 1
            at == mp_align(SizeofSmallNode)
            x == Area(n, at, size)
            new == [last |-> at + size, quote |-> Wrap(g.quote + 1), failed |-> g.failed]
            old == [i \in DOMAIN pages |->
                      IF i \in Passed THEN [pages[i] EXCEPT !.failed = Wrap(@ + 1)]
                      ELSE pages[i]]
<1>1. pages \in Seq(PageRecords) /\ Len(pages) \in Nat /\ DOMAIN pages = 1 .. Len(pages)
  BY DEF Layout
<1>2. at = SizeofSmallNode /\ at \in Nat \ {0} /\ at % MP_ALIGNMENT = 0
  BY MemoryAssumption, Aligned
<1>3. g.quote \in Nat /\ g.failed \in Nat
  BY MemoryAssumption
<1>4. new \in PageRecords
  <2>1. Wrap(g.quote + 1) \in Nat
    <3>1. g.quote + 1 \in Int
      BY <1>3
    <3>. QED  BY <3>1, Wrapped
  <2>. QED  BY <1>2, <1>3, <2>1 DEF PageRecords
<1>5. /\ old \in Seq(PageRecords) /\ Len(old) = Len(pages)
      /\ \A i \in DOMAIN pages : /\ old[i].last = pages[i].last
                                 /\ old[i].quote = pages[i].quote
  <2>1. ASSUME NEW i \in DOMAIN pages
        PROVE  /\ old[i] \in PageRecords
               /\ old[i].last = pages[i].last /\ old[i].quote = pages[i].quote
    <3>1. pages[i] \in PageRecords
      BY <1>1
    <3>2. Wrap(pages[i].failed + 1) \in Nat
      <4>1. pages[i].failed + 1 \in Int
        BY <3>1 DEF PageRecords
      <4>. QED  BY <4>1, Wrapped
    <3>3. CASE i \in Passed
      <4>1. old[i] = [pages[i] EXCEPT !.failed = Wrap(pages[i].failed + 1)]
        BY <3>3
      <4>. HIDE DEF old
      <4>. QED  BY <3>1, <3>2, <4>1 DEF PageRecords
    <3>4. CASE i \notin Passed
      BY <3>1, <3>4
    <3>. QED  BY <3>3, <3>4
  <2>2. old = [i \in DOMAIN pages |-> old[i]]
    OBVIOUS
  <2>. HIDE DEF old
  <2>3. old \in [1 .. Len(pages) -> PageRecords]
    BY <1>1, <2>1, <2>2
  <2>. QED  BY <1>1, <2>1, <2>3
<1>6. /\ r.page = n /\ r.at = at /\ r.pages = Append(old, new)
      /\ r.current = IF Skipped = {} THEN current ELSE Max(Skipped) + 1
      /\ r.dirty = IF g.quote = 0 THEN dirty ELSE dirty \cup {n}
  BY DEF InNewPage
<1>7. r.current \in Nat \ {0}
  <2>1. CASE Skipped # {}
    <3>1. Skipped \subseteq 0 .. Len(pages)
      BY <1>1 DEF Skipped, Passed
    <3>2. Max(Skipped) \in Nat
      <4>1. Max(Skipped) \in Skipped
        BY <1>1, <2>1, <3>1, MinMax
      <4>2. \A m \in 0 .. Len(pages) : m \in Nat
        BY <1>1
      <4>. QED  BY <3>1, <4>1, <4>2, Zenon
    <3>. QED  BY <1>6, <2>1, <3>2
  <2>. QED  BY <1>6, <2>1
<1>. HIDE DEF r, at, old, new
<1>8. /\ r.pages \in Seq(PageRecords) /\ DOMAIN r.pages = 1 .. n
      /\ r.pages[n] = new
      /\ \A i \in DOMAIN pages : r.pages[i] = old[i]
  BY <1>1, <1>4, <1>5, <1>6
<1>9. x \in AreaRecords /\ x.page = n /\ x.from = at /\ x.to = at + size
  BY <1>1, <1>2 DEF AreaRecords, Area
<1>. HIDE DEF x
<1>10. n \in Nat /\ n > 1 /\ Start(n) = at
  BY <1>1, <1>2 DEF Start
<1>11. \A a \in U \cup N : a \in AreaRecords /\ a.page # n
  BY <1>1 DEF Layout, Placed
<1>12. IsFiniteSet(U \cup {x}) /\ U \cup {x} \in SUBSET AreaRecords
  BY <1>9, FS_AddElement DEF Layout
<1>13. r.pages[n].last = at + size /\ r.pages[n].quote = Wrap(g.quote + 1)
  BY <1>8 DEF new
<1>14. \A j \in DOMAIN r.pages : Start(j) <= r.pages[j].last /\ r.pages[j].last <= PAGE_SIZE
  <2>1. Start(n) <= r.pages[n].last /\ r.pages[n].last <= PAGE_SIZE
    BY <1>2, <1>10, <1>13
  <2>2. \A j \in DOMAIN pages :
          Start(j) <= r.pages[j].last /\ r.pages[j].last <= PAGE_SIZE
    BY <1>5, <1>8 DEF Layout
  <2>3. \A j \in 1 .. n : j = n \/ j \in DOMAIN pages
    BY <1>1
  <2>. QED  BY <1>8, <2>1, <2>2, <2>3
<1>15. \A a \in (U \cup {x}) \cup N : Placed(a, r.pages)
  <2>1. Placed(x, r.pages)
    BY MemoryAssumption, <1>2, <1>8, <1>9, <1>10 DEF Placed
  <2>2. DOMAIN pages \subseteq DOMAIN r.pages
    BY <1>1, <1>8
  <2>. QED  BY <2>1, <2>2 DEF Layout, Placed
<1>16. ASSUME NEW j \in DOMAIN r.pages \ r.dirty
       PROVE  Counted(r.pages[j], In(U \cup {x}, j), In(N, j))
  <2>1. CASE j # n
    <3>1. j \in DOMAIN pages \ dirty
      BY <1>1, <1>6, <1>8, <1>16, <2>1
    <3>2. Counted(pages[j], In(U, j), In(N, j))
      BY <3>1 DEF Layout
    <3>3. In(U \cup {x}, j) = In(U, j)
      BY <1>9, <2>1 DEF In
    <3>4. r.pages[j].last = pages[j].last /\ r.pages[j].quote = pages[j].quote
      BY <1>5, <1>8, <3>1
    <3>. QED  BY <3>2, <3>3, <3>4 DEF Counted
  <2>2. CASE j = n
    <3>1. g.quote = 0
      BY <1>6, <1>16, <2>2
    <3>2. In(U \cup {x}, n) = {x} /\ In(N, n) = {}
      BY <1>9, <1>11 DEF In
    <3>3. Cardinality(In(U \cup {x}, n)) = 1 /\ Cardinality(In(N, n)) = 0
      BY <3>2, FS_Singleton, FS_EmptySet
    <3>4. Slots(SizeofSmallNode) \in Nat /\ Slots(at + size) \in Nat
      <4>1. SizeofSmallNode \in Nat /\ at + size \in Nat
        BY <1>2
      <4>. QED  BY <4>1, Aligned
    <3>5. /\ Slots(SizeofSmallNode) + 1 <= Slots(at + size)
          /\ Slots(SizeofSmallNode) + 1 < 2^Width
      BY MemoryAssumption, <1>2, SlotsGrow DEF at
    <3>6. 2^Width \in Int
      BY MemoryAssumption
    <3>7. 1 <= Slots(at + size) /\ 1 < 2^Width
      BY <3>4, <3>5, <3>6
    <3>8. r.pages[n].quote = 1
      BY <1>13, <3>1, <3>7, Wrapped
    <3>9. \A a \in In(U \cup {x}, n) \cup In(N, n) : a.to <= r.pages[n].last
      BY <1>2, <1>9, <1>13, <3>2
    <3>10. r.pages[n].quote = Cardinality(In(U \cup {x}, n)) + Cardinality(In(N, n))
      BY <3>3, <3>8
    <3>11. r.pages[n].quote <= Slots(r.pages[n].last)
      BY <1>13, <3>7, <3>8
    <3>. QED  BY <2>2, <3>9, <3>10, <3>11 DEF Counted
  <2>. QED  BY <2>1, <2>2
<1>17. Layout(r.pages, r.dirty, U \cup {x}, N)
  BY <1>8, <1>12, <1>14, <1>15, <1>16 DEF Layout
<1>18. \A a \in U \cup N : ~Overlap(a, x)
  BY <1>9, <1>11 DEF Overlap
<1>19. Area(r.page, r.at, size) = x
  BY <1>6 DEF x
<1>20. r.page # Null /\ dirty \subseteq r.dirty /\ r.pages # <<>>
  BY <1>6, <1>8, <1>10 DEF Null
<1>. QED  BY <1>7, <1>17, <1>18, <1>19, <1>20 DEF r

\* malloc() of a small size, for the user or for a LargeNode.
LEMMA OutcomeKeepsLayout ==
  ASSUME NEW U, NEW N, Layout(pages, dirty, U, N), pages # <<>>,
         current \in Nat \ {0}, NEW size \in Nat \ {0}, SizeofSmallNode + size <= PAGE_SIZE,
         NEW r \in SmallOutcomes(size)
  PROVE  LET x == Area(r.page, r.at, size)
         IN /\ dirty \subseteq r.dirty /\ r.current \in Nat \ {0}
            /\ r.page = Null => Layout(r.pages, r.dirty, U, N)
            /\ r.page # Null => /\ Layout(r.pages, r.dirty, U \cup {x}, N)
                                   /\ Layout(r.pages, r.dirty, U, N \cup {x})
            /\ r.page \notin r.dirty => \A a \in U \cup N : ~Overlap(a, x)
            /\ r.pages # <<>>
<1>. DEFINE x == Area(r.page, r.at, size)
<1>1. Layout(pages, dirty, N, U)
  BY LayoutIsSymmetric
<1>2. ASSUME Layout(r.pages, r.dirty, N \cup {x}, U)
      PROVE  Layout(r.pages, r.dirty, U, N \cup {x})
  BY <1>2, LayoutIsSymmetric
<1>3. CASE r = NoMemory
  <2>1. /\ r.page = 0 /\ Null = 0 /\ r.pages = pages /\ r.current = current
        /\ r.dirty = dirty
    BY <1>3 DEF NoMemory, Null
  <2>2. \A a \in U \cup N : a.page # 0
    BY DEF Layout, Placed
  <2>3. x.page = 0
    BY <2>1 DEF Area
  <2>. HIDE DEF x
  <2>4. \A a \in U \cup N : ~Overlap(a, x)
    BY <2>2, <2>3 DEF Overlap
  <2>. QED  BY <2>1, <2>4 DEF x
<1>4. CASE Fitting(size) # {} /\ r = InPage(Min(Fitting(size)), size)
  <2>. DEFINE i == Min(Fitting(size))
  <2>1. Fitting(size) \subseteq 0 .. Len(pages) /\ Len(pages) \in Nat
    BY DEF Fitting, Layout
  <2>2. i \in Fitting(size)
    BY <1>4, <2>1, MinMax
  <2>3. i \in DOMAIN pages /\ HasRoom(i, size) /\ i # 0
    BY <2>2 DEF Fitting, Layout
  <2>. HIDE DEF i
  <2>4. r = InPage(i, size)
    BY <1>4 DEF i
  <2>5. /\ r.page = i /\ r.dirty = dirty /\ r.current = current
        /\ DOMAIN r.pages = DOMAIN pages
        /\ Layout(r.pages, dirty, U \cup {Area(i, r.at, size)}, N)
        /\ i \notin dirty => \A a \in U \cup N : ~Overlap(a, Area(i, r.at, size))
    BY <2>3, <2>4, InPageKeepsLayout
  <2>6. Layout(r.pages, dirty, N \cup {Area(i, r.at, size)}, U)
    BY <1>1, <2>3, <2>4, InPageKeepsLayout
  <2>7. r.pages # <<>>
    BY <2>3, <2>5
  <2>. QED  BY <1>2, <2>3, <2>5, <2>6, <2>7 DEF Null
<1>5. ASSUME NEW g \in Garbage, r = InNewPage(size, g)
      PROVE  /\ dirty \subseteq r.dirty /\ r.current \in Nat \ {0} /\ r.page # Null
             /\ Layout(r.pages, r.dirty, U \cup {x}, N)
             /\ Layout(r.pages, r.dirty, U, N \cup {x})
             /\ \A a \in U \cup N : ~Overlap(a, x)
             /\ r.pages # <<>>
  <2>1. /\ r.page # Null /\ dirty \subseteq r.dirty /\ r.current \in Nat \ {0}
        /\ Layout(r.pages, r.dirty, U \cup {x}, N)
        /\ \A a \in U \cup N : ~Overlap(a, x)
        /\ r.pages # <<>>
    BY <1>5, InNewPageKeepsLayout
  <2>2. Layout(r.pages, r.dirty, N \cup {x}, U)
    BY <1>1, <1>5, InNewPageKeepsLayout
  <2>. QED  BY <1>2, <2>1, <2>2
<1>6. \/ r = NoMemory
      \/ Fitting(size) # {} /\ r = InPage(Min(Fitting(size)), size)
      \/ \E g \in Garbage : r = InNewPage(size, g)
  BY DEF SmallOutcomes
<1>. QED  BY <1>3, <1>4, <1>5, <1>6

\* freeMemory() of a small area: a page whose count is right is emptied by the last
\* area in it, and not before.
LEMMA FreeKeepsLayout ==
  ASSUME NEW N, Layout(pages, dirty, areas, N), pages # <<>>,
         NEW a \in areas, freeSmall(a)
  PROVE  Layout(pages', dirty, areas', N) /\ pages' # <<>>
<1>. DEFINE i == a.page
            q == Wrap(pages[i].quote - 1)
            page == IF Resets(q) THEN EmptyPage(i) ELSE [pages[i] EXCEPT !.quote = q]
<1>1. /\ i \in DOMAIN pages /\ pages \in Seq(PageRecords) /\ pages[i] \in PageRecords
      /\ a \in AreaRecords
  BY DEF Layout, Placed
<1>2. pages[i].last \in Nat /\ pages[i].quote \in Nat
  BY <1>1 DEF PageRecords
<1>3. q \in Nat
  <2>1. pages[i].quote - 1 \in Int
    BY <1>2
  <2>. QED  BY <2>1, Wrapped
<1>4. pages' = [pages EXCEPT ![i] = page]
  BY <1>1 DEF freeSmall
<1>5. areas' = areas \ {a}
  BY DEF freeSmall
<1>. HIDE DEF q
<1>6. /\ Resets(q) => page = [last |-> Start(i), quote |-> 0, failed |-> 0]
      /\ ~Resets(q) => page = [last |-> pages[i].last, quote |-> q, failed |-> pages[i].failed]
      /\ Resets(q) <=> q = 0
      /\ Start(i) \in Nat /\ Start(i) <= PAGE_SIZE
  <2>1. Resets(q) <=> q = 0
    BY DEF Resets
  <2>2. Start(i) \in Nat /\ Start(i) <= PAGE_SIZE
    BY MemoryAssumption DEF Start
  <2>3. Resets(q) => page = [last |-> Start(i), quote |-> 0, failed |-> 0]
    BY DEF EmptyPage
  <2>4. ~Resets(q) => page = [last |-> pages[i].last, quote |-> q, failed |-> pages[i].failed]
    BY <1>1 DEF PageRecords
  <2>. QED  BY <2>1, <2>2, <2>3, <2>4
<1>. HIDE DEF page
<1>7. page \in PageRecords
  BY <1>1, <1>3, <1>6 DEF PageRecords
<1>8. /\ pages' \in Seq(PageRecords) /\ DOMAIN pages' = DOMAIN pages
      /\ pages'[i] = page /\ \A j \in DOMAIN pages : j # i => pages'[j] = pages[j]
  BY <1>1, <1>4, <1>7
<1>9. IsFiniteSet(areas') /\ areas' \in SUBSET AreaRecords
  BY <1>5, FS_RemoveElement DEF Layout
<1>10. \A j \in DOMAIN pages' : Start(j) <= pages'[j].last /\ pages'[j].last <= PAGE_SIZE
  <2>1. Start(i) <= page.last /\ page.last <= PAGE_SIZE
    BY <1>1, <1>6 DEF Layout
  <2>. QED  BY <1>8, <2>1 DEF Layout
<1>11. \A b \in areas' \cup N : Placed(b, pages')
  BY <1>5, <1>8 DEF Layout, Placed
<1>12. ASSUME NEW j \in DOMAIN pages' \ dirty
       PROVE  Counted(pages'[j], In(areas', j), In(N, j))
  <2>1. Counted(pages[j], In(areas, j), In(N, j))
    BY <1>8, <1>12 DEF Layout
  <2>2. CASE j # i
    <3>1. In(areas', j) = In(areas, j)
      BY <1>5, <2>2 DEF In
    <3>. QED  BY <1>8, <2>1, <2>2, <3>1
  <2>3. CASE j = i
    <3>. DEFINE c == Cardinality(In(areas, i))
                d == Cardinality(In(N, i))
    <3>1. /\ IsFiniteSet(In(areas, i)) /\ IsFiniteSet(In(N, i))
          /\ In(areas', i) = In(areas, i) \ {a} /\ a \in In(areas, i)
      <4>1. In(areas, i) \in SUBSET areas /\ In(N, i) \in SUBSET N
        BY DEF In
      <4>2. IsFiniteSet(In(areas, i)) /\ IsFiniteSet(In(N, i))
        BY <4>1, FS_Subset DEF Layout
      <4>3. In(areas', i) = In(areas, i) \ {a} /\ a \in In(areas, i)
        BY <1>5 DEF In
      <4>. QED  BY <4>2, <4>3
    <3>2. /\ c \in Nat /\ d \in Nat
          /\ IsFiniteSet(In(areas', i))
          /\ Cardinality(In(areas', i)) = c - 1 /\ c - 1 \in Nat
      <4>1. c \in Nat /\ d \in Nat
        BY <3>1, FS_CardinalityType
      <4>2. IsFiniteSet(In(areas', i)) /\ Cardinality(In(areas', i)) = c - 1
        BY <3>1, FS_RemoveElement
      <4>3. Cardinality(In(areas', i)) \in Nat
        BY <4>2, FS_CardinalityType
      <4>. QED  BY <4>1, <4>2, <4>3
    <3>3. pages[i].quote = c + d /\ pages[i].quote <= Slots(pages[i].last)
      BY <2>1, <2>3 DEF Counted
    <3>. HIDE DEF c, d
    <3>4. q = (c - 1) + d
      <4>1. Slots(pages[i].last) \in Nat /\ Slots(pages[i].last) < 2^Width
        BY <1>1, <1>2, Aligned, SlotsOfPage DEF Layout
      <4>2. 2^Width \in Int
        BY MemoryAssumption
      <4>3. pages[i].quote - 1 \in Nat /\ pages[i].quote - 1 < 2^Width
        BY <3>2, <3>3, <4>1, <4>2
      <4>4. q = pages[i].quote - 1
        <5>1. pages[i].quote - 1 \in Int
          BY <4>3
        <5>. QED  BY <4>3, <5>1, Wrapped DEF q
      <4>. QED  BY <3>2, <3>3, <4>4
    <3>5. CASE q = 0
      <4>1. Cardinality(In(areas', i)) = 0 /\ d = 0
        BY <3>2, <3>4, <3>5
      <4>2. In(areas', i) = {} /\ In(N, i) = {}
        BY <3>1, <3>2, <4>1, FS_EmptySet DEF d
      <4>3. page.quote = 0 /\ page.last = Start(i) /\ Slots(Start(i)) \in Nat
        BY <1>6, <3>5, Aligned
      <4>4. page.quote = Cardinality(In(areas', i)) + Cardinality(In(N, i))
        BY <4>1, <4>3 DEF d
      <4>. QED  BY <1>8, <2>3, <4>2, <4>3, <4>4 DEF Counted
    <3>6. CASE q # 0
      <4>1. page.quote = q /\ page.last = pages[i].last
        BY <1>6, <3>6
      <4>2. \A b \in In(areas', i) \cup In(N, i) : b.to <= page.last
        BY <2>1, <2>3, <3>1, <4>1 DEF Counted
      <4>3. page.quote = Cardinality(In(areas', i)) + Cardinality(In(N, i))
        BY <3>2, <3>4, <4>1 DEF d
      <4>4. Slots(pages[i].last) \in Nat
        BY <1>2, Aligned
      <4>5. page.quote <= Slots(page.last)
        BY <1>3, <3>2, <3>3, <3>4, <4>1, <4>4
      <4>. QED  BY <1>8, <2>3, <4>2, <4>3, <4>5 DEF Counted
    <3>. QED  BY <3>5, <3>6
  <2>. QED  BY <2>2, <2>3
<1>. QED  BY <1>1, <1>8, <1>9, <1>10, <1>11, <1>12 DEF Layout

NodeRecords == [page : Nat, at : Nat, address : Nat]

MemoryInv ==
  /\ phase \in {"none", "failed", "open", "freeing", "destroyed"}
  /\ phase \in {"none", "failed"} => areas = {} /\ largeList = <<>>
  /\ phase = "open" => pages # <<>>
  /\ current \in Nat \ {0}
  /\ largeList \in Seq(NodeRecords)
  /\ Layout(pages, dirty, areas, LargeNodes)
  /\ shared \subseteq dirty

\* Pages without an area.
LEMMA EmptyLayout ==
  ASSUME NEW p \in Seq(PageRecords), NEW d,
         \A i \in DOMAIN p : p[i].last = Start(i) /\ (i \notin d => p[i].quote = 0)
  PROVE  Layout(p, d, {}, {})
<1>1. \A i : Start(i) \in Nat /\ Start(i) <= PAGE_SIZE
  BY MemoryAssumption DEF Start
<1>2. \A i : Slots(Start(i)) \in Nat
  BY <1>1, Aligned
<1>3. \A i : In({}, i) = {}
  BY DEF In
<1>4. IsFiniteSet({}) /\ Cardinality({}) = 0
  BY FS_EmptySet
<1>5. \A i \in DOMAIN p \ d : Counted(p[i], {}, {})
  BY <1>2, <1>4 DEF Counted
<1>6. \A i \in DOMAIN p : Start(i) <= p[i].last /\ p[i].last <= PAGE_SIZE
  BY <1>1
<1>7. \A i \in DOMAIN p \ d : Counted(p[i], In({}, i), In({}, i))
  BY <1>3, <1>5
<1>8. {} \in SUBSET AreaRecords /\ \A a \in {} \cup {} : Placed(a, p)
  OBVIOUS
<1>. QED  BY <1>4, <1>6, <1>7, <1>8 DEF Layout

\* No pages.
LEMMA NoLayout == Layout(<<>>, {}, {}, {})
<1>1. <<>> \in Seq(PageRecords) /\ DOMAIN <<>> = {}
  OBVIOUS
<1>. QED  BY <1>1, EmptyLayout

LEMMA NoLargeNodes ==
  /\ largeList = <<>> => LargeNodes = {}
  /\ largeList' = <<>> => LargeNodes' = {}
BY DEF LargeNodes

LEMMA InitMemory == ASSUME MemoryInit
                    PROVE  MemoryInv
<1>1. LargeNodes = {}
  BY NoLargeNodes DEF MemoryInit
<1>2. Layout(<<>>, {}, {}, {})
  BY NoLayout
<1>. QED  BY <1>1, <1>2 DEF MemoryInv, MemoryInit

\* The pool as a whole.
LEMMA PoolOfMemoryKeepsInv ==
  ASSUME MemoryInv, shared = {},
         createPool \/ resetPool \/ destroyPool
  PROVE  MemoryInv'
<1>1. CASE createPool
  <2>1. PICK g \in Garbage : /\ pages' = <<[EmptyPage(1) EXCEPT !.quote = g.quote]>>
                             /\ dirty' = IF g.quote = 0 THEN {} ELSE {1}
    BY <1>1 DEF createPool
  <2>2. g.quote \in Nat
    BY MemoryAssumption
  <2>3. Start(1) \in Nat
    BY MemoryAssumption DEF Start
  <2>4. pages' = <<[last |-> Start(1), quote |-> g.quote, failed |-> 0]>>
    BY <2>1 DEF EmptyPage
  <2>5. [last |-> Start(1), quote |-> g.quote, failed |-> 0] \in PageRecords
    BY <2>2, <2>3 DEF PageRecords
  <2>6. pages' \in Seq(PageRecords) /\ pages' # <<>> /\ DOMAIN pages' = {1}
    BY <2>4, <2>5
  <2>7. Layout(pages', dirty', {}, {})
    <3>1. \A i \in DOMAIN pages' :
            pages'[i].last = Start(i) /\ (i \notin dirty' => pages'[i].quote = 0)
      BY <2>1, <2>4, <2>6
    <3>. QED  BY <2>6, <3>1, EmptyLayout
  <2>8. /\ phase' = "open" /\ current' = 1 /\ UNCHANGED <<largeList, areas, shared>>
        /\ largeList = <<>> /\ areas = {}
    BY <1>1 DEF createPool, MemoryInv
  <2>9. LargeNodes' = {}
    BY <2>8, NoLargeNodes
  <2>. QED  BY <2>6, <2>7, <2>8, <2>9 DEF MemoryInv
<1>2. CASE resetPool
  <2>1. /\ phase = "open" /\ UNCHANGED <<phase, shared>> /\ largeList' = <<>> /\ current' = 1
        /\ areas' = {} /\ dirty' = {}
        /\ pages' = [i \in DOMAIN pages |-> EmptyPage(i)]
    BY <1>2 DEF resetPool
  <2>2. pages \in Seq(PageRecords) /\ pages # <<>>
    BY <2>1 DEF MemoryInv, Layout
  <2>3. \A i : EmptyPage(i) \in PageRecords
    BY MemoryAssumption DEF EmptyPage, Start, PageRecords
  <2>4. pages' \in Seq(PageRecords) /\ pages' # <<>>
    BY <2>1, <2>2, <2>3
  <2>5. \A i \in DOMAIN pages' : pages'[i].last = Start(i) /\ pages'[i].quote = 0
    BY <2>1 DEF EmptyPage
  <2>6. Layout(pages', dirty', {}, {})
    BY <2>4, <2>5, EmptyLayout
  <2>7. LargeNodes' = {}
    BY <2>1, NoLargeNodes
  <2>. QED  BY <2>1, <2>4, <2>6, <2>7 DEF MemoryInv
<1>3. CASE destroyPool
  <2>1. /\ phase' = "freeing" /\ UNCHANGED <<current, shared>> /\ largeList' = <<>>
        /\ areas' = {} /\ dirty' = {} /\ pages' = <<>>
    BY <1>3 DEF destroyPool
  <2>2. Layout(<<>>, {}, {}, {})
    BY NoLayout
  <2>3. LargeNodes' = {}
    BY <2>1, NoLargeNodes
  <2>. QED  BY <2>1, <2>2, <2>3 DEF MemoryInv
<1>. QED  BY <1>1, <1>2, <1>3

\* The history of overlaps, after an allocation.
LEMMA OutcomeNotShared ==
  ASSUME NEW r, NEW size, TakeOutcome(r, size), shared \subseteq dirty, dirty \subseteq r.dirty,
         r.page \notin r.dirty => \A a \in Areas : ~Overlap(a, Area(r.page, r.at, size))
  PROVE  shared' \subseteq dirty'
BY DEF TakeOutcome

LEMMA mallocSmallKeepsInv ==
  ASSUME MemoryInv, NEW size \in Sizes, mallocSmall(size)
  PROVE  MemoryInv'
<1>1. PICK r \in SmallOutcomes(size) :
        /\ TakeOutcome(r, size)
        /\ areas' = IF r.page = Null THEN areas
                    ELSE areas \cup {Area(r.page, r.at, size)}
  BY DEF mallocSmall
<1>. DEFINE x == Area(r.page, r.at, size)
<1>2. phase = "open" /\ UNCHANGED <<phase, largeList>> /\ LargeNodes' = LargeNodes
  BY DEF mallocSmall, LargeNodes
<1>3. size \in Nat \ {0} /\ SizeofSmallNode + size <= PAGE_SIZE
  BY MemoryAssumption DEF mallocSmall, isLarge
<1>4. /\ Layout(pages, dirty, areas, LargeNodes) /\ pages # <<>>
      /\ current \in Nat \ {0} /\ shared \subseteq dirty
  BY <1>2 DEF MemoryInv
<1>5. /\ dirty \subseteq r.dirty /\ r.current \in Nat \ {0} /\ r.pages # <<>>
      /\ r.page = Null => Layout(r.pages, r.dirty, areas, LargeNodes)
      /\ r.page # Null => Layout(r.pages, r.dirty, areas \cup {x}, LargeNodes)
      /\ r.page \notin r.dirty => \A a \in areas \cup LargeNodes : ~Overlap(a, x)
  BY <1>3, <1>4, OutcomeKeepsLayout
<1>6. shared' \subseteq dirty'
  BY <1>1, <1>4, <1>5, OutcomeNotShared DEF Areas
<1>7. pages' = r.pages /\ current' = r.current /\ dirty' = r.dirty
  BY <1>1 DEF TakeOutcome
<1>8. Layout(pages', dirty', areas', LargeNodes')
  BY <1>1, <1>2, <1>5, <1>7
<1>. QED  BY <1>2, <1>5, <1>6, <1>7, <1>8 DEF MemoryInv

\* A LargeNode given another address stays where it is.
LEMMA NodeWithAddress ==
  ASSUME NEW n \in NodeRecords, NEW b \in Nat
  PROVE  /\ [n EXCEPT !.address = b] \in NodeRecords
         /\ [n EXCEPT !.address = b].page = n.page
         /\ [n EXCEPT !.address = b].at = n.at
BY DEF NodeRecords

\* The areas of the LargeNodes do not depend on what these hold.
LEMMA NodesAfterFree ==
  ASSUME largeList \in Seq(NodeRecords), NEW b,
         largeList' = [k \in DOMAIN largeList |->
                         IF largeList[k].address = b
                         THEN [largeList[k] EXCEPT !.address = Null] ELSE largeList[k]]
  PROVE  largeList' \in Seq(NodeRecords) /\ LargeNodes' = LargeNodes
<1>1. \A k \in DOMAIN largeList : /\ largeList'[k] \in NodeRecords
                                  /\ largeList'[k].page = largeList[k].page
                                  /\ largeList'[k].at = largeList[k].at
  <2>. TAKE k \in DOMAIN largeList
  <2>1. largeList[k] \in NodeRecords
    OBVIOUS
  <2>2. \/ largeList'[k] = largeList[k]
        \/ largeList'[k] = [largeList[k] EXCEPT !.address = 0]
    BY DEF Null
  <2>3. CASE largeList'[k] = largeList[k]
    BY <2>1, <2>3
  <2>4. CASE largeList'[k] = [largeList[k] EXCEPT !.address = 0]
    <3>. DEFINE node == [largeList[k] EXCEPT !.address = 0]
    <3>1. node \in NodeRecords /\ node.page = largeList[k].page /\ node.at = largeList[k].at
      BY <2>1, NodeWithAddress
    <3>2. largeList'[k] = node
      BY <2>4
    <3>. HIDE DEF node
    <3>. QED  BY <3>1, <3>2
  <2>. QED  BY <2>2, <2>3, <2>4
<1>2. /\ DOMAIN largeList' = DOMAIN largeList
      /\ largeList' = [k \in DOMAIN largeList |-> largeList'[k]]
  OBVIOUS
<1>3. Len(largeList) \in Nat /\ DOMAIN largeList = 1 .. Len(largeList)
  OBVIOUS
<1>4. largeList' \in [1 .. Len(largeList) -> NodeRecords]
  BY <1>1, <1>2, <1>3
<1>5. LargeNodes' = LargeNodes
  BY <1>1, <1>2 DEF LargeNodes
<1>. QED  BY <1>2, <1>3, <1>4, <1>5

LEMMA NodesAfterReuse ==
  ASSUME largeList \in Seq(NodeRecords), NEW b \in Nat, NEW k \in DOMAIN largeList,
         largeList' = [largeList EXCEPT ![k].address = b]
  PROVE  largeList' \in Seq(NodeRecords) /\ LargeNodes' = LargeNodes
<1>. DEFINE node == [largeList[k] EXCEPT !.address = b]
<1>1. largeList[k] \in NodeRecords
  OBVIOUS
<1>2. node \in NodeRecords
  BY <1>1, NodeWithAddress
<1>3. node.page = largeList[k].page /\ node.at = largeList[k].at
  BY <1>1, NodeWithAddress
<1>4. largeList' = [largeList EXCEPT ![k] = node]
  OBVIOUS
<1>. HIDE DEF node
<1>5. /\ largeList' \in Seq(NodeRecords) /\ DOMAIN largeList' = DOMAIN largeList
      /\ \A l \in DOMAIN largeList : /\ largeList'[l].page = largeList[l].page
                                     /\ largeList'[l].at = largeList[l].at
  BY <1>2, <1>3, <1>4
<1>. QED  BY <1>5 DEF LargeNodes

LEMMA NodesAfterAdd ==
  ASSUME largeList \in Seq(NodeRecords), NEW node \in NodeRecords,
         largeList' = <<node>> \o largeList
  PROVE  /\ largeList' \in Seq(NodeRecords)
         /\ LargeNodes'
              = LargeNodes \cup {Area(node.page, node.at, SizeofLargeNode)}
<1>. DEFINE x == Area(node.page, node.at, SizeofLargeNode)
            At(n) == Area(n.page, n.at, SizeofLargeNode)
<1>1. Len(largeList) \in Nat /\ DOMAIN largeList = 1 .. Len(largeList)
  OBVIOUS
<1>2. /\ largeList' \in Seq(NodeRecords)
      /\ DOMAIN largeList' = 1 .. Len(largeList) + 1
      /\ largeList'[1] = node
      /\ \A k \in 1 .. Len(largeList) : largeList'[k + 1] = largeList[k]
  BY <1>1
<1>3. /\ LargeNodes = {At(largeList[k]) : k \in 1 .. Len(largeList)}
      /\ LargeNodes' = {At(largeList'[k]) : k \in 1 .. Len(largeList) + 1}
  BY <1>1, <1>2 DEF LargeNodes, Area
<1>4. At(node) = x
  OBVIOUS
<1>. HIDE DEF At, x
<1>5. ASSUME NEW k \in 1 .. Len(largeList) + 1
      PROVE  At(largeList'[k]) \in LargeNodes \cup {x}
  <2>1. CASE k = 1
    BY <1>2, <1>4, <2>1
  <2>2. CASE k # 1
    <3>1. k - 1 \in 1 .. Len(largeList) /\ largeList'[k] = largeList[k - 1]
      BY <1>1, <1>2, <2>2
    <3>. QED  BY <1>3, <3>1
  <2>. QED  BY <2>1, <2>2
<1>6. ASSUME NEW k \in 1 .. Len(largeList)
      PROVE  At(largeList[k]) \in LargeNodes'
  <2>1. k + 1 \in 1 .. Len(largeList) + 1 /\ largeList'[k + 1] = largeList[k]
    BY <1>1, <1>2
  <2>. QED  BY <1>3, <2>1
<1>7. x \in LargeNodes'
  <2>1. 1 \in 1 .. Len(largeList) + 1
    BY <1>1
  <2>. QED  BY <1>2, <1>3, <1>4, <2>1
<1>8. LargeNodes' = LargeNodes \cup {x}
  BY <1>3, <1>5, <1>6, <1>7
<1>. QED  BY <1>2, <1>8 DEF x

LEMMA freeKeepsInv ==
  ASSUME MemoryInv,
         (\E a \in areas : freeSmall(a)) \/ (\E b \in held : freeLarge(b))
  PROVE  MemoryInv'
<1>1. ASSUME NEW a \in areas, freeSmall(a)
      PROVE  MemoryInv'
  <2>1. /\ phase = "open" /\ UNCHANGED <<phase, largeList, dirty, shared>>
        /\ LargeNodes' = LargeNodes
        /\ current' = 1 \/ current' = current
    BY <1>1 DEF freeSmall, LargeNodes
  <2>2. Layout(pages', dirty, areas', LargeNodes) /\ pages' # <<>>
    BY <1>1, <2>1, FreeKeepsLayout DEF MemoryInv
  <2>. QED  BY <2>1, <2>2 DEF MemoryInv
<1>2. ASSUME NEW b \in held, freeLarge(b)
      PROVE  MemoryInv'
  <2>1. /\ phase = "open" /\ UNCHANGED <<phase, pages, current, areas, dirty, shared>>
        /\ largeList' = [k \in DOMAIN largeList |->
                           IF largeList[k].address = b
                           THEN [largeList[k] EXCEPT !.address = Null] ELSE largeList[k]]
    BY <1>2 DEF freeLarge
  <2>2. largeList' \in Seq(NodeRecords) /\ LargeNodes' = LargeNodes
    BY <2>1, NodesAfterFree DEF MemoryInv
  <2>. QED  BY <2>1, <2>2 DEF MemoryInv
<1>. QED  BY <1>1, <1>2

LEMMA mallocLargeKeepsInv ==
  ASSUME MemoryInv, NEW b \in Nat, mallocLarge(b)
  PROVE  MemoryInv'
<1>1. phase = "open" /\ UNCHANGED <<phase, areas>>
  BY DEF mallocLarge
<1>2. largeList \in Seq(NodeRecords) /\ Len(largeList) \in Nat
  BY DEF MemoryInv
<1>3. CASE ReuseLargeNode(b)
  <2>. DEFINE k == Min(FreeNodes)
  <2>1. largeList' = [largeList EXCEPT ![k].address = b] /\ FreeNodes # {}
        /\ UNCHANGED <<pages, current, dirty, shared>>
    BY <1>3 DEF ReuseLargeNode
  <2>2. FreeNodes \subseteq 0 .. Len(largeList)
    BY <1>2 DEF FreeNodes
  <2>3. k \in DOMAIN largeList
    <3>1. k \in FreeNodes
      BY <1>2, <2>1, <2>2, MinMax
    <3>. QED  BY <3>1 DEF FreeNodes
  <2>. HIDE DEF k
  <2>4. largeList' \in Seq(NodeRecords) /\ LargeNodes' = LargeNodes
    BY <1>2, <2>1, <2>3, NodesAfterReuse
  <2>. QED  BY <1>1, <2>1, <2>4 DEF MemoryInv
<1>4. CASE NewLargeNode(b)
  <2>1. PICK r \in SmallOutcomes(SizeofLargeNode) :
          /\ TakeOutcome(r, SizeofLargeNode)
          /\ r.page = Null => largeList' = largeList
          /\ r.page # Null =>
               largeList' = <<[page |-> r.page, at |-> r.at, address |-> b]>> \o largeList
    BY <1>4 DEF NewLargeNode
  <2>. DEFINE x == Area(r.page, r.at, SizeofLargeNode)
              node == [page |-> r.page, at |-> r.at, address |-> b]
  <2>2. /\ Layout(pages, dirty, areas, LargeNodes) /\ pages # <<>>
        /\ current \in Nat \ {0} /\ shared \subseteq dirty
    BY <1>1 DEF MemoryInv
  <2>3. SizeofLargeNode \in Nat \ {0} /\ SizeofSmallNode + SizeofLargeNode <= PAGE_SIZE
    BY MemoryAssumption
  <2>4. /\ dirty \subseteq r.dirty /\ r.current \in Nat \ {0} /\ r.pages # <<>>
        /\ r.page = Null => Layout(r.pages, r.dirty, areas, LargeNodes)
        /\ r.page # Null => Layout(r.pages, r.dirty, areas, LargeNodes \cup {x})
        /\ r.page \notin r.dirty => \A a \in areas \cup LargeNodes : ~Overlap(a, x)
    BY <2>2, <2>3, OutcomeKeepsLayout
  <2>5. shared' \subseteq dirty'
    BY <2>1, <2>2, <2>4, OutcomeNotShared DEF Areas
  <2>6. pages' = r.pages /\ current' = r.current /\ dirty' = r.dirty
    BY <2>1 DEF TakeOutcome
  <2>7. CASE r.page = Null
    <3>1. largeList' = largeList /\ LargeNodes' = LargeNodes
      BY <2>1, <2>7 DEF LargeNodes
    <3>. QED  BY <1>1, <1>2, <2>4, <2>5, <2>6, <2>7, <3>1 DEF MemoryInv
  <2>8. CASE r.page # Null
    <3>1. largeList' = <<node>> \o largeList
      BY <2>1, <2>8
    <3>2. x \in AreaRecords /\ x.page = r.page /\ x.from = r.at
      BY <2>4, <2>8 DEF Layout, Area
    <3>3. node \in NodeRecords
      BY <3>2 DEF AreaRecords, NodeRecords
    <3>4. /\ largeList' \in Seq(NodeRecords)
          /\ LargeNodes'
               = LargeNodes \cup {Area(node.page, node.at, SizeofLargeNode)}
      BY <1>2, <3>1, <3>3, NodesAfterAdd
    <3>5. LargeNodes' = LargeNodes \cup {x}
      BY <3>4
    <3>. HIDE DEF node, x
    <3>6. Layout(pages', dirty', areas', LargeNodes')
      BY <1>1, <2>4, <2>6, <2>8, <3>5 DEF x
    <3>. QED  BY <1>1, <2>4, <2>5, <2>6, <3>4, <3>6 DEF MemoryInv
  <2>. QED  BY <2>7, <2>8
<1>. QED  BY <1>3, <1>4 DEF mallocLarge

LEMMA NewBlockIsNat ==
  ASSUME NEW b \in NewBlocks
  PROVE  b \in Nat \ {0}
<1>. DEFINE free == 1 .. MaxLarge \ large
<1>1. free # {} /\ b = Min(free)
  BY DEF NewBlocks
<1>2. \A y \in free : y \in Nat \ {0}
  OBVIOUS
<1>. HIDE DEF free
<1>3. \E x \in free : \A y \in free : x <= y
  BY <1>1, <1>2, LeastElement
<1>4. Min(free) \in free
  BY <1>3 DEF Min
<1>. QED  BY <1>1, <1>2, <1>4

LEMMA MemoryStep ==
  ASSUME MemoryInv, [MemoryNext]_memoryVars
  PROVE  MemoryInv'
<1>1. CASE UNCHANGED memoryVars \/ FollowWild \/ createPoolFails \/ FreePage \/ FreePool
  <2>1. /\ UNCHANGED <<pages, current, largeList, areas, dirty, shared, LargeNodes>>
        /\ \/ phase' = phase
           \/ phase' = "failed" /\ phase \in {"none", "failed"}
           \/ phase' = "destroyed"
    BY <1>1 DEF memoryVars, FollowWild, createPoolFails, FreePage, FreePool, LargeNodes
  <2>. QED  BY <2>1 DEF MemoryInv
<1>2. \A b \in NewBlocks : b \in Nat
  BY NewBlockIsNat
<1>3. ASSUME MemoryNext, NEW size \in Sizes, mallocSmall(size)
      PROVE  MemoryInv'
  BY <1>3, mallocSmallKeepsInv
<1>4. ASSUME MemoryNext, NEW b \in NewBlocks, mallocLarge(b)
      PROVE  MemoryInv'
  BY <1>2, <1>4, mallocLargeKeepsInv
<1>5. CASE MemoryNext /\ (createPool \/ resetPool \/ destroyPool)
  BY <1>5, PoolOfMemoryKeepsInv DEF MemoryNext
<1>6. CASE (\E a \in areas : freeSmall(a)) \/ (\E b \in held : freeLarge(b))
  BY <1>6, freeKeepsInv
<1>. QED  BY <1>1, <1>3, <1>4, <1>5, <1>6 DEF MemoryNext

\* MemoryInv holds in every state of the memory pool.
THEOREM MemoryInvariant ==
  MemorySpec => []MemoryInv
<1>1. MemoryInit => MemoryInv
  BY InitMemory
<1>2. MemoryInv /\ [MemoryNext]_memoryVars => MemoryInv'
  BY MemoryStep
<1>. QED  BY <1>1, <1>2, PTL DEF MemorySpec

\* For every size of a page, alignment and sequence of calls: what malloc() returns is
\* aligned, inside its page and behind the page's header, and no byte of it is in use,
\* except in a page whose quote_, which the code never sets, did not begin at zero.
THEOREM AreasAlwaysDisjoint ==
  MemorySpec => []AreasDisjoint
<1>1. MemoryInv => AreasDisjoint
  BY DEF MemoryInv, Layout, Placed, AreasDisjoint, Areas
<1>. QED  BY <1>1, MemoryInvariant, PTL

-----------------------------------------------------------------------------
(* MemoryPool: what is free can be used again.                             *)

\* A page of p without an area of S is empty, and current_, c, is not behind it, unless
\* it is the first one; the pages in d are left out.
EmptyPages(p, d, S, c) ==
  \A i \in DOMAIN p \ d :
    (\A a \in S : a.page # i) => p[i].last = Start(i) /\ (i # 1 => c <= i)

\* Large blocks and the LargeNodes that list them.
LargeInv ==
  /\ large = held /\ large = Listed
  /\ \A k, l \in DOMAIN largeList :
       k # l => largeList[k].address # largeList[l].address \/ largeList[k].address = Null

\* While destroyPool() goes along the list, what is left of the pool is the first page
\* and those from cur on.
FreeInv ==
  /\ phase = "freeing" =>
       large = {} /\ (misread \/ \E n \in Nat : left = {1} \cup (IF cur = Null THEN {} ELSE cur .. n))
  /\ phase = "destroyed" => large = {} /\ (left = {} \/ misread)
  /\ cur \in Nat \ {1}

LeakInv ==
  /\ EmptyPages(pages, dirty, Areas, current)
  /\ LargeInv
  /\ FreeInv

\* A new page is added only when no page that malloc() looks at is empty.
LEMMA OutcomeKeepsEmptyPages ==
  ASSUME NEW U, NEW N, Layout(pages, dirty, U, N), pages # <<>>,
         current \in Nat \ {0}, NEW size \in Nat \ {0}, SizeofSmallNode + size <= PAGE_SIZE,
         NEW r \in SmallOutcomes(size), EmptyPages(pages, dirty, U \cup N, current)
  PROVE  LET x == Area(r.page, r.at, size)
         IN /\ r.page = Null => EmptyPages(r.pages, r.dirty, U \cup N, r.current)
            /\ r.page # Null =>
                 EmptyPages(r.pages, r.dirty, (U \cup N) \cup {x}, r.current)
<1>. DEFINE x == Area(r.page, r.at, size)
            S == U \cup N
<1>1. pages \in Seq(PageRecords) /\ Len(pages) \in Nat /\ DOMAIN pages = 1 .. Len(pages)
  BY DEF Layout
<1>2. x.page = r.page
  BY DEF Area
<1>3. CASE r = NoMemory
  BY <1>3 DEF NoMemory, Null
<1>4. CASE Fitting(size) # {} /\ r = InPage(Min(Fitting(size)), size)
  <2>. DEFINE i == Min(Fitting(size))
  <2>1. Fitting(size) \subseteq 0 .. Len(pages)
    BY <1>1 DEF Fitting
  <2>2. i \in Fitting(size)
    BY <1>1, <1>4, <2>1, MinMax
  <2>3. i \in DOMAIN pages
    BY <1>1, <2>2 DEF Fitting
  <2>. HIDE DEF i
  <2>4. /\ r.page = i /\ r.dirty = dirty /\ r.current = current
        /\ r.pages = [pages EXCEPT ![i].last = mp_align(pages[i].last) + size,
                                   ![i].quote = Wrap(@ + 1)]
    BY <1>4 DEF InPage, i
  <2>5. DOMAIN r.pages = DOMAIN pages /\ \A j \in DOMAIN pages : j # i => r.pages[j] = pages[j]
    BY <1>1, <2>4
  <2>6. r.page # Null
    BY <1>1, <2>3, <2>4 DEF Null
  <2>. HIDE DEF x
  <2>. QED  BY <1>2, <2>4, <2>5, <2>6 DEF EmptyPages, x
<1>5. ASSUME NEW g \in Garbage, r = InNewPage(size, g), Fitting(size) = {}
      PROVE  r.page # Null /\ EmptyPages(r.pages, r.dirty, S \cup {x}, r.current)
  <2>. DEFINE n == Len(pages) + 1
              old == [i \in DOMAIN pages |->
                        IF i \in Passed THEN [pages[i] EXCEPT !.failed = Wrap(@ + 1)]
                        ELSE pages[i]]
              new == [last |-> mp_align(SizeofSmallNode) + size,
                      quote |-> Wrap(g.quote + 1), failed |-> g.failed]
  <2>1. r.page = n /\ r.pages = Append(old, new) /\ dirty \subseteq r.dirty
    BY <1>5 DEF InNewPage
  <2>2. \A j \in DOMAIN pages : old[j].last = pages[j].last
    BY <1>1 DEF PageRecords
  <2>3. DOMAIN old = 1 .. Len(pages) /\ old \in Seq({old[i] : i \in DOMAIN pages})
    <3>1. old = [i \in DOMAIN pages |-> old[i]]
      OBVIOUS
    <3>. DEFINE T == {old[i] : i \in DOMAIN pages}
    <3>. HIDE DEF old
    <3>2. old \in [1 .. Len(pages) -> T]
      BY <1>1, <3>1
    <3>. HIDE DEF T
    <3>3. DOMAIN old = 1 .. Len(pages) /\ old \in Seq(T)
      BY <1>1, <3>2
    <3>. QED  BY <3>3 DEF T
  <2>. HIDE DEF old, new
  <2>4. DOMAIN r.pages = 1 .. n /\ \A j \in DOMAIN pages : r.pages[j] = old[j]
    BY <1>1, <2>1, <2>3
  <2>5. ASSUME NEW j \in DOMAIN r.pages \ r.dirty, \A a \in S \cup {x} : a.page # j
        PROVE  r.pages[j].last = Start(j) /\ j = 1
    <3>1. j # n
      BY <1>2, <2>1, <2>5
    <3>2. j \in DOMAIN pages \ dirty
      BY <1>1, <2>1, <2>4, <2>5, <3>1
    <3>3. pages[j].last = Start(j) /\ (j # 1 => current <= j)
      BY <2>5, <3>2 DEF EmptyPages
    <3>4. ASSUME j # 1
          PROVE  FALSE
      <4>1. pages[j].last = SizeofSmallNode
        BY <3>3, <3>4 DEF Start
      <4>2. mp_align(SizeofSmallNode) = SizeofSmallNode
        BY MemoryAssumption, Aligned
      <4>3. HasRoom(j, size)
        BY MemoryAssumption, <4>1, <4>2 DEF HasRoom
      <4>4. j \in current .. Len(pages)
        BY <1>1, <3>2, <3>3, <3>4
      <4>. QED  BY <1>5, <4>3, <4>4 DEF Fitting
    <3>. QED  BY <2>2, <2>4, <3>2, <3>3, <3>4
  <2>6. r.page # Null
    BY <1>1, <2>1 DEF Null
  <2>. HIDE DEF x, S
  <2>. QED  BY <2>5, <2>6 DEF EmptyPages
<1>6. \/ r = NoMemory
      \/ Fitting(size) # {} /\ r = InPage(Min(Fitting(size)), size)
      \/ Fitting(size) = {} /\ \E g \in Garbage : r = InNewPage(size, g)
  BY DEF SmallOutcomes
<1>. QED  BY <1>3, <1>4, <1>5, <1>6

LEMMA FreeKeepsEmptyPages ==
  ASSUME MemoryInv, LeakInv, NEW a \in areas, freeSmall(a)
  PROVE  EmptyPages(pages', dirty', Areas', current')
<1>. DEFINE i == a.page
            q == Wrap(pages[i].quote - 1)
<1>1. /\ areas' = areas \ {a} /\ UNCHANGED <<dirty, largeList>>
      /\ \/ q = 0 /\ pages' = [pages EXCEPT ![i] = EmptyPage(i)] /\ current' = 1
         \/ q # 0 /\ pages' = [pages EXCEPT ![i].quote = q] /\ current' = current
  BY DEF freeSmall, Resets
<1>2. /\ i \in DOMAIN pages /\ pages \in Seq(PageRecords) /\ pages[i] \in PageRecords
      /\ current \in Nat \ {0} /\ i \in Nat \ {0}
  BY DEF MemoryInv, Layout, Placed
<1>. HIDE DEF q
<1>3. DOMAIN pages' = DOMAIN pages /\ \A j \in DOMAIN pages : j # i => pages'[j] = pages[j]
  BY <1>1, <1>2
<1>4. LargeNodes' = LargeNodes /\ Areas' = areas' \cup LargeNodes
  BY <1>1 DEF LargeNodes, Areas
<1>5. ASSUME NEW j \in DOMAIN pages \ dirty, \A b \in Areas' : b.page # j
      PROVE  pages'[j].last = Start(j) /\ (j # 1 => current' <= j)
  <2>1. CASE j # i
    <3>1. \A b \in Areas : b.page # j
      BY <1>1, <1>4, <1>5, <2>1 DEF Areas
    <3>2. pages[j].last = Start(j) /\ (j # 1 => current <= j)
      BY <3>1 DEF LeakInv, EmptyPages
    <3>3. current' = current \/ current' = 1
      BY <1>1
    <3>4. j \in Nat \ {0}
      BY <1>2
    <3>. QED  BY <1>2, <1>3, <2>1, <3>2, <3>3, <3>4
  <2>2. CASE j = i
    <3>1. Layout(pages', dirty, areas', LargeNodes)
      BY FreeKeepsLayout DEF MemoryInv, freeSmall
    <3>2. In(areas', i) = {} /\ In(LargeNodes, i) = {}
      BY <1>4, <1>5, <2>2 DEF In
    <3>3. pages'[i].quote = 0
      <4>1. Counted(pages'[i], {}, {})
        BY <1>3, <2>2, <3>1, <3>2 DEF Layout
      <4>. QED  BY <4>1, FS_EmptySet DEF Counted
    <3>4. q = 0
      <4>1. q # 0 => pages'[i].quote = q
        BY <1>1, <1>2 DEF PageRecords
      <4>. QED  BY <3>3, <4>1
    <3>5. pages'[i] = EmptyPage(i) /\ current' = 1
      BY <1>1, <1>2, <3>4
    <3>. QED  BY <1>2, <2>2, <3>5 DEF EmptyPage
  <2>. QED  BY <2>1, <2>2
<1>. QED  BY <1>1, <1>3, <1>5 DEF EmptyPages

\* LargeInv, in terms of the addresses that the LargeNodes hold.
LEMMA LargeAddresses ==
  ASSUME MemoryInv, LargeInv
  PROVE  /\ Null = 0 /\ Len(largeList) \in Nat /\ DOMAIN largeList = 1 .. Len(largeList)
         /\ largeList \in Seq(NodeRecords)
         /\ \A k \in DOMAIN largeList : largeList[k] \in NodeRecords
         /\ held = large /\ large = {largeList[k].address : k \in DOMAIN largeList} \ {0}
         /\ \A k, l \in DOMAIN largeList :
              k # l => largeList[k].address # largeList[l].address \/ largeList[k].address = 0
BY DEF MemoryInv, LargeInv, Listed, Null

LEMMA LargeAddressesNext ==
  LargeInv' <=>
    /\ large' = held' /\ large' = {largeList'[k].address : k \in DOMAIN largeList'} \ {0}
    /\ \A k, l \in DOMAIN largeList' :
         k # l => largeList'[k].address # largeList'[l].address \/ largeList'[k].address = 0
BY DEF LargeInv, Listed, Null

\* malloc() and freeMemory() of a large block: a free LargeNode is used again, one is
\* added in front, or the LargeNode of the block is freed.
LEMMA LargeReused ==
  ASSUME MemoryInv, LargeInv, NEW b \in Nat \ {0},
         b \notin large, large' = large \cup {b}, held' = held \cup {b},
         NEW i \in DOMAIN largeList, largeList[i].address = Null,
         largeList' = [largeList EXCEPT ![i].address = b]
  PROVE  LargeInv'
<1>1. /\ DOMAIN largeList' = DOMAIN largeList /\ largeList'[i].address = b
      /\ \A l \in DOMAIN largeList : l # i => largeList'[l].address = largeList[l].address
  BY LargeAddresses DEF NodeRecords
<1>. QED  BY <1>1, LargeAddresses, LargeAddressesNext

LEMMA LargeAdded ==
  ASSUME MemoryInv, LargeInv, NEW b \in Nat \ {0},
         b \notin large, large' = large \cup {b}, held' = held \cup {b},
         NEW node \in NodeRecords, node.address = b, largeList' = <<node>> \o largeList
  PROVE  LargeInv'
<1>. DEFINE Addr(k) == largeList[k].address
            Later == 2 .. Len(largeList) + 1
<1>1. /\ Len(largeList) \in Nat /\ DOMAIN largeList = 1 .. Len(largeList)
      /\ largeList \in Seq(NodeRecords)
  BY LargeAddresses
<1>2. /\ DOMAIN largeList' = 1 .. Len(largeList) + 1
      /\ largeList'[1] = node
      /\ \A k \in DOMAIN largeList : largeList'[k + 1] = largeList[k]
  BY <1>1
<1>3. /\ DOMAIN largeList' = {1} \cup Later
      /\ largeList'[1].address = b
      /\ \A k \in Later : k - 1 \in DOMAIN largeList /\ largeList'[k].address = Addr(k - 1)
      /\ \A k \in DOMAIN largeList : k + 1 \in Later /\ largeList'[k + 1].address = Addr(k)
  BY <1>1, <1>2
<1>. HIDE DEF Later
<1>4. {largeList'[k].address : k \in DOMAIN largeList'}
        = {Addr(k) : k \in DOMAIN largeList} \cup {b}
  <2>1. ASSUME NEW k \in DOMAIN largeList'
        PROVE  largeList'[k].address \in {Addr(l) : l \in DOMAIN largeList} \cup {b}
    BY <1>3
  <2>2. ASSUME NEW k \in DOMAIN largeList
        PROVE  Addr(k) \in {largeList'[l].address : l \in DOMAIN largeList'}
    <3>1. k + 1 \in DOMAIN largeList' /\ Addr(k) = largeList'[k + 1].address
      BY <1>3
    <3>. QED  BY <3>1
  <2>3. b \in {largeList'[l].address : l \in DOMAIN largeList'}
    BY <1>3
  <2>. DEFINE A == {largeList'[k].address : k \in DOMAIN largeList'}
              B == {Addr(k) : k \in DOMAIN largeList}
  <2>4. A \subseteq B \cup {b} /\ B \subseteq A /\ b \in A
    BY <2>1, <2>2, <2>3
  <2>. HIDE DEF A, B
  <2>5. A = B \cup {b}
    BY <2>4
  <2>. QED  BY <2>5 DEF A, B
<1>5. ASSUME NEW k \in DOMAIN largeList', NEW l \in DOMAIN largeList', k # l
      PROVE  largeList'[k].address # largeList'[l].address \/ largeList'[k].address = 0
  <2>1. \A m \in Later : largeList'[m].address # b
    <3>1. \A m \in DOMAIN largeList : Addr(m) # b
      BY LargeAddresses
    <3>. QED  BY <1>3, <3>1
  <2>2. CASE k = 1 \/ l = 1
    BY <1>3, <1>5, <2>1, <2>2
  <2>3. CASE k # 1 /\ l # 1
    <3>1. k \in Later /\ l \in Later
      BY <1>3, <1>5, <2>3
    <3>2. k - 1 # l - 1
      BY <1>5, <3>1 DEF Later
    <3>. QED  BY <1>3, <3>1, <3>2, LargeAddresses
  <2>. QED  BY <2>2, <2>3
<1>. QED  BY <1>4, <1>5, LargeAddresses, LargeAddressesNext

LEMMA LargeFreed ==
  ASSUME MemoryInv, LargeInv, NEW b \in Nat \ {0},
         large' = large \ {b}, held' = held \ {b},
         largeList' = [k \in DOMAIN largeList |->
                         IF largeList[k].address = b
                         THEN [largeList[k] EXCEPT !.address = Null] ELSE largeList[k]]
  PROVE  LargeInv'
<1>1. /\ DOMAIN largeList' = DOMAIN largeList
      /\ \A k \in DOMAIN largeList :
           largeList'[k].address = IF largeList[k].address = b THEN 0 ELSE largeList[k].address
  BY LargeAddresses DEF NodeRecords
<1>. QED  BY <1>1, LargeAddresses, LargeAddressesNext

\* free(cur): the page after it is the next of what is left, or there is none.
LEMMA FreePageKeeps ==
  ASSUME FreeInv, FreePage, UNCHANGED large
  PROVE  FreeInv'
<1>1. /\ phase = "freeing" /\ UNCHANGED phase /\ large = {} /\ cur \in Nat \ {0}
      /\ cur # 1 /\ left' = left \ {cur}
      /\ cur' \in Nat \ {1}
  BY DEF FreePage, FreeInv, Null
<1>2. CASE misread' \/ misread
  BY <1>1, <1>2 DEF FreeInv, FreePage
<1>3. CASE ~misread' /\ ~misread
  <2>1. PICK n \in Nat : left = {1} \cup (cur .. n)
    BY <1>1, <1>3 DEF FreeInv, Null
  <2>2. cur' = IF cur + 1 \in left THEN cur + 1 ELSE Null
    BY <1>3 DEF FreePage
  <2>3. left' = {1} \cup (IF cur' = Null THEN {} ELSE cur' .. n)
    BY <1>1, <2>1, <2>2 DEF Null
  <2>. QED  BY <1>1, <1>3, <2>3 DEF FreeInv
<1>. QED  BY <1>2, <1>3

LEMMA LeakStep ==
  ASSUME MemoryInv, LeakInv, [MemoryNext]_memoryVars
  PROVE  LeakInv'
<1>. USE DEF LeakInv
<1>o. ASSUME phase' = "open", UNCHANGED freeingVars
      PROVE  FreeInv'
  BY <1>o DEF FreeInv, freeingVars
<1>1. CASE UNCHANGED memoryVars \/ FollowWild \/ createPoolFails \/ FreePage \/ FreePool
  <2>1. UNCHANGED <<pages, current, largeList, areas, dirty, large, held>>
    BY <1>1 DEF memoryVars, FollowWild, createPoolFails, FreePage, FreePool
  <2>2. Areas' = Areas
    BY <2>1 DEF Areas, LargeNodes
  <2>3. LargeInv'
    BY <2>1 DEF LargeInv, Listed
  <2>4. FreeInv'
    <3>1. CASE UNCHANGED memoryVars \/ FollowWild
      BY <3>1 DEF memoryVars, FollowWild, FreeInv, freeingVars
    <3>2. CASE createPoolFails
      BY <3>2 DEF createPoolFails, FreeInv, freeingVars
    <3>3. CASE FreePage
      BY <2>1, <3>3, FreePageKeeps
    <3>4. CASE FreePool
      <4>1. /\ phase = "freeing" /\ phase' = "destroyed" /\ cur = Null
            /\ left' = left \ {1} /\ UNCHANGED <<large, cur, misread>>
        BY <3>4 DEF FreePool
      <4>. QED  BY <4>1 DEF FreeInv
    <3>. QED  BY <1>1, <3>1, <3>2, <3>3, <3>4
  <2>. QED  BY <2>1, <2>2, <2>3, <2>4
<1>2. CASE createPool
  <2>1. /\ UNCHANGED <<largeList, large, held, freeingVars>> /\ current' = 1
        /\ phase' = "open"
    BY <1>2 DEF createPool
  <2>2. PICK g \in Garbage : pages' = <<[EmptyPage(1) EXCEPT !.quote = g.quote]>>
    BY <1>2 DEF createPool
  <2>3. DOMAIN pages' = {1} /\ pages'[1].last = Start(1)
    BY <2>2 DEF EmptyPage
  <2>4. EmptyPages(pages', dirty', Areas', current')
    BY <2>3 DEF EmptyPages
  <2>5. LargeInv'
    BY <2>1 DEF LargeInv, Listed
  <2>. QED  BY <1>o, <2>1, <2>4, <2>5
<1>3. CASE resetPool \/ destroyPool
  <2>1. /\ large' = large \ Listed /\ held' = {} /\ largeList' = <<>>
        /\ \/ /\ phase' = "freeing" /\ pages' = <<>> /\ left' = DOMAIN pages
              /\ cur' = IF Len(pages) > 1 THEN 2 ELSE Null
           \/ /\ phase' = "open" /\ current' = 1 /\ UNCHANGED freeingVars
              /\ pages' = [i \in DOMAIN pages |-> EmptyPage(i)]
        /\ phase = "open"
    BY <1>3 DEF resetPool, destroyPool
  <2>2. large' = {}
    BY <2>1 DEF LargeInv
  <2>3. LargeInv'
    BY <2>1, <2>2 DEF LargeInv, Listed
  <2>4. EmptyPages(pages', dirty', Areas', current')
    <3>1. CASE pages' = <<>>
      BY <3>1 DEF EmptyPages
    <3>2. CASE current' = 1 /\ pages' = [i \in DOMAIN pages |-> EmptyPage(i)]
      <4>1. \A i \in DOMAIN pages' : i \in Nat \ {0}
        BY <3>2 DEF MemoryInv, Layout
      <4>. QED  BY <3>2, <4>1 DEF EmptyPages, EmptyPage
    <3>. QED  BY <2>1, <3>1, <3>2
  <2>5. FreeInv'
    <3>1. CASE phase' = "freeing" /\ left' = DOMAIN pages
               /\ cur' = IF Len(pages) > 1 THEN 2 ELSE Null
      <4>1. Len(pages) \in Nat /\ Len(pages) # 0 /\ DOMAIN pages = 1 .. Len(pages)
        BY <2>1 DEF MemoryInv, Layout
      <4>2. left' = {1} \cup (IF cur' = Null THEN {} ELSE cur' .. Len(pages))
             /\ cur' \in Nat \ {1}
        BY <3>1, <4>1 DEF Null
      <4>. QED  BY <2>2, <3>1, <4>1, <4>2 DEF FreeInv
    <3>2. CASE phase' = "open" /\ UNCHANGED freeingVars
      BY <1>o, <3>2
    <3>. QED  BY <2>1, <3>1, <3>2
  <2>. QED  BY <2>1, <2>2, <2>3, <2>4, <2>5
<1>4. ASSUME NEW size \in Sizes, mallocSmall(size)
      PROVE  LeakInv'
  <2>1. PICK r \in SmallOutcomes(size) :
          /\ TakeOutcome(r, size)
          /\ areas' = IF r.page = Null THEN areas
                      ELSE areas \cup {Area(r.page, r.at, size)}
    BY <1>4 DEF mallocSmall
  <2>2. /\ phase = "open" /\ UNCHANGED <<phase, largeList, large, held, freeingVars>>
        /\ LargeNodes' = LargeNodes
    BY <1>4 DEF mallocSmall, LargeNodes
  <2>3. size \in Nat \ {0} /\ SizeofSmallNode + size <= PAGE_SIZE
    BY MemoryAssumption, <1>4 DEF mallocSmall, isLarge
  <2>4. /\ r.page = Null =>
             EmptyPages(r.pages, r.dirty, areas \cup LargeNodes, r.current)
        /\ r.page # Null =>
             EmptyPages(r.pages, r.dirty,
                        (areas \cup LargeNodes) \cup {Area(r.page, r.at, size)}, r.current)
    BY <2>2, <2>3, OutcomeKeepsEmptyPages DEF MemoryInv, Areas
  <2>5. /\ pages' = r.pages /\ current' = r.current /\ dirty' = r.dirty
        /\ Areas' = areas' \cup LargeNodes
    BY <2>1, <2>2 DEF TakeOutcome, Areas
  <2>6. \/ r.page = Null /\ Areas' = areas \cup LargeNodes
        \/ /\ r.page # Null
           /\ Areas' = (areas \cup LargeNodes) \cup {Area(r.page, r.at, size)}
    BY <2>1, <2>5
  <2>7. EmptyPages(pages', dirty', Areas', current')
    BY <2>4, <2>5, <2>6
  <2>8. LargeInv'
    BY <2>2 DEF LargeInv, Listed
  <2>. QED  BY <1>o, <2>2, <2>7, <2>8
<1>5. ASSUME NEW a \in areas, freeSmall(a)
      PROVE  LeakInv'
  <2>1. phase = "open" /\ UNCHANGED <<phase, largeList, large, held, freeingVars>>
    BY <1>5 DEF freeSmall
  <2>2. LargeInv'
    BY <2>1 DEF LargeInv, Listed
  <2>. QED  BY <1>o, <1>5, <2>1, <2>2, FreeKeepsEmptyPages
<1>6. ASSUME NEW b \in held, freeLarge(b)
      PROVE  LeakInv'
  <2>1. /\ phase = "open" /\ UNCHANGED <<phase, pages, current, areas, dirty, freeingVars>>
        /\ large' = large \ {b} /\ held' = held \ {b}
        /\ largeList' = [k \in DOMAIN largeList |->
                           IF largeList[k].address = b
                           THEN [largeList[k] EXCEPT !.address = Null] ELSE largeList[k]]
    BY <1>6 DEF freeLarge
  <2>2. LargeNodes' = LargeNodes
    BY <2>1, NodesAfterFree DEF MemoryInv
  <2>3. Areas' = Areas
    BY <2>1, <2>2 DEF Areas
  <2>4. b \in Nat \ {0}
    BY LargeAddresses DEF NodeRecords
  <2>5. LargeInv'
    BY <2>1, <2>4, LargeFreed
  <2>. QED  BY <1>o, <2>1, <2>3, <2>5
<1>7. ASSUME NEW b \in NewBlocks, mallocLarge(b)
      PROVE  LeakInv'
  <2>1. b \in Nat \ {0}
    BY NewBlockIsNat
  <2>2. phase = "open" /\ UNCHANGED <<phase, areas, freeingVars>> /\ b \notin large
    BY <1>7 DEF mallocLarge
  <2>3. largeList \in Seq(NodeRecords) /\ Len(largeList) \in Nat
    BY DEF MemoryInv
  <2>4. CASE ReuseLargeNode(b)
    <3>. DEFINE k == Min(FreeNodes)
    <3>1. /\ largeList' = [largeList EXCEPT ![k].address = b] /\ FreeNodes # {}
          /\ UNCHANGED <<pages, current, dirty>>
          /\ large' = large \cup {b} /\ held' = held \cup {b}
      BY <2>4 DEF ReuseLargeNode
    <3>2. FreeNodes \subseteq 0 .. Len(largeList)
      BY <2>3 DEF FreeNodes
    <3>3. k \in DOMAIN largeList /\ largeList[k].address = Null
      <4>1. k \in FreeNodes
        BY <2>3, <3>1, <3>2, MinMax
      <4>. QED  BY <4>1 DEF FreeNodes
    <3>. HIDE DEF k
    <3>4. LargeNodes' = LargeNodes
      BY <2>1, <2>3, <3>1, <3>3, NodesAfterReuse
    <3>5. Areas' = Areas
      BY <2>2, <3>4 DEF Areas
    <3>6. LargeInv'
      BY <2>1, <2>2, <3>1, <3>3, LargeReused
    <3>. QED  BY <1>o, <2>2, <3>1, <3>5, <3>6
  <2>5. CASE NewLargeNode(b)
    <3>1. PICK r \in SmallOutcomes(SizeofLargeNode) :
            /\ TakeOutcome(r, SizeofLargeNode)
            /\ r.page = Null => UNCHANGED <<largeList, large, held>>
            /\ r.page # Null =>
                 /\ largeList' = <<[page |-> r.page, at |-> r.at, address |-> b]>> \o largeList
                 /\ large' = large \cup {b} /\ held' = held \cup {b}
      BY <2>5 DEF NewLargeNode
    <3>. DEFINE x == Area(r.page, r.at, SizeofLargeNode)
                node == [page |-> r.page, at |-> r.at, address |-> b]
    <3>2. SizeofLargeNode \in Nat \ {0} /\ SizeofSmallNode + SizeofLargeNode <= PAGE_SIZE
      BY MemoryAssumption
    <3>3. /\ r.page = Null =>
               EmptyPages(r.pages, r.dirty, areas \cup LargeNodes, r.current)
          /\ r.page # Null =>
               EmptyPages(r.pages, r.dirty, (areas \cup LargeNodes) \cup {x}, r.current)
      BY <2>2, <3>2, OutcomeKeepsEmptyPages DEF MemoryInv, Areas
    <3>4. pages' = r.pages /\ current' = r.current /\ dirty' = r.dirty
      BY <3>1 DEF TakeOutcome
    <3>5. CASE r.page = Null
      <4>1. UNCHANGED <<largeList, large, held>> /\ LargeNodes' = LargeNodes
        BY <3>1, <3>5 DEF LargeNodes
      <4>2. Areas' = areas \cup LargeNodes
        BY <2>2, <4>1 DEF Areas
      <4>3. LargeInv'
        BY <4>1 DEF LargeInv, Listed
      <4>. QED  BY <1>o, <2>2, <3>3, <3>4, <3>5, <4>2, <4>3
    <3>6. CASE r.page # Null
      <4>1. /\ largeList' = <<node>> \o largeList
            /\ large' = large \cup {b} /\ held' = held \cup {b}
        BY <3>1, <3>6
      <4>2. x \in AreaRecords /\ x.page = r.page /\ x.from = r.at
        <5>1. Layout(r.pages, r.dirty, areas, LargeNodes \cup {x})
          BY <2>2, <3>2, <3>6, OutcomeKeepsLayout DEF MemoryInv
        <5>. QED  BY <5>1 DEF Layout, Area
      <4>3. node \in NodeRecords /\ node.address = b
        BY <2>1, <4>2 DEF AreaRecords, NodeRecords
      <4>4. LargeNodes' = LargeNodes \cup {Area(node.page, node.at, SizeofLargeNode)}
        BY <2>3, <4>1, <4>3, NodesAfterAdd
      <4>5. LargeNodes' = LargeNodes \cup {x}
        BY <4>4
      <4>. HIDE DEF node, x
      <4>6. Areas' = (areas \cup LargeNodes) \cup {x}
        BY <2>2, <4>5 DEF Areas
      <4>7. LargeInv'
        BY <2>1, <2>2, <4>1, <4>3, LargeAdded
      <4>8. EmptyPages(pages', dirty', Areas', current')
        BY <3>3, <3>4, <3>6, <4>6 DEF x
      <4>. QED  BY <1>o, <2>2, <4>7, <4>8
    <3>. QED  BY <3>5, <3>6
  <2>. QED  BY <1>7, <2>4, <2>5 DEF mallocLarge
<1>. QED  BY <1>1, <1>2, <1>3, <1>4, <1>5, <1>6, <1>7 DEF MemoryNext

\* For every size of a page, alignment and sequence of calls: a large block exists
\* exactly as long as the user holds it and is listed once, a page without an area is
\* empty and looked at by malloc(), and destroyPool() has freed every page when it
\* returns, with the exceptions that NothingLeaks names, its read of freed pages among
\* them.
THEOREM NothingEverLeaks ==
  MemorySpec => []NothingLeaks
<1>1. MemoryInit => LeakInv
  BY DEF MemoryInit, LeakInv, EmptyPages, LargeInv, Listed, FreeInv, Null
<1>2. MemoryInv /\ LeakInv /\ [MemoryNext]_memoryVars => LeakInv'
  BY LeakStep
<1>3. LeakInv => NothingLeaks
  BY DEF LeakInv, EmptyPages, LargeInv, FreeInv, NothingLeaks
<1>. QED  BY <1>1, <1>2, <1>3, MemoryInvariant, PTL DEF MemorySpec
=============================================================================
