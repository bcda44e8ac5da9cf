--------------------------- MODULE EventLoopProofs ---------------------------
(* Proofs about EventLoop, for every set of threads and every MaxPosts.    *)
EXTENDS EventLoop, TLAPS

(***************************************************************************)
(* Sequences: how the FIFO functors \o pendingFunctors changes.            *)
(***************************************************************************)

\* Appending to the second part appends to the whole.
LEMMA ConcatAppend ==
  ASSUME NEW S, NEW s \in Seq(S), NEW u \in Seq(S), NEW e \in S
  PROVE  s \o Append(u, e) = Append(s \o u, e)
  OBVIOUS

\* The head and the tail of the whole are those of a nonempty first part.
LEMMA ConcatHeadTail ==
  ASSUME NEW S, NEW s \in Seq(S), NEW u \in Seq(S), s # <<>>
  PROVE  /\ s \o u # <<>>
         /\ Head(s \o u) = Head(s)
         /\ Tail(s \o u) = Tail(s) \o u
  OBVIOUS

\* The empty sequence is neutral.
LEMMA ConcatEmpty ==
  ASSUME NEW S, NEW s \in Seq(S)
  PROVE  /\ s \o <<>> = s
         /\ <<>> \o s = s
  OBVIOUS

-----------------------------------------------------------------------------
(***************************************************************************)
(* The inductive invariant.                                                *)
(***************************************************************************)

\* The callback a thread queues next is one of its callbacks.
LEMMA NextFunctor ==
  ASSUME NEW t \in AllThreads, posts \in [AllThreads -> Nat], posts[t] < MaxPosts[t]
  PROVE  <<t, posts[t] + 1>> \in Functor
<1>1. MaxPosts[t] \in Nat
  BY LoopAssumption DEF AllThreads
<1>2. posts[t] + 1 \in 1 .. MaxPosts[t]
  BY <1>1
<1> QED
  BY <1>2 DEF Functor

\* The constructor leaves the loop in the invariant.
LEMMA InitIndInv == Init => IndInv
<1> SUFFICES ASSUME Init PROVE IndInv
  OBVIOUS
<1>1. TypeOK
  <2>1. posts \in [AllThreads -> Nat] /\ \A t \in AllThreads : posts[t] <= MaxPosts[t]
    BY LoopAssumption DEF Init, AllThreads
  <2>2. pc \in [AllThreads -> {"run", "wakeup"}]
    BY DEF Init
  <2>3. activeChannels \in SUBSET Channels /\ loopPc \in LoopPcs
    BY DEF Init, LoopPcs
  <2>4. /\ callingPendingFunctors \in BOOLEAN
        /\ quit \in BOOLEAN
        /\ ioReady \in BOOLEAN
    BY DEF Init
  <2>5. /\ pendingFunctors \in Seq(Functor)
        /\ functors \in Seq(Functor)
        /\ executed \in Seq(Functor)
        /\ wakeupFd \in Nat
    BY DEF Init
  <2> QED
    BY <2>1, <2>2, <2>3, <2>4, <2>5 DEF TypeOK
<1>2. callingPendingFunctors <=> loopPc \in {"swap", "run", "functor"}
  BY DEF Init
<1> QED
  BY <1>1, <1>2 DEF Init, IndInv

\* Every step keeps the types.
LEMMA StepTypeOK == TypeOK /\ [Next]_vars => TypeOK'
<1> SUFFICES ASSUME TypeOK, [Next]_vars PROVE TypeOK'
  OBVIOUS
<1> USE LoopAssumption DEF TypeOK, LoopPcs, Channels
<1>1. CASE LoopStep
  <2> LoopThread \in AllThreads
    BY DEF AllThreads
  <2>1. CASE EnterLoop
    BY <2>1 DEF EnterLoop, Goto
  <2>2. CASE TestQuit
    BY <2>2 DEF TestQuit, Goto
  <2>3. CASE Poll
    BY <2>3 DEF Poll, Goto, Readable
  <2>4. CASE HandleRead
    BY <2>4 DEF HandleRead, Goto
  <2>5. CASE HandleEvent
    BY <2>5 DEF HandleEvent, Goto
  <2>6. CASE CallbackReturns
    BY <2>6 DEF CallbackReturns, Goto
  <2>7. CASE BeginPendingFunctors
    BY <2>7 DEF BeginPendingFunctors, Goto
  <2>8. CASE SwapFunctors
    BY <2>8 DEF SwapFunctors, Goto
  <2>9. CASE RunFunctor
    BY <2>9 DEF RunFunctor, Goto
  <2>10. CASE FunctorReturns
    BY <2>10 DEF FunctorReturns, Goto
  <2>11. CASE EndPendingFunctors
    BY <2>11 DEF EndPendingFunctors, Goto
  <2> QED
    BY <1>1, <2>1, <2>2, <2>3, <2>4, <2>5, <2>6, <2>7, <2>8, <2>9, <2>10,
       <2>11 DEF LoopStep
<1>2. CASE PollTimeout
  BY <1>2 DEF PollTimeout, Goto
<1>3. CASE IoArrives
  BY <1>3 DEF IoArrives
<1>4. ASSUME NEW t \in AllThreads, QueueInLoop(t) PROVE TypeOK'
  <2>1. <<t, posts[t] + 1>> \in Functor
    BY <1>4, NextFunctor DEF QueueInLoop, TypeOK
  <2>2. pendingFunctors' \in Seq(Functor)
    BY <1>4, <2>1 DEF QueueInLoop
  <2>3. /\ posts' \in [AllThreads -> Nat]
        /\ \A u \in AllThreads : posts'[u] <= MaxPosts[u]
    <3>1. \A u \in AllThreads : posts[u] \in Nat /\ MaxPosts[u] \in Nat
      BY LoopAssumption DEF AllThreads
    <3> QED
      BY <1>4, <3>1 DEF QueueInLoop
  <2> QED
    BY <1>4, <2>2, <2>3 DEF QueueInLoop
<1>5. ASSUME NEW t \in AllThreads, Wakeup(t) PROVE TypeOK'
  BY <1>5 DEF Wakeup
<1>6. ASSUME NEW t \in AllThreads, Quit(t) PROVE TypeOK'
  BY <1>6 DEF Quit
<1>7. CASE UNCHANGED vars
  BY <1>7 DEF vars
<1> QED
  BY <1>1, <1>2, <1>3, <1>4, <1>5, <1>6, <1>7 DEF Next

\* What the steps do to the parts of IndInv beside TypeOK.
LEMMA StepIndInv == IndInv /\ [Next]_vars => IndInv'
<1> SUFFICES ASSUME IndInv, [Next]_vars PROVE IndInv'
  OBVIOUS
<1>t. TypeOK /\ TypeOK'
  BY StepTypeOK DEF IndInv
<1>a. LoopThread \in AllThreads
  BY DEF AllThreads
<1> DEFINE Calling == callingPendingFunctors <=> loopPc \in {"swap", "run", "functor"}
           Local == functors # <<>> => loopPc \in {"run", "functor"}
           Waking == \/ PostBeforeLoop
                     \/ pendingFunctors = <<>>
                     \/ loopPc \in {"handle", "callback", "swap"}
                     \/ WakeupOnItsWay
<1> SUFFICES Calling' /\ Local' /\ Waking'
  BY <1>t DEF IndInv
<1>i. Calling /\ Local /\ Waking
  BY DEF IndInv
<1> HIDE DEF Calling, Local, Waking
<1>1. CASE LoopStep
  <2>1. CASE EnterLoop
    BY <1>i, <2>1 DEF EnterLoop, Goto, Calling, Local, Waking, WakeupOnItsWay
  <2>2. CASE TestQuit
    BY <1>i, <2>2 DEF TestQuit, Goto, Calling, Local, Waking, WakeupOnItsWay
  <2>3. CASE Poll
    BY <1>i, <2>3 DEF Poll, Goto, Calling, Local, Waking
  <2>4. CASE HandleRead
    BY <1>i, <2>4 DEF HandleRead, Goto, Calling, Local, Waking
  <2>5. CASE HandleEvent
    BY <1>i, <2>5 DEF HandleEvent, Goto, Calling, Local, Waking
  <2>6. CASE CallbackReturns
    BY <1>i, <2>6 DEF CallbackReturns, Goto, Calling, Local, Waking
  <2>7. CASE BeginPendingFunctors
    BY <1>i, <2>7 DEF BeginPendingFunctors, Goto, Calling, Local, Waking
  <2>8. CASE SwapFunctors
    BY <1>i, <2>8 DEF SwapFunctors, Goto, Calling, Local, Waking
  <2>9. CASE RunFunctor
    BY <1>i, <2>9 DEF RunFunctor, Goto, Calling, Local, Waking, WakeupOnItsWay
  <2>10. CASE FunctorReturns
    BY <1>i, <2>10 DEF FunctorReturns, Goto, Calling, Local, Waking,
       WakeupOnItsWay
  <2>11. CASE EndPendingFunctors
    BY <1>i, <2>11 DEF EndPendingFunctors, Goto, Calling, Local, Waking,
       WakeupOnItsWay
  <2> QED
    BY <1>1, <2>1, <2>2, <2>3, <2>4, <2>5, <2>6, <2>7, <2>8, <2>9, <2>10,
       <2>11 DEF LoopStep
<1>2. CASE PollTimeout
  BY <1>i, <1>2 DEF PollTimeout, Goto, Calling, Local, Waking
<1>3. CASE IoArrives
  BY <1>i, <1>3 DEF IoArrives, Calling, Local, Waking, WakeupOnItsWay
<1>4. ASSUME NEW t \in AllThreads, QueueInLoop(t)
      PROVE  Calling' /\ Local' /\ Waking'
  <2>1. Calling' /\ Local'
    BY <1>i, <1>4 DEF QueueInLoop, Calling, Local
  <2>2. CASE NeedsWakeup(t)
    <3>1. pc'[t] = "wakeup"
      BY <1>t, <1>4, <2>2 DEF QueueInLoop, TypeOK
    <3> QED
      BY <2>1, <3>1 DEF Waking, WakeupOnItsWay
  <2>3. CASE ~NeedsWakeup(t)
    <3>1. t = LoopThread /\ ~callingPendingFunctors
      BY <2>3 DEF NeedsWakeup, isInLoopThread
    <3>2. PostBeforeLoop \/ loopPc = "callback"
      BY <1>i, <1>4, <3>1
         DEF QueueInLoop, InUserCode, isInLoopThread, Calling
    <3> QED
      BY <1>4, <2>1, <3>2 DEF QueueInLoop, Waking
  <2> QED
    BY <2>2, <2>3
<1>5. ASSUME NEW t \in AllThreads, Wakeup(t)
      PROVE  Calling' /\ Local' /\ Waking'
  <2>1. WakeupOnItsWay'
    BY <1>t, <1>5 DEF Wakeup, WakeupOnItsWay, TypeOK
  <2> QED
    BY <1>i, <1>5, <2>1 DEF Wakeup, Calling, Local, Waking
<1>6. ASSUME NEW t \in AllThreads, Quit(t)
      PROVE  Calling' /\ Local' /\ Waking'
  <2>1. WakeupOnItsWay => WakeupOnItsWay'
    BY <1>t, <1>6 DEF Quit, WakeupOnItsWay, TypeOK, InUserCode
  <2> QED
    BY <1>i, <1>6, <2>1 DEF Quit, Calling, Local, Waking
<1>7. CASE UNCHANGED vars
  BY <1>i, <1>7 DEF vars, Calling, Local, Waking, WakeupOnItsWay
<1> QED
  BY <1>1, <1>2, <1>3, <1>4, <1>5, <1>6, <1>7 DEF Next

\* The loop keeps IndInv, and with it its types: the flag, the local vector and
\* the wakeups in flight stay consistent whatever the threads interleave.
THEOREM LoopInvariant == SafetySpec => []IndInv
<1>1. QED
  BY InitIndInv, StepIndInv, PTL DEF SafetySpec

\* No lost wakeup, for any number of threads and callbacks: provided nobody
\* queues from the loop's thread before loop(), the loop is never blocked in
\* poll with callbacks pending and no wakeup written or about to be.
THEOREM LoopNeverSleepsOnWork ==
  ASSUME ~PostBeforeLoop
  PROVE  SafetySpec => []NoLostWakeup
<1>1. IndInv => NoLostWakeup
  BY DEF IndInv, NoLostWakeup
<1> QED
  BY <1>1, LoopInvariant, PTL

-----------------------------------------------------------------------------
(***************************************************************************)
(* Refinement of the abstract FIFO.                                        *)
(***************************************************************************)

\* Every step of the loop is a step of the abstract queue or leaves it alone.
LEMMA StepRefines ==
  IndInv /\ [Next]_vars => [Queue!QueueNext]_(Queue!qvars)
<1> SUFFICES ASSUME IndInv, [Next]_vars
             PROVE  [Queue!QueueNext]_(Queue!qvars)
  OBVIOUS
<1>t. TypeOK
  BY DEF IndInv
<1> USE DEF Queue!qvars
<1>1. CASE SwapFunctors
  <2>1. functors = <<>>
    BY <1>1 DEF IndInv, SwapFunctors, Goto
  <2>2. functors' \o pendingFunctors' = functors \o pendingFunctors
    BY <1>1, <1>t, <2>1, ConcatEmpty DEF SwapFunctors, TypeOK
  <2> QED
    BY <1>1, <2>2 DEF SwapFunctors
<1>2. CASE RunFunctor
  <2>1. Queue!Execute
    BY <1>2, <1>t, ConcatHeadTail DEF RunFunctor, TypeOK, Queue!Execute
  <2> QED
    BY <2>1 DEF Queue!QueueNext
<1>3. ASSUME NEW t \in AllThreads, QueueInLoop(t)
      PROVE  [Queue!QueueNext]_(Queue!qvars)
  <2> DEFINE f == <<t, posts[t] + 1>>
  <2>1. f \in Functor
    BY <1>3, <1>t, NextFunctor DEF QueueInLoop, TypeOK
  <2> HIDE DEF f
  <2>2. /\ pendingFunctors' = Append(pendingFunctors, f)
        /\ functors' = functors
        /\ executed' = executed
    BY <1>3 DEF QueueInLoop, f
  <2>3. Queue!Enqueue(f)
    BY <1>t, <2>1, <2>2, ConcatAppend DEF TypeOK, Queue!Enqueue
  <2> QED
    BY <2>1, <2>3 DEF Queue!QueueNext
<1>4. ASSUME UNCHANGED <<functors, pendingFunctors, executed>>
      PROVE  [Queue!QueueNext]_(Queue!qvars)
  BY <1>4
<1>5. CASE LoopStep
  BY <1>1, <1>2, <1>4, <1>5
     DEF LoopStep, EnterLoop, TestQuit, Poll, HandleRead, HandleEvent,
         CallbackReturns, BeginPendingFunctors, FunctorReturns,
         EndPendingFunctors
<1>6. CASE PollTimeout \/ IoArrives \/ \E t \in AllThreads : Wakeup(t) \/ Quit(t)
  BY <1>4, <1>6 DEF PollTimeout, IoArrives, Wakeup, Quit
<1>7. CASE UNCHANGED vars
  BY <1>4, <1>7 DEF vars
<1> QED
  BY <1>3, <1>5, <1>6, <1>7 DEF Next

\* The loop implements the FIFO of callbacks: what any thread queues is run in
\* the order of the critical sections of queueInLoop(), each callback once.
THEOREM LoopImplementsQueue == SafetySpec => ImplementsQueue
<1>1. Init => Queue!QueueInit
  BY DEF Init, Queue!QueueInit
<1> QED
  BY <1>1, LoopInvariant, StepRefines, PTL
     DEF SafetySpec, ImplementsQueue, Queue!QueueSpec
=============================================================================
