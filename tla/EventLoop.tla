------------------------------ MODULE EventLoop ------------------------------
(***************************************************************************)
(* muduo-style event loop (src/net/EventLoop.cc): one thread runs loop(),  *)
(* any thread may call queueInLoop(), runInLoop() and quit().  A blocked   *)
(* poll is ended by a readable wakeupFd_, by another ready channel or by   *)
(* the kPollTimeMs timeout.                                                *)
(*                                                                         *)
(* A functor is the pair <<t, n>>: the n-th callback queued by thread t.   *)
(* What callbacks do is left to the environment: while the loop runs one,  *)
(* its thread may itself call queueInLoop() and quit().  runInLoop() in    *)
(* the loop's own thread calls cb() at once: that is the running callback  *)
(* continuing, and needs no step.                                          *)
(***************************************************************************)
EXTENDS Integers, Sequences, FiniteSets

CONSTANTS
  Threads,        \* the threads other than the loop's
  LoopThread,     \* threadId_, the thread that constructed the loop
  MaxPosts,       \* bound: how many callbacks each thread queues
  PostBeforeLoop  \* may LoopThread call queueInLoop() before loop()?

ASSUME LoopAssumption ==
  /\ LoopThread \notin Threads
  /\ MaxPosts \in [Threads \cup {LoopThread} -> Nat]
  /\ PostBeforeLoop \in BOOLEAN

VARIABLES
  loopPc,                  \* where LoopThread stands in loop() (subsumes looping_)
  pc,                      \* per thread: "run", or "wakeup" inside wakeup()
  posts,                   \* per thread: callbacks queued so far
  pendingFunctors,         \* pendingFunctors_, guarded by mutex_
  functors,                \* doPendingFunctors' local vector, what is left of it
  callingPendingFunctors,  \* callingPendingFunctors_
  quit,                    \* quit_
  wakeupFd,                \* the eventfd's counter
  ioReady,                 \* another registered channel is readable
  activeChannels,          \* activeChannels_, what is left of it
  executed                 \* history: the callbacks run, in order

vars == <<loopPc, pc, posts, pendingFunctors, functors, callingPendingFunctors,
          quit, wakeupFd, ioReady, activeChannels, executed>>

AllThreads == Threads \cup {LoopThread}
Functor == UNION {{t} \X (1 .. MaxPosts[t]) : t \in AllThreads}
Channels == {"wakeup", "io"}
LoopPcs == {"enter", "test", "poll", "handle", "callback", "swap", "run",
            "functor", "exited"}

isInLoopThread(t) == t = LoopThread

Init ==
  /\ loopPc = "enter"
  /\ pc = [t \in AllThreads |-> "run"]
  /\ posts = [t \in AllThreads |-> 0]
  /\ pendingFunctors = <<>>
  /\ functors = <<>>
  /\ callingPendingFunctors = FALSE
  /\ quit = FALSE
  /\ wakeupFd = 0
  /\ ioReady = FALSE
  /\ activeChannels = {}
  /\ executed = <<>>

-----------------------------------------------------------------------------
(* Calls made by any thread.                                               *)

\* The loop's thread is in user code while it runs a callback (and before
\* loop(), where PostBeforeLoop says so); the other threads always are.
InUserCode(t) ==
  /\ pc[t] = "run"
  /\ isInLoopThread(t) => \/ loopPc \in {"callback", "functor"}
                          \/ PostBeforeLoop /\ loopPc = "enter"

NeedsWakeupMutant(t) == ~isInLoopThread(t)
NeedsWakeup(t) == ~isInLoopThread(t) \/ callingPendingFunctors

\* The push is one critical section; the wakeup comes after the unlock.
QueueInLoop(t) ==
  /\ InUserCode(t)
  /\ posts[t] < MaxPosts[t]
  /\ posts' = [posts EXCEPT ![t] = @ + 1]
  /\ pendingFunctors' = Append(pendingFunctors, <<t, posts[t] + 1>>)
  /\ pc' = [pc EXCEPT ![t] = IF NeedsWakeup(t) THEN "wakeup" ELSE "run"]
  /\ UNCHANGED <<loopPc, functors, callingPendingFunctors, quit, wakeupFd,
                 ioReady, activeChannels, executed>>

\* eventfd write(): the counter is far from its 2^64 - 1 limit.
Wakeup(t) ==
  /\ pc[t] = "wakeup"
  /\ wakeupFd' = wakeupFd + 1
  /\ pc' = [pc EXCEPT ![t] = "run"]
  /\ UNCHANGED <<loopPc, posts, pendingFunctors, functors,
                 callingPendingFunctors, quit, ioReady, activeChannels, executed>>

\* The code wakes the loop only when the caller IS the loop's thread.  (A call
\* that finds quit_ already set is left out: the loop is leaving anyway.)
Quit(t) ==
  /\ InUserCode(t)
  /\ ~quit
  /\ quit' = TRUE
  /\ pc' = [pc EXCEPT ![t] = IF isInLoopThread(t) THEN "wakeup" ELSE "run"]
  /\ UNCHANGED <<loopPc, posts, pendingFunctors, functors,
                 callingPendingFunctors, wakeupFd, ioReady, activeChannels,
                 executed>>

-----------------------------------------------------------------------------
(* The loop's thread.                                                      *)

\* loopPc moves from one place to another, outside wakeup().
Goto(from, to) ==
  /\ loopPc = from
  /\ pc[LoopThread] = "run"
  /\ loopPc' = to

EnterLoop ==
  /\ Goto("enter", "test")
  /\ quit' = FALSE
  /\ UNCHANGED <<pc, posts, pendingFunctors, functors, callingPendingFunctors,
                 wakeupFd, ioReady, activeChannels, executed>>

TestQuit ==
  /\ Goto("test", IF quit THEN "exited" ELSE "poll")
  /\ activeChannels' = {}
  /\ UNCHANGED <<pc, posts, pendingFunctors, functors, callingPendingFunctors,
                 quit, wakeupFd, ioReady, executed>>

Readable == {c \in Channels : \/ c = "wakeup" /\ wakeupFd > 0
                              \/ c = "io" /\ ioReady}

Poll ==
  /\ Readable # {}
  /\ Goto("poll", "handle")
  /\ activeChannels' = Readable
  /\ UNCHANGED <<pc, posts, pendingFunctors, functors, callingPendingFunctors,
                 quit, wakeupFd, ioReady, executed>>

PollRetriesMutant ==
  /\ Readable = {}
  /\ Goto("poll", "poll")
  /\ UNCHANGED <<pc, posts, pendingFunctors, functors, callingPendingFunctors,
                 quit, wakeupFd, ioReady, activeChannels, executed>>

\* kPollTimeMs has elapsed and nothing is ready.
PollTimeout ==
  /\ Readable = {}
  /\ Goto("poll", "handle")
  /\ activeChannels' = {}
  /\ UNCHANGED <<pc, posts, pendingFunctors, functors, callingPendingFunctors,
                 quit, wakeupFd, ioReady, executed>>

\* Reading an eventfd returns the counter and resets it.
HandleRead ==
  /\ "wakeup" \in activeChannels
  /\ Goto("handle", "handle")
  /\ wakeupFd' = 0
  /\ activeChannels' = activeChannels \ {"wakeup"}
  /\ UNCHANGED <<pc, posts, pendingFunctors, functors, callingPendingFunctors,
                 quit, ioReady, executed>>

\* Another channel's handleEvent(): its callback consumes the input.
HandleEvent ==
  /\ "io" \in activeChannels
  /\ Goto("handle", "callback")
  /\ ioReady' = FALSE
  /\ activeChannels' = activeChannels \ {"io"}
  /\ UNCHANGED <<pc, posts, pendingFunctors, functors, callingPendingFunctors,
                 quit, wakeupFd, executed>>

CallbackReturns ==
  /\ Goto("callback", "handle")
  /\ UNCHANGED <<pc, posts, pendingFunctors, functors, callingPendingFunctors,
                 quit, wakeupFd, ioReady, activeChannels, executed>>

BeginPendingFunctors ==
  /\ activeChannels = {}
  /\ Goto("handle", "swap")
  /\ callingPendingFunctors' = TRUE
  /\ UNCHANGED <<pc, posts, pendingFunctors, functors, quit, wakeupFd, ioReady,
                 activeChannels, executed>>

SwapCopiesMutant ==
  /\ Goto("swap", "run")
  /\ functors' = pendingFunctors
  /\ UNCHANGED <<pc, posts, pendingFunctors, callingPendingFunctors, quit,
                 wakeupFd, ioReady, activeChannels, executed>>

SwapFunctors ==
  /\ Goto("swap", "run")
  /\ functors' = pendingFunctors
  /\ pendingFunctors' = <<>>
  /\ UNCHANGED <<pc, posts, callingPendingFunctors, quit, wakeupFd, ioReady,
                 activeChannels, executed>>

RunFunctor ==
  /\ functors # <<>>
  /\ Goto("run", "functor")
  /\ executed' = Append(executed, Head(functors))
  /\ functors' = Tail(functors)
  /\ UNCHANGED <<pc, posts, pendingFunctors, callingPendingFunctors, quit,
                 wakeupFd, ioReady, activeChannels>>

FunctorReturns ==
  /\ Goto("functor", "run")
  /\ UNCHANGED <<pc, posts, pendingFunctors, functors, callingPendingFunctors,
                 quit, wakeupFd, ioReady, activeChannels, executed>>

EndDrainsWakeupMutant ==
  /\ functors = <<>>
  /\ Goto("run", "test")
  /\ callingPendingFunctors' = FALSE
  /\ wakeupFd' = 0
  /\ UNCHANGED <<pc, posts, pendingFunctors, functors, quit, ioReady,
                 activeChannels, executed>>

EndPendingFunctors ==
  /\ functors = <<>>
  /\ Goto("run", "test")
  /\ callingPendingFunctors' = FALSE
  /\ UNCHANGED <<pc, posts, pendingFunctors, functors, quit, wakeupFd, ioReady,
                 activeChannels, executed>>

\* Environment: input arrives on the other channel.
IoArrives ==
  /\ ~ioReady
  /\ ioReady' = TRUE
  /\ UNCHANGED <<loopPc, pc, posts, pendingFunctors, functors,
                 callingPendingFunctors, quit, wakeupFd, activeChannels, executed>>

-----------------------------------------------------------------------------
\* Every step of the loop's thread that does not wait for the poll timeout.
LoopStep ==
  \/ EnterLoop
  \/ TestQuit
  \/ Poll
  \/ HandleRead
  \/ HandleEvent
  \/ CallbackReturns
  \/ BeginPendingFunctors
  \/ SwapFunctors
  \/ RunFunctor
  \/ FunctorReturns
  \/ EndPendingFunctors

Next ==
  \/ LoopStep
  \/ PollTimeout
  \/ IoArrives
  \/ \E t \in AllThreads : QueueInLoop(t)
  \/ \E t \in AllThreads : Wakeup(t)
  \/ \E t \in AllThreads : Quit(t)

\* Threads are scheduled: the loop's thread runs on when it is not blocked in
\* epoll_wait, and a thread inside wakeup() gets to its write().
Fairness ==
  /\ WF_vars(LoopStep)
  /\ \A t \in AllThreads : WF_vars(Wakeup(t))

SafetySpec == Init /\ [][Next]_vars
Spec == SafetySpec /\ Fairness

-----------------------------------------------------------------------------
(* Properties.                                                             *)

TypeOK ==
  /\ loopPc \in LoopPcs
  /\ pc \in [AllThreads -> {"run", "wakeup"}]
  /\ posts \in [AllThreads -> Nat] /\ \A t \in AllThreads : posts[t] <= MaxPosts[t]
  /\ pendingFunctors \in Seq(Functor)
  /\ functors \in Seq(Functor)
  /\ executed \in Seq(Functor)
  /\ callingPendingFunctors \in BOOLEAN
  /\ quit \in BOOLEAN
  /\ wakeupFd \in Nat
  /\ ioReady \in BOOLEAN
  /\ activeChannels \in SUBSET Channels

WakeupOnItsWay == wakeupFd > 0 \/ \E t \in AllThreads : pc[t] = "wakeup"

\* The loop never sleeps on work: whenever it is blocked in poll and callbacks
\* are pending, wakeupFd_ is readable or a caller of queueInLoop() is about to
\* write to it (the race between the swap, the eventfd read and a push).
NoLostWakeup ==
  loopPc = "poll" /\ pendingFunctors # <<>> => WakeupOnItsWay

\* The inductive invariant behind NoLostWakeup: callbacks may be pending without
\* a wakeup only while the loop is on its way to the swap, the flag
\* callingPendingFunctors_ covers exactly the time from before the swap to
\* after the last functor, and the local vector is empty when the swap comes.
IndInv ==
  /\ TypeOK
  /\ callingPendingFunctors <=> loopPc \in {"swap", "run", "functor"}
  /\ functors # <<>> => loopPc \in {"run", "functor"}
  /\ \/ PostBeforeLoop
     \/ pendingFunctors = <<>>
     \/ loopPc \in {"handle", "callback", "swap"}
     \/ WakeupOnItsWay

\* Every callback queued is eventually run, without the help of the poll
\* timeout, unless the loop quits first.
QueuedIsRun ==
  \A f \in Functor :
    (\E i \in DOMAIN pendingFunctors : pendingFunctors[i] = f)
      ~> (loopPc = "exited" \/ \E i \in DOMAIN executed : executed[i] = f)

\* A quit() that happens after loop() was entered ends the loop, with the help of the
\* timeout of epoll_wait: a quit() from another thread does not wake the loop up.
QuitEndsLoop ==
  WF_vars(PollTimeout) => ((quit /\ loopPc # "enter") ~> (loopPc = "exited"))

\* The detailed loop implements the abstract FIFO of callbacks.
Queue == INSTANCE FunctorQueue WITH queue <- functors \o pendingFunctors

\* Refinement: the swap out of pendingFunctors_ and the two-stage run implement
\* one FIFO in which a callback is queued by queueInLoop() and run once.
ImplementsQueue == Queue!QueueSpec
=============================================================================
