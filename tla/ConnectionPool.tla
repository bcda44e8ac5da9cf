---------------------------- MODULE ConnectionPool ----------------------------
(***************************************************************************)
(* The MySQL connection pool (src/mysql/ConnectionPool.cc): clients take a *)
(* connection out of connectionQueue_ and give it back when their last     *)
(* shared_ptr goes; a producer thread adds connections when the queue is   *)
(* empty; a recycler deletes those that were idle for too long.            *)
(*                                                                         *)
(* Everything happens under mutex_, so one critical section, from a lock   *)
(* or a wakeup to the next wait or unlock, is one action.  A thread asleep *)
(* on cond_ runs on after notify_all() and, in wait_for(), after timeout_. *)
(* The queue is ordered by the time of the last refreshAliveTime(), so the *)
(* connections that are idle for maxIdleTime_ are a prefix of it.          *)
(***************************************************************************)
EXTENDS Integers, Sequences, FiniteSets

CONSTANTS
  Clients,   \* threads that call getConnection()
  Conns,     \* MysqlConn objects that can be created
  None,      \* no connection
  MinSize,   \* minSize_
  MaxSize    \* maxSize_

ASSUME PoolAssumption ==
  /\ IsFiniteSet(Clients)
  /\ None \notin Conns
  /\ MinSize \in Nat \ {0} /\ MaxSize \in Nat /\ MinSize <= MaxSize

VARIABLES
  connectionQueue,  \* connectionQueue_
  stale,            \* how many connections at its front are idle for too long
  currentSize,      \* currentSize_
  held,             \* per client: the connection it was given
  pc,               \* per client: "idle", "lock" (at the test), "wait", "hold"
  producer          \* the producer thread: "lock" (at the test), "wait"

vars == <<connectionQueue, stale, currentSize, held, pc, producer>>

Queued == {connectionQueue[i] : i \in DOMAIN connectionQueue}
Holders == {c \in Clients : held[c] # None}
Held == {held[c] : c \in Holders}

\* How many connections there are.
Total == Len(connectionQueue) + Cardinality(Holders)

\* The constructor: currentSize_ (zero, the pool being static) is counted up
\* in addConnection() and again by its caller.
Init ==
  /\ connectionQueue \in [1 .. MinSize -> Conns]
  /\ \A i, j \in 1 .. MinSize : connectionQueue[i] = connectionQueue[j] => i = j
  /\ stale = 0
  /\ currentSize = 2 * MinSize
  /\ held = [c \in Clients |-> None]
  /\ pc = [c \in Clients |-> "idle"]
  /\ producer = "lock"

NotifyAll(p) == [c \in Clients |-> IF p[c] = "wait" THEN "lock" ELSE p[c]]

-----------------------------------------------------------------------------
(* The producer thread.                                                    *)

ProducerWaits ==
  /\ producer = "lock"
  /\ connectionQueue # <<>>
  /\ producer' = "wait"
  /\ UNCHANGED <<connectionQueue, stale, currentSize, held, pc>>

BelowLimitMutant == TRUE
BelowLimit == currentSize < MaxSize

\* A new object, counted here and once more by the caller.
addConnection ==
  /\ \E x \in Conns \ (Queued \cup Held) :
       connectionQueue' = Append(connectionQueue, x)
  /\ currentSize' = currentSize + 2

\* At the limit the producer unlocks and tests again: that changes nothing.
ProducerAdds ==
  /\ producer = "lock"
  /\ connectionQueue = <<>>
  /\ BelowLimit
  /\ addConnection
  /\ pc' = NotifyAll(pc)
  /\ UNCHANGED <<stale, held, producer>>

-----------------------------------------------------------------------------
(* Clients.                                                                *)

GetConnection(c) ==
  /\ pc[c] = "idle"
  /\ pc' = [pc EXCEPT ![c] = "lock"]
  /\ UNCHANGED <<connectionQueue, stale, currentSize, held, producer>>

ClientWaits(c) ==
  /\ pc[c] = "lock"
  /\ connectionQueue = <<>>
  /\ pc' = [pc EXCEPT ![c] = "wait"]
  /\ UNCHANGED <<connectionQueue, stale, currentSize, held, producer>>

TakeForgetsPopMutant(c) ==
  /\ pc[c] = "lock"
  /\ connectionQueue # <<>>
  /\ held' = [held EXCEPT ![c] = Head(connectionQueue)]
  /\ pc' = [NotifyAll(pc) EXCEPT ![c] = "hold"]
  /\ producer' = "lock"
  /\ UNCHANGED <<connectionQueue, stale, currentSize>>

ClientTakes(c) ==
  /\ pc[c] = "lock"
  /\ connectionQueue # <<>>
  /\ held' = [held EXCEPT ![c] = Head(connectionQueue)]
  /\ connectionQueue' = Tail(connectionQueue)
  /\ stale' = IF stale > 0 THEN stale - 1 ELSE 0
  /\ pc' = [NotifyAll(pc) EXCEPT ![c] = "hold"]
  /\ producer' = "lock"
  /\ UNCHANGED currentSize

\* wait_for() ends after timeout_ milliseconds; the queue is tested again.
TimeoutGivesUpMutant(c) ==
  /\ pc[c] = "wait"
  /\ connectionQueue = <<>>
  /\ pc' = [pc EXCEPT ![c] = "lock"]
  /\ UNCHANGED <<connectionQueue, stale, currentSize, held, producer>>

WaitTimesOut(c) ==
  /\ pc[c] = "wait"
  /\ pc' = [pc EXCEPT ![c] = "lock"]
  /\ UNCHANGED <<connectionQueue, stale, currentSize, held, producer>>

\* The deleter of the shared_ptr: back into the queue, freshly stamped, and
\* nobody is notified.
ReturnConnection(c) ==
  /\ pc[c] = "hold"
  /\ connectionQueue' = Append(connectionQueue, held[c])
  /\ held' = [held EXCEPT ![c] = None]
  /\ pc' = [pc EXCEPT ![c] = "idle"]
  /\ UNCHANGED <<stale, currentSize, producer>>

-----------------------------------------------------------------------------
(* The recycler thread, and time.                                          *)

\* Time passes: one more connection has been idle for maxIdleTime_.
Age ==
  /\ stale < Len(connectionQueue)
  /\ stale' = stale + 1
  /\ UNCHANGED <<connectionQueue, currentSize, held, pc, producer>>

\* One round deletes from the front while more than minSize_ are queued and the
\* front is stale.
KeepsMinimumMutant(n) == n <= Len(connectionQueue)
KeepsMinimum(n) == Len(connectionQueue) - n >= MinSize

RecycleConnection ==
  \E n \in 1 .. stale :
    /\ KeepsMinimum(n)
    /\ n = stale \/ ~KeepsMinimum(n + 1)
    /\ connectionQueue' = SubSeq(connectionQueue, n + 1, Len(connectionQueue))
    /\ stale' = stale - n
    /\ currentSize' = currentSize - n
    /\ UNCHANGED <<held, pc, producer>>

-----------------------------------------------------------------------------
ProducerStep == ProducerWaits \/ ProducerAdds

\* What a client does inside getConnection().
Getting(c) == ClientWaits(c) \/ ClientTakes(c) \/ WaitTimesOut(c)

Next ==
  \/ ProducerStep
  \/ \E c \in Clients : GetConnection(c) \/ Getting(c) \/ ReturnConnection(c)
  \/ Age
  \/ RecycleConnection

\* Threads that hold or can take the mutex run on, and a timed wait ends.
\* Clients may keep a connection for ever.
Fairness ==
  /\ WF_vars(ProducerStep)
  /\ \A c \in Clients : WF_vars(Getting(c))

SafetySpec == Init /\ [][Next]_vars
Spec == SafetySpec /\ Fairness

-----------------------------------------------------------------------------
(* Properties.                                                             *)

TypeOK ==
  /\ connectionQueue \in Seq(Conns)
  /\ stale \in 0 .. Len(connectionQueue)
  /\ currentSize \in Int
  /\ held \in [Clients -> Conns \cup {None}]
  /\ pc \in [Clients -> {"idle", "lock", "wait", "hold"}]
  /\ producer \in {"lock", "wait"}

\* A connection is in one place only: queued once, or held by one client.  Two
\* clients never share one, and the recycler never deletes one in use.
OneOwner ==
  /\ \A i, j \in DOMAIN connectionQueue :
       connectionQueue[i] = connectionQueue[j] => i = j
  /\ \A c, d \in Holders : held[c] = held[d] => c = d
  /\ Queued \cap Held = {}

\* There are never more than maxSize_ connections, although currentSize_ counts
\* each addition twice and each deletion once.
NeverOverLimit == Total <= MaxSize

\* The producer never sleeps while the queue is empty: whoever empties it also
\* notifies cond_ (the recycler, which does not, leaves minSize_ >= 1 behind).
ProducerAwakeWhenEmpty == producer = "wait" => connectionQueue # <<>>

\* The inductive invariant behind the three: clients hold exactly between
\* getConnection() and the deleter, and currentSize_ is at least the number of
\* connections, which is what keeps the limit in spite of the double count.
PoolInv ==
  /\ TypeOK
  /\ OneOwner
  /\ \A c \in Clients : held[c] # None <=> pc[c] = "hold"
  /\ Total <= currentSize
  /\ NeverOverLimit
  /\ ProducerAwakeWhenEmpty

\* A waiting client and a free connection find each other: the deleter does not
\* notify, so it is the timeout of wait_for() that brings this about.
FreeIsTaken ==
  \A c \in Clients :
    (pc[c] = "wait" /\ connectionQueue # <<>>)
      ~> (pc[c] \in {"idle", "hold"} \/ connectionQueue = <<>>)

\* The pool's documentation: when a client finds no connection and the pool is
\* below its limit, a new connection is created.
GrowsOnDemand ==
  \A c \in Clients :
    (pc[c] = "wait" /\ Total < MaxSize)
      ~> (connectionQueue # <<>> \/ pc[c] = "hold" \/ Total = MaxSize)
=============================================================================
