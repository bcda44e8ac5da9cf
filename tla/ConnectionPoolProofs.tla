------------------------- MODULE ConnectionPoolProofs -------------------------
(* Proofs about ConnectionPool, for any number of clients and any limits.  *)
EXTENDS ConnectionPool, FiniteSetTheorems, TLAPS

\* The number of connections is a natural number.
LEMMA TotalNat ==
  ASSUME TypeOK
  PROVE  /\ IsFiniteSet(Holders)
         /\ Cardinality(Holders) \in Nat
         /\ Total \in Nat
<1>1. IsFiniteSet(Holders)
  BY PoolAssumption, FS_Subset DEF Holders
<1>2. Cardinality(Holders) \in Nat
  BY <1>1, FS_CardinalityType
<1> QED
  BY <1>1, <1>2 DEF Total, TypeOK

\* The pool starts in the invariant.
LEMMA InitPoolInv == Init => PoolInv
<1> SUFFICES ASSUME Init PROVE PoolInv
  OBVIOUS
<1>1. connectionQueue \in Seq(Conns) /\ Len(connectionQueue) = MinSize
  BY PoolAssumption DEF Init
<1>2. TypeOK
  <2>1. pc \in [Clients -> {"idle", "lock", "wait", "hold"}]
    BY DEF Init
  <2> QED
    BY <1>1, <2>1, PoolAssumption DEF Init, TypeOK
<1>3. Holders = {}
  BY DEF Init, Holders
<1>4. OneOwner
  BY <1>1, <1>3 DEF Init, OneOwner, Held
<1>5. Total = MinSize
  BY <1>1, <1>3, FS_EmptySet, PoolAssumption DEF Total
<1>6. Total <= currentSize /\ NeverOverLimit
  BY <1>5, PoolAssumption DEF Init, NeverOverLimit
<1>7. ProducerAwakeWhenEmpty
  BY DEF Init, ProducerAwakeWhenEmpty
<1>8. \A c \in Clients : held[c] # None <=> pc[c] = "hold"
  BY DEF Init
<1> QED
  BY <1>2, <1>4, <1>6, <1>7, <1>8 DEF PoolInv

-----------------------------------------------------------------------------
(* One lemma per step that moves a connection.                             *)

\* A new connection is in nobody's hands, and currentSize_ was below the limit.
LEMMA AddKeepsInv == PoolInv /\ ProducerAdds => PoolInv'
<1> SUFFICES ASSUME PoolInv, ProducerAdds PROVE PoolInv'
  OBVIOUS
<1>t. TypeOK
  BY DEF PoolInv
<1>0. PICK x \in Conns \ (Queued \cup Held) :
        connectionQueue' = Append(connectionQueue, x)
  BY DEF ProducerAdds, addConnection
<1>1. connectionQueue = <<>> /\ connectionQueue' = <<x>>
  BY <1>0, <1>t DEF ProducerAdds, TypeOK
<1>2. TypeOK'
  BY <1>t, <1>1 DEF TypeOK, ProducerAdds, addConnection, NotifyAll
<1>3. Holders' = Holders /\ Held' = Held
  BY DEF ProducerAdds, Holders, Held
<1>4. OneOwner'
  <2>1. Queued' = {x}
    BY <1>1 DEF Queued
  <2>2. \A c, d \in Holders' : held'[c] = held'[d] => c = d
    BY <1>3 DEF PoolInv, OneOwner, ProducerAdds
  <2> QED
    BY <1>0, <1>1, <1>3, <2>1, <2>2 DEF OneOwner
<1>5. Total' = Total + 1
  BY <1>1, <1>3, <1>t, TotalNat DEF Total
<1>6. Total' <= currentSize' /\ NeverOverLimit'
  BY <1>5, <1>t, TotalNat, PoolAssumption
     DEF PoolInv, TypeOK, ProducerAdds, addConnection, BelowLimit, NeverOverLimit
<1>7. \A c \in Clients : held'[c] # None <=> pc'[c] = "hold"
  BY <1>t DEF PoolInv, ProducerAdds, NotifyAll, TypeOK
<1> QED
  BY <1>1, <1>2, <1>4, <1>6, <1>7 DEF PoolInv, ProducerAwakeWhenEmpty

\* The connection at the front moves to a client that held none.
LEMMA TakeKeepsInv ==
  ASSUME PoolInv, NEW c \in Clients, ClientTakes(c)
  PROVE  PoolInv'
<1>t. TypeOK
  BY DEF PoolInv
<1> DEFINE q == connectionQueue
<1>1. /\ q \in Seq(Conns) /\ q # <<>> /\ Head(q) = q[1] /\ Head(q) \in Conns
      /\ Len(q) \in Nat \ {0} /\ Len(Tail(q)) = Len(q) - 1
      /\ \A i \in 1 .. Len(q) - 1 : Tail(q)[i] = q[i + 1]
      /\ Tail(q) \in Seq(Conns)
  BY <1>t DEF ClientTakes, TypeOK
<1>2. held[c] = None /\ held' = [held EXCEPT ![c] = q[1]] /\ q' = Tail(q)
  BY <1>1 DEF PoolInv, ClientTakes
<1>3. TypeOK'
  <2>1. stale' \in 0 .. Len(q')
    BY <1>t, <1>1, <1>2 DEF TypeOK, ClientTakes
  <2>2. pc' \in [Clients -> {"idle", "lock", "wait", "hold"}]
    BY <1>t DEF TypeOK, ClientTakes, NotifyAll
  <2> QED
    BY <1>t, <1>1, <1>2, <2>1, <2>2 DEF TypeOK, ClientTakes
<1>4. Holders' = Holders \cup {c} /\ c \notin Holders
  BY <1>t, <1>1, <1>2, PoolAssumption DEF Holders, TypeOK
<1>5. OneOwner'
  <2>1. \A i, j \in DOMAIN q' : q'[i] = q'[j] => i = j
    BY <1>1, <1>2 DEF PoolInv, OneOwner
  <2>2. q[1] \in Queued /\ q[1] \notin Held
    BY <1>1 DEF PoolInv, OneOwner, Queued
  <2>3. \A d \in Holders : held'[d] = held[d] /\ held[d] \in Held
    BY <1>2, <1>4, <1>t DEF TypeOK, Holders, Held
  <2>4. held'[c] = q[1]
    BY <1>2, <1>t DEF TypeOK
  <2>5. \A d, e \in Holders' : held'[d] = held'[e] => d = e
    BY <1>4, <2>2, <2>3, <2>4 DEF PoolInv, OneOwner
  <2>6. Held' = Held \cup {q[1]}
    BY <1>4, <2>3, <2>4 DEF Held
  <2>7. Queued' \subseteq Queued /\ q[1] \notin Queued'
    BY <1>1, <1>2 DEF Queued, PoolInv, OneOwner
  <2> QED
    BY <2>1, <2>5, <2>6, <2>7 DEF OneOwner, PoolInv
<1>6. Total' = Total
  <2>1. Cardinality(Holders') = Cardinality(Holders) + 1
    BY <1>4, <1>t, TotalNat, FS_AddElement
  <2> QED
    BY <1>1, <1>2, <2>1, <1>t, TotalNat DEF Total
<1>7. Total' <= currentSize' /\ NeverOverLimit'
  BY <1>6 DEF PoolInv, ClientTakes, NeverOverLimit
<1>8. \A d \in Clients : held'[d] # None <=> pc'[d] = "hold"
  BY <1>t, <1>1, <1>2, PoolAssumption DEF PoolInv, ClientTakes, NotifyAll, TypeOK
<1> QED
  BY <1>3, <1>5, <1>7, <1>8 DEF PoolInv, ProducerAwakeWhenEmpty, ClientTakes

\* The connection of a client moves to the end of the queue.
LEMMA ReturnKeepsInv ==
  ASSUME PoolInv, NEW c \in Clients, ReturnConnection(c)
  PROVE  PoolInv'
<1>t. TypeOK
  BY DEF PoolInv
<1> DEFINE q == connectionQueue
           x == held[c]
<1>1. x # None /\ x \in Conns /\ c \in Holders /\ x \in Held
  BY <1>t DEF PoolInv, ReturnConnection, TypeOK, Holders, Held
<1>2. /\ q' = Append(q, x) /\ Len(q') = Len(q) + 1 /\ q'[Len(q) + 1] = x
      /\ \A i \in 1 .. Len(q) : q'[i] = q[i]
      /\ Len(q) \in Nat /\ q' \in Seq(Conns)
  BY <1>t, <1>1 DEF ReturnConnection, TypeOK
<1>3. TypeOK'
  BY <1>t, <1>2 DEF TypeOK, ReturnConnection
<1>4. Holders' = Holders \ {c}
  BY <1>t DEF Holders, TypeOK, ReturnConnection
<1>5. \A d \in Holders' : held'[d] = held[d] /\ d # c
  BY <1>4, <1>t DEF Holders, TypeOK, ReturnConnection
<1>6. OneOwner'
  <2>1. \A i \in 1 .. Len(q) : q[i] # x
    BY <1>1, <1>2, <1>t DEF PoolInv, OneOwner, Queued, TypeOK
  <2>2. \A i, j \in DOMAIN q' : q'[i] = q'[j] => i = j
    <3>1. DOMAIN q' = 1 .. Len(q) + 1 /\ DOMAIN q = 1 .. Len(q)
      BY <1>2, <1>t DEF TypeOK
    <3> QED
      BY <1>2, <2>1, <3>1 DEF PoolInv, OneOwner
  <2>3. \A d, e \in Holders' : held'[d] = held'[e] => d = e
    BY <1>4, <1>5 DEF PoolInv, OneOwner
  <2>4. Queued' \subseteq Queued \cup {x}
    BY <1>2, <1>t DEF Queued, TypeOK
  <2>5. \A d \in Holders' : held'[d] \in Held /\ held'[d] # x
    BY <1>1, <1>4, <1>5 DEF Held, PoolInv, OneOwner
  <2>6. Held' \subseteq Held \ {x}
    BY <2>5 DEF Held
  <2> QED
    BY <2>2, <2>3, <2>4, <2>6 DEF OneOwner, PoolInv
<1>7. Total' = Total
  <2>1. Cardinality(Holders') = Cardinality(Holders) - 1
    BY <1>1, <1>4, <1>t, TotalNat, FS_RemoveElement
  <2> QED
    BY <1>2, <2>1, <1>t, TotalNat DEF Total
<1>8. Total' <= currentSize' /\ NeverOverLimit'
  BY <1>7 DEF PoolInv, ReturnConnection, NeverOverLimit
<1>9. \A d \in Clients : held'[d] # None <=> pc'[d] = "hold"
  BY <1>t DEF PoolInv, ReturnConnection, TypeOK
<1> QED
  BY <1>2, <1>3, <1>6, <1>8, <1>9 DEF PoolInv, ProducerAwakeWhenEmpty

\* The recycler takes connections off the front, counts each one and leaves
\* minSize_ of them, so the queue does not become empty behind the producer.
LEMMA RecycleKeepsInv == PoolInv /\ RecycleConnection => PoolInv'
<1> SUFFICES ASSUME PoolInv, RecycleConnection PROVE PoolInv'
  OBVIOUS
<1>t. TypeOK
  BY DEF PoolInv
<1> DEFINE q == connectionQueue
<1>0. PICK n \in 1 .. stale :
        /\ KeepsMinimum(n)
        /\ q' = SubSeq(q, n + 1, Len(q))
        /\ stale' = stale - n
        /\ currentSize' = currentSize - n
        /\ UNCHANGED <<held, pc, producer>>
  BY DEF RecycleConnection
<1>1. /\ n \in Nat /\ Len(q) \in Nat /\ n <= Len(q) /\ Len(q) - n >= MinSize
      /\ currentSize \in Int /\ stale \in Nat
  BY <1>0, <1>t, PoolAssumption DEF TypeOK, KeepsMinimum
<1>2. /\ q' \in Seq(Conns) /\ Len(q') = Len(q) - n
      /\ \A i \in 1 .. Len(q) - n : q'[i] = q[i + n]
  BY <1>0, <1>1, <1>t DEF TypeOK
<1>3. TypeOK'
  BY <1>0, <1>1, <1>2, <1>t DEF TypeOK
<1>4. Holders' = Holders /\ Held' = Held
  BY <1>0 DEF Holders, Held
<1>5. OneOwner'
  <2>0. DOMAIN q = 1 .. Len(q) /\ DOMAIN q' = 1 .. Len(q) - n
    BY <1>1, <1>2, <1>t DEF TypeOK
  <2>1. \A i, j \in DOMAIN q' : q'[i] = q'[j] => i = j
    <3> SUFFICES ASSUME NEW i \in 1 .. Len(q) - n, NEW j \in 1 .. Len(q) - n,
                        q'[i] = q'[j]
                 PROVE  i = j
      BY <2>0
    <3>1. i + n \in DOMAIN q /\ j + n \in DOMAIN q
      BY <1>1, <2>0
    <3>2. q[i + n] = q[j + n]
      BY <1>2
    <3>3. i + n = j + n
      BY <3>1, <3>2 DEF PoolInv, OneOwner
    <3> QED
      BY <1>1, <3>3
  <2>2. Queued' \subseteq Queued
    BY <1>1, <1>2, <2>0 DEF Queued
  <2>3. \A c, d \in Holders' : held'[c] = held'[d] => c = d
    BY <1>0, <1>4 DEF PoolInv, OneOwner
  <2> QED
    BY <1>4, <2>1, <2>2, <2>3 DEF OneOwner, PoolInv
<1>6. Total' = Total - n
  BY <1>1, <1>2, <1>4, <1>t, TotalNat DEF Total
<1>7. Total' <= currentSize' /\ NeverOverLimit'
  BY <1>0, <1>1, <1>6, <1>t, TotalNat, PoolAssumption DEF PoolInv, NeverOverLimit
<1>8. ProducerAwakeWhenEmpty'
  BY <1>1, <1>2, PoolAssumption DEF ProducerAwakeWhenEmpty
<1> QED
  BY <1>0, <1>3, <1>5, <1>7, <1>8 DEF PoolInv

\* The other steps move no connection.
LEMMA StillKeepsInv ==
  ASSUME PoolInv, TypeOK',
         UNCHANGED <<connectionQueue, currentSize, held>>,
         producer' = "wait" => producer = "wait" \/ connectionQueue # <<>>,
         \A c \in Clients : pc'[c] = "hold" <=> pc[c] = "hold"
  PROVE  PoolInv'
<1>1. Holders' = Holders /\ Held' = Held /\ Queued' = Queued
  BY DEF Holders, Held, Queued
<1>2. Total' = Total
  BY <1>1 DEF Total
<1>3. OneOwner'
  BY <1>1 DEF PoolInv, OneOwner
<1> QED
  BY <1>2, <1>3 DEF PoolInv, NeverOverLimit, ProducerAwakeWhenEmpty

\* Every step keeps the invariant.
LEMMA StepPoolInv == PoolInv /\ [Next]_vars => PoolInv'
<1> SUFFICES ASSUME PoolInv, [Next]_vars PROVE PoolInv'
  OBVIOUS
<1>t. TypeOK
  BY DEF PoolInv
<1>1. CASE ProducerWaits
  BY <1>1, <1>t, StillKeepsInv DEF ProducerWaits, TypeOK
<1>2. CASE ProducerAdds
  BY <1>2, AddKeepsInv
<1>3. ASSUME NEW c \in Clients, GetConnection(c) PROVE PoolInv'
  BY <1>3, <1>t, StillKeepsInv DEF GetConnection, TypeOK
<1>4. ASSUME NEW c \in Clients, ClientWaits(c) PROVE PoolInv'
  BY <1>4, <1>t, StillKeepsInv DEF ClientWaits, TypeOK
<1>5. ASSUME NEW c \in Clients, WaitTimesOut(c) PROVE PoolInv'
  BY <1>5, <1>t, StillKeepsInv DEF WaitTimesOut, TypeOK
<1>6. ASSUME NEW c \in Clients, ClientTakes(c) PROVE PoolInv'
  BY <1>6, TakeKeepsInv
<1>7. ASSUME NEW c \in Clients, ReturnConnection(c) PROVE PoolInv'
  BY <1>7, ReturnKeepsInv
<1>8. CASE Age
  BY <1>8, <1>t, StillKeepsInv DEF Age, TypeOK
<1>9. CASE RecycleConnection
  BY <1>9, RecycleKeepsInv
<1>10. CASE UNCHANGED vars
  BY <1>10, <1>t, StillKeepsInv DEF vars, TypeOK
<1> QED
  BY <1>1, <1>2, <1>3, <1>4, <1>5, <1>6, <1>7, <1>8, <1>9, <1>10
     DEF Next, ProducerStep, Getting

-----------------------------------------------------------------------------
\* The inductive invariant holds for any clients and any limits with
\* 1 <= minSize_ <= maxSize_.
THEOREM PoolInvariant == SafetySpec => []PoolInv
  BY InitPoolInv, StepPoolInv, PTL DEF SafetySpec

\* No connection is ever shared by two clients, or queued while one holds it.
THEOREM ConnectionHasOneOwner == SafetySpec => []OneOwner
  BY PoolInvariant, PTL DEF PoolInv

\* The pool never holds more than maxSize_ connections.
THEOREM PoolStaysWithinLimit == SafetySpec => []NeverOverLimit
  BY PoolInvariant, PTL DEF PoolInv

\* The producer is awake whenever the queue is empty: no notification is lost.
THEOREM ProducerNeverOversleeps == SafetySpec => []ProducerAwakeWhenEmpty
  BY PoolInvariant, PTL DEF PoolInv
=============================================================================
