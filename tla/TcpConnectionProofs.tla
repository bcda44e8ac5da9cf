------------------------- MODULE TcpConnectionProofs -------------------------
(***************************************************************************)
(* The safety properties of a connection, for every set of workers, every  *)
(* program around the connection and any number of messages.               *)
(*                                                                         *)
(* The inductive invariant ConnInv has one part for each idea: how the     *)
(* connection begins (BeginInv), what the io loop's local state is tied to *)
(* (LoopInv), what has happened once the close was handled (CloseInv), how *)
(* output, EPOLLOUT and the FIN go together (OutputInv, ShutInv), who owns *)
(* the object (OwnerInv) and what careful programs add (CarefulInv).       *)
(* Each part is kept by a lemma of its own, with one step per action.  The *)
(* queues enter the argument through a few lemmas on Has and Covered.      *)
(***************************************************************************)
EXTENDS TcpConnection, SequenceTheorems, TLAPS

\* A functor of one of these kinds is in the queue.
Has(q, kinds) == \E i \in DOMAIN q : q[i].kind \in kinds
Queued(kinds) == Has(batch, kinds) \/ Has(pending, kinds)

\* Behind every functor that is bound to this there is a connectDestroyed().
Covered(q) ==
  \A i \in DOMAIN q : q[i].kind \in RawFunctors =>
    \E j \in DOMAIN q : j > i /\ q[j].kind = "destroyed"

StrongKinds == FunctorKinds \ RawFunctors

\* Before connectEstablished() runs, once: it is the first functor, and there is
\* nothing behind it but ~TcpServer's connectDestroyed().
BeginInv ==
  /\ ups \in {0, 1}
  /\ ups = 1 => ~Queued({"established"})
  /\ ups = 0 =>
       /\ state = "kConnecting" /\ events = {} /\ ~registered /\ outbuf = <<>>
       /\ ~finSent /\ downs = 0 /\ ~overwritten
       /\ revents = {} /\ ioPc # "callback" /\ ~batchRef
       /\ basePending = 0 /\ ~baseRef
       /\ \A w \in Workers : ~wref[w] /\ wpc[w] = "idle"
       /\ ~Queued(FunctorKinds \ {"established", "destroyed"})
       /\ batch # <<>> => /\ Head(batch).kind = "established"
                          /\ ~Has(Tail(batch), {"established"})
                          /\ ~Has(pending, {"established"})
       /\ batch = <<>> /\ pending # <<>> => /\ Head(pending).kind = "established"
                                            /\ ~Has(Tail(pending), {"established"})
       /\ ioPc # "ended" => batch # <<>> \/ pending # <<>>
       /\ ioPc # "ended" /\ server # "alive" => Queued({"destroyed"})

\* Where the io loop is, and what it holds there.
InEvents == ioPc = "event" \/ (ioPc = "callback" /\ cbRet = "event")

LoopInv ==
  /\ ioPc \in {"poll", "ended"} \/ InEvents => batch = <<>> /\ ~batchRef
  /\ revents # {} => InEvents
  /\ ioPc = "callback" /\ cbRet = "run" => batchRef
  /\ ioPc = "ended" => pending = <<>> /\ ~registered /\ server \in {"quit", "last"}
  /\ setup.loops = "base" => server = "alive"

\* Once the close was handled the connection stays closed and out of the poller,
\* unless shutdown() has overwritten kDisconnected; until then it is read.
CloseInv ==
  /\ state = "kDisconnected" => downs > 0
  /\ downs > 0 /\ ~overwritten =>
       downs = 1 /\ state = "kDisconnected" /\ events = {} /\ ~registered
  /\ ups = 1 /\ downs = 0 => "read" \in events
  /\ revents # {} /\ downs = 0 => registered
  /\ ~overwritten /\ revents \cap {"IN", "HUP"} # {} => downs = 0
  /\ ~overwritten /\ ioPc = "callback" /\ cbRet = "event" => downs = 0 /\ registered

\* Output, the interest in EPOLLOUT and the FIN.
OutputInv ==
  /\ StreamPreserved
  /\ WritingIffOutput
  /\ FlushBeforeFin

\* Once a shutdown() has set kDisconnecting the connection is never kConnected again.
ShutInv ==
  finSent \/ Queued({"shutdownInLoop"}) \/ (\E w \in Workers : wpc[w] = "shutSet") =>
    state # "kConnected" /\ ups = 1

\* connections_ holds the connection until its close was handled or the server goes;
\* a close on its way to the base loop or back keeps it alive.
OwnerInv ==
  /\ server = "alive" /\ downs = 0 => inMap
  /\ basePending > 0 \/ baseRef => downs > 0
  /\ ~overwritten /\ revents # {} /\ downs > 0 =>
       basePending > 0 \/ Has(pending, {"destroyed"})

\* In a careful program a functor bound to this has a worker that keeps the object;
\* and after ~TcpServer began there is no such functor behind its connectDestroyed().
RawHasRef == Queued(RawFunctors) => \E w \in Workers : wref[w]
AllIdle == server # "alive" => \A w \in Workers : wpc[w] = "idle"
DestroyedLast ==
  /\ Covered(pending)
  /\ Covered(batch) \/ Has(pending, {"destroyed"})
  /\ ioPc # "ended" /\ ~Queued({"destroyed"}) => ~registered /\ state # "kConnected"

CarefulInv ==
  setup.careful =>
    /\ uaf = "none"
    /\ RawHasRef
    /\ AllIdle
    /\ server # "alive" /\ downs = 0 => DestroyedLast

ConnInv ==
  /\ TypeOK /\ BeginInv /\ LoopInv /\ CloseInv /\ OutputInv /\ ShutInv /\ OwnerInv
  /\ CarefulInv

-----------------------------------------------------------------------------
(* Queues.                                                                 *)

\* The functors that are made are functors.
LEMMA FunctorsAre ==
  /\ \A k \in FunctorKinds : Functor(k) \in Functors /\ Functor(k).kind = k
  /\ \A n \in Nat : SendFunctor(n) \in Functors /\ SendFunctor(n).kind = "sendInLoop"
BY DEF Functors, Functor, SendFunctor, FunctorKinds

\* An empty queue has nothing.
LEMMA HasEmpty ==
  ASSUME NEW kinds
  PROVE  ~Has(<<>>, kinds) /\ Covered(<<>>) /\ <<>> \in Seq(Functors)
BY DEF Has, Covered

\* What a queue has after a push.
LEMMA HasAppend ==
  ASSUME NEW q \in Seq(Functors), NEW f \in Functors, NEW kinds
  PROVE  Has(Append(q, f), kinds) <=> Has(q, kinds) \/ f.kind \in kinds
<1> DEFINE r == Append(q, f)
<1>1. /\ DOMAIN q = 1 .. Len(q) /\ DOMAIN r = 1 .. Len(q) + 1 /\ Len(q) \in Nat
      /\ \A i \in 1 .. Len(q) : r[i] = q[i]
      /\ r[Len(q) + 1] = f
  OBVIOUS
<1> HIDE DEF r
<1>2. Has(r, kinds) => Has(q, kinds) \/ f.kind \in kinds
  BY <1>1 DEF Has
<1>3. Has(q, kinds) => Has(r, kinds)
  BY <1>1 DEF Has
<1>4. f.kind \in kinds => Has(r, kinds)
  <2>1. Len(q) + 1 \in DOMAIN r
    BY <1>1
  <2> QED BY <1>1, <2>1 DEF Has
<1> QED BY <1>2, <1>3, <1>4 DEF r

\* What it has besides its head.
LEMMA HasTail ==
  ASSUME NEW q \in Seq(Functors), q # <<>>, NEW kinds
  PROVE  /\ Has(q, kinds) <=> Head(q).kind \in kinds \/ Has(Tail(q), kinds)
         /\ Head(q) \in Functors /\ Tail(q) \in Seq(Functors)
<1> DEFINE r == Tail(q)
<1>1. /\ DOMAIN q = 1 .. Len(q) /\ DOMAIN r = 1 .. Len(q) - 1 /\ Len(q) \in Nat
      /\ Len(q) > 0
      /\ \A i \in 1 .. Len(q) - 1 : r[i] = q[i + 1]
      /\ Head(q) = q[1] /\ Head(q) \in Functors /\ r \in Seq(Functors)
  OBVIOUS
<1> HIDE DEF r
<1>2. Has(r, kinds) => Has(q, kinds)
  <2> SUFFICES ASSUME NEW i \in DOMAIN r, r[i].kind \in kinds PROVE Has(q, kinds)
    BY DEF Has
  <2>1. i + 1 \in DOMAIN q /\ q[i + 1] = r[i]
    BY <1>1
  <2> QED BY <2>1 DEF Has
<1>3. Head(q).kind \in kinds => Has(q, kinds)
  BY <1>1 DEF Has
<1>4. Has(q, kinds) => Head(q).kind \in kinds \/ Has(r, kinds)
  <2> SUFFICES ASSUME NEW i \in DOMAIN q, q[i].kind \in kinds, i # 1
               PROVE  Has(r, kinds)
    BY <1>1 DEF Has
  <2>1. i - 1 \in DOMAIN r /\ r[i - 1] = q[i]
    BY <1>1
  <2> QED BY <2>1 DEF Has
<1> QED BY <1>1, <1>2, <1>3, <1>4 DEF r

\* Head and tail of a queue after a push.
LEMMA AppendHead ==
  ASSUME NEW q \in Seq(Functors), NEW f \in Functors
  PROVE  /\ Append(q, f) \in Seq(Functors) /\ Append(q, f) # <<>>
         /\ q = <<>> => Head(Append(q, f)) = f /\ Tail(Append(q, f)) = <<>>
         /\ q # <<>> => /\ Head(Append(q, f)) = Head(q)
                        /\ Tail(Append(q, f)) = Append(Tail(q), f)
OBVIOUS

\* A queue has a functor with a pointer when AnyStrong() says so.
LEMMA StrongIsKind ==
  ASSUME NEW q \in Seq(Functors)
  PROVE  AnyStrong(q) <=> Has(q, StrongKinds)
<1>1. \A i \in DOMAIN q : q[i] \in Functors
  OBVIOUS
<1>2. \A f \in Functors : f.kind \in FunctorKinds
  BY DEF Functors
<1> QED BY <1>1, <1>2 DEF AnyStrong, Strong, Has, StrongKinds

\* A queue that has a kind has each larger set of kinds.
LEMMA HasMonotone ==
  ASSUME NEW q, NEW k1, NEW k2, k1 \subseteq k2, Has(q, k1)
  PROVE  Has(q, k2)
BY DEF Has

\* connectDestroyed() at the end covers the queue, any other functor with a pointer
\* leaves it covered, and so does running the first.
LEMMA CoveredOps ==
  ASSUME NEW q \in Seq(Functors), NEW f \in Functors
  PROVE  /\ f.kind = "destroyed" => Covered(Append(q, f))
         /\ f.kind \notin RawFunctors /\ Covered(q) => Covered(Append(q, f))
         /\ q # <<>> /\ Covered(q) => Covered(Tail(q))
         /\ Covered(q) /\ Has(q, RawFunctors) => Has(q, {"destroyed"})
<1> DEFINE r == Append(q, f)
<1>1. /\ DOMAIN q = 1 .. Len(q) /\ DOMAIN r = 1 .. Len(q) + 1 /\ Len(q) \in Nat
      /\ \A i \in 1 .. Len(q) : r[i] = q[i]
      /\ r[Len(q) + 1] = f
  OBVIOUS
<1> HIDE DEF r
<1>2. ASSUME f.kind = "destroyed" PROVE Covered(r)
  <2> SUFFICES ASSUME NEW i \in DOMAIN r, r[i].kind \in RawFunctors
               PROVE  \E j \in DOMAIN r : j > i /\ r[j].kind = "destroyed"
    BY DEF Covered
  <2>1. i # Len(q) + 1
    BY <1>1, <1>2 DEF RawFunctors
  <2>2. Len(q) + 1 \in DOMAIN r /\ Len(q) + 1 > i
    BY <1>1, <2>1
  <2> QED BY <1>1, <1>2, <2>2
<1>3. ASSUME f.kind \notin RawFunctors, Covered(q) PROVE Covered(r)
  <2> SUFFICES ASSUME NEW i \in DOMAIN r, r[i].kind \in RawFunctors
               PROVE  \E j \in DOMAIN r : j > i /\ r[j].kind = "destroyed"
    BY DEF Covered
  <2>1. i \in DOMAIN q /\ r[i] = q[i]
    BY <1>1, <1>3
  <2>2. PICK j \in DOMAIN q : j > i /\ q[j].kind = "destroyed"
    BY <1>3, <2>1 DEF Covered
  <2> QED BY <1>1, <2>2
<1>4. ASSUME q # <<>>, Covered(q) PROVE Covered(Tail(q))
  <2> DEFINE t == Tail(q)
  <2>1. /\ DOMAIN t = 1 .. Len(q) - 1 /\ Len(q) > 0
        /\ \A i \in 1 .. Len(q) - 1 : t[i] = q[i + 1]
    BY <1>4
  <2> HIDE DEF t
  <2>2. ASSUME NEW i \in DOMAIN t, t[i].kind \in RawFunctors
        PROVE  \E j \in DOMAIN t : j > i /\ t[j].kind = "destroyed"
    <3>1. i + 1 \in DOMAIN q /\ q[i + 1].kind \in RawFunctors
      BY <1>1, <2>1, <2>2
    <3>2. PICK j \in DOMAIN q : j > i + 1 /\ q[j].kind = "destroyed"
      BY <1>4, <3>1 DEF Covered
    <3>3. j - 1 \in DOMAIN t /\ t[j - 1] = q[j] /\ j - 1 > i
      BY <1>1, <2>1, <3>2
    <3> QED BY <3>2, <3>3
  <2> QED BY <2>2 DEF Covered, t
<1>5. ASSUME Covered(q), Has(q, RawFunctors) PROVE Has(q, {"destroyed"})
  BY <1>5 DEF Covered, Has
<1> QED BY <1>2, <1>3, <1>4, <1>5 DEF r

-----------------------------------------------------------------------------
(* Types.                                                                  *)

\* The fields of a program.
LEMMA SetupFields ==
  ASSUME NEW s \in Setups
  PROVE  /\ s.loops \in {"sub", "base"}
         /\ s.careful \in BOOLEAN /\ s.serverMayDie \in BOOLEAN
         /\ \A w \in Workers : s.ops[w] \in SUBSET {"send", "shutdown"}
BY ConnAssumption DEF Setup

\* The pieces of a message.
LEMMA MessagePieces ==
  ASSUME NEW k \in Nat, NEW n \in 0 .. 2
  PROVE  /\ <<k, k>> \in Seq(Nat)
         /\ SubSeq(<<k, k>>, 1, n) \in Seq(Nat)
         /\ SubSeq(<<k, k>>, n + 1, 2) \in Seq(Nat)
         /\ SubSeq(<<k, k>>, 1, n) \o SubSeq(<<k, k>>, n + 1, 2) = <<k, k>>
         /\ n = 0 => SubSeq(<<k, k>>, 1, n) = <<>> /\ SubSeq(<<k, k>>, n + 1, 2) = <<k, k>>
         /\ n = 2 => SubSeq(<<k, k>>, 1, n) = <<k, k>>
         /\ n < 2 => SubSeq(<<k, k>>, n + 1, 2) # <<>>
<1> DEFINE msg == <<k, k>>
<1>1. msg \in Seq(Nat) /\ Len(msg) = 2
  OBVIOUS
<1> HIDE DEF msg
<1>2. n \in Int /\ n + 1 \in Int /\ 0 <= n /\ n <= 2
  OBVIOUS
<1>0. \A i \in 1 .. 2 : msg[i] \in Nat
  BY <1>1, ElementOfSeq
<1>3. SubSeq(msg, 1, n) \in Seq(Nat) /\ Len(SubSeq(msg, 1, n)) = n
  <2>1. \A i \in 1 .. n : msg[i] \in Nat
    BY <1>0, <1>2
  <2> QED BY <1>2, <2>1, SubSeqProperties
<1>4. SubSeq(msg, n + 1, 2) \in Seq(Nat) /\ Len(SubSeq(msg, n + 1, 2)) = 2 - n
  <2>1. \A i \in n + 1 .. 2 : msg[i] \in Nat
    BY <1>0, <1>2
  <2>2. /\ SubSeq(msg, n + 1, 2) \in Seq(Nat)
        /\ Len(SubSeq(msg, n + 1, 2)) = IF n + 1 <= 2 THEN 2 - (n + 1) + 1 ELSE 0
    BY <1>2, <2>1, SubSeqProperties
  <2> QED BY <1>2, <2>2
<1>5. SubSeq(msg, 1, 2) = msg
  BY <1>1, SubSeqFull
<1>6. SubSeq(msg, 1, n) \o SubSeq(msg, n + 1, 2) = msg
  <2>1. 1 \in 1 .. Len(msg) + 1 /\ n \in 1 - 1 .. Len(msg) /\ 2 \in n .. Len(msg)
    BY <1>1, <1>2
  <2>2. SubSeq(msg, 1, n) \o SubSeq(msg, n + 1, 2) = SubSeq(msg, 1, 2)
    BY <1>1, <2>1, ConcatAdjacentSubSeq
  <2> QED BY <1>5, <2>2
<1>7. n = 0 => SubSeq(msg, 1, n) = <<>> /\ SubSeq(msg, n + 1, 2) = msg
  BY <1>5, SubSeqEmpty
<1>8. n = 2 => SubSeq(msg, 1, n) = msg
  BY <1>5
<1>9. n < 2 => SubSeq(msg, n + 1, 2) # <<>>
  <2>1. n < 2 => Len(SubSeq(msg, n + 1, 2)) # 0
    BY <1>2, <1>4
  <2> QED BY <2>1, EmptySeq
<1> QED BY <1>1, <1>3, <1>4, <1>6, <1>7, <1>8, <1>9 DEF msg

\* Concatenation of byte sequences.
LEMMA BytesAssociative ==
  ASSUME NEW s \in Seq(Nat), NEW t \in Seq(Nat), NEW u \in Seq(Nat)
  PROVE  (s \o t) \o u = s \o (t \o u)
BY ConcatAssociative

\* The connection begins well typed.
LEMMA InitType == Init => TypeOK
<1> SUFFICES ASSUME Init PROVE TypeOK
  OBVIOUS
<1>1. Functor("established") \in Functors
  BY FunctorsAre DEF FunctorKinds
<1>2. pending \in Seq(Functors) /\ batch \in Seq(Functors)
  BY <1>1 DEF Init
<1>3. outbuf \in Seq(Nat) /\ wire \in Seq(Nat) /\ accepted \in Seq(Nat)
  BY DEF Init
<1>4. /\ registered \in BOOLEAN /\ finSent \in BOOLEAN /\ batchRef \in BOOLEAN
      /\ inData \in BOOLEAN /\ peerFin \in BOOLEAN /\ peerRst \in BOOLEAN
      /\ inMap \in BOOLEAN /\ baseRef \in BOOLEAN /\ overwritten \in BOOLEAN
  BY DEF Init
<1> QED BY <1>2, <1>3, <1>4 DEF Init, TypeOK, States

\* sendInLoop() keeps the types of what it changes.
LEMMA SendInLoopType ==
  ASSUME TypeOK, NEW k \in Nat, sendInLoop(k)
  PROVE  /\ state' = state /\ finSent' = finSent
         /\ events' \in SUBSET {"read", "write"} /\ registered' \in BOOLEAN
         /\ outbuf' \in Seq(Nat) /\ wire' \in Seq(Nat) /\ accepted' \in Seq(Nat)
         /\ pending' \in Seq(Functors)
         /\ pending' = pending \/ pending' = Append(pending, Functor("writeComplete"))
<1>1. CASE GiveUpWriting
  BY <1>1 DEF sendInLoop, TypeOK, connVars
<1>2. CASE ~GiveUpWriting
  <2> DEFINE msg == <<k, k>>
             fault == WritesDirectly /\ (finSent \/ peerRst)
  <2>1. PICK n \in 0 .. 2 :
          /\ wire' = wire \o SubSeq(msg, 1, n)
          /\ accepted' = IF fault THEN accepted ELSE accepted \o msg
          /\ pending' = IF n = 2 THEN WriteCompleted ELSE pending
          /\ IF fault \/ n = 2
             THEN UNCHANGED <<outbuf, events, registered>>
             ELSE /\ outbuf' = outbuf \o SubSeq(msg, n + 1, 2)
                  /\ IF isWriting THEN UNCHANGED <<events, registered>>
                     ELSE SetEvents(events \cup {"write"})
          /\ UNCHANGED <<state, finSent>>
    BY <1>2 DEF sendInLoop
  <2>2. msg \in Seq(Nat) /\ SubSeq(msg, 1, n) \in Seq(Nat)
        /\ SubSeq(msg, n + 1, 2) \in Seq(Nat)
    BY MessagePieces
  <2> HIDE DEF msg, fault
  <2>3. Functor("writeComplete") \in Functors
    BY FunctorsAre DEF FunctorKinds
  <2>4. outbuf' \in Seq(Nat) /\ wire' \in Seq(Nat) /\ accepted' \in Seq(Nat)
    <3>1. outbuf \in Seq(Nat) /\ wire \in Seq(Nat) /\ accepted \in Seq(Nat)
      BY DEF TypeOK
    <3>2. /\ outbuf' = outbuf \/ outbuf' = outbuf \o SubSeq(msg, n + 1, 2)
          /\ wire' = wire \o SubSeq(msg, 1, n)
          /\ accepted' = accepted \/ accepted' = accepted \o msg
      BY <2>1
    <3>3. /\ outbuf \o SubSeq(msg, n + 1, 2) \in Seq(Nat)
          /\ wire \o SubSeq(msg, 1, n) \in Seq(Nat)
          /\ accepted \o msg \in Seq(Nat)
      BY <2>2, <3>1, ConcatProperties
    <3> QED BY <3>1, <3>2, <3>3
  <2>5. /\ pending' \in Seq(Functors)
        /\ pending' = pending \/ pending' = Append(pending, Functor("writeComplete"))
    <3>1. pending' = pending \/ pending' = Append(pending, Functor("writeComplete"))
      BY <2>1 DEF WriteCompleted
    <3>2. pending \in Seq(Functors)
      BY DEF TypeOK
    <3> QED BY <2>3, <3>1, <3>2, AppendProperties
  <2>6. events' \in SUBSET {"read", "write"} /\ registered' \in BOOLEAN
    BY <2>1 DEF TypeOK, SetEvents
  <2> QED BY <2>1, <2>4, <2>5, <2>6
<1> QED BY <1>1, <1>2

\* handleClose() keeps the types.
LEMMA HandleCloseType ==
  ASSUME TypeOK, handleClose
  PROVE  /\ state' = "kDisconnected" /\ events' = {} /\ registered' = ~registered
         /\ downs' = downs + 1
         /\ pending' \in Seq(Functors) /\ basePending' \in Nat /\ inMap' \in BOOLEAN
         /\ UNCHANGED <<outbuf, wire, accepted, finSent, sends, ups, overwritten,
                        baseRef, server, setup, uaf>>
<1>1. Functor("destroyed") \in Functors
  BY FunctorsAre DEF FunctorKinds
<1>2. pending \in Seq(Functors) /\ Append(pending, Functor("destroyed")) \in Seq(Functors)
  BY <1>1 DEF TypeOK
<1>3. registered' = ~registered
  BY DEF TypeOK, handleClose, SetEvents
<1>4. /\ pending' = pending \/ pending' = Append(pending, Functor("destroyed"))
      /\ basePending' = basePending \/ basePending' = basePending + 1
      /\ inMap' = inMap \/ inMap' = FALSE
      /\ UNCHANGED <<baseRef, server, setup, uaf>>
  BY DEF handleClose, removeConnection
<1>5. pending' \in Seq(Functors)
  BY <1>2, <1>4
<1>6. basePending' \in Nat
  BY <1>4 DEF TypeOK
<1>7. inMap' \in BOOLEAN
  BY <1>4 DEF TypeOK
<1> QED BY <1>3, <1>4, <1>5, <1>6, <1>7 DEF handleClose, SetEvents

\* handleWrite() keeps the types.
LEMMA HandleWriteType ==
  ASSUME TypeOK, handleWrite
  PROVE  /\ state' = state /\ accepted' = accepted
         /\ events' \in SUBSET {"read", "write"} /\ registered' \in BOOLEAN
         /\ outbuf' \in Seq(Nat) /\ wire' \in Seq(Nat) /\ finSent' \in BOOLEAN
         /\ pending' \in Seq(Functors)
         /\ pending' = pending \/ pending' = Append(pending, Functor("writeComplete"))
<1>1. CASE ~isWriting \/ peerRst
  BY <1>1 DEF handleWrite, TypeOK, connVars
<1>2. CASE ~(~isWriting \/ peerRst)
  <2>1. PICK n \in 1 .. Len(outbuf) :
          /\ wire' = wire \o SubSeq(outbuf, 1, n)
          /\ outbuf' = SubSeq(outbuf, n + 1, Len(outbuf))
          /\ IF Drained(n)
             THEN /\ SetEvents(events \ {"write"})
                  /\ pending' = WriteCompleted
                  /\ finSent' = (finSent \/ state = "kDisconnecting")
             ELSE UNCHANGED <<events, registered, pending, finSent>>
          /\ UNCHANGED <<state, accepted>>
    BY <1>2 DEF handleWrite
  <2>2. SubSeq(outbuf, 1, n) \in Seq(Nat) /\ SubSeq(outbuf, n + 1, Len(outbuf)) \in Seq(Nat)
    BY DEF TypeOK
  <2>3. Functor("writeComplete") \in Functors
    BY FunctorsAre DEF FunctorKinds
  <2>4. outbuf' \in Seq(Nat) /\ wire' \in Seq(Nat)
    BY <2>1, <2>2 DEF TypeOK
  <2>5. /\ pending' \in Seq(Functors)
        /\ pending' = pending \/ pending' = Append(pending, Functor("writeComplete"))
    <3>1. pending' = pending \/ pending' = Append(pending, Functor("writeComplete"))
      BY <2>1 DEF WriteCompleted
    <3>2. pending \in Seq(Functors)
      BY DEF TypeOK
    <3> QED BY <2>3, <3>1, <3>2, AppendProperties
  <2>6. events' \in SUBSET {"read", "write"} /\ registered' \in BOOLEAN
        /\ finSent' \in BOOLEAN
    BY <2>1 DEF TypeOK, SetEvents
  <2> QED BY <2>1, <2>4, <2>5, <2>6
<1> QED BY <1>1, <1>2

\* Taking the next functor of the batch.
LEMMA RunningType ==
  ASSUME TypeOK, NEW kind, Running(kind)
  PROVE  /\ ioPc = "run" /\ batch # <<>> /\ Head(batch).kind = kind
         /\ Head(batch) \in Functors /\ Head(batch).msg \in Nat
         /\ batch' = Tail(batch) /\ batch' \in Seq(Functors)
         /\ batchRef' \in BOOLEAN
         /\ batchRef => batchRef'
         /\ kind \notin RawFunctors => batchRef'
<1>1. ioPc = "run" /\ batch # <<>> /\ Head(batch).kind = kind /\ batch' = Tail(batch)
      /\ batchRef' = (batchRef \/ Strong(Head(batch)))
  BY DEF Running
<1>2. Head(batch) \in Functors /\ Tail(batch) \in Seq(Functors)
  BY <1>1 DEF TypeOK
<1>3. Head(batch).msg \in Nat
  BY <1>2 DEF Functors
<1> QED BY <1>1, <1>2, <1>3 DEF TypeOK, Strong

\* The steps of the io loop's dispatch.
LEMMA EventType ==
  ASSUME TypeOK,
         Poll \/ LoopEnds \/ CloseEvent \/ ReadDataEvent \/ ReadErrorEvent \/ ReadEofEvent \/ WriteEvent
           \/ Swap \/ EndBatch
  PROVE  TypeOK'
<1>1. CASE Poll
  <2>1. Revents \in SUBSET {"IN", "OUT", "HUP"}
    BY DEF Revents, Conditions, Interest
  <2>2. server' \in {"alive", "body", "quit", "last"}
    BY <1>1 DEF Poll, TypeOK
  <2> QED BY <1>1, <2>1, <2>2 DEF Poll, TypeOK, peerVars, connVars, loopVars, serverVars, workerVars, histVars
<1>2. CASE LoopEnds
  <2>1. pending' \in Seq(Functors) /\ registered' \in BOOLEAN
    BY <1>2, HasEmpty DEF LoopEnds
  <2> QED BY <1>2, <2>1 DEF LoopEnds, TypeOK, peerVars, connVars, loopVars, serverVars, workerVars, histVars
<1>3. CASE CloseEvent \/ ReadEofEvent
  <2>1. handleClose /\ revents' \subseteq revents
        /\ UNCHANGED <<peerVars, ioPc, cbRet, batch, batchRef, workerVars>>
    BY <1>3 DEF CloseEvent, ReadEofEvent
  <2>2. /\ registered' = ~registered /\ downs' = downs + 1
        /\ downs \in Nat /\ revents \in SUBSET {"IN", "OUT", "HUP"}
    BY <2>1, HandleCloseType DEF TypeOK
  <2>3. registered' \in BOOLEAN
    BY <2>2
  <2>4. downs' \in Nat /\ revents' \in SUBSET {"IN", "OUT", "HUP"}
    BY <2>1, <2>2
  <2> QED BY <2>1, <2>3, <2>4, HandleCloseType DEF TypeOK, States, peerVars, workerVars
<1>4. CASE ReadDataEvent
  <2>1. inData' \in BOOLEAN
    BY <1>4 DEF ReadDataEvent
  <2> QED BY <1>4, <2>1 DEF ReadDataEvent, TypeOK, peerVars, connVars, loopVars, serverVars, workerVars, histVars
<1>e. CASE ReadErrorEvent
  <2>1. revents' \in SUBSET {"IN", "OUT", "HUP"}
    BY <1>e DEF ReadErrorEvent, TypeOK
  <2> QED BY <1>e, <2>1 DEF ReadErrorEvent, TypeOK, peerVars, connVars, serverVars, workerVars, histVars
<1>5. CASE WriteEvent
  <2>1. handleWrite /\ revents' = {}
        /\ UNCHANGED <<peerVars, ioPc, cbRet, batch, batchRef, serverVars, workerVars,
                       histVars>>
    BY <1>5 DEF WriteEvent
  <2> QED BY <2>1, HandleWriteType DEF TypeOK, peerVars, connVars, loopVars, serverVars, workerVars, histVars
<1>6. CASE Swap
  BY <1>6, HasEmpty DEF Swap, TypeOK, peerVars, connVars, loopVars, serverVars, workerVars, histVars
<1>7. CASE EndBatch
  <2>1. batchRef' \in BOOLEAN
    BY <1>7 DEF EndBatch
  <2> QED BY <1>7, <2>1 DEF EndBatch, TypeOK, peerVars, connVars, loopVars, serverVars, workerVars, histVars
<1> QED BY <1>1, <1>2, <1>3, <1>4, <1>e, <1>5, <1>6, <1>7

\* The functors and the callbacks.
LEMMA RunType ==
  ASSUME TypeOK,
         UseAfterFree \/ connectEstablished \/ RunSendInLoop \/ RunShutdownInLoop
           \/ RunWriteComplete \/ connectDestroyed
           \/ SendInCallback \/ ShutdownInCallback \/ CallbackReturns
  PROVE  TypeOK'
<1>1. CASE UseAfterFree
  <2>1. PICK kind : Running(kind)
    BY <1>1 DEF UseAfterFree
  <2> QED BY <1>1, <2>1, RunningType DEF UseAfterFree, TypeOK, peerVars, connVars, loopVars, serverVars, workerVars, histVars
<1>2. CASE connectEstablished
  <2>1. Running("established") /\ wref' \in [Workers -> BOOLEAN]
    BY <1>2 DEF connectEstablished
  <2> QED BY <1>2, <2>1, RunningType
          DEF connectEstablished, SetEvents, TypeOK, States, peerVars, connVars, loopVars, serverVars, workerVars, histVars
<1>3. CASE RunSendInLoop
  <2>1. Running("sendInLoop") /\ sendInLoop(Head(batch).msg)
    BY <1>3 DEF RunSendInLoop
  <2>2. Head(batch).msg \in Nat /\ batch' \in Seq(Functors) /\ batchRef' \in BOOLEAN
    BY <2>1, RunningType
  <2> QED BY <1>3, <2>1, <2>2, SendInLoopType DEF RunSendInLoop, TypeOK, peerVars, connVars, loopVars, serverVars, workerVars, histVars
<1>4. CASE RunShutdownInLoop
  <2>1. Running("shutdownInLoop") /\ finSent' \in BOOLEAN
    BY <1>4 DEF RunShutdownInLoop, TypeOK
  <2> QED BY <1>4, <2>1, RunningType DEF RunShutdownInLoop, TypeOK, peerVars, connVars, loopVars, serverVars, workerVars, histVars
<1>5. CASE RunWriteComplete
  <2>1. Running("writeComplete")
    BY <1>5 DEF RunWriteComplete
  <2> QED BY <1>5, <2>1, RunningType DEF RunWriteComplete, TypeOK, peerVars, connVars, loopVars, serverVars, workerVars, histVars
<1>6. CASE connectDestroyed
  <2>1. Running("destroyed")
    BY <1>6 DEF connectDestroyed
  <2>2. registered' \in BOOLEAN
    BY <1>6 DEF connectDestroyed
  <2>3. state' \in States /\ downs' \in Nat /\ events' \in SUBSET {"read", "write"}
    <3>1. state \in States /\ downs \in Nat /\ events \in SUBSET {"read", "write"}
      BY DEF TypeOK
    <3>2. \/ state' = "kDisconnected" /\ events' = {} /\ downs' = downs + 1
          \/ UNCHANGED <<state, events, downs>>
      BY <1>6 DEF connectDestroyed
    <3>3. CASE UNCHANGED <<state, events, downs>>
      BY <3>1, <3>3
    <3>4. CASE state' = "kDisconnected" /\ events' = {} /\ downs' = downs + 1
      BY <3>1, <3>4 DEF States
    <3> QED BY <3>2, <3>3, <3>4
  <2>4. batch' \in Seq(Functors) /\ batchRef' \in BOOLEAN
    BY <2>1, RunningType
  <2> QED BY <1>6, <2>2, <2>3, <2>4 DEF connectDestroyed, TypeOK, peerVars, connVars, loopVars, serverVars, workerVars, histVars
<1>7. CASE SendInCallback
  <2>1. sends + 1 \in Nat /\ sends' = sends + 1 /\ sendInLoop(sends + 1)
    BY <1>7 DEF SendInCallback, TypeOK
  <2> QED BY <1>7, <2>1, SendInLoopType DEF SendInCallback, TypeOK, peerVars, connVars, loopVars, serverVars, workerVars, histVars
<1>8. CASE ShutdownInCallback
  BY <1>8 DEF ShutdownInCallback, TypeOK, States, peerVars, connVars, loopVars, serverVars, workerVars, histVars
<1>9. CASE CallbackReturns
  BY <1>9 DEF CallbackReturns, TypeOK, peerVars, connVars, loopVars, serverVars, workerVars, histVars
<1> QED BY <1>1, <1>2, <1>3, <1>4, <1>5, <1>6, <1>7, <1>8, <1>9

\* A worker's push.
LEMMA RunInLoopType ==
  ASSUME TypeOK, NEW f \in Functors, RunInLoop(f)
  PROVE  /\ pending' \in Seq(Functors) /\ uaf' \in {"none", "conn", "loop"}
         /\ ioPc # "ended" => pending' = Append(pending, f) /\ uaf' = uaf
         /\ ioPc = "ended" => pending' = pending
<1>1. pending \in Seq(Functors) /\ Append(pending, f) \in Seq(Functors)
  BY DEF TypeOK
<1> QED BY <1>1 DEF RunInLoop, TypeOK

\* The workers.
LEMMA WorkerType ==
  ASSUME TypeOK, NEW w \in Workers, WorkerCall(w) \/ DropRef(w)
  PROVE  TypeOK'
<1>1. CASE SendCheck(w) \/ ShutdownCheck(w)
  <2>1. wpc' \in [Workers -> {"idle", "sendChecked", "shutChecked", "shutSet"}]
    BY <1>1 DEF SendCheck, ShutdownCheck, WorkerStep, TypeOK
  <2>2. UNCHANGED <<peerVars, connVars, loopVars, serverVars, wref, histVars>>
    BY <1>1 DEF SendCheck, ShutdownCheck
  <2> QED BY <2>1, <2>2 DEF TypeOK, peerVars, connVars, loopVars, serverVars, workerVars, histVars
<1>2. CASE SendPush(w)
  <2>1. SendFunctor(sends + 1) \in Functors /\ sends + 1 \in Nat
    BY FunctorsAre DEF TypeOK
  <2> QED BY <1>2, <2>1, RunInLoopType DEF SendPush, WorkerStep, TypeOK, peerVars, connVars, loopVars, serverVars, workerVars, histVars
<1>3. CASE ShutdownSet(w)
  <2>1. overwritten' \in BOOLEAN
    BY <1>3 DEF ShutdownSet
  <2> QED BY <1>3, <2>1 DEF ShutdownSet, WorkerStep, TypeOK, States, peerVars, connVars, loopVars, serverVars, workerVars, histVars
<1>4. CASE ShutdownPush(w)
  <2>1. Functor("shutdownInLoop") \in Functors
    BY FunctorsAre DEF FunctorKinds
  <2> QED BY <1>4, <2>1, RunInLoopType DEF ShutdownPush, WorkerStep, TypeOK, peerVars, connVars, loopVars, serverVars, workerVars, histVars
<1>5. CASE DropRef(w)
  BY <1>5 DEF DropRef, TypeOK, peerVars, connVars, loopVars, serverVars, workerVars, histVars
<1> QED BY <1>1, <1>2, <1>3, <1>4, <1>5 DEF WorkerCall

\* The base loop, ~TcpServer and the peer.
LEMMA BaseType ==
  ASSUME TypeOK, BaseStep \/ ServerDestructor \/ PeerStep
  PROVE  TypeOK'
<1>0. Append(pending, Functor("destroyed")) \in Seq(Functors)
  BY FunctorsAre DEF FunctorKinds, TypeOK
<1>1. CASE removeConnectionInLoop
  <2>1. inMap' \in BOOLEAN /\ baseRef' \in BOOLEAN
    BY <1>1 DEF removeConnectionInLoop
  <2>2. basePending' \in Nat
    BY <1>1 DEF removeConnectionInLoop, TypeOK
  <2> QED BY <1>0, <1>1, <2>1, <2>2 DEF removeConnectionInLoop, TypeOK, peerVars, connVars, loopVars, serverVars, workerVars, histVars
<1>2. CASE BaseEndBatch \/ QuitIoLoop \/ BaseLoopDestroyed
  <2>1. CASE BaseEndBatch
    <3>1. baseRef' \in BOOLEAN
      BY <2>1 DEF BaseEndBatch
    <3> QED BY <2>1, <3>1 DEF BaseEndBatch, TypeOK, peerVars, connVars, loopVars, serverVars, workerVars, histVars
  <2>2. CASE QuitIoLoop
    BY <2>2 DEF QuitIoLoop, TypeOK, peerVars, connVars, loopVars, serverVars, workerVars, histVars
  <2>3. CASE BaseLoopDestroyed
    BY <2>3 DEF BaseLoopDestroyed, TypeOK, peerVars, connVars, loopVars, serverVars, workerVars, histVars
  <2> QED BY <1>2, <2>1, <2>2, <2>3
<1>3. CASE ServerDestructor
  <2>1. pending' \in Seq(Functors)
    BY <1>0, <1>3 DEF ServerDestructor, TypeOK
  <2>2. inMap' \in BOOLEAN
    BY <1>3 DEF ServerDestructor
  <2> QED BY <1>3, <2>1, <2>2 DEF ServerDestructor, TypeOK, peerVars, connVars, loopVars, serverVars, workerVars, histVars
<1>4. CASE PeerStep
  <2>1. inData' \in BOOLEAN /\ peerFin' \in BOOLEAN /\ peerRst' \in BOOLEAN
    BY <1>4 DEF PeerStep, PeerSends, PeerCloses, PeerResets, TypeOK
  <2>2. UNCHANGED <<connVars, loopVars, serverVars, workerVars, histVars>>
    BY <1>4 DEF PeerStep, PeerSends, PeerCloses, PeerResets
  <2> QED BY <2>1, <2>2 DEF TypeOK, peerVars, connVars, loopVars, serverVars, workerVars, histVars
<1> QED BY <1>1, <1>2, <1>3, <1>4 DEF BaseStep

\* The step relation as a disjunction of the groups above.
LEMMA Steps ==
  ASSUME [Next]_vars
  PROVE  \/ Poll \/ LoopEnds \/ CloseEvent \/ ReadDataEvent \/ ReadErrorEvent \/ ReadEofEvent
         \/ WriteEvent \/ Swap \/ EndBatch
         \/ UseAfterFree \/ connectEstablished \/ RunSendInLoop \/ RunShutdownInLoop
         \/ RunWriteComplete \/ connectDestroyed
         \/ SendInCallback \/ ShutdownInCallback \/ CallbackReturns
         \/ BaseStep \/ ServerDestructor \/ PeerStep
         \/ \E w \in Workers : WorkerCall(w) \/ DropRef(w)
         \/ UNCHANGED vars
BY DEF Next, IoStep, UserStep

\* Every step keeps the types.
LEMMA StepType == TypeOK /\ [Next]_vars => TypeOK'
<1> SUFFICES ASSUME TypeOK, [Next]_vars PROVE TypeOK'
  OBVIOUS
<1>1. CASE UNCHANGED vars
  BY <1>1 DEF vars, TypeOK, peerVars, connVars, loopVars, serverVars, workerVars, histVars
<1> QED BY <1>1, Steps, EventType, RunType, WorkerType, BaseType

-----------------------------------------------------------------------------
(* What a step does to the queues.                                         *)

\* The io loop takes functors from the front of its batch, or a new batch.
LEMMA BatchStep ==
  ASSUME [Next]_vars
  PROVE  \/ batch' = batch
         \/ batch # <<>> /\ batch' = Tail(batch)
         \/ Swap
<1>1. ASSUME NEW w \in Workers, WorkerCall(w) \/ DropRef(w) PROVE batch' = batch
  BY <1>1
  DEF WorkerCall, SendCheck, SendPush, ShutdownCheck, ShutdownSet, ShutdownPush, DropRef,
      loopVars
<1>2. CASE BaseStep \/ ServerDestructor \/ PeerStep
  BY <1>2
  DEF BaseStep, removeConnectionInLoop, BaseEndBatch, QuitIoLoop, BaseLoopDestroyed,
      ServerDestructor, PeerStep, PeerSends, PeerCloses, PeerResets, loopVars
<1>3. CASE Poll \/ LoopEnds \/ CloseEvent \/ ReadDataEvent \/ ReadErrorEvent \/ ReadEofEvent \/ WriteEvent
             \/ EndBatch \/ SendInCallback \/ ShutdownInCallback \/ CallbackReturns
  BY <1>3
  DEF Poll, LoopEnds, CloseEvent, ReadDataEvent, ReadErrorEvent, ReadEofEvent, WriteEvent, EndBatch,
      SendInCallback, ShutdownInCallback, CallbackReturns, loopVars
<1>4. CASE UseAfterFree \/ connectEstablished \/ RunSendInLoop \/ RunShutdownInLoop
             \/ RunWriteComplete \/ connectDestroyed
  <2>1. \E kind : Running(kind)
    BY <1>4 DEF UseAfterFree, connectEstablished, RunSendInLoop, RunShutdownInLoop,
                RunWriteComplete, connectDestroyed
  <2> QED BY <2>1 DEF Running
<1>5. CASE UNCHANGED vars
  BY <1>5 DEF vars, loopVars
<1> QED BY Steps, <1>1, <1>2, <1>3, <1>4, <1>5

\* Who pushes what to pendingFunctors_: only workers push functors bound to this.
PushedBy(f) ==
  \/ f.kind \in {"destroyed", "writeComplete"}
  \/ f.kind = "sendInLoop" /\ \E w \in Workers : SendPush(w)
  \/ f.kind = "shutdownInLoop" /\ \E w \in Workers : ShutdownPush(w)

LEMMA PendingStep ==
  ASSUME TypeOK, [Next]_vars
  PROVE  \/ pending' = pending
         \/ pending' = <<>>
         \/ \E f \in Functors : pending' = Append(pending, f) /\ PushedBy(f)
<1> DEFINE Pushed == \E f \in Functors : pending' = Append(pending, f) /\ PushedBy(f)
<1>0. /\ Functor("destroyed") \in Functors /\ PushedBy(Functor("destroyed"))
      /\ Functor("writeComplete") \in Functors /\ PushedBy(Functor("writeComplete"))
  BY FunctorsAre DEF FunctorKinds, PushedBy
<1>1. CASE Poll \/ ReadDataEvent \/ ReadErrorEvent \/ EndBatch \/ Swap \/ LoopEnds \/ ShutdownInCallback
             \/ CallbackReturns
  BY <1>1
  DEF Poll, ReadDataEvent, ReadErrorEvent, EndBatch, Swap, LoopEnds, ShutdownInCallback, CallbackReturns,
      loopVars
<1>2. CASE CloseEvent \/ ReadEofEvent
  <2>1. pending' = pending \/ pending' = Append(pending, Functor("destroyed"))
    BY <1>2 DEF CloseEvent, ReadEofEvent, handleClose, removeConnection
  <2> QED BY <1>0, <2>1
<1>3. CASE WriteEvent
  <2>1. pending' = pending \/ pending' = Append(pending, Functor("writeComplete"))
    BY <1>3, HandleWriteType DEF WriteEvent
  <2> QED BY <1>0, <2>1
<1>4. CASE RunSendInLoop \/ SendInCallback
  <2>1. PICK k \in Nat : sendInLoop(k)
    <3>1. CASE RunSendInLoop
      BY <3>1, RunningType DEF RunSendInLoop
    <3>2. CASE SendInCallback
      BY <3>2 DEF SendInCallback, TypeOK
    <3> QED BY <1>4, <3>1, <3>2
  <2>2. pending' = pending \/ pending' = Append(pending, Functor("writeComplete"))
    BY <2>1, SendInLoopType
  <2> QED BY <1>0, <2>2
<1>5. CASE UseAfterFree \/ connectEstablished \/ RunShutdownInLoop \/ RunWriteComplete
             \/ connectDestroyed
  BY <1>5
  DEF UseAfterFree, connectEstablished, RunShutdownInLoop, RunWriteComplete,
      connectDestroyed
<1>6. CASE BaseStep \/ ServerDestructor \/ PeerStep
  <2>1. pending' = pending \/ pending' = Append(pending, Functor("destroyed"))
    BY <1>6
    DEF BaseStep, removeConnectionInLoop, BaseEndBatch, QuitIoLoop, BaseLoopDestroyed,
        ServerDestructor, PeerStep, PeerSends, PeerCloses, PeerResets, loopVars
  <2> QED BY <1>0, <2>1
<1>7. ASSUME NEW w \in Workers, WorkerCall(w) \/ DropRef(w)
      PROVE  pending' = pending \/ Pushed
  <2>1. CASE SendPush(w)
    <3> DEFINE f == SendFunctor(sends + 1)
    <3>1. f \in Functors /\ f.kind = "sendInLoop"
      BY FunctorsAre DEF TypeOK
    <3> HIDE DEF f
    <3>2. pending' = pending \/ pending' = Append(pending, f)
      BY <2>1 DEF SendPush, RunInLoop, f
    <3> QED BY <2>1, <3>1, <3>2 DEF PushedBy
  <2>2. CASE ShutdownPush(w)
    <3> DEFINE f == Functor("shutdownInLoop")
    <3>1. f \in Functors /\ f.kind = "shutdownInLoop"
      BY FunctorsAre DEF FunctorKinds
    <3> HIDE DEF f
    <3>2. pending' = pending \/ pending' = Append(pending, f)
      BY <2>2 DEF ShutdownPush, RunInLoop, f
    <3> QED BY <2>2, <3>1, <3>2 DEF PushedBy
  <2>3. CASE SendCheck(w) \/ ShutdownCheck(w) \/ ShutdownSet(w) \/ DropRef(w)
    BY <2>3 DEF SendCheck, ShutdownCheck, ShutdownSet, DropRef, loopVars
  <2> QED BY <1>7, <2>1, <2>2, <2>3 DEF WorkerCall
<1>8. CASE UNCHANGED vars
  BY <1>8 DEF vars, loopVars
<1> QED BY Steps, <1>1, <1>2, <1>3, <1>4, <1>5, <1>6, <1>7, <1>8

\* A functor is in the queues after a step when it was before or is pushed by it.
LEMMA QueueStep ==
  ASSUME TypeOK, [Next]_vars, NEW kinds, Queued(kinds)'
  PROVE  \/ Queued(kinds)
         \/ \E f \in Functors :
              f.kind \in kinds /\ pending' = Append(pending, f) /\ PushedBy(f)
<1>0. batch \in Seq(Functors) /\ pending \in Seq(Functors)
  BY DEF TypeOK
<1>1. Has(batch', kinds) => Has(batch, kinds) \/ Has(pending, kinds)
  <2>1. batch # <<>> /\ batch' = Tail(batch) /\ Has(batch', kinds) => Has(batch, kinds)
    BY <1>0, HasTail
  <2>2. Swap => batch' = pending
    BY DEF Swap
  <2> QED BY <2>1, <2>2, BatchStep
<1>2. ASSUME Has(pending', kinds), ~Has(pending, kinds)
      PROVE  \E f \in Functors :
               f.kind \in kinds /\ pending' = Append(pending, f) /\ PushedBy(f)
  <2>1. pending' # <<>> /\ pending' # pending
    BY <1>2, HasEmpty
  <2>2. PICK f \in Functors : pending' = Append(pending, f) /\ PushedBy(f)
    BY <2>1, PendingStep
  <2>3. f.kind \in kinds
    BY <1>0, <1>2, <2>2, HasAppend
  <2> QED BY <2>2, <2>3
<1> QED BY <1>1, <1>2 DEF Queued

-----------------------------------------------------------------------------
(* The close.                                                              *)

\* What sendInLoop() does to the channel: nothing once the close was handled, and
\* otherwise at most to ask for EPOLLOUT.
LEMMA SendInLoopChannel ==
  ASSUME TypeOK, NEW k \in Nat, sendInLoop(k)
  PROVE  /\ state = "kDisconnected" => UNCHANGED <<connVars, pending>>
         /\ \/ UNCHANGED <<events, registered>>
            \/ events' = events \cup {"write"} /\ registered'
<1>1. CASE GiveUpWriting
  BY <1>1 DEF sendInLoop, connVars
<1>2. CASE ~GiveUpWriting
  <2>1. \/ UNCHANGED <<events, registered>>
        \/ SetEvents(events \cup {"write"})
    BY <1>2 DEF sendInLoop
  <2>2. SetEvents(events \cup {"write"}) => registered'
    <3>1. events \cup {"write"} # {}
      OBVIOUS
    <3> QED BY <3>1 DEF SetEvents
  <2> QED BY <1>2, <2>1, <2>2 DEF GiveUpWriting, SetEvents
<1> QED BY <1>1, <1>2

\* handleWrite() keeps the interest in input, and with it the channel registered.
LEMMA HandleWriteChannel ==
  ASSUME TypeOK, handleWrite
  PROVE  \/ UNCHANGED <<events, registered>>
         \/ /\ events' = events \ {"write"} /\ "write" \in events
            /\ "read" \in events => registered'
<1>1. CASE ~isWriting \/ peerRst
  BY <1>1 DEF handleWrite, connVars
<1>2. CASE isWriting /\ ~peerRst
  <2>1. \/ UNCHANGED <<events, registered>>
        \/ SetEvents(events \ {"write"})
    BY <1>2 DEF handleWrite
  <2>2. SetEvents(events \ {"write"}) => events' = events \ {"write"}
    BY DEF SetEvents
  <2>3. SetEvents(events \ {"write"}) /\ "read" \in events => registered'
    <3>1. "read" \in events => events \ {"write"} # {}
      OBVIOUS
    <3> QED BY <3>1 DEF SetEvents
  <2> QED BY <1>2, <2>1, <2>2, <2>3 DEF isWriting
<1> QED BY <1>1, <1>2

\* Every step keeps CloseInv.
LEMMA StepClose ==
  ASSUME TypeOK, BeginInv, LoopInv, CloseInv, [Next]_vars
  PROVE  CloseInv'
<1> USE DEF CloseInv, LoopInv, InEvents
<1>1. CASE Poll
  <2>1. Revents # {} => registered
    BY DEF Revents
  <2>2. ~overwritten /\ registered => downs = 0
    BY DEF TypeOK
  <2>3. revents' = Revents /\ ioPc' = "event"
        /\ UNCHANGED <<state, events, registered, ups, downs, overwritten>>
    BY <1>1 DEF Poll, connVars, histVars
  <2> QED BY <2>1, <2>2, <2>3
<1>2. CASE LoopEnds
  BY <1>2 DEF LoopEnds, histVars
<1>3. CASE CloseEvent \/ ReadEofEvent
  <2>1. /\ handleClose /\ ioPc = "event"
        /\ revents \cap {"IN", "HUP"} # {}
        /\ revents' \cap {"IN", "HUP"} = {}
        /\ ioPc' = ioPc
    BY <1>3 DEF CloseEvent, ReadEofEvent
  <2>2. ~overwritten => downs = 0 /\ registered
    BY <2>1
  <2>3. /\ state' = "kDisconnected" /\ events' = {} /\ registered' = ~registered
        /\ downs' = downs + 1 /\ downs \in Nat
        /\ UNCHANGED <<ups, overwritten>>
    BY <2>1, HandleCloseType DEF TypeOK
  <2>4. ~overwritten' => downs' = 1 /\ ~registered'
    <3>1. ~overwritten' => registered /\ downs = 0
      BY <2>2, <2>3
    <3>2. registered => ~registered'
      BY <2>3
    <3> QED BY <2>3, <3>1, <3>2
  <2>5. downs' > 0 /\ downs' # 0
    BY <2>3
  <2> QED BY <2>1, <2>3, <2>4, <2>5
<1>4. CASE ReadDataEvent \/ ReadErrorEvent
  BY <1>4 DEF ReadDataEvent, ReadErrorEvent, connVars, histVars
<1>5. CASE WriteEvent
  <2>1. /\ handleWrite /\ revents' = {} /\ revents # {} /\ ioPc = "event"
        /\ UNCHANGED <<ioPc, cbRet, ups, downs, overwritten>>
    BY <1>5 DEF WriteEvent, histVars
  <2>2. state' = state
    BY <2>1, HandleWriteType
  <2> QED BY <2>1, <2>2, HandleWriteChannel
<1>6. CASE Swap \/ EndBatch
  BY <1>6 DEF Swap, EndBatch, connVars, histVars
<1>7. CASE connectEstablished
  <2>1. ups = 0 /\ downs = 0
    <3>1. Running("established")
      BY <1>7 DEF connectEstablished
    <3>2. batch \in Seq(Functors) /\ batch # <<>> /\ Head(batch).kind = "established"
      BY <3>1 DEF Running, TypeOK
    <3>3. Has(batch, {"established"})
      BY <3>2, HasTail
    <3> QED BY <3>3 DEF BeginInv, Queued
  <2>2. /\ state' = "kConnected" /\ "read" \in events' /\ ups' = 1
        /\ ioPc = "run" /\ cbRet' = "run"
        /\ UNCHANGED <<revents, downs, overwritten>>
    BY <1>7, <2>1 DEF connectEstablished, SetEvents, Running
  <2> QED BY <2>1, <2>2
<1>8. CASE RunSendInLoop
  <2>1. Running("sendInLoop") /\ sendInLoop(Head(batch).msg)
        /\ UNCHANGED <<ioPc, cbRet, revents, ups, downs, overwritten>>
    BY <1>8 DEF RunSendInLoop
  <2>2. Head(batch).msg \in Nat /\ ioPc = "run"
    BY <2>1, RunningType
  <2>3. state' = state
    BY <2>1, <2>2, SendInLoopType
  <2> QED BY <2>1, <2>2, <2>3, SendInLoopChannel DEF connVars
<1>9. CASE SendInCallback
  <2>1. sends + 1 \in Nat /\ sendInLoop(sends + 1) /\ state = "kConnected"
        /\ UNCHANGED <<ioPc, cbRet, revents, ups, downs, overwritten>>
    BY <1>9 DEF SendInCallback, TypeOK
  <2>2. state' = state
    BY <2>1, SendInLoopType
  <2> QED BY <2>1, <2>2, SendInLoopChannel
<1>10. CASE RunWriteComplete
  BY <1>10 DEF RunWriteComplete, Running, connVars, histVars
<1>11. CASE connectDestroyed
  <2>1. /\ ~registered' /\ ioPc = "run"
        /\ UNCHANGED <<ioPc, cbRet, revents, ups, overwritten>>
        /\ \/ state = "kConnected" /\ state' = "kDisconnected" /\ events' = {}
              /\ downs' = downs + 1
           \/ UNCHANGED <<state, events, downs>>
    BY <1>11 DEF connectDestroyed, Running
  <2>2. downs \in Nat
    BY DEF TypeOK
  <2> QED BY <2>1, <2>2
<1>12. CASE ShutdownInCallback
  BY <1>12 DEF ShutdownInCallback, loopVars, histVars
<1>13. CASE CallbackReturns
  BY <1>13 DEF CallbackReturns, connVars, histVars
<1>14. ASSUME NEW w \in Workers, ShutdownSet(w) PROVE CloseInv'
  BY <1>14 DEF ShutdownSet, loopVars
<1>15. CASE UNCHANGED <<state, events, registered, downs, ups, overwritten, revents,
                        ioPc, cbRet>>
  BY <1>15
<1>16. CASE UseAfterFree \/ RunShutdownInLoop \/ BaseStep \/ ServerDestructor \/ PeerStep
  BY <1>15, <1>16
  DEF UseAfterFree, RunShutdownInLoop, BaseStep, removeConnectionInLoop, BaseEndBatch,
      QuitIoLoop, BaseLoopDestroyed, ServerDestructor, PeerStep, PeerSends, PeerCloses,
      PeerResets, connVars, loopVars, histVars
<1>17. ASSUME NEW w \in Workers,
              SendCheck(w) \/ SendPush(w) \/ ShutdownCheck(w) \/ ShutdownPush(w) \/ DropRef(w)
       PROVE  CloseInv'
  BY <1>15, <1>17
  DEF SendCheck, SendPush, ShutdownCheck, ShutdownPush, DropRef, connVars, loopVars,
      histVars
<1>18. CASE UNCHANGED vars
  BY <1>15, <1>18 DEF vars, connVars, loopVars, histVars
<1> QED
  BY Steps, <1>1, <1>2, <1>3, <1>4, <1>5, <1>6, <1>7, <1>8, <1>9, <1>10, <1>11, <1>12,
     <1>13, <1>14, <1>16, <1>17, <1>18 DEF WorkerCall

-----------------------------------------------------------------------------
(* The io loop.                                                            *)

\* Every step keeps LoopInv.
LEMMA StepLoop ==
  ASSUME TypeOK, LoopInv, [Next]_vars
  PROVE  LoopInv'
<1> USE DEF LoopInv, InEvents
<1>1. CASE Poll
  BY <1>1 DEF Poll, connVars
<1>2. CASE LoopEnds
  BY <1>2 DEF LoopEnds, serverVars
<1>3. CASE CloseEvent \/ ReadEofEvent
  <2>1. /\ handleClose /\ ioPc = "event"
        /\ UNCHANGED <<ioPc, cbRet, batch, batchRef>>
    BY <1>3 DEF CloseEvent, ReadEofEvent
  <2> QED BY <2>1, HandleCloseType
<1>4. CASE ReadDataEvent \/ ReadErrorEvent
  BY <1>4 DEF ReadDataEvent, ReadErrorEvent, connVars, serverVars
<1>5. CASE WriteEvent
  BY <1>5 DEF WriteEvent, serverVars
<1>6. CASE Swap \/ EndBatch
  BY <1>6 DEF Swap, EndBatch, connVars, serverVars
<1>7. CASE UseAfterFree \/ RunSendInLoop \/ RunShutdownInLoop \/ connectDestroyed
  BY <1>7
  DEF UseAfterFree, RunSendInLoop, RunShutdownInLoop, connectDestroyed, Running,
      serverVars
<1>8. CASE connectEstablished \/ RunWriteComplete
  <2>1. /\ Running("established") \/ Running("writeComplete")
        /\ ioPc' = "callback" /\ cbRet' = "run"
        /\ UNCHANGED <<revents, server, setup>>
    BY <1>8 DEF connectEstablished, RunWriteComplete, serverVars
  <2>2. batchRef' /\ ioPc = "run"
    BY <2>1, RunningType DEF RawFunctors
  <2> QED BY <2>1, <2>2
<1>9. CASE SendInCallback \/ ShutdownInCallback
  BY <1>9 DEF SendInCallback, ShutdownInCallback, loopVars, serverVars
<1>10. CASE CallbackReturns
  <2>1. cbRet \in {"event", "run"}
    BY DEF TypeOK
  <2> QED BY <1>10, <2>1 DEF CallbackReturns, connVars, serverVars
<1>11. CASE removeConnectionInLoop
  BY <1>11 DEF removeConnectionInLoop, connVars
<1>12. CASE ServerDestructor
  BY <1>12 DEF ServerDestructor, connVars
<1>13. CASE QuitIoLoop
  BY <1>13 DEF QuitIoLoop, connVars, loopVars
<1>14. CASE UNCHANGED <<connVars, loopVars, server, setup>>
  BY <1>14 DEF connVars, loopVars
<1>15. CASE BaseEndBatch \/ BaseLoopDestroyed \/ PeerStep
  BY <1>14, <1>15
  DEF BaseEndBatch, BaseLoopDestroyed, PeerStep, PeerSends, PeerCloses, PeerResets,
      serverVars
<1>16. ASSUME NEW w \in Workers, WorkerCall(w) \/ DropRef(w) PROVE LoopInv'
  <2>1. CASE SendPush(w) \/ ShutdownPush(w)
    <3>1. /\ \E f : RunInLoop(f)
          /\ UNCHANGED <<registered, ioPc, cbRet, revents, batch, batchRef, server, setup>>
      BY <2>1 DEF SendPush, ShutdownPush, connVars, serverVars
    <3> QED BY <3>1 DEF RunInLoop
  <2>2. CASE SendCheck(w) \/ ShutdownCheck(w) \/ DropRef(w)
    BY <1>14, <2>2 DEF SendCheck, ShutdownCheck, DropRef, serverVars
  <2>3. CASE ShutdownSet(w)
    BY <2>3 DEF ShutdownSet, loopVars, serverVars
  <2> QED BY <1>16, <2>1, <2>2, <2>3 DEF WorkerCall
<1>17. CASE UNCHANGED vars
  BY <1>14, <1>17 DEF vars, serverVars
<1> QED
  BY Steps, <1>1, <1>2, <1>3, <1>4, <1>5, <1>6, <1>7, <1>8, <1>9, <1>10, <1>11, <1>12,
     <1>13, <1>15, <1>16, <1>17 DEF BaseStep

-----------------------------------------------------------------------------
(* Output and the FIN.                                                     *)

\* What sendInLoop() does to the output: it writes or keeps all of what it accepts,
\* and leaves bytes behind only together with the interest in EPOLLOUT.
LEMMA SendInLoopOutput ==
  ASSUME TypeOK, NEW k \in Nat, sendInLoop(k)
  PROVE  /\ StreamPreserved => wire' \o outbuf' = accepted'
         /\ (isWriting <=> outbuf # <<>>) => ("write" \in events' <=> outbuf' # <<>>)
         /\ finSent /\ outbuf = <<>> /\ ~isWriting => outbuf' = <<>>
<1>1. CASE GiveUpWriting
  BY <1>1 DEF sendInLoop, connVars, StreamPreserved, isWriting
<1>2. CASE ~GiveUpWriting
  <2> DEFINE msg == <<k, k>>
             fault == WritesDirectly /\ (finSent \/ peerRst)
  <2>1. PICK n \in 0 .. 2 :
          /\ (~WritesDirectly \/ fault) => n = 0
          /\ wire' = wire \o SubSeq(msg, 1, n)
          /\ accepted' = IF fault THEN accepted ELSE accepted \o msg
          /\ IF fault \/ n = 2
             THEN UNCHANGED <<outbuf, events, registered>>
             ELSE /\ outbuf' = outbuf \o SubSeq(msg, n + 1, 2)
                  /\ IF isWriting THEN UNCHANGED <<events, registered>>
                     ELSE SetEvents(events \cup {"write"})
    BY <1>2 DEF sendInLoop
  <2> DEFINE front == SubSeq(msg, 1, n)
             rest == SubSeq(msg, n + 1, 2)
  <2>2. /\ msg \in Seq(Nat) /\ front \in Seq(Nat) /\ rest \in Seq(Nat)
        /\ front \o rest = msg
        /\ n = 0 => front = <<>> /\ rest = msg
        /\ n = 2 => front = msg
        /\ n < 2 => rest # <<>>
    BY MessagePieces
  <2>3. /\ outbuf \in Seq(Nat) /\ wire \in Seq(Nat) /\ accepted \in Seq(Nat)
    BY DEF TypeOK
  <2>4. /\ (~WritesDirectly \/ fault) => n = 0
        /\ wire' = wire \o front
        /\ fault => accepted' = accepted
        /\ ~fault => accepted' = accepted \o msg
        /\ fault \/ n = 2 => UNCHANGED <<outbuf, events>>
        /\ ~fault /\ n # 2 => outbuf' = outbuf \o rest /\ "write" \in events'
    BY <2>1 DEF SetEvents, isWriting
  <2>5. WritesDirectly => ~isWriting /\ outbuf = <<>>
    BY DEF WritesDirectly
  <2>6. fault => WritesDirectly
    OBVIOUS
  <2>7. finSent /\ WritesDirectly => fault
    OBVIOUS
  <2> HIDE DEF msg, fault, front, rest
  <2>8. CASE fault
    <3>1. wire' = wire \o <<>> /\ UNCHANGED <<accepted, outbuf, events>>
      BY <2>2, <2>4, <2>8
    <3>2. wire' = wire
      BY <2>3, <3>1, ConcatEmptySeq
    <3> QED BY <3>1, <3>2 DEF StreamPreserved, isWriting
  <2>9. CASE ~fault /\ n = 2
    <3>1. WritesDirectly
      BY <2>4, <2>9
    <3>2. wire' = wire \o msg /\ accepted' = accepted \o msg /\ UNCHANGED <<outbuf, events>>
      BY <2>2, <2>4, <2>9
    <3>3. StreamPreserved => wire = accepted
      <4>1. wire \o outbuf = wire
        BY <2>3, <2>5, <3>1, ConcatEmptySeq
      <4> QED BY <4>1 DEF StreamPreserved
    <3>4. (wire \o msg) \o <<>> = wire \o msg
      BY <2>2, <2>3, ConcatProperties, ConcatEmptySeq
    <3> QED BY <2>5, <3>1, <3>2, <3>3, <3>4 DEF isWriting
  <2>10. CASE ~fault /\ n # 2
    <3>1. outbuf' = outbuf \o rest /\ "write" \in events' /\ wire' = wire \o front
          /\ accepted' = accepted \o msg /\ rest # <<>>
      <4>1. n < 2
        BY <2>10
      <4> QED BY <2>2, <2>4, <2>10, <4>1
    <3>2. outbuf' # <<>>
      BY <2>2, <2>3, <3>1, ConcatEqualIffEmpty
    <3>3. finSent => ~WritesDirectly
      BY <2>7, <2>10
    <3>4. wire' \o outbuf' = (wire \o outbuf) \o msg
      <4>1. CASE outbuf = <<>>
        <5>1. outbuf' = rest /\ wire \o outbuf = wire
          BY <2>2, <2>3, <3>1, <4>1, ConcatEmptySeq
        <5>2. front \in Seq(Nat) /\ rest \in Seq(Nat)
          BY <2>2
        <5>3. (wire \o front) \o rest = wire \o (front \o rest)
          BY <2>3, <5>2, BytesAssociative
        <5> QED BY <2>2, <3>1, <5>1, <5>3
      <4>2. CASE outbuf # <<>>
        <5>1. front = <<>> /\ rest = msg
          BY <2>2, <2>4, <2>5, <4>2
        <5>2. wire' = wire
          BY <2>3, <3>1, <5>1, ConcatEmptySeq
        <5>3. (wire \o outbuf) \o msg = wire \o (outbuf \o msg)
          BY <2>2, <2>3, BytesAssociative
        <5> QED BY <3>1, <5>1, <5>2, <5>3
      <4> QED BY <4>1, <4>2
    <3> QED BY <3>1, <3>2, <3>3, <3>4 DEF StreamPreserved, WritesDirectly
  <2> QED BY <2>8, <2>9, <2>10
<1> QED BY <1>1, <1>2

\* What handleWrite() does to the output.
LEMMA HandleWriteOutput ==
  ASSUME TypeOK, handleWrite
  PROVE  /\ StreamPreserved => wire' \o outbuf' = accepted'
         /\ (isWriting <=> outbuf # <<>>) => ("write" \in events' <=> outbuf' # <<>>)
         /\ outbuf = <<>> => outbuf' = <<>>
         /\ finSent' => finSent \/ (state = "kDisconnecting" /\ outbuf' = <<>>)
<1>1. CASE ~isWriting \/ peerRst
  BY <1>1 DEF handleWrite, connVars, StreamPreserved, isWriting
<1>2. CASE isWriting /\ ~peerRst
  <2>1. PICK n \in 1 .. Len(outbuf) :
          /\ wire' = wire \o SubSeq(outbuf, 1, n)
          /\ outbuf' = SubSeq(outbuf, n + 1, Len(outbuf))
          /\ IF Drained(n)
             THEN /\ SetEvents(events \ {"write"})
                  /\ finSent' = (finSent \/ state = "kDisconnecting")
             ELSE UNCHANGED <<events, registered, pending, finSent>>
          /\ accepted' = accepted
    BY <1>2 DEF handleWrite
  <2>2. outbuf \in Seq(Nat) /\ wire \in Seq(Nat) /\ Len(outbuf) \in Nat
    BY DEF TypeOK
  <2> DEFINE front == SubSeq(outbuf, 1, n)
             rest == SubSeq(outbuf, n + 1, Len(outbuf))
  <2>3. front \o rest = outbuf
    <3>1. 1 \in 1 .. Len(outbuf) + 1 /\ n \in 1 - 1 .. Len(outbuf)
          /\ Len(outbuf) \in n .. Len(outbuf)
      BY <2>2
    <3>2. front \o rest = SubSeq(outbuf, 1, Len(outbuf))
      BY <2>2, <3>1, ConcatAdjacentSubSeq
    <3> QED BY <2>2, <3>2, SubSeqFull
  <2>4. front \in Seq(Nat) /\ rest \in Seq(Nat)
    BY <2>2
  <2>5. Drained(n) => rest = <<>>
    BY <2>2, SubSeqEmpty DEF Drained
  <2>6. ~Drained(n) => rest # <<>>
    <3>1. ~Drained(n) => Len(rest) # 0
      BY <2>2 DEF Drained
    <3> QED BY <3>1, EmptySeq
  <2>7. outbuf # <<>>
    BY <2>2
  <2>8. (wire \o front) \o rest = wire \o (front \o rest)
    BY <2>2, <2>4, BytesAssociative
  <2>9. Drained(n) => "write" \notin events'
    BY <2>1 DEF SetEvents
  <2>10. ~Drained(n) => events' = events /\ finSent' = finSent
    BY <2>1
  <2>11. wire' \o outbuf' = wire \o outbuf /\ accepted' = accepted /\ outbuf' = rest
    BY <2>1, <2>3, <2>8
  <2> HIDE DEF front, rest
  <2>12. finSent' => finSent \/ (state = "kDisconnecting" /\ Drained(n))
    BY <2>1, <2>10
  <2> QED BY <1>2, <2>5, <2>6, <2>7, <2>9, <2>10, <2>11, <2>12 DEF StreamPreserved, isWriting
<1> QED BY <1>1, <1>2

\* Every step keeps ShutInv.
LEMMA StepShut ==
  ASSUME TypeOK, BeginInv, ShutInv, [Next]_vars
  PROVE  ShutInv'
<1> DEFINE Shut == finSent \/ Queued({"shutdownInLoop"})
                     \/ (\E w \in Workers : wpc[w] = "shutSet")
           Queue == Queued({"shutdownInLoop"})
\* It is enough that the state does not go back and that nothing begins to shut down.
<1>0. ASSUME Shut' => Shut, state # "kConnected" => state' # "kConnected",
             ups = 1 => ups' = 1
      PROVE  ShutInv'
  BY <1>0 DEF ShutInv
<1>1. Queue' => Queue \/ \E w \in Workers : ShutdownPush(w)
  <2> SUFFICES ASSUME Queue', ~Queue PROVE \E w \in Workers : ShutdownPush(w)
    OBVIOUS
  <2>1. PICK f \in Functors : f.kind \in {"shutdownInLoop"} /\ PushedBy(f)
    BY QueueStep
  <2> QED BY <2>1 DEF PushedBy
<1>2. ups = 0 => ~Shut
  <2>1. {"shutdownInLoop"} \subseteq FunctorKinds \ {"established", "destroyed"}
    BY DEF FunctorKinds
  <2>2. Queue => Queued(FunctorKinds \ {"established", "destroyed"})
    BY <2>1, HasMonotone DEF Queued
  <2> QED BY <2>2 DEF BeginInv
<1> HIDE DEF Queue
<1>3. CASE connectEstablished
  <2>1. ups = 0
    <3>1. batch \in Seq(Functors) /\ batch # <<>> /\ Head(batch).kind = "established"
      BY <1>3 DEF connectEstablished, Running, TypeOK
    <3>2. Has(batch, {"established"})
      BY <3>1, HasTail
    <3> QED BY <3>2 DEF BeginInv, Queued
  <2>2. UNCHANGED <<finSent, wpc, pending>> /\ ioPc = "run"
    BY <1>3 DEF connectEstablished, Running
  <2>3. ~Queue'
    <3>1. \A w \in Workers : ~ShutdownPush(w)
      <4>1. ioPc' = "callback"
        BY <1>3 DEF connectEstablished
      <4> QED BY <2>2, <4>1 DEF ShutdownPush
    <3> QED BY <1>1, <1>2, <2>1, <3>1 DEF Queue
  <2>4. ~Shut'
    BY <1>2, <2>1, <2>2, <2>3 DEF Queue
  <2> QED BY <2>4 DEF ShutInv
<1>4. CASE CloseEvent \/ ReadEofEvent
  <2>1. handleClose /\ UNCHANGED <<ioPc, batch, wpc>> /\ revents' # revents
    BY <1>4 DEF CloseEvent, ReadEofEvent, workerVars
  <2>2. state' = "kDisconnected" /\ UNCHANGED <<finSent, ups>>
    BY <2>1, HandleCloseType
  <2>3. \A w \in Workers : ~ShutdownPush(w)
    BY <2>1 DEF ShutdownPush
  <2> QED BY <1>0, <1>1, <2>1, <2>2, <2>3 DEF Queue
<1>5. CASE WriteEvent
  <2>1. handleWrite /\ UNCHANGED <<wpc, ups>> /\ revents' # revents
    BY <1>5 DEF WriteEvent, workerVars, histVars
  <2>2. state' = state
    BY <2>1, HandleWriteType
  <2>3. finSent' => finSent \/ state = "kDisconnecting"
    BY <2>1, HandleWriteOutput
  <2>4. state = "kDisconnecting" => ups = 1
    BY DEF BeginInv
  <2>5. \A w \in Workers : ~ShutdownPush(w)
    BY <2>1 DEF ShutdownPush
  <2> QED BY <1>1, <2>1, <2>2, <2>3, <2>4, <2>5 DEF ShutInv, Queue
<1>6. CASE RunShutdownInLoop
  <2>1. UNCHANGED <<state, ups>>
    BY <1>6 DEF RunShutdownInLoop, histVars
  <2>2. Queue
    <3>1. batch \in Seq(Functors) /\ batch # <<>> /\ Head(batch).kind = "shutdownInLoop"
      BY <1>6 DEF RunShutdownInLoop, Running, TypeOK
    <3>2. Has(batch, {"shutdownInLoop"})
      BY <3>1, HasTail
    <3> QED BY <3>2 DEF Queue, Queued
  <2> QED BY <2>1, <2>2 DEF ShutInv, Queue
<1>7. CASE ShutdownInCallback
  <2>1. state' = "kDisconnecting" /\ ups' = ups /\ ioPc = "callback"
    BY <1>7 DEF ShutdownInCallback, histVars
  <2>2. ups = 1
    BY <2>1 DEF BeginInv
  <2> QED BY <2>1, <2>2 DEF ShutInv
<1>8. ASSUME NEW w \in Workers, ShutdownSet(w) PROVE ShutInv'
  <2>1. state' = "kDisconnecting" /\ ups' = ups /\ wref[w]
    BY <1>8 DEF ShutdownSet, WorkerStep
  <2>2. ups = 1
    BY <2>1 DEF BeginInv
  <2> QED BY <2>1, <2>2 DEF ShutInv
<1>9. ASSUME NEW w \in Workers, ShutdownPush(w) PROVE ShutInv'
  <2>1. Shut /\ UNCHANGED <<state, ups>>
    BY <1>9 DEF ShutdownPush, WorkerStep, connVars
  <2> QED BY <2>1 DEF ShutInv
<1>10. ASSUME UNCHANGED <<finSent, ups>>, state # "kConnected" => state' # "kConnected",
              \A w \in Workers : wpc'[w] = "shutSet" => wpc[w] = "shutSet"
       PROVE  ShutInv'
  <2>1. CASE \E w \in Workers : ShutdownPush(w)
    BY <1>9, <2>1
  <2>2. CASE ~\E w \in Workers : ShutdownPush(w)
    BY <1>0, <1>1, <1>10, <2>2 DEF Queue
  <2> QED BY <2>1, <2>2
<1>11. CASE RunSendInLoop \/ SendInCallback
  <2>1. PICK k \in Nat : sendInLoop(k)
    <3>1. CASE RunSendInLoop
      BY <3>1, RunningType DEF RunSendInLoop
    <3>2. CASE SendInCallback
      BY <3>2 DEF SendInCallback, TypeOK
    <3> QED BY <1>11, <3>1, <3>2
  <2>2. UNCHANGED <<state, finSent>>
    BY <2>1, SendInLoopType
  <2>3. UNCHANGED <<ups, wpc>>
    BY <1>11 DEF RunSendInLoop, SendInCallback, workerVars
  <2> QED BY <1>10, <2>2, <2>3
<1>12. CASE Poll \/ LoopEnds \/ ReadDataEvent \/ ReadErrorEvent \/ Swap \/ EndBatch \/ UseAfterFree
             \/ RunWriteComplete \/ CallbackReturns
  BY <1>10, <1>12
  DEF Poll, LoopEnds, ReadDataEvent, ReadErrorEvent, Swap, EndBatch, UseAfterFree, RunWriteComplete,
      CallbackReturns, connVars, workerVars, histVars
<1>13. CASE connectDestroyed
  BY <1>10, <1>13 DEF connectDestroyed, workerVars
<1>14. CASE BaseStep \/ ServerDestructor \/ PeerStep
  BY <1>10, <1>14
  DEF BaseStep, removeConnectionInLoop, BaseEndBatch, QuitIoLoop, BaseLoopDestroyed,
      ServerDestructor, PeerStep, PeerSends, PeerCloses, PeerResets, connVars, workerVars,
      histVars
<1>15. ASSUME NEW w \in Workers, SendCheck(w) \/ SendPush(w) \/ ShutdownCheck(w) \/ DropRef(w)
       PROVE  ShutInv'
  <2>1. UNCHANGED <<finSent, ups, state>>
    BY <1>15 DEF SendCheck, SendPush, ShutdownCheck, DropRef, connVars, histVars
  <2>2. \A v \in Workers : wpc'[v] = "shutSet" => wpc[v] = "shutSet"
    BY <1>15
    DEF SendCheck, SendPush, ShutdownCheck, DropRef, WorkerStep, TypeOK
  <2> QED BY <1>10, <2>1, <2>2
<1>16. CASE UNCHANGED vars
  BY <1>10, <1>16 DEF vars, connVars, workerVars, histVars
<1> QED
  BY Steps, <1>3, <1>4, <1>5, <1>6, <1>7, <1>8, <1>9, <1>11, <1>12, <1>13, <1>14, <1>15,
     <1>16 DEF WorkerCall

\* Every step keeps OutputInv.
LEMMA StepOutput ==
  ASSUME TypeOK, OutputInv, ShutInv', [Next]_vars
  PROVE  OutputInv'
<1> DEFINE Fin == finSent /\ downs = 0 => outbuf = <<>>
<1>0. ASSUME StreamPreserved', WritingIffOutput', Fin' PROVE OutputInv'
  BY <1>0 DEF OutputInv, FlushBeforeFin, ShutInv
<1>1. StreamPreserved /\ WritingIffOutput /\ Fin
  BY DEF OutputInv, FlushBeforeFin
<1>2. downs \in Nat
  BY DEF TypeOK
<1>3. CASE CloseEvent \/ ReadEofEvent
  <2>1. downs' = downs + 1 /\ UNCHANGED <<outbuf, wire, accepted>>
    BY <1>3, HandleCloseType DEF CloseEvent, ReadEofEvent
  <2>2. downs' # 0
    BY <1>2, <2>1
  <2> QED BY <1>0, <1>1, <2>1, <2>2 DEF StreamPreserved, WritingIffOutput
<1>4. CASE WriteEvent
  <2>1. handleWrite /\ downs' = downs
    BY <1>4 DEF WriteEvent, histVars
  <2> QED BY <1>0, <1>1, <2>1, HandleWriteOutput
          DEF StreamPreserved, WritingIffOutput, isWriting
<1>5. CASE RunSendInLoop \/ SendInCallback
  <2>1. PICK k \in Nat : sendInLoop(k)
    <3>1. CASE RunSendInLoop
      BY <3>1, RunningType DEF RunSendInLoop
    <3>2. CASE SendInCallback
      BY <3>2 DEF SendInCallback, TypeOK
    <3> QED BY <1>5, <3>1, <3>2
  <2>2. downs' = downs
    BY <1>5 DEF RunSendInLoop, SendInCallback
  <2>3. finSent' = finSent
    BY <2>1, SendInLoopType
  <2>4. /\ StreamPreserved'
        /\ (isWriting <=> outbuf # <<>>) => (isWriting <=> outbuf # <<>>)'
        /\ finSent /\ outbuf = <<>> /\ ~isWriting => outbuf' = <<>>
    BY <1>1, <2>1, SendInLoopOutput DEF StreamPreserved, isWriting
  <2> QED BY <1>0, <1>1, <2>2, <2>3, <2>4 DEF WritingIffOutput
<1>6. CASE RunShutdownInLoop
  <2>1. UNCHANGED <<wire, outbuf, accepted, events, downs>> /\ finSent' = (finSent \/ FinNow)
    BY <1>6 DEF RunShutdownInLoop, histVars
  <2> QED BY <1>0, <1>1, <2>1 DEF FinNow, StreamPreserved, WritingIffOutput, isWriting
<1>7. CASE ShutdownInCallback
  <2>1. UNCHANGED <<wire, outbuf, accepted, events, downs>> /\ finSent' = (finSent \/ FinNow)
    BY <1>7 DEF ShutdownInCallback, histVars
  <2> QED BY <1>0, <1>1, <2>1 DEF FinNow, StreamPreserved, WritingIffOutput, isWriting
<1>8. CASE connectEstablished
  <2>1. UNCHANGED <<wire, outbuf, accepted, downs, finSent>>
        /\ events' = events \cup {"read"}
    BY <1>8 DEF connectEstablished, SetEvents
  <2> QED BY <1>0, <1>1, <2>1 DEF StreamPreserved, WritingIffOutput, isWriting
<1>9. CASE connectDestroyed
  <2>1. UNCHANGED <<wire, outbuf, accepted, finSent>>
        /\ (downs' = downs + 1 \/ UNCHANGED <<events, downs>>)
    BY <1>9 DEF connectDestroyed
  <2>2. downs + 1 # 0
    BY <1>2
  <2> QED BY <1>0, <1>1, <2>1, <2>2 DEF StreamPreserved, WritingIffOutput, isWriting
<1>10. CASE UNCHANGED <<wire, outbuf, accepted, events, downs, finSent>>
  BY <1>0, <1>1, <1>10 DEF StreamPreserved, WritingIffOutput, isWriting
<1>11. CASE Poll \/ LoopEnds \/ ReadDataEvent \/ ReadErrorEvent \/ Swap \/ EndBatch \/ UseAfterFree
             \/ RunWriteComplete \/ CallbackReturns
  BY <1>10, <1>11
  DEF Poll, LoopEnds, ReadDataEvent, ReadErrorEvent, Swap, EndBatch, UseAfterFree, RunWriteComplete,
      CallbackReturns, connVars, histVars
<1>12. CASE BaseStep \/ ServerDestructor \/ PeerStep
  BY <1>10, <1>12
  DEF BaseStep, removeConnectionInLoop, BaseEndBatch, QuitIoLoop, BaseLoopDestroyed,
      ServerDestructor, PeerStep, PeerSends, PeerCloses, PeerResets, connVars, histVars
<1>13. ASSUME NEW w \in Workers, WorkerCall(w) \/ DropRef(w) PROVE OutputInv'
  BY <1>10, <1>13
  DEF WorkerCall, SendCheck, SendPush, ShutdownCheck, ShutdownSet, ShutdownPush, DropRef,
      connVars, histVars
<1>14. CASE UNCHANGED vars
  BY <1>10, <1>14 DEF vars, connVars, histVars
<1> QED
  BY Steps, <1>3, <1>4, <1>5, <1>6, <1>7, <1>8, <1>9, <1>11, <1>12, <1>13, <1>14

-----------------------------------------------------------------------------
(* How the connection begins.                                              *)

\* connectEstablished() runs when it was not run before, and there is no other one.
LEMMA EstablishedFirst ==
  ASSUME TypeOK, BeginInv, connectEstablished
  PROVE  /\ ups = 0
         /\ ~Has(Tail(batch), {"established"}) /\ ~Has(pending, {"established"})
<1>1. batch \in Seq(Functors) /\ batch # <<>> /\ Head(batch).kind = "established"
  BY DEF connectEstablished, Running, TypeOK
<1>2. Has(batch, {"established"})
  BY <1>1, HasTail
<1> QED BY <1>1, <1>2 DEF BeginInv, Queued

\* Before connectEstablished() runs only a few steps are possible.
LEMMA EarlySteps ==
  ASSUME TypeOK, BeginInv, ups = 0, [Next]_vars
  PROVE  \/ Poll \/ LoopEnds \/ Swap \/ EndBatch \/ connectEstablished
         \/ ServerDestructor \/ QuitIoLoop \/ PeerStep \/ UNCHANGED vars
<1>1. /\ revents = {} /\ ioPc # "callback" /\ basePending = 0 /\ ~baseRef
      /\ \A w \in Workers : ~wref[w] /\ wpc[w] = "idle"
      /\ batch # <<>> => Head(batch).kind = "established"
  BY DEF BeginInv
<1>2. ~(CloseEvent \/ ReadDataEvent \/ ReadErrorEvent \/ ReadEofEvent \/ WriteEvent)
  BY <1>1 DEF CloseEvent, ReadDataEvent, ReadErrorEvent, ReadEofEvent, WriteEvent
<1>3. \A kind : Running(kind) => kind = "established"
  BY <1>1 DEF Running
<1>4. ~(UseAfterFree \/ RunSendInLoop \/ RunShutdownInLoop \/ RunWriteComplete
        \/ connectDestroyed)
  BY <1>3 DEF UseAfterFree, RunSendInLoop, RunShutdownInLoop, RunWriteComplete,
              connectDestroyed
<1>5. ~(SendInCallback \/ ShutdownInCallback \/ CallbackReturns)
  BY <1>1 DEF SendInCallback, ShutdownInCallback, CallbackReturns
<1>6. ~(removeConnectionInLoop \/ BaseEndBatch \/ BaseLoopDestroyed)
  BY <1>1 DEF removeConnectionInLoop, BaseEndBatch, BaseLoopDestroyed
<1>7. ASSUME NEW w \in Workers PROVE ~(WorkerCall(w) \/ DropRef(w))
  BY <1>1 DEF WorkerCall, SendCheck, SendPush, ShutdownCheck, ShutdownSet, ShutdownPush,
              DropRef, WorkerStep
<1> QED BY Steps, <1>2, <1>4, <1>5, <1>6, <1>7 DEF BaseStep

\* Every step keeps BeginInv.
LEMMA StepBegin ==
  ASSUME TypeOK, BeginInv, LoopInv, OwnerInv, [Next]_vars
  PROVE  BeginInv'
<1> DEFINE Others == FunctorKinds \ {"established", "destroyed"}
<1>0. batch \in Seq(Functors) /\ pending \in Seq(Functors)
  BY DEF TypeOK
<1>1. CASE ups = 1
  <2>1. ~Queued({"established"})
    BY <1>1 DEF BeginInv
  <2>2. ~Queued({"established"})'
    <3>1. \A f \in Functors : PushedBy(f) => f.kind # "established"
      BY DEF PushedBy
    <3> QED BY <2>1, <3>1, QueueStep
  <2>3. ~connectEstablished
    BY <1>1, EstablishedFirst
  <2>4. ups' = ups
    <3>1. CASE CloseEvent \/ ReadEofEvent
      BY <3>1, HandleCloseType DEF CloseEvent, ReadEofEvent
    <3>2. CASE Poll \/ LoopEnds \/ ReadDataEvent \/ ReadErrorEvent \/ WriteEvent \/ Swap \/ EndBatch
                 \/ UseAfterFree \/ RunSendInLoop \/ RunShutdownInLoop \/ RunWriteComplete
                 \/ connectDestroyed \/ SendInCallback \/ ShutdownInCallback \/ CallbackReturns
      BY <3>2
      DEF Poll, LoopEnds, ReadDataEvent, ReadErrorEvent, WriteEvent, Swap, EndBatch, UseAfterFree,
          RunSendInLoop, RunShutdownInLoop, RunWriteComplete, connectDestroyed,
          SendInCallback, ShutdownInCallback, CallbackReturns, histVars
    <3>3. CASE BaseStep \/ ServerDestructor \/ PeerStep
      BY <3>3
      DEF BaseStep, removeConnectionInLoop, BaseEndBatch, QuitIoLoop, BaseLoopDestroyed,
          ServerDestructor, PeerStep, PeerSends, PeerCloses, PeerResets, histVars
    <3>4. ASSUME NEW w \in Workers, WorkerCall(w) \/ DropRef(w) PROVE ups' = ups
      BY <3>4
      DEF WorkerCall, SendCheck, SendPush, ShutdownCheck, ShutdownSet, ShutdownPush,
          DropRef, histVars
    <3>5. CASE UNCHANGED vars
      BY <3>5 DEF vars, histVars
    <3> QED BY Steps, <2>3, <3>1, <3>2, <3>3, <3>4, <3>5
  <2> QED BY <1>1, <2>2, <2>4 DEF BeginInv
<1>2. CASE connectEstablished
  <2>1. ups' = 1
    BY <1>2, EstablishedFirst DEF connectEstablished
  <2>2. batch' = Tail(batch) /\ pending' = pending
    BY <1>2 DEF connectEstablished, Running
  <2> QED BY <1>2, <2>1, <2>2, EstablishedFirst DEF BeginInv, Queued
<1>3. CASE ups = 0 /\ ~connectEstablished
  <2>0. \/ Poll \/ LoopEnds \/ Swap \/ EndBatch
        \/ ServerDestructor \/ QuitIoLoop \/ PeerStep \/ UNCHANGED vars
    BY <1>3, EarlySteps
  <2> HIDE DEF Others
  <2>1. /\ state = "kConnecting" /\ events = {} /\ ~registered /\ outbuf = <<>>
        /\ ~finSent /\ downs = 0 /\ ~overwritten /\ revents = {} /\ ioPc # "callback"
        /\ ~batchRef /\ basePending = 0 /\ ~baseRef
        /\ \A w \in Workers : ~wref[w] /\ wpc[w] = "idle"
    BY <1>3 DEF BeginInv
  <2>2. /\ UNCHANGED <<state, events, outbuf, finSent, downs, overwritten, ups, wref, wpc,
                       basePending, baseRef>>
        /\ ~registered' /\ revents' = {} /\ ioPc' # "callback" /\ ~batchRef'
    <3>1. Revents = {}
      BY <2>1 DEF Revents
    <3> QED BY <2>0, <2>1, <3>1
        DEF Poll, LoopEnds, Swap, EndBatch, ServerDestructor, QuitIoLoop, PeerStep,
            PeerSends, PeerCloses, PeerResets, vars, connVars, loopVars, serverVars,
            workerVars, histVars
  <2> DEFINE First(q) == Head(q).kind = "established" /\ ~Has(Tail(q), {"established"})
             Rest == /\ ~Queued(Others)
                     /\ batch # <<>> => First(batch) /\ ~Has(pending, {"established"})
                     /\ batch = <<>> /\ pending # <<>> => First(pending)
                     /\ ioPc # "ended" => batch # <<>> \/ pending # <<>>
                     /\ ioPc # "ended" /\ server # "alive" => Queued({"destroyed"})
  <2>3. Rest
    BY <1>3 DEF BeginInv, Others
  <2>4. ASSUME Rest' PROVE BeginInv'
    BY <1>3, <2>1, <2>2, <2>4 DEF BeginInv, Others
  <2>5. CASE Poll \/ QuitIoLoop \/ PeerStep \/ UNCHANGED vars
    <3>1. UNCHANGED <<batch, pending>>
      BY <2>5 DEF Poll, QuitIoLoop, PeerStep, PeerSends, PeerCloses, PeerResets, vars,
                  loopVars
    <3>2. server' # "alive" => server # "alive"
      BY <2>5 DEF Poll, QuitIoLoop, PeerStep, PeerSends, PeerCloses, PeerResets, vars,
                  serverVars
    <3>3. ioPc' # "ended" => ioPc # "ended"
      BY <2>5 DEF Poll, QuitIoLoop, PeerStep, PeerSends, PeerCloses, PeerResets, vars,
                  loopVars
    <3> QED BY <2>3, <2>4, <3>1, <3>2, <3>3 DEF Queued
  <2>6. CASE LoopEnds
    <3>1. batch = <<>> /\ batch' = <<>> /\ pending' = <<>> /\ ioPc' = "ended"
      BY <2>6 DEF LoopEnds, LoopInv
    <3> QED BY <2>4, <3>1, HasEmpty DEF Queued
  <2>7. CASE Swap
    <3>1. batch = <<>> /\ batch' = pending /\ pending' = <<>> /\ server' = server
          /\ ioPc # "ended"
      BY <2>7 DEF Swap, LoopInv, InEvents, serverVars
    <3> QED BY <2>3, <2>4, <3>1, HasEmpty DEF Queued
  <2>8. CASE EndBatch
    <3>1. UNCHANGED <<batch, pending, server>> /\ ioPc # "ended"
      BY <2>8 DEF EndBatch, serverVars
    <3> QED BY <2>3, <2>4, <3>1 DEF Queued
  <2>9. CASE ServerDestructor
    <3> DEFINE f == Functor("destroyed")
    <3>1. f \in Functors /\ f.kind = "destroyed"
      BY FunctorsAre DEF FunctorKinds
    <3> HIDE DEF f
    <3>2. pending' = Append(pending, f) /\ UNCHANGED <<batch, ioPc>>
      BY <2>1, <2>9 DEF ServerDestructor, OwnerInv, f
    <3>3. ioPc # "ended"
      BY <2>9 DEF ServerDestructor, LoopInv
    <3>4. Has(pending', {"destroyed"})
      BY <1>0, <3>1, <3>2, HasAppend
    <3>5. Has(pending', {"established"}) => Has(pending, {"established"})
      BY <1>0, <3>1, <3>2, HasAppend
    <3>6. Has(pending', Others) => Has(pending, Others)
      BY <1>0, <3>1, <3>2, HasAppend DEF Others
    <3>7. pending # <<>> => /\ Head(pending') = Head(pending)
                            /\ Tail(pending') = Append(Tail(pending), f)
      BY <1>0, <3>1, <3>2, AppendHead
    <3>8. pending # <<>> /\ Has(Tail(pending'), {"established"})
            => Has(Tail(pending), {"established"})
      <4>1. pending # <<>> => Tail(pending) \in Seq(Functors)
        BY <1>0, HasTail
      <4> QED BY <3>1, <3>7, <4>1, HasAppend
    <3> QED BY <2>3, <2>4, <3>2, <3>3, <3>4, <3>5, <3>6, <3>7, <3>8 DEF Queued
  <2> QED BY <2>0, <2>5, <2>6, <2>7, <2>8, <2>9
<1> QED BY <1>1, <1>2, <1>3 DEF BeginInv

-----------------------------------------------------------------------------
(* Who owns the connection.                                                *)

\* handleClose() hands the connection to the base loop, or queues connectDestroyed().
LEMMA HandleCloseOwner ==
  ASSUME TypeOK, handleClose
  PROVE  /\ basePending' > 0 \/ Has(pending', {"destroyed"})
         /\ setup.loops # "base" => pending' = pending
<1>1. CASE setup.loops = "base"
  <2>1. pending' = Append(pending, Functor("destroyed"))
    BY <1>1 DEF handleClose, removeConnection
  <2>2. Functor("destroyed") \in Functors /\ Functor("destroyed").kind = "destroyed"
    BY FunctorsAre DEF FunctorKinds
  <2>3. pending \in Seq(Functors)
    BY DEF TypeOK
  <2> QED BY <1>1, <2>1, <2>2, <2>3, HasAppend
<1>2. CASE setup.loops # "base"
  BY <1>2 DEF handleClose, removeConnection, TypeOK
<1> QED BY <1>1, <1>2

\* Every step keeps OwnerInv.
LEMMA StepOwner ==
  ASSUME TypeOK, LoopInv, CloseInv, OwnerInv, [Next]_vars
  PROVE  OwnerInv'
<1>0. downs \in Nat /\ pending \in Seq(Functors) /\ basePending \in Nat
  BY DEF TypeOK
\* Pushing to pendingFunctors_ takes nothing away.
<1>1. ASSUME pending' # <<>> \/ pending' = pending, Has(pending, {"destroyed"})
      PROVE  Has(pending', {"destroyed"})
  <2>1. \/ pending' = pending
        \/ \E f \in Functors : pending' = Append(pending, f)
    BY <1>1, PendingStep
  <2> QED BY <1>0, <1>1, <2>1, HasAppend
<1>2. CASE CloseEvent \/ ReadEofEvent
  <2>1. handleClose
    BY <1>2 DEF CloseEvent, ReadEofEvent
  <2>2. downs' > 0 /\ downs' # 0
    BY <1>0, <2>1, HandleCloseType
  <2> QED BY <2>1, <2>2, HandleCloseOwner DEF OwnerInv
<1>3. CASE removeConnectionInLoop
  <2>1. /\ basePending > 0 /\ UNCHANGED downs
        /\ pending' = Append(pending, Functor("destroyed"))
    BY <1>3 DEF removeConnectionInLoop, histVars
  <2>2. Functor("destroyed") \in Functors /\ Functor("destroyed").kind = "destroyed"
    BY FunctorsAre DEF FunctorKinds
  <2>3. Has(pending', {"destroyed"})
    BY <1>0, <2>1, <2>2, HasAppend
  <2> QED BY <1>0, <2>1, <2>3 DEF OwnerInv
<1>4. CASE ServerDestructor
  <2>1. /\ server' = "body" /\ UNCHANGED <<basePending, baseRef, downs, overwritten, revents>>
        /\ pending' # <<>> \/ pending' = pending
    <3>1. pending' = pending \/ pending' = Append(pending, Functor("destroyed"))
      BY <1>4 DEF ServerDestructor
    <3>2. Functor("destroyed") \in Functors
      BY FunctorsAre DEF FunctorKinds
    <3>3. Append(pending, Functor("destroyed")) # <<>>
      BY <1>0, <3>2, AppendHead
    <3> QED BY <1>4, <3>1, <3>3 DEF ServerDestructor, histVars
  <2> QED BY <1>1, <2>1 DEF OwnerInv
<1>5. CASE BaseEndBatch \/ QuitIoLoop \/ PeerStep \/ UNCHANGED vars
  BY <1>5
  DEF OwnerInv, BaseEndBatch, QuitIoLoop, PeerStep, PeerSends, PeerCloses, PeerResets,
      vars, loopVars, serverVars, histVars
<1>6. CASE BaseLoopDestroyed
  <2>1. revents' = {} /\ basePending' = 0 /\ UNCHANGED <<downs, inMap, server, baseRef>>
    BY <1>6 DEF BaseLoopDestroyed, LoopInv, InEvents, loopVars, histVars
  <2> QED BY <2>1 DEF OwnerInv
<1>7. CASE Poll
  <2>1. Revents # {} => registered
    BY DEF Revents
  <2>2. ~overwritten /\ registered => downs = 0
    BY <1>0 DEF CloseInv
  <2>3. /\ revents' = Revents
        /\ UNCHANGED <<pending, basePending, baseRef, inMap, downs, overwritten>>
        /\ server' = "alive" => server = "alive"
    BY <1>7 DEF Poll, histVars
  <2> QED BY <1>0, <2>1, <2>2, <2>3 DEF OwnerInv
<1>8. CASE revents' = {} /\ UNCHANGED <<inMap, basePending, baseRef, server, downs>>
  BY <1>8 DEF OwnerInv
<1>9. CASE LoopEnds \/ Swap \/ EndBatch \/ WriteEvent \/ UseAfterFree \/ RunSendInLoop
             \/ RunShutdownInLoop \/ RunWriteComplete \/ connectEstablished
  <2>1. UNCHANGED <<inMap, basePending, baseRef, server, downs>>
    BY <1>9
    DEF LoopEnds, Swap, EndBatch, WriteEvent, UseAfterFree, RunSendInLoop,
        RunShutdownInLoop, RunWriteComplete, connectEstablished, serverVars, histVars
  <2>2. revents' = {}
    BY <1>9
    DEF LoopEnds, Swap, EndBatch, WriteEvent, UseAfterFree, RunSendInLoop,
        RunShutdownInLoop, RunWriteComplete, connectEstablished, Running, LoopInv, InEvents
  <2> QED BY <1>8, <2>1, <2>2
<1>10. CASE connectDestroyed
  <2>1. revents' = {}
    BY <1>10 DEF connectDestroyed, Running, LoopInv, InEvents
  <2>2. UNCHANGED <<inMap, basePending, baseRef, server>>
        /\ (downs' = downs + 1 \/ downs' = downs)
    BY <1>10 DEF connectDestroyed, serverVars
  <2> QED BY <1>0, <2>1, <2>2 DEF OwnerInv
<1>11. ASSUME UNCHANGED <<inMap, basePending, baseRef, server, downs>>,
              revents' # {} => revents # {}, ~overwritten' => ~overwritten,
              pending' # <<>> \/ pending' = pending
       PROVE  OwnerInv'
  BY <1>1, <1>11 DEF OwnerInv
<1>12. CASE ReadDataEvent \/ ReadErrorEvent \/ ShutdownInCallback \/ CallbackReturns
  BY <1>11, <1>12
  DEF ReadDataEvent, ReadErrorEvent, ShutdownInCallback, CallbackReturns, loopVars, serverVars, histVars
<1>13. CASE SendInCallback
  <2>1. sends + 1 \in Nat /\ sendInLoop(sends + 1)
        /\ UNCHANGED <<inMap, basePending, baseRef, server, downs, revents, overwritten>>
    BY <1>13 DEF SendInCallback, TypeOK, serverVars
  <2>2. pending' = pending \/ pending' = Append(pending, Functor("writeComplete"))
    BY <2>1, SendInLoopType
  <2>3. pending' # <<>> \/ pending' = pending
    BY <1>0, <2>2, FunctorsAre, AppendHead DEF FunctorKinds
  <2> QED BY <1>11, <2>1, <2>3
<1>14. ASSUME NEW w \in Workers, WorkerCall(w) \/ DropRef(w) PROVE OwnerInv'
  <2>1. UNCHANGED <<inMap, basePending, baseRef, server, downs, revents>>
    BY <1>14
    DEF WorkerCall, SendCheck, SendPush, ShutdownCheck, ShutdownSet, ShutdownPush, DropRef,
        loopVars, serverVars, histVars
  <2>2. ~overwritten' => ~overwritten
    BY <1>14
    DEF WorkerCall, SendCheck, SendPush, ShutdownCheck, ShutdownSet, ShutdownPush, DropRef,
        histVars
  <2>3. pending' # <<>> \/ pending' = pending
    <3>1. CASE SendPush(w)
      <4>1. SendFunctor(sends + 1) \in Functors
        BY FunctorsAre DEF TypeOK
      <4> QED BY <1>0, <3>1, <4>1, AppendHead DEF SendPush, RunInLoop
    <3>2. CASE ShutdownPush(w)
      <4>1. Functor("shutdownInLoop") \in Functors
        BY FunctorsAre DEF FunctorKinds
      <4> QED BY <1>0, <3>2, <4>1, AppendHead DEF ShutdownPush, RunInLoop
    <3>3. CASE SendCheck(w) \/ ShutdownCheck(w) \/ ShutdownSet(w) \/ DropRef(w)
      BY <3>3 DEF SendCheck, ShutdownCheck, ShutdownSet, DropRef, loopVars
    <3> QED BY <1>14, <3>1, <3>2, <3>3 DEF WorkerCall
  <2> QED BY <1>11, <2>1, <2>2, <2>3
<1> QED
  BY Steps, <1>2, <1>3, <1>4, <1>5, <1>6, <1>7, <1>9, <1>10, <1>12, <1>13, <1>14
  DEF BaseStep

-----------------------------------------------------------------------------
(* Careful programs.                                                       *)

\* The program around the connection does not change, nor does a disconnect go away.
LEMMA SetupConstant ==
  ASSUME TypeOK, [Next]_vars
  PROVE  /\ setup' = setup
         /\ downs' = 0 => downs = 0
         /\ server' = "alive" => server = "alive"
         /\ server = "alive" /\ server' # "alive" => ServerDestructor
<1>0. downs \in Nat
  BY DEF TypeOK
<1>1. CASE CloseEvent \/ ReadEofEvent
  <2>1. downs' = downs + 1 /\ UNCHANGED <<setup, server>>
    BY <1>1, HandleCloseType DEF CloseEvent, ReadEofEvent
  <2> QED BY <1>0, <2>1
<1>2. CASE Poll \/ LoopEnds \/ ReadDataEvent \/ ReadErrorEvent \/ WriteEvent \/ Swap \/ EndBatch
             \/ UseAfterFree \/ RunSendInLoop \/ RunShutdownInLoop \/ RunWriteComplete
             \/ connectEstablished \/ SendInCallback \/ ShutdownInCallback \/ CallbackReturns
  BY <1>2
  DEF Poll, LoopEnds, ReadDataEvent, ReadErrorEvent, WriteEvent, Swap, EndBatch, UseAfterFree,
      RunSendInLoop, RunShutdownInLoop, RunWriteComplete, connectEstablished,
      SendInCallback, ShutdownInCallback, CallbackReturns, serverVars, histVars
<1>3. CASE connectDestroyed
  <2>1. (downs' = downs + 1 \/ downs' = downs) /\ UNCHANGED <<setup, server>>
    BY <1>3 DEF connectDestroyed, serverVars
  <2> QED BY <1>0, <2>1
<1>4. CASE BaseStep \/ ServerDestructor \/ PeerStep
  BY <1>4
  DEF BaseStep, removeConnectionInLoop, BaseEndBatch, QuitIoLoop, BaseLoopDestroyed,
      ServerDestructor, PeerStep, PeerSends, PeerCloses, PeerResets, serverVars, histVars
<1>5. ASSUME NEW w \in Workers, WorkerCall(w) \/ DropRef(w)
      PROVE  UNCHANGED <<setup, server, downs>>
  BY <1>5
  DEF WorkerCall, SendCheck, SendPush, ShutdownCheck, ShutdownSet, ShutdownPush, DropRef,
      serverVars, histVars
<1>6. CASE UNCHANGED vars
  BY <1>6 DEF vars, serverVars, histVars
<1> QED BY Steps, <1>1, <1>2, <1>3, <1>4, <1>5, <1>6

\* In a careful program no step uses a destroyed object.
LEMMA CarefulStepSafe ==
  ASSUME TypeOK, LoopInv, CarefulInv, setup.careful, [Next]_vars
  PROVE  uaf' = "none"
<1>0. uaf = "none" /\ RawHasRef /\ AllIdle
  BY DEF CarefulInv
<1>1. ~UseAfterFree
  <2> SUFFICES ASSUME UseAfterFree PROVE FALSE
    OBVIOUS
  <2>1. PICK kind \in {"sendInLoop", "shutdownInLoop", "destroyed"} : Running(kind)
    BY DEF UseAfterFree
  <2>2. batch \in Seq(Functors) /\ batch # <<>> /\ Head(batch).kind = kind
    BY <2>1 DEF Running, TypeOK
  <2>3. CASE kind = "destroyed"
    <3>1. Has(batch, StrongKinds)
      BY <2>2, <2>3, HasTail DEF StrongKinds, FunctorKinds, RawFunctors
    <3>2. AnyStrong(batch)
      BY <2>2, <3>1, StrongIsKind
    <3> QED BY <3>2 DEF UseAfterFree, Alive
  <2>4. CASE kind # "destroyed"
    <3>1. Has(batch, RawFunctors)
      BY <2>2, <2>4, HasTail DEF RawFunctors
    <3> QED BY <1>0, <3>1 DEF UseAfterFree, Alive, RawHasRef, Queued
  <2> QED BY <2>3, <2>4
<1>2. ASSUME NEW w \in Workers, WorkerCall(w) \/ DropRef(w) PROVE uaf' = uaf
  <2>1. CASE SendPush(w) \/ ShutdownPush(w)
    <3>1. wpc[w] # "idle" /\ \E f : RunInLoop(f)
      BY <2>1 DEF SendPush, ShutdownPush, WorkerStep
    <3>2. ioPc # "ended"
      BY <1>0, <3>1 DEF AllIdle, LoopInv
    <3> QED BY <3>1, <3>2 DEF RunInLoop
  <2>2. CASE SendCheck(w) \/ ShutdownCheck(w) \/ ShutdownSet(w) \/ DropRef(w)
    BY <2>2 DEF SendCheck, ShutdownCheck, ShutdownSet, DropRef, histVars
  <2> QED BY <1>2, <2>1, <2>2 DEF WorkerCall
<1>3. CASE CloseEvent \/ ReadEofEvent
  BY <1>0, <1>3, HandleCloseType DEF CloseEvent, ReadEofEvent
<1>4. CASE Poll \/ LoopEnds \/ ReadDataEvent \/ ReadErrorEvent \/ WriteEvent \/ Swap \/ EndBatch
             \/ RunSendInLoop \/ RunShutdownInLoop \/ RunWriteComplete \/ connectDestroyed
             \/ connectEstablished \/ SendInCallback \/ ShutdownInCallback \/ CallbackReturns
  BY <1>0, <1>4
  DEF Poll, LoopEnds, ReadDataEvent, ReadErrorEvent, WriteEvent, Swap, EndBatch, connectDestroyed,
      RunSendInLoop, RunShutdownInLoop, RunWriteComplete, connectEstablished,
      SendInCallback, ShutdownInCallback, CallbackReturns, histVars
<1>5. CASE BaseStep \/ ServerDestructor \/ PeerStep
  BY <1>0, <1>5
  DEF BaseStep, removeConnectionInLoop, BaseEndBatch, QuitIoLoop, BaseLoopDestroyed,
      ServerDestructor, PeerStep, PeerSends, PeerCloses, PeerResets, histVars
<1>6. CASE UNCHANGED vars
  BY <1>0, <1>6 DEF vars, histVars
<1> QED BY Steps, <1>0, <1>1, <1>2, <1>3, <1>4, <1>5, <1>6

\* A functor bound to this keeps having a worker with a pointer.
LEMMA CarefulStepRef ==
  ASSUME TypeOK, BeginInv, LoopInv, CarefulInv, setup.careful, [Next]_vars
  PROVE  RawHasRef'
<1> SUFFICES ASSUME Queued(RawFunctors)' PROVE \E w \in Workers : wref'[w]
  BY DEF RawHasRef
<1>0. RawHasRef
  BY DEF CarefulInv
<1>1. CASE \E w \in Workers : SendPush(w) \/ ShutdownPush(w)
  BY <1>1 DEF SendPush, ShutdownPush, WorkerStep
<1>2. CASE ~\E w \in Workers : SendPush(w) \/ ShutdownPush(w)
  <2>1. Queued(RawFunctors)
    <3>1. \A f : f.kind \in RawFunctors => ~PushedBy(f)
      BY <1>2 DEF PushedBy, RawFunctors
    <3> QED BY <3>1, QueueStep
  <2>2. PICK w \in Workers : wref[w]
    BY <1>0, <2>1 DEF RawHasRef
  <2>3. ~connectEstablished
    BY <2>2, EstablishedFirst DEF BeginInv
  <2>4. ASSUME NEW v \in Workers PROVE ~DropRef(v)
    <3> SUFFICES ASSUME DropRef(v) PROVE FALSE
      OBVIOUS
    <3>1. batch = <<>> /\ \A i \in DOMAIN pending : Strong(pending[i])
      BY DEF DropRef, LoopInv
    <3> QED BY <2>1, <3>1, HasEmpty DEF Queued, Has, Strong
  <2>5. wref' = wref
    <3>1. CASE CloseEvent \/ ReadEofEvent \/ Poll \/ LoopEnds \/ ReadDataEvent \/ ReadErrorEvent \/ WriteEvent
                 \/ Swap \/ EndBatch
      BY <3>1
      DEF CloseEvent, ReadEofEvent, Poll, LoopEnds, ReadDataEvent, ReadErrorEvent, WriteEvent, Swap,
          EndBatch, workerVars
    <3>2. CASE UseAfterFree \/ RunSendInLoop \/ RunShutdownInLoop \/ RunWriteComplete
                 \/ connectDestroyed \/ SendInCallback \/ ShutdownInCallback \/ CallbackReturns
      BY <3>2
      DEF UseAfterFree, RunSendInLoop, RunShutdownInLoop, RunWriteComplete,
          connectDestroyed, SendInCallback, ShutdownInCallback, CallbackReturns, workerVars
    <3>3. CASE BaseStep \/ ServerDestructor \/ PeerStep
      BY <3>3
      DEF BaseStep, removeConnectionInLoop, BaseEndBatch, QuitIoLoop, BaseLoopDestroyed,
          ServerDestructor, PeerStep, PeerSends, PeerCloses, PeerResets, workerVars
    <3>4. ASSUME NEW v \in Workers, WorkerCall(v) PROVE wref' = wref
      BY <3>4 DEF WorkerCall, SendCheck, SendPush, ShutdownCheck, ShutdownSet, ShutdownPush
    <3>5. CASE UNCHANGED vars
      BY <3>5 DEF vars, workerVars
    <3> QED BY Steps, <2>3, <2>4, <3>1, <3>2, <3>3, <3>4, <3>5
  <2> QED BY <2>2, <2>5
<1> QED BY <1>1, <1>2

\* Once the server goes, the workers of a careful program stay out.
LEMMA CarefulStepIdle ==
  ASSUME TypeOK, CarefulInv, setup.careful, [Next]_vars
  PROVE  /\ AllIdle'
         /\ server # "alive" => \A w \in Workers : ~WorkerCall(w)
<1>0. AllIdle
  BY DEF CarefulInv
<1>1. ASSUME NEW w \in Workers, WorkerCall(w) PROVE server = "alive" /\ server' = server
  <2>1. server' = server
    BY <1>1 DEF WorkerCall, SendCheck, SendPush, ShutdownCheck, ShutdownSet, ShutdownPush,
                serverVars
  <2>2. CASE SendCheck(w) \/ ShutdownCheck(w)
    BY <2>1, <2>2 DEF SendCheck, ShutdownCheck, MayCall
  <2>3. CASE SendPush(w) \/ ShutdownSet(w) \/ ShutdownPush(w)
    <3>1. wpc[w] # "idle"
      BY <2>3 DEF SendPush, ShutdownSet, ShutdownPush, WorkerStep
    <3> QED BY <1>0, <2>1, <3>1 DEF AllIdle
  <2> QED BY <1>1, <2>2, <2>3 DEF WorkerCall
<1>2. CASE \E w \in Workers : WorkerCall(w)
  BY <1>1, <1>2 DEF AllIdle
<1>3. CASE ServerDestructor
  BY <1>0, <1>3 DEF ServerDestructor, AllIdle, workerVars
<1>4. CASE ~ServerDestructor /\ ~\E w \in Workers : WorkerCall(w)
  <2>1. wpc' = wpc
    <3>1. CASE CloseEvent \/ ReadEofEvent \/ Poll \/ LoopEnds \/ ReadDataEvent \/ ReadErrorEvent \/ WriteEvent
                 \/ Swap \/ EndBatch
      BY <3>1
      DEF CloseEvent, ReadEofEvent, Poll, LoopEnds, ReadDataEvent, ReadErrorEvent, WriteEvent, Swap,
          EndBatch, workerVars
    <3>2. CASE UseAfterFree \/ RunSendInLoop \/ RunShutdownInLoop \/ RunWriteComplete
                 \/ connectDestroyed \/ connectEstablished
                 \/ SendInCallback \/ ShutdownInCallback \/ CallbackReturns
      BY <3>2
      DEF UseAfterFree, RunSendInLoop, RunShutdownInLoop, RunWriteComplete,
          connectDestroyed, connectEstablished, SendInCallback, ShutdownInCallback,
          CallbackReturns, workerVars
    <3>3. CASE BaseStep \/ PeerStep
      BY <3>3
      DEF BaseStep, removeConnectionInLoop, BaseEndBatch, QuitIoLoop, BaseLoopDestroyed,
          PeerStep, PeerSends, PeerCloses, PeerResets, workerVars
    <3>4. ASSUME NEW w \in Workers, DropRef(w) PROVE wpc' = wpc
      BY <3>4 DEF DropRef
    <3>5. CASE UNCHANGED vars
      BY <3>5 DEF vars, workerVars
    <3> QED BY Steps, <1>4, <3>1, <3>2, <3>3, <3>4, <3>5
  <2>2. server' # "alive" => server # "alive"
    BY <1>4, SetupConstant
  <2> QED BY <1>0, <1>4, <2>1, <2>2 DEF AllIdle
<1> QED BY <1>2, <1>3, <1>4

\* After ~TcpServer began, nothing that could register the channel again comes behind
\* its connectDestroyed().
LEMMA CarefulStepLast ==
  ASSUME TypeOK, BeginInv, LoopInv, CloseInv, OwnerInv, CarefulInv, setup.careful,
         [Next]_vars, server' # "alive", downs' = 0
  PROVE  DestroyedLast'
<1>0. batch \in Seq(Functors) /\ pending \in Seq(Functors) /\ downs = 0 /\ downs \in Nat
  BY SetupConstant DEF TypeOK
<1> DEFINE Gone == Queued({"destroyed"})
           wc == Functor("writeComplete")
<1>1. CASE server = "alive"
  <2>1. ServerDestructor
    BY <1>1, SetupConstant
  <2> DEFINE f == Functor("destroyed")
  <2>2. f \in Functors /\ f.kind = "destroyed"
    BY FunctorsAre DEF FunctorKinds
  <2> HIDE DEF f
  <2>3. pending' = Append(pending, f)
    BY <1>0, <1>1, <2>1 DEF ServerDestructor, OwnerInv, f
  <2>4. Has(pending', {"destroyed"}) /\ Covered(pending')
    BY <1>0, <2>2, <2>3, HasAppend, CoveredOps
  <2> QED BY <2>4 DEF DestroyedLast, Queued
<1>2. CASE server # "alive"
  <2>0. DestroyedLast
    BY <1>0, <1>2 DEF CarefulInv
  <2>1. wc \in Functors /\ wc.kind = "writeComplete"
    BY FunctorsAre DEF FunctorKinds
  <2> HIDE DEF wc
  \* pendingFunctors_ at most gets a functor that runs writeCompleteCallback_.
  <2>2. ASSUME pending' = pending \/ pending' = Append(pending, wc)
        PROVE  /\ Covered(pending')
               /\ Has(pending, {"destroyed"}) => Has(pending', {"destroyed"})
    <3>1. Covered(pending)
      BY <2>0 DEF DestroyedLast
    <3>2. wc.kind \notin RawFunctors
      BY <2>1 DEF RawFunctors
    <3>3. Covered(Append(pending, wc))
      BY <1>0, <2>1, <3>1, <3>2, CoveredOps
    <3>4. Has(pending, {"destroyed"}) => Has(Append(pending, wc), {"destroyed"})
      BY <1>0, <2>1, HasAppend
    <3> QED BY <2>2, <3>1, <3>3, <3>4
  \* The next functor is taken, which is not connectDestroyed().
  <2>3. ASSUME NEW kind, Running(kind)
        PROVE  /\ Covered(batch) => Covered(batch')
               /\ Has(batch, {"destroyed"}) <=> kind = "destroyed" \/ Has(batch', {"destroyed"})
               /\ kind \in RawFunctors => Gone
               /\ ioPc = "run"
    <3>1. batch # <<>> /\ Head(batch).kind = kind /\ batch' = Tail(batch) /\ ioPc = "run"
      BY <2>3 DEF Running
    <3>2. Head(batch) \in Functors
      BY <1>0, <3>1, HasTail
    <3>3. Covered(batch) => Covered(batch')
      BY <1>0, <3>1, <3>2, CoveredOps
    <3>4. Has(batch, {"destroyed"}) <=> kind = "destroyed" \/ Has(batch', {"destroyed"})
      BY <1>0, <3>1, HasTail
    <3>5. ASSUME kind \in RawFunctors PROVE Gone
      <4>1. Has(batch, RawFunctors)
        BY <1>0, <3>1, <3>5, HasTail
      <4>2. Covered(batch) => Has(batch, {"destroyed"})
        BY <1>0, <3>2, <4>1, CoveredOps
      <4> QED BY <2>0, <4>2 DEF DestroyedLast, Queued
    <3> QED BY <3>1, <3>3, <3>4, <3>5
  <2>4. CASE connectEstablished
    <3>1. Running("established") /\ pending' = pending
      BY <2>4 DEF connectEstablished
    <3>2. Gone
      <4>1. ups = 0
        BY <2>4, EstablishedFirst
      <4>2. ioPc # "ended"
        BY <2>3, <3>1
      <4> QED BY <1>2, <4>1, <4>2 DEF BeginInv
    <3>3. Gone'
      BY <2>3, <3>1, <3>2 DEF Queued
    <3> QED BY <2>0, <2>2, <2>3, <3>1, <3>3 DEF DestroyedLast
  <2>5. CASE RunSendInLoop
    <3>1. Running("sendInLoop") /\ sendInLoop(Head(batch).msg)
      BY <2>5 DEF RunSendInLoop
    <3>2. pending' = pending \/ pending' = Append(pending, wc)
      BY <3>1, RunningType, SendInLoopType DEF wc
    <3>3. Gone /\ Gone'
      BY <2>2, <2>3, <3>1, <3>2 DEF Queued, RawFunctors
    <3> QED BY <2>0, <2>2, <2>3, <3>1, <3>2, <3>3 DEF DestroyedLast
  <2>6. CASE RunShutdownInLoop
    <3>1. Running("shutdownInLoop") /\ pending' = pending
      BY <2>6 DEF RunShutdownInLoop
    <3>2. Gone /\ Gone'
      BY <2>3, <3>1 DEF Queued, RawFunctors
    <3> QED BY <2>0, <2>2, <2>3, <3>1, <3>2 DEF DestroyedLast
  <2>7. CASE RunWriteComplete
    <3>1. Running("writeComplete") /\ UNCHANGED <<pending, registered, state>>
      BY <2>7 DEF RunWriteComplete, connVars
    <3>2. Gone => Gone'
      BY <2>3, <3>1 DEF Queued
    <3>3. ioPc # "ended"
      BY <2>3, <3>1
    <3> QED BY <2>0, <2>2, <2>3, <3>1, <3>2, <3>3 DEF DestroyedLast
  <2>8. CASE connectDestroyed
    <3>1. Running("destroyed") /\ pending' = pending /\ ~registered'
      BY <2>8 DEF connectDestroyed
    <3>2. state' # "kConnected"
      <4>1. downs + 1 # downs'
        BY <1>0
      <4> QED BY <2>8, <4>1 DEF connectDestroyed
    <3> QED BY <2>0, <2>2, <2>3, <3>1, <3>2 DEF DestroyedLast
  <2>9. CASE WriteEvent
    <3>1. handleWrite /\ batch' = batch /\ revents # {} /\ ioPc = "event"
      BY <2>9 DEF WriteEvent
    <3>2. pending' = pending \/ pending' = Append(pending, wc)
      BY <3>1, HandleWriteType DEF wc
    <3>3. Gone
      BY <1>0, <2>0, <3>1 DEF CloseInv, DestroyedLast
    <3>4. Gone'
      BY <2>2, <3>1, <3>2, <3>3 DEF Queued
    <3> QED BY <2>0, <2>2, <3>1, <3>2, <3>4 DEF DestroyedLast
  <2>10. CASE SendInCallback
    <3>1. sends + 1 \in Nat /\ sendInLoop(sends + 1) /\ batch' = batch
          /\ state = "kConnected" /\ ioPc = "callback"
      BY <2>10 DEF SendInCallback, TypeOK
    <3>2. pending' = pending \/ pending' = Append(pending, wc)
      BY <3>1, SendInLoopType DEF wc
    <3>3. Gone
      BY <2>0, <3>1 DEF DestroyedLast
    <3>4. Gone'
      BY <2>2, <3>1, <3>2, <3>3 DEF Queued
    <3> QED BY <2>0, <2>2, <3>1, <3>2, <3>4 DEF DestroyedLast
  <2>11. CASE LoopEnds
    <3>1. batch' = <<>> /\ pending' = <<>> /\ ioPc' = "ended"
      BY <2>11 DEF LoopEnds, LoopInv
    <3> QED BY <3>1, HasEmpty DEF DestroyedLast
  <2>12. CASE Swap
    <3>1. batch = <<>> /\ batch' = pending /\ pending' = <<>> /\ ioPc # "ended"
          /\ UNCHANGED <<registered, state>>
      BY <2>12 DEF Swap, LoopInv, InEvents, connVars
    <3>2. Gone' <=> Gone
      BY <3>1, HasEmpty DEF Queued
    <3> QED BY <2>0, <3>1, <3>2, HasEmpty DEF DestroyedLast
  <2>13. ASSUME UNCHANGED <<batch, pending, registered>>,
                state' = state \/ state' # "kConnected",
                ioPc' # "ended" => ioPc # "ended"
         PROVE  DestroyedLast'
    BY <2>0, <2>13 DEF DestroyedLast, Queued
  <2>14. CASE Poll \/ ReadDataEvent \/ ReadErrorEvent \/ EndBatch \/ CallbackReturns
    BY <2>13, <2>14 DEF Poll, ReadDataEvent, ReadErrorEvent, EndBatch, CallbackReturns, connVars
  <2>15. CASE ShutdownInCallback
    BY <2>13, <2>15 DEF ShutdownInCallback, loopVars
  <2>16. CASE BaseStep \/ PeerStep
    BY <1>2, <2>13, <2>16
    DEF BaseStep, removeConnectionInLoop, BaseEndBatch, QuitIoLoop, BaseLoopDestroyed,
        PeerStep, PeerSends, PeerCloses, PeerResets, loopVars, connVars
  <2>17. ASSUME NEW w \in Workers, DropRef(w) PROVE DestroyedLast'
    BY <2>13, <2>17 DEF DropRef, loopVars, connVars
  <2>18. CASE UNCHANGED vars
    BY <2>13, <2>18 DEF vars, loopVars, connVars
  <2>19. ~UseAfterFree
    BY CarefulStepSafe DEF UseAfterFree
  <2>20. ~(CloseEvent \/ ReadEofEvent)
    <3>1. downs' # downs + 1
      BY <1>0
    <3> QED BY <3>1, HandleCloseType DEF CloseEvent, ReadEofEvent
  <2>21. ~ServerDestructor /\ \A w \in Workers : ~WorkerCall(w)
    BY <1>2, CarefulStepIdle DEF ServerDestructor
  <2> QED
    BY Steps, <2>4, <2>5, <2>6, <2>7, <2>8, <2>9, <2>10, <2>11, <2>12, <2>14, <2>15,
       <2>16, <2>17, <2>18, <2>19, <2>20, <2>21
<1> QED BY <1>1, <1>2

\* Every step keeps CarefulInv.
LEMMA StepCareful ==
  ASSUME TypeOK, BeginInv, LoopInv, CloseInv, OwnerInv, CarefulInv, [Next]_vars
  PROVE  CarefulInv'
<1>1. setup' = setup
  BY SetupConstant
<1>2. ASSUME setup.careful PROVE CarefulInv'
  BY <1>2, CarefulStepSafe, CarefulStepRef, CarefulStepIdle, CarefulStepLast
  DEF CarefulInv
<1>3. ASSUME ~setup.careful PROVE CarefulInv'
  BY <1>1, <1>3 DEF CarefulInv
<1> QED BY <1>2, <1>3

-----------------------------------------------------------------------------
(* The theorems.                                                           *)

\* The connection begins in the invariant.
LEMMA InitConnInv == Init => ConnInv
<1> SUFFICES ASSUME Init PROVE ConnInv
  OBVIOUS
<1> DEFINE f == Functor("established")
<1>1. TypeOK
  BY InitType
<1>2. f \in Functors /\ f.kind = "established"
  BY FunctorsAre DEF FunctorKinds
<1>3. pending = <<f>> /\ batch = <<>> /\ pending = Append(<<>>, f)
  BY DEF Init
<1> HIDE DEF f
<1>4. /\ pending # <<>> /\ Head(pending) = f /\ Tail(pending) = <<>>
      /\ \A kinds : Has(pending, kinds) <=> f.kind \in kinds
  <2>1. <<>> \in Seq(Functors)
    OBVIOUS
  <2>2. pending # <<>> /\ Head(pending) = f /\ Tail(pending) = <<>>
    BY <1>2, <1>3, <2>1, AppendHead
  <2>3. ASSUME NEW kinds PROVE Has(pending, kinds) <=> f.kind \in kinds
    BY <1>2, <1>3, <2>1, HasEmpty, HasAppend
  <2> QED BY <2>2, <2>3
<1>5. BeginInv
  <2>1. ~Queued(FunctorKinds \ {"established", "destroyed"})
    BY <1>2, <1>3, <1>4, HasEmpty DEF Queued
  <2>2. ~Has(Tail(pending), {"established"})
    BY <1>4, HasEmpty
  <2> QED BY <1>2, <1>3, <1>4, <2>1, <2>2 DEF BeginInv, Init
<1>6. LoopInv
  BY DEF Init, LoopInv, InEvents
<1>7. CloseInv
  BY DEF Init, CloseInv
<1>8. OutputInv
  BY DEF Init, OutputInv, StreamPreserved, WritingIffOutput, FlushBeforeFin, isWriting
<1>9. ShutInv
  BY <1>2, <1>3, <1>4, HasEmpty DEF Init, ShutInv, Queued
<1>10. OwnerInv
  BY DEF Init, OwnerInv
<1>11. CarefulInv
  BY <1>2, <1>3, <1>4, HasEmpty DEF Init, CarefulInv, RawHasRef, AllIdle, Queued, RawFunctors
<1> QED BY <1>1, <1>5, <1>6, <1>7, <1>8, <1>9, <1>10, <1>11 DEF ConnInv

\* The invariant holds in every program, for every number of workers and messages.
THEOREM ConnInvariant == SafetySpec => []ConnInv
<1>1. ConnInv /\ [Next]_vars => ConnInv'
  <2> SUFFICES ASSUME ConnInv, [Next]_vars PROVE ConnInv'
    OBVIOUS
  <2>1. TypeOK' /\ BeginInv' /\ LoopInv'
    BY StepType, StepBegin, StepLoop DEF ConnInv
  <2>2. CloseInv' /\ ShutInv' /\ OwnerInv' /\ CarefulInv'
    BY StepClose, StepShut, StepOwner, StepCareful DEF ConnInv
  <2>3. OutputInv'
    BY <2>2, StepOutput DEF ConnInv
  <2> QED BY <2>1, <2>2, <2>3 DEF ConnInv
<1> QED BY <1>1, InitConnInv, PTL DEF SafetySpec

\* The byte stream is kept through direct writes, partial writes and EPOLLOUT.
THEOREM StreamAlwaysPreserved == SafetySpec => []StreamPreserved
<1>1. ConnInv => StreamPreserved
  BY DEF ConnInv, OutputInv
<1> QED BY <1>1, ConnInvariant, PTL

\* The FIN comes after everything accepted, and no send() is accepted behind it.
THEOREM AlwaysFlushBeforeFin == SafetySpec => []FlushBeforeFin
<1>1. ConnInv => FlushBeforeFin
  BY DEF ConnInv, OutputInv
<1> QED BY <1>1, ConnInvariant, PTL

\* EPOLLOUT is watched exactly while output waits, until the close.
THEOREM AlwaysWritingIffOutput == SafetySpec => []WritingIffOutput
<1>1. ConnInv => WritingIffOutput
  BY DEF ConnInv, OutputInv
<1> QED BY <1>1, ConnInvariant, PTL

\* One connect and one disconnect, in this order, unless shutdown() has overwritten
\* kDisconnected; and no connection goes without its disconnect while the server lives.
THEOREM AlwaysUpDownOnce == SafetySpec => []UpDownOnce
<1>1. ConnInv => UpDownOnce
  <2> SUFFICES ASSUME ConnInv PROVE UpDownOnce
    OBVIOUS
  <2>1. /\ ups \in {0, 1} /\ downs \in Nat
        /\ ups = 0 => downs = 0
    BY DEF ConnInv, TypeOK, BeginInv
  <2>2. downs > 0 /\ ~overwritten => downs = 1
    BY DEF ConnInv, CloseInv
  <2>3. ~Alive /\ server = "alive" => downs # 0
    BY DEF ConnInv, OwnerInv, Alive
  <2>4. downs <= ups \/ overwritten
    BY <2>1, <2>2
  <2>5. ~Alive /\ server = "alive" => downs >= ups
    BY <2>1, <2>3
  <2> QED BY <2>1, <2>4, <2>5 DEF UpDownOnce
<1> QED BY <1>1, ConnInvariant, PTL

\* What the kernel watches, or whose events or callbacks are run, exists.
THEOREM AlwaysWatchedIsAlive == SafetySpec => []WatchedIsAlive
<1>1. ConnInv => WatchedIsAlive
  <2> SUFFICES ASSUME ConnInv, registered \/ revents # {} \/ ioPc = "callback",
                      ~overwritten, setup.careful \/ server = "alive"
               PROVE  Alive
    BY DEF WatchedIsAlive
  <2> USE DEF ConnInv
  <2>0. downs \in Nat /\ batch \in Seq(Functors) /\ pending \in Seq(Functors)
        /\ cbRet \in {"event", "run"}
    BY DEF TypeOK
  <2>1. \A q \in Seq(Functors) : Has(q, {"destroyed"}) => AnyStrong(q)
    <3>1. {"destroyed"} \subseteq StrongKinds
      BY DEF StrongKinds, FunctorKinds, RawFunctors
    <3> QED BY <3>1, HasMonotone, StrongIsKind
  <2>2. Queued({"destroyed"}) => Alive
    BY <2>0, <2>1 DEF Queued, Alive
  \* Before the close: connections_ or, after ~TcpServer began, connectDestroyed().
  <2>3. ASSUME registered, downs = 0 PROVE Alive
    <3>1. CASE server = "alive"
      BY <2>3, <3>1 DEF OwnerInv, Alive
    <3>2. CASE server # "alive"
      <4>1. DestroyedLast
        BY <2>3, <3>2 DEF CarefulInv
      <4>2. ioPc # "ended"
        BY <2>3 DEF LoopInv
      <4> QED BY <2>2, <2>3, <4>1, <4>2 DEF DestroyedLast
    <3> QED BY <3>1, <3>2
  <2>4. CASE registered
    <3>1. downs = 0
      BY <2>0, <2>4 DEF CloseInv
    <3> QED BY <2>3, <2>4, <3>1
  <2>5. CASE revents # {}
    <3>1. CASE downs = 0
      BY <2>3, <2>5, <3>1 DEF CloseInv
    <3>2. CASE downs > 0
      BY <2>2, <2>5, <3>2 DEF OwnerInv, Alive, Queued
    <3> QED BY <2>0, <3>1, <3>2
  <2>6. CASE ioPc = "callback"
    <3>1. CASE cbRet = "run"
      BY <2>6, <3>1 DEF LoopInv, Alive
    <3>2. CASE cbRet = "event"
      BY <2>3, <2>6, <3>2 DEF CloseInv
    <3> QED BY <2>0, <3>1, <3>2
  <2> QED BY <2>4, <2>5, <2>6
<1> QED BY <1>1, ConnInvariant, PTL

\* In a careful program nothing that was destroyed is used.
THEOREM AlwaysCarefulIsSafe == SafetySpec => []CarefulIsSafe
<1>1. ConnInv => CarefulIsSafe
  BY DEF ConnInv, CarefulInv, CarefulIsSafe
<1> QED BY <1>1, ConnInvariant, PTL

\* sendInLoop() gives up once the close was handled.
THEOREM AlwaysGivesUpAfterDisconnect == SafetySpec => GivesUpAfterDisconnect
<1>1. ConnInv /\ [Next]_vars => [downs > 0 /\ ~overwritten => accepted' = accepted]_vars
  <2> SUFFICES ASSUME ConnInv, [Next]_vars, downs > 0, ~overwritten
               PROVE  accepted' = accepted
    OBVIOUS
  <2>0. TypeOK /\ state = "kDisconnected"
    BY DEF ConnInv, CloseInv
  <2>1. CASE CloseEvent \/ ReadEofEvent
    BY <2>0, <2>1, HandleCloseType DEF CloseEvent, ReadEofEvent
  <2>2. CASE WriteEvent
    BY <2>0, <2>2, HandleWriteType DEF WriteEvent
  <2>3. CASE RunSendInLoop
    <3>1. Head(batch).msg \in Nat /\ sendInLoop(Head(batch).msg)
      BY <2>0, <2>3, RunningType DEF RunSendInLoop
    <3> QED BY <2>0, <3>1, SendInLoopChannel DEF connVars
  <2>4. ~SendInCallback
    BY <2>0 DEF SendInCallback
  <2>5. CASE Poll \/ LoopEnds \/ ReadDataEvent \/ ReadErrorEvent \/ Swap \/ EndBatch \/ UseAfterFree
               \/ connectEstablished \/ RunShutdownInLoop \/ RunWriteComplete
               \/ connectDestroyed \/ ShutdownInCallback \/ CallbackReturns
    BY <2>5
    DEF Poll, LoopEnds, ReadDataEvent, ReadErrorEvent, Swap, EndBatch, UseAfterFree, connectEstablished,
        RunShutdownInLoop, RunWriteComplete, connectDestroyed, ShutdownInCallback,
        CallbackReturns, connVars
  <2>6. CASE BaseStep \/ ServerDestructor \/ PeerStep
    BY <2>6
    DEF BaseStep, removeConnectionInLoop, BaseEndBatch, QuitIoLoop, BaseLoopDestroyed,
        ServerDestructor, PeerStep, PeerSends, PeerCloses, PeerResets, connVars
  <2>7. ASSUME NEW w \in Workers, WorkerCall(w) \/ DropRef(w) PROVE accepted' = accepted
    BY <2>7
    DEF WorkerCall, SendCheck, SendPush, ShutdownCheck, ShutdownSet, ShutdownPush, DropRef,
        connVars
  <2>8. CASE UNCHANGED vars
    BY <2>8 DEF vars, connVars
  <2> QED BY Steps, <2>1, <2>2, <2>3, <2>4, <2>5, <2>6, <2>7, <2>8
<1> QED BY <1>1, ConnInvariant, PTL DEF SafetySpec, GivesUpAfterDisconnect

=============================================================================
