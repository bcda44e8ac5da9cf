---------------------------- MODULE TcpConnection ----------------------------
(***************************************************************************)
(* The life of one TcpConnection (src/net/TcpConnection.cc) between        *)
(*   - its io loop, which handles its events and runs its functors,        *)
(*   - the base loop with the TcpServer that owns it (src/net/TcpServer.cc)*)
(*   - worker threads that hold a TcpConnectionPtr and call send() and     *)
(*     shutdown() from outside the io loop.                                *)
(*                                                                         *)
(* Loops are what EventLoop promises: a FIFO of functors, run in batches.  *)
(* A batch is a local vector, so the shared_ptr a functor carries is let   *)
(* go when the whole batch is done.  The poller is what EPollPoller        *)
(* promises: the kernel watches `events' while the channel is registered.  *)
(*                                                                         *)
(* A message is two bytes with its number on them, which is enough to see  *)
(* partial writes and reordering.  highWaterMarkCallback_ is not set by    *)
(* TcpServer and is left out.  The object exists while a shared_ptr to it  *)
(* does (Alive); a functor that holds only `this' does not count.          *)
(***************************************************************************)
EXTENDS Integers, Sequences, FiniteSets

CONSTANTS
  Workers,       \* threads outside the loops
  Setups,        \* the programs around the connection that are explored
  MaxSends       \* bound: messages passed to send()

\* A program that uses the library: whether the server has sub loops or the base
\* loop alone; whether a writeCompleteCallback_ is set (notified); what each worker
\* calls; whether the program is careful, that is workers keep their pointer while a
\* functor of theirs is queued and call nothing once the server is destroyed; and
\* whether the program may end: the base loop is left and ~TcpServer runs in its
\* thread, which is modelled for a server with sub loops.
Setup == [loops : {"sub", "base"}, notified : BOOLEAN,
          ops : [Workers -> SUBSET {"send", "shutdown"}],
          careful : BOOLEAN, serverMayDie : BOOLEAN]

ASSUME ConnAssumption ==
  /\ Setups \subseteq Setup
  /\ MaxSends \in Nat

VARIABLES
  state,         \* state_
  events,        \* channel_->events_
  registered,    \* channel_ is kAdded: the kernel watches it
  outbuf,        \* outputBuffer_
  wire,          \* bytes written to the socket
  accepted,      \* history: bytes sendInLoop() took responsibility for
  finSent,       \* shutdown(SHUT_WR) was called
  inData, peerFin, peerRst,  \* unread input; the peer closed; the peer reset
  ioPc,          \* io loop: "poll", "event", "callback" (user code), "run", "ended"
  cbRet,         \* where user code returns to
  revents,       \* what is left of the channel's revents_ to dispatch
  pending,       \* pendingFunctors_ of the io loop
  batch,         \* what is left of the io loop's functors vector
  batchRef,      \* that vector holds a shared_ptr among the functors already run
  inMap,         \* connections_ has the connection
  basePending,   \* removeConnectionInLoop() functors of the base loop
  baseRef,       \* the base loop's vector still holds the shared_ptr of one
  server,        \* "alive", then in ~TcpServer: "body" ran, quit() was called on the
                 \* io loop ("quit"), whose "last" turn is being made
  setup,         \* the program around the connection (never changes)
  wpc, wref,     \* per worker: place in send()/shutdown(); holds a pointer
  sends,         \* messages passed to send() so far
  ups, downs,    \* calls of connectionCallback_ on connect and on disconnect
  overwritten,   \* history: shutdown() stored kDisconnecting over kDisconnected
  uaf            \* "conn"/"loop": a destroyed object was used (undefined from there)

peerVars == <<inData, peerFin, peerRst>>
connVars == <<state, events, registered, outbuf, wire, accepted, finSent>>
loopVars == <<ioPc, cbRet, revents, pending, batch, batchRef>>
serverVars == <<inMap, basePending, baseRef, server, setup>>
workerVars == <<wpc, wref>>
histVars == <<sends, ups, downs, overwritten, uaf>>
vars == <<peerVars, connVars, loopVars, serverVars, workerVars, histVars>>

States == {"kDisconnected", "kConnecting", "kConnected", "kDisconnecting"}

\* A functor of the io loop: its kind and, for sendInLoop, the message number.
Functor(kind) == [kind |-> kind, msg |-> 0]
SendFunctor(k) == [kind |-> "sendInLoop", msg |-> k]
RawFunctors == {"sendInLoop", "shutdownInLoop"}     \* bound to this, not to a pointer
StrongMutant(f) == f.kind \notin RawFunctors \cup {"destroyed"}
Strong(f) == f.kind \notin RawFunctors
AnyStrong(q) == \E i \in DOMAIN q : Strong(q[i])

Alive ==
  \/ inMap
  \/ AnyStrong(pending) \/ AnyStrong(batch) \/ batchRef
  \/ basePending > 0 \/ baseRef
  \/ \E w \in Workers : wref[w]

\* TcpServer::newConnection() has run in the base loop: the connection is in
\* connections_ and connectEstablished() is queued for (or about to run in)
\* the io loop; workers get their pointer from the first callback.
Init ==
  /\ state = "kConnecting" /\ events = {} /\ registered = FALSE
  /\ outbuf = <<>> /\ wire = <<>> /\ accepted = <<>> /\ finSent = FALSE
  /\ inData = FALSE /\ peerFin = FALSE /\ peerRst = FALSE
  /\ ioPc = "poll" /\ cbRet = "run" /\ revents = {}
  /\ pending = <<Functor("established")>> /\ batch = <<>> /\ batchRef = FALSE
  /\ inMap = TRUE /\ basePending = 0 /\ baseRef = FALSE /\ server = "alive"
  /\ setup \in Setups
  /\ wpc = [w \in Workers |-> "idle"] /\ wref = [w \in Workers |-> FALSE]
  /\ sends = 0 /\ ups = 0 /\ downs = 0 /\ overwritten = FALSE /\ uaf = "none"

-----------------------------------------------------------------------------
(* Pieces shared by the handlers.                                          *)

\* Channel::update() after events_ was set to ev: a channel that is not in
\* the kernel's list is added whatever ev is, one that is there is deleted
\* when ev is empty.
SetEvents(ev) ==
  /\ events' = ev
  /\ registered' = (~registered \/ ev # {})

isWriting == "write" \in events

\* pendingFunctors_ once everything was written.
WriteCompleted ==
  IF setup.notified THEN Append(pending, Functor("writeComplete")) ELSE pending

\* sendInLoop(): a direct write() only when nothing is waiting in outputBuffer_.
\* The kernel takes n of the two bytes (0: EWOULDBLOCK); after SHUT_WR or a
\* reset the write fails with EPIPE/ECONNRESET and the message is dropped.
WritesDirectlyMutant == ~isWriting \/ Len(outbuf) = 1
WritesDirectly == ~isWriting /\ outbuf = <<>>

GiveUpWritingMutant == FALSE
GiveUpWriting == state = "kDisconnected"

sendInLoop(k) ==
  IF GiveUpWriting
  THEN UNCHANGED <<connVars, pending>>
  ELSE \E n \in 0 .. 2 :
    LET direct == WritesDirectly
        fault == direct /\ (finSent \/ peerRst)
        msg == <<k, k>>
    IN /\ (~direct \/ fault) => n = 0
       /\ wire' = wire \o SubSeq(msg, 1, n)
       /\ accepted' = IF fault THEN accepted ELSE accepted \o msg
       /\ pending' = IF n = 2 THEN WriteCompleted ELSE pending
       /\ IF fault \/ n = 2
          THEN UNCHANGED <<outbuf, events, registered>>
          ELSE /\ outbuf' = outbuf \o SubSeq(msg, n + 1, 2)
               /\ IF isWriting THEN UNCHANGED <<events, registered>>
                  ELSE SetEvents(events \cup {"write"})
       /\ UNCHANGED <<state, finSent>>

\* shutdownInLoop(): the write side is closed once nothing waits to be written.
FinNowMutant == TRUE
FinNow == ~isWriting

\* TcpServer::removeConnection(): runInLoop() is a direct call when the io loop
\* is the base loop, where it leads to a queued connectDestroyed().
removeConnection ==
  IF setup.loops = "base"
  THEN /\ inMap' = FALSE
       /\ pending' = Append(pending, Functor("destroyed"))
       /\ UNCHANGED <<basePending, baseRef, server, setup, uaf>>
  ELSE /\ basePending' = basePending + 1
       /\ UNCHANGED <<inMap, pending, baseRef, server, setup, uaf>>

\* handleClose(): closeCallback_ is TcpServer::removeConnection.
CloseKeepsReadingMutant ==
  /\ state' = "kDisconnected"
  /\ downs' = downs + 1
  /\ removeConnection
  /\ UNCHANGED <<events, registered, outbuf, wire, accepted, finSent, sends, ups,
                 overwritten>>

handleClose ==
  /\ state' = "kDisconnected"
  /\ SetEvents({})
  /\ downs' = downs + 1
  /\ removeConnection
  /\ UNCHANGED <<outbuf, wire, accepted, finSent, sends, ups, overwritten>>

-----------------------------------------------------------------------------
(* The io loop: one poll, the dispatch of the channel's events in the      *)
(* order of handleEventWithGuard(), then one batch of functors.            *)

\* Level-triggered readiness; hangups and errors are reported unasked.
Conditions ==
  (IF inData \/ peerFin \/ peerRst THEN {"IN"} ELSE {})
    \cup (IF (peerFin /\ finSent) \/ peerRst THEN {"HUP"} ELSE {})
    \cup {"OUT"}
Interest == (IF "read" \in events THEN {"IN"} ELSE {})
              \cup (IF isWriting THEN {"OUT"} ELSE {}) \cup {"HUP"}
Revents == IF registered THEN Conditions \cap Interest ELSE {}

\* quit_ is tested before the poll, so there is one turn at most after quit().
Poll ==
  /\ ioPc = "poll" /\ server # "last"
  /\ Revents # {} \/ pending # <<>>
  /\ ioPc' = "event"
  /\ revents' = Revents
  /\ server' = IF server = "quit" THEN "last" ELSE server
  /\ UNCHANGED <<peerVars, connVars, cbRet, pending, batch, batchRef, inMap,
                 basePending, baseRef, setup, workerVars, histVars>>

\* loop() returns and the EventLoop is destroyed, with its poller and the functors
\* that were not run.
LoopEnds ==
  /\ ioPc = "poll" /\ server \in {"quit", "last"}
  /\ ioPc' = "ended"
  /\ pending' = <<>>
  /\ registered' = FALSE
  /\ UNCHANGED <<peerVars, state, events, outbuf, wire, accepted, finSent, cbRet,
                 revents, batch, batchRef, serverVars, workerVars, histVars>>

\* EPOLLHUP without EPOLLIN: closeCallback_.
CloseEvent ==
  /\ ioPc = "event" /\ "HUP" \in revents /\ "IN" \notin revents
  /\ handleClose
  /\ revents' = revents \ {"HUP"}
  /\ UNCHANGED <<peerVars, ioPc, cbRet, batch, batchRef, workerVars>>

\* EPOLLIN: handleRead().  Data goes to messageCallback_, end of file to
\* handleClose() and an error to handleError(), which only logs it.
ReadDataEvent ==
  /\ ioPc = "event" /\ "IN" \in revents
  /\ inData
  /\ inData' = FALSE
  /\ ioPc' = "callback" /\ cbRet' = "event"
  /\ revents' = revents \ {"IN", "HUP"}
  /\ UNCHANGED <<connVars, peerFin, peerRst, pending, batch, batchRef, serverVars,
                 workerVars, histVars>>

\* read() fails once, when the reset came after the poll and took the data away
\* that was reported.  A reset that was reported itself has left its error to the
\* handler of EPOLLERR, and read() returns 0 then, as it does after the peer closed.
ReadFails == ~inData /\ ~peerFin /\ "HUP" \notin revents

ReadErrorEvent ==
  /\ ioPc = "event" /\ "IN" \in revents
  /\ ReadFails
  /\ revents' = revents \ {"IN"}
  /\ UNCHANGED <<peerVars, connVars, ioPc, cbRet, pending, batch, batchRef, serverVars,
                 workerVars, histVars>>

ReadEofEvent ==
  /\ ioPc = "event" /\ "IN" \in revents
  /\ ~inData /\ ~ReadFails
  /\ handleClose
  /\ revents' = revents \ {"IN", "HUP"}
  /\ UNCHANGED <<peerVars, ioPc, cbRet, batch, batchRef, workerVars>>

\* EPOLLOUT, dispatched last: handleWrite().
DrainedMutant(n) == TRUE
Drained(n) == n = Len(outbuf)

handleWrite ==
  IF ~isWriting \/ peerRst
  THEN UNCHANGED <<connVars, pending>>
  ELSE \E n \in 1 .. Len(outbuf) :
    /\ wire' = wire \o SubSeq(outbuf, 1, n)
    /\ outbuf' = SubSeq(outbuf, n + 1, Len(outbuf))
    /\ IF Drained(n)
       THEN /\ SetEvents(events \ {"write"})
            /\ pending' = WriteCompleted
            /\ finSent' = (finSent \/ state = "kDisconnecting")
       ELSE UNCHANGED <<events, registered, pending, finSent>>
    /\ UNCHANGED <<state, accepted>>

WriteEvent ==
  /\ ioPc = "event" /\ revents = {"OUT"}
  /\ handleWrite
  /\ revents' = {}
  /\ UNCHANGED <<peerVars, ioPc, cbRet, batch, batchRef, serverVars, workerVars,
                 histVars>>

Swap ==
  /\ ioPc = "event" /\ revents = {}
  /\ ioPc' = "run"
  /\ batch' = pending
  /\ pending' = <<>>
  /\ UNCHANGED <<peerVars, connVars, cbRet, revents, batchRef, serverVars,
                 workerVars, histVars>>

\* The vector goes out of scope and with it the pointers it held.
EndBatch ==
  /\ ioPc = "run" /\ batch = <<>>
  /\ ioPc' = "poll"
  /\ batchRef' = FALSE
  /\ UNCHANGED <<peerVars, connVars, cbRet, revents, pending, batch, serverVars,
                 workerVars, histVars>>

\* The next functor of the batch is of this kind.
Running(kind) ==
  /\ ioPc = "run" /\ batch # <<>> /\ Head(batch).kind = kind
  /\ batch' = Tail(batch)
  /\ batchRef' = (batchRef \/ Strong(Head(batch)))

\* A functor bound to a destroyed connection runs: undefined behaviour.
UseAfterFree ==
  /\ \E kind \in {"sendInLoop", "shutdownInLoop", "destroyed"} : Running(kind)
  /\ ~Alive
  /\ uaf' = "conn"
  /\ UNCHANGED <<peerVars, connVars, ioPc, cbRet, revents, pending, serverVars,
                 workerVars, sends, ups, downs, overwritten>>

connectEstablished ==
  /\ Running("established")
  /\ state' = "kConnected"
  /\ SetEvents(events \cup {"read"})
  /\ ups' = ups + 1
  /\ ioPc' = "callback" /\ cbRet' = "run"
  /\ wref' = [w \in Workers |-> setup.ops[w] # {}]
  /\ UNCHANGED <<peerVars, outbuf, wire, accepted, finSent, revents, pending,
                 serverVars, wpc, sends, downs, overwritten, uaf>>

RunSendInLoop ==
  /\ Alive
  /\ Running("sendInLoop")
  /\ sendInLoop(Head(batch).msg)
  /\ UNCHANGED <<peerVars, ioPc, cbRet, revents, serverVars, workerVars, sends,
                 ups, downs, overwritten, uaf>>

RunShutdownInLoop ==
  /\ Alive
  /\ Running("shutdownInLoop")
  /\ finSent' = (finSent \/ FinNow)
  /\ UNCHANGED <<peerVars, state, events, registered, outbuf, wire, accepted,
                 ioPc, cbRet, revents, pending, serverVars, workerVars, histVars>>

RunWriteComplete ==
  /\ Running("writeComplete")
  /\ ioPc' = "callback" /\ cbRet' = "run"
  /\ UNCHANGED <<peerVars, connVars, revents, pending, serverVars, workerVars,
                 histVars>>

\* Only ~TcpServer destroys a connection that is still kConnected.
DestroyForgetsRemoveMutant ==
  /\ Running("destroyed")
  /\ UNCHANGED <<peerVars, connVars, ioPc, cbRet, revents, pending, serverVars,
                 workerVars, histVars>>

connectDestroyed ==
  /\ Alive
  /\ Running("destroyed")
  /\ IF state = "kConnected"
     THEN /\ state' = "kDisconnected"
          /\ events' = {}
          /\ downs' = downs + 1
     ELSE UNCHANGED <<state, events, downs>>
  /\ registered' = FALSE
  /\ UNCHANGED <<peerVars, outbuf, wire, accepted, finSent, ioPc, cbRet, revents,
                 pending, serverVars, workerVars, sends, ups, overwritten, uaf>>

-----------------------------------------------------------------------------
(* User code in the io loop's thread: inside connectionCallback_,          *)
(* messageCallback_ or writeCompleteCallback_.                             *)

\* Bound: a message may still be started (those a worker is about to push count).
MaySend == sends + Cardinality({w \in Workers : wpc[w] = "sendChecked"}) < MaxSends

SendInCallback ==
  /\ ioPc = "callback" /\ MaySend
  /\ state = "kConnected"
  /\ sends' = sends + 1
  /\ sendInLoop(sends + 1)
  /\ UNCHANGED <<peerVars, ioPc, cbRet, revents, batch, batchRef, serverVars,
                 workerVars, ups, downs, overwritten, uaf>>

ShutdownInCallback ==
  /\ ioPc = "callback"
  /\ state = "kConnected"
  /\ state' = "kDisconnecting"
  /\ finSent' = (finSent \/ FinNow)
  /\ UNCHANGED <<peerVars, events, registered, outbuf, wire, accepted, loopVars,
                 serverVars, workerVars, histVars>>

CallbackReturns ==
  /\ ioPc = "callback"
  /\ ioPc' = cbRet
  /\ UNCHANGED <<peerVars, connVars, cbRet, revents, pending, batch, batchRef,
                 serverVars, workerVars, histVars>>

-----------------------------------------------------------------------------
(* Workers: state_ is atomic, but the check, the assignment and the push   *)
(* to the loop's queue are separate steps.                                 *)

WorkerStep(w, from, to) ==
  /\ wpc[w] = from
  /\ wref[w]
  /\ wpc' = [wpc EXCEPT ![w] = to]

MayCall(w, op) == op \in setup.ops[w] /\ (setup.careful => server = "alive")

SendCheck(w) ==
  /\ MayCall(w, "send") /\ MaySend
  /\ WorkerStep(w, "idle", "sendChecked")
  /\ state = "kConnected"
  /\ UNCHANGED <<peerVars, connVars, loopVars, serverVars, wref, histVars>>

\* runInLoop() from another thread.
RunInLoop(f) ==
  IF ioPc = "ended" THEN uaf' = "loop" /\ UNCHANGED pending
  ELSE pending' = Append(pending, f) /\ UNCHANGED uaf

SendPush(w) ==
  /\ WorkerStep(w, "sendChecked", "idle")
  /\ sends' = sends + 1
  /\ RunInLoop(SendFunctor(sends + 1))
  /\ UNCHANGED <<peerVars, connVars, ioPc, cbRet, revents, batch, batchRef,
                 serverVars, wref, ups, downs, overwritten>>

ShutdownCheck(w) ==
  /\ MayCall(w, "shutdown")
  /\ WorkerStep(w, "idle", "shutChecked")
  /\ state = "kConnected"
  /\ UNCHANGED <<peerVars, connVars, loopVars, serverVars, wref, histVars>>

ShutdownSet(w) ==
  /\ WorkerStep(w, "shutChecked", "shutSet")
  /\ state' = "kDisconnecting"
  /\ overwritten' = (overwritten \/ state = "kDisconnected")
  /\ UNCHANGED <<peerVars, events, registered, outbuf, wire, accepted, finSent,
                 loopVars, serverVars, wref, sends, ups, downs, uaf>>

ShutdownPush(w) ==
  /\ WorkerStep(w, "shutSet", "idle")
  /\ RunInLoop(Functor("shutdownInLoop"))
  /\ UNCHANGED <<peerVars, connVars, ioPc, cbRet, revents, batch, batchRef,
                 serverVars, wref, sends, ups, downs, overwritten>>

\* A worker lets go of its TcpConnectionPtr; a careful one only when
\* no functor of its calls is left.
DropRef(w) ==
  /\ wref[w] /\ wpc[w] = "idle"
  /\ setup.careful => /\ ioPc \in {"poll", "ended"}
                      /\ \A i \in DOMAIN pending : Strong(pending[i])
  /\ wref' = [wref EXCEPT ![w] = FALSE]
  /\ UNCHANGED <<peerVars, connVars, loopVars, serverVars, wpc, histVars>>

-----------------------------------------------------------------------------
(* The base loop and the peer.                                             *)

RemoveKeepsEntryMutant ==
  /\ basePending > 0 /\ ~baseRef
  /\ server = "alive"
  /\ basePending' = basePending - 1
  /\ baseRef' = TRUE
  /\ pending' = Append(pending, Functor("destroyed"))
  /\ UNCHANGED <<peerVars, connVars, ioPc, cbRet, revents, batch, batchRef, inMap,
                 server, setup, workerVars, histVars>>

removeConnectionInLoop ==
  /\ basePending > 0 /\ ~baseRef
  /\ server = "alive"
  /\ basePending' = basePending - 1
  /\ baseRef' = TRUE
  /\ inMap' = FALSE
  /\ pending' = Append(pending, Functor("destroyed"))
  /\ UNCHANGED <<peerVars, connVars, ioPc, cbRet, revents, batch, batchRef,
                 server, setup, workerVars, histVars>>

BaseEndBatch ==
  /\ baseRef
  /\ baseRef' = FALSE
  /\ UNCHANGED <<peerVars, connVars, loopVars, inMap, basePending, server, setup,
                 workerVars, histVars>>

\* ~TcpServer in the base thread, whose loop has been left: functors queued there
\* are not run any more.  The body hands the connection still in connections_ to
\* connectDestroyed(); then the members go, the thread pool among them, which calls
\* quit() on the io loop and joins its thread; and then the base loop.
ServerDestructor ==
  /\ setup.serverMayDie /\ setup.loops = "sub"
  /\ setup.careful => \A w \in Workers : wpc[w] = "idle"
  /\ server = "alive" /\ ~baseRef
  /\ server' = "body"
  /\ inMap' = FALSE
  /\ pending' = IF inMap THEN Append(pending, Functor("destroyed")) ELSE pending
  /\ UNCHANGED <<peerVars, connVars, ioPc, cbRet, revents, batch, batchRef,
                 basePending, baseRef, setup, workerVars, histVars>>

QuitIoLoop ==
  /\ server = "body"
  /\ server' = "quit"
  /\ UNCHANGED <<peerVars, connVars, loopVars, inMap, basePending, baseRef, setup,
                 workerVars, histVars>>

BaseLoopDestroyed ==
  /\ ioPc = "ended" /\ basePending > 0
  /\ basePending' = 0
  /\ UNCHANGED <<peerVars, connVars, loopVars, inMap, baseRef, server, setup,
                 workerVars, histVars>>

PeerSends ==
  /\ ~inData /\ ~peerFin /\ ~peerRst /\ Alive
  /\ inData' = TRUE
  /\ UNCHANGED <<peerFin, peerRst, connVars, loopVars, serverVars, workerVars,
                 histVars>>

PeerCloses ==
  /\ ~peerFin /\ ~peerRst /\ Alive
  /\ peerFin' = TRUE
  /\ UNCHANGED <<inData, peerRst, connVars, loopVars, serverVars, workerVars,
                 histVars>>

PeerResets ==
  /\ ~peerRst /\ Alive
  /\ peerRst' = TRUE
  /\ inData' = FALSE
  /\ UNCHANGED <<peerFin, connVars, loopVars, serverVars, workerVars, histVars>>

-----------------------------------------------------------------------------
IoStep ==
  \/ Poll \/ CloseEvent \/ ReadDataEvent \/ ReadErrorEvent \/ ReadEofEvent
  \/ WriteEvent \/ Swap \/ EndBatch \/ LoopEnds
  \/ connectEstablished \/ RunSendInLoop \/ RunShutdownInLoop
  \/ RunWriteComplete \/ connectDestroyed \/ UseAfterFree
  \/ CallbackReturns

UserStep == SendInCallback \/ ShutdownInCallback

BaseStep ==
  removeConnectionInLoop \/ BaseEndBatch \/ QuitIoLoop \/ BaseLoopDestroyed

PeerStep == PeerSends \/ PeerCloses \/ PeerResets

WorkerCall(w) ==
  \/ SendCheck(w) \/ SendPush(w)
  \/ ShutdownCheck(w) \/ ShutdownSet(w) \/ ShutdownPush(w)

Next ==
  /\ uaf = "none"
  /\ \/ IoStep
     \/ UserStep
     \/ BaseStep
     \/ ServerDestructor
     \/ PeerStep
     \/ \E w \in Workers : WorkerCall(w) \/ DropRef(w)

\* The loops' threads run on (no lost wakeup: EventLoop), callbacks return, a
\* worker in the middle of a call finishes it and drops its pointer some day.
Fairness ==
  /\ WF_vars(uaf = "none" /\ IoStep)
  /\ WF_vars(uaf = "none" /\ BaseStep)
  /\ \A w \in Workers : /\ WF_vars(uaf = "none" /\ (SendPush(w) \/ ShutdownSet(w)
                                                     \/ ShutdownPush(w)))
                        /\ SF_vars(uaf = "none" /\ DropRef(w))

SafetySpec == Init /\ [][Next]_vars
Spec == SafetySpec /\ Fairness

-----------------------------------------------------------------------------
(* Properties.                                                             *)

FunctorKinds == {"established", "destroyed", "sendInLoop", "shutdownInLoop",
                 "writeComplete"}
Functors == [kind : FunctorKinds, msg : Nat]

TypeOK ==
  /\ state \in States
  /\ events \in SUBSET {"read", "write"} /\ registered \in BOOLEAN
  /\ outbuf \in Seq(Nat) /\ wire \in Seq(Nat) /\ accepted \in Seq(Nat)
  /\ finSent \in BOOLEAN
  /\ inData \in BOOLEAN /\ peerFin \in BOOLEAN /\ peerRst \in BOOLEAN
  /\ ioPc \in {"poll", "event", "callback", "run", "ended"} /\ cbRet \in {"event", "run"}
  /\ revents \in SUBSET {"IN", "OUT", "HUP"}
  /\ pending \in Seq(Functors) /\ batch \in Seq(Functors) /\ batchRef \in BOOLEAN
  /\ inMap \in BOOLEAN /\ basePending \in Nat /\ baseRef \in BOOLEAN
  /\ server \in {"alive", "body", "quit", "last"} /\ setup \in Setups
  /\ wpc \in [Workers -> {"idle", "sendChecked", "shutChecked", "shutSet"}]
  /\ wref \in [Workers -> BOOLEAN]
  /\ sends \in Nat /\ ups \in Nat /\ downs \in Nat
  /\ overwritten \in BOOLEAN
  /\ uaf \in {"none", "conn", "loop"}

\* The byte stream is kept: what was written to the socket, followed by what
\* waits in outputBuffer_, is exactly what sendInLoop() accepted, in order,
\* through direct writes, partial writes and EPOLLOUT.
StreamPreserved == wire \o outbuf = accepted

\* The write side of an open connection is closed only after everything
\* accepted was written: shutdown(), from whatever thread, with output pending
\* waits for handleWrite() to drain it; and from then on send() refuses.  (One that
\* passed its test before shutdown() still runs, and fails with EPIPE.)
FlushBeforeFin ==
  /\ finSent /\ downs = 0 => outbuf = <<>>
  /\ finSent => state # "kConnected"

\* EPOLLOUT is watched exactly while output is waiting, until the connection is
\* closed: neither a stall (output but no interest) nor a busy loop (interest
\* but nothing to write).
WritingIffOutput == downs = 0 => (isWriting <=> outbuf # <<>>)

\* The user sees one disconnect at most, and only after the connect, unless a
\* worker's shutdown() has overwritten kDisconnected; and a connection does not go
\* without it, unless ~TcpServer runs: then the io loop may end before it runs
\* connectDestroyed(), which tells nobody in kDisconnecting anyway.
UpDownOnce ==
  /\ ups <= 1 /\ (downs <= ups \/ overwritten)
  /\ ~Alive /\ server = "alive" => downs >= ups

\* A connection that the kernel watches, whose events are being dispatched or
\* whose callbacks run exists: its channel is out of the poller before the last
\* pointer goes, and no pointer of the server or of a functor is let go early
\* (so the weak pointer tie_ can always be locked).  There are two exceptions, in
\* which a send() that runs after connectDestroyed() registers the channel again:
\* a worker's shutdown() has overwritten kDisconnected; or ~TcpServer destroyed the
\* connection in kDisconnecting, which leaves that state as it is, while a worker
\* still sends.
WatchedIsAlive ==
  /\ registered \/ revents # {} \/ ioPc = "callback"
  /\ ~overwritten
  /\ setup.careful \/ server = "alive"
  => Alive

\* No functor runs on a destroyed connection, and nothing is queued in a destroyed
\* loop, as long as workers keep their pointer while a functor of theirs is queued
\* and call nothing once the server is destroyed.  Closes that the io loop handles
\* while ~TcpServer runs are harmless then: the pool joins it before the server is
\* gone, and the base loop runs no functor any more.
CarefulIsSafe == setup.careful => uaf = "none"

\* The comment on tie(), TcpConnection.cc:199-201: the connection is not destroyed
\* while there are events of it to handle.
NoUseAfterFree == uaf = "none"

\* TcpConnection.cc:116-119 "disconnected, give up writing": after the close was
\* handled no functor writes to the socket or fills outputBuffer_ again, unless a
\* worker's shutdown() has overwritten kDisconnected.
GivesUpAfterDisconnect ==
  [][downs > 0 /\ ~overwritten => accepted' = accepted]_vars

\* When the peer closes or resets, or the server is destroyed, the connection is
\* destroyed in the end: the close reaches the base loop, comes back as
\* connectDestroyed() or goes down with the io loop, and the last pointer goes.
ClosedIsDestroyed ==
  (peerFin \/ peerRst \/ server # "alive") ~> (~Alive \/ uaf # "none")
=============================================================================
