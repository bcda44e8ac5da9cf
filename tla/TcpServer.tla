------------------------------ MODULE TcpServer ------------------------------
(***************************************************************************)
(* A TcpServer with its Acceptor (src/net/TcpServer.cc, Acceptor.cc), the  *)
(* sub loops of EventLoopThreadPool and several connections: start(), the  *)
(* way of a connection from the backlog of the listening socket through    *)
(* newConnection() to its loop and back out of connections_, and           *)
(* ~TcpServer.  What happens on one connection is in TcpConnection.        *)
(*                                                                         *)
(* The owner is the base loop's thread.  A functor is a pair of what is    *)
(* called and the connection whose pointer it holds.  A connection exists, *)
(* and its descriptor is open, while connections_ or a functor holds a     *)
(* pointer to it.  Without sub loops the base loop serves the connections, *)
(* which TcpConnection covers.                                             *)
(***************************************************************************)
EXTENDS EventLoopThreadPool, SequencesExt, FiniteSets

CONSTANTS
  Clients,
  MaxFds      \* descriptors that connections can have

ASSUME ServerAssumption == numThreads # 0 /\ MaxFds \in Nat \ {0}

VARIABLES
  listening,     \* acceptChannel_ is watched
  backlog,       \* clients whose connection the kernel has set up
  conn,          \* per client: its connection
  ioLoop,        \* per connection: its loop
  connections,   \* connections_
  pending        \* per loop: pendingFunctors_

serverVars == <<listening, backlog, conn, ioLoop, connections, pending>>
vars == <<threadPoolVars, fault, serverVars>>

Init ==
  /\ PoolInit
  /\ listening = FALSE /\ backlog = <<>>
  /\ conn = [c \in Clients |-> "trying"]
  /\ ioLoop = [c \in Clients |-> Base]
  /\ connections = {}
  /\ pending = [i \in Ids \cup {Base} |-> <<>>]

Queued(c) == \E i \in DOMAIN pending : \E k \in DOMAIN pending[i] : pending[i][k][2] = c
Open == {c \in Clients : c \in connections \/ Queued(c)}

\* queueInLoop(), by another thread.
Queue(i, f) ==
  IF LoopAlive(i) THEN pending' = [pending EXCEPT ![i] = Append(@, f)] /\ UNCHANGED fault
  ELSE fault' = "freed" /\ UNCHANGED pending

-----------------------------------------------------------------------------
(* The base loop.                                                          *)

\* start(), called once, after the pool has started.
listen ==
  /\ opc = "run" /\ ~listening
  /\ listening' = TRUE
  /\ UNCHANGED <<threadPoolVars, fault, backlog, conn, ioLoop, connections, pending>>

Connect(c) ==
  /\ listening /\ opc # "done" /\ conn[c] = "trying"
  /\ conn' = [conn EXCEPT ![c] = "backlog"]
  /\ backlog' = Append(backlog, c)
  /\ UNCHANGED <<threadPoolVars, fault, listening, ioLoop, connections, pending>>

\* Acceptor::handleRead() with newConnection().  When there is no descriptor left,
\* accept() fails, which is only logged: the client stays in the backlog and the
\* poller reports it again.
newConnection(c) ==
  /\ getNextLoop
  /\ conn' = [conn EXCEPT ![c] = "connecting"]
  /\ ioLoop' = [ioLoop EXCEPT ![c] = last']
  /\ connections' = connections \cup {c}
  /\ Queue(last', <<"established", c>>)

DropsClientMutant ==
  /\ opc = "run" /\ listening /\ backlog # <<>>
  /\ backlog' = Tail(backlog)
  /\ IF Cardinality(Open) < MaxFds THEN newConnection(Head(backlog))
     ELSE UNCHANGED <<threadPoolVars, fault, conn, ioLoop, connections, pending>>
  /\ UNCHANGED listening

handleRead ==
  /\ opc = "run" /\ listening /\ backlog # <<>>
  /\ Cardinality(Open) < MaxFds
  /\ backlog' = Tail(backlog)
  /\ newConnection(Head(backlog))
  /\ UNCHANGED listening

ErasedMutant(c) == connections
Erased(c) == connections \ {c}

\* The next functor of the base loop.
removeConnectionInLoop ==
  /\ opc = "run" /\ pending[Base] # <<>>
  /\ LET c == Head(pending[Base])[2] IN
       /\ connections' = Erased(c)
       /\ IF LoopAlive(ioLoop[c])
          THEN /\ pending' = [pending EXCEPT ![Base] = Tail(@),
                                ![ioLoop[c]] = Append(@, <<"destroyed", c>>)]
               /\ UNCHANGED fault
          ELSE fault' = "freed" /\ UNCHANGED pending
  /\ UNCHANGED <<threadPoolVars, listening, backlog, conn, ioLoop>>

\* ~TcpServer, its base loop having been left: the body, then the pool.
Destructor ==
  /\ BeginDestroy
  /\ LET Of(i) == {<<"destroyed", c>> : c \in {d \in connections : ioLoop[d] = i}}
     IN pending' = [i \in DOMAIN pending |-> pending[i] \o SetToSeq(Of(i))]
  /\ fault' = IF \E c \in connections : ~LoopAlive(ioLoop[c]) THEN "freed" ELSE fault
  /\ connections' = {}
  /\ UNCHANGED <<listening, backlog, conn, ioLoop>>

-----------------------------------------------------------------------------
(* A sub loop.  It ends between two turns only, but a functor that is run  *)
(* in a turn of its own might as well have been queued later.  The pointer *)
(* a functor carries goes with it here, and at the end of its batch in the *)
(* code: the descriptor of a connection that was destroyed is closed at    *)
(* most one batch later, before the loop polls again.  Where it matters    *)
(* which pointer is the last one, TcpConnection keeps the batch.           *)

Run(i, call, to) ==
  /\ tpc[i] = "looping" /\ pending[i] # <<>>
  /\ LET f == Head(pending[i]) IN
       /\ f[1] = call
       /\ conn' = [conn EXCEPT ![f[2]] = to]
  /\ pending' = [pending EXCEPT ![i] = Tail(@)]
  /\ UNCHANGED <<threadPoolVars, fault, listening, backlog, ioLoop, connections>>

RunEstablished(i) == Run(i, "established", "up")
RunDestroyed(i) == Run(i, "destroyed", "destroyed")

\* handleClose(), when the peer closed, with removeConnection().
handleClose(c) ==
  /\ conn[c] = "up" /\ tpc[ioLoop[c]] = "looping"
  /\ conn' = [conn EXCEPT ![c] = "closed"]
  /\ pending' = [pending EXCEPT ![Base] = Append(@, <<"remove", c>>)]
  /\ UNCHANGED <<threadPoolVars, fault, listening, backlog, ioLoop, connections>>

\* A loop is destroyed with the functors that it has not run.
LoopDestroyed(i) ==
  /\ ThreadEnds(i)
  /\ pending' = [pending EXCEPT ![i] = <<>>]
  /\ UNCHANGED <<listening, backlog, conn, ioLoop, connections>>

-----------------------------------------------------------------------------
ThreadMoves(i) ==
  \/ (PostTid(i) \/ PublishLoop(i) \/ EnterLoop(i) \/ ExitLoop(i) \/ ClearLoop(i))
       /\ UNCHANGED serverVars
  \/ LoopDestroyed(i)

OwnerMoves == OwnerStep /\ UNCHANGED serverVars

Serve(i) == RunEstablished(i) \/ RunDestroyed(i)

Next ==
  /\ fault = "none"
  /\ \/ OwnerMoves
     \/ listen \/ handleRead \/ removeConnectionInLoop \/ Destructor
     \/ \E c \in Clients : Connect(c) \/ handleClose(c)
     \/ \E i \in Ids : ThreadMoves(i) \/ Serve(i) \/ (SelfQuit(i) /\ UNCHANGED serverVars)

\* Every thread that can run runs on; a turn of a loop handles an event and then
\* runs the functors; a loop whose quit_ is set ends, at the latest when its poll
\* times out (EventLoop's QuitEndsLoop).  Clients try again.
Fairness ==
  /\ WF_vars(fault = "none" /\ (OwnerMoves \/ listen))
  /\ WF_vars(fault = "none" /\ handleRead)
  /\ WF_vars(fault = "none" /\ removeConnectionInLoop)
  /\ \A i \in Ids : WF_vars(fault = "none" /\ ThreadMoves(i))
  /\ \A i \in Ids : WF_vars(fault = "none" /\ Serve(i))
  /\ \A c \in Clients : WF_vars(fault = "none" /\ Connect(c))

SafetySpec == Init /\ [][Next]_vars
Spec == SafetySpec /\ Fairness

-----------------------------------------------------------------------------
(* Properties.                                                             *)

ServerTypeOK ==
  /\ TypeOK
  /\ listening \in BOOLEAN /\ backlog \in Seq(Clients)
  /\ conn \in [Clients -> {"trying", "backlog", "connecting", "up", "closed", "destroyed"}]
  /\ ioLoop \in [Clients -> Ids \cup {Base}]
  /\ connections \subseteq Clients
  /\ pending \in [Ids \cup {Base} ->
                    Seq({"established", "destroyed", "remove"} \X Clients)]

\* Every descriptor is accounted for, whatever the loops are doing.  While the server
\* runs, that of a destroyed connection is closed, a connection that the peer closed
\* is on its way out, with a functor queued for it, unless its loop ended itself, and
\* no other connection is lost; after ~TcpServer only a functor that the base loop
\* did not run holds one.
FdsAccounted ==
  /\ opc = "run" =>
       \A c \in Clients :
         /\ conn[c] = "destroyed" => c \notin Open
         /\ conn[c] = "closed" => Queued(c) \/ ioLoop[c] \in selfQuit
         /\ conn[c] \in {"connecting", "up"} => c \in connections
  /\ opc = "done" => \A c \in Open : <<"remove", c>> \in Range(pending[Base])

\* A client that tries to connect is accepted, although accept() fails as long as
\* there are no descriptors: start() comes to an end (no notification is lost between
\* the test of loop_ and the wait, unless a callback ends the loop first), and a
\* client that could not be accepted is not forgotten.
ClientIsAccepted ==
  []<>(Cardinality(Open) < MaxFds) =>
    \A c \in Clients :
      (conn[c] \in {"trying", "backlog"})
        ~> (\/ conn[c] \notin {"trying", "backlog"}
            \/ opc \in {"destroy", "quit", "quitting", "join", "done"}
            \/ selfQuit # {})
=============================================================================
