--------------------------- MODULE MCTcpConnection ---------------------------
(* Instance of TcpConnection for TLC.                                      *)
EXTENDS TcpConnection, TLC

CONSTANTS w1, w2

\* A careful worker that sends and shuts down, and a server that may go.
Careful == [loops : {"sub"}, notified : {TRUE},
            ops : {(w1 :> {"send", "shutdown"}) @@ (w2 :> {})},
            careful : {TRUE}, serverMayDie : {TRUE}]

\* Two of them, one that sends and one that shuts down: the calls race with each other.
Racing == [loops : {"base"}, notified : BOOLEAN,
           ops : {(w1 :> {"send"}) @@ (w2 :> {"shutdown"})},
           careful : {TRUE}, serverMayDie : {FALSE}]

\* Two workers that let their pointers go at any time.
Careless == [loops : {"sub", "base"}, notified : {FALSE},
             ops : {(w1 :> {"send"}) @@ (w2 :> {"send"})},
             careful : {FALSE}, serverMayDie : {FALSE}]

\* One of them, and a server that may go too.
Dying == [loops : {"sub"}, notified : {TRUE}, ops : {(w1 :> {"send"}) @@ (w2 :> {})},
          careful : {FALSE}, serverMayDie : {TRUE}]

AllSetups == Careful \cup Racing \cup Careless \cup Dying

\* One careless worker.
OneCareless == [loops : {"sub", "base"}, notified : BOOLEAN,
                ops : {(w1 :> {"send"}) @@ (w2 :> {})},
                careful : {FALSE}, serverMayDie : {FALSE}]
=============================================================================
