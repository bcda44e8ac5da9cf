----------------------------- MODULE MCEventLoop -----------------------------
(* Instance of EventLoop for TLC.                                          *)
EXTENDS EventLoop, TLC

CONSTANTS t1, t2

\* One thread queues two callbacks, so that their order shows; the other and
\* the loop's own thread queue one each.
Posts == (t1 :> 2) @@ (t2 :> 1) @@ (LoopThread :> 1)
=============================================================================
