---------------------------- MODULE FunctorQueue ----------------------------
(***************************************************************************)
(* What EventLoop::queueInLoop promises: callbacks handed to a loop by any *)
(* thread are run by the loop's thread in the order in which they were     *)
(* queued, each one once.  Nothing is said of threads, locks or wakeups.   *)
(***************************************************************************)
EXTENDS Sequences

CONSTANT Functor          \* the callbacks that can be queued

VARIABLES queue,          \* queued and not yet run, oldest first
          executed        \* run so far, in order

qvars == <<queue, executed>>

QueueInit ==
  /\ queue = <<>>
  /\ executed = <<>>

Enqueue(f) ==
  /\ queue' = Append(queue, f)
  /\ UNCHANGED executed

Execute ==
  /\ queue # <<>>
  /\ executed' = Append(executed, Head(queue))
  /\ queue' = Tail(queue)

QueueNext ==
  \/ \E f \in Functor : Enqueue(f)
  \/ Execute

QueueSpec == QueueInit /\ [][QueueNext]_qvars

=============================================================================
