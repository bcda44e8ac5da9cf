----------------------------- MODULE TimerQueue -----------------------------
(***************************************************************************)
(* The timers of one loop (src/timer/TimerQueue.cc): an ordered set of     *)
(* Timer objects and one timerfd that is armed for the first of them.      *)
(* addTimer() may be called in any thread; everything else happens in the  *)
(* loop's thread.                                                          *)
(*                                                                         *)
(* Time is counted down in units of the shortest wait that resetTimerfd()  *)
(* asks for, 100 microseconds.  Expirations are on the wall clock, which   *)
(* may be set, and the timerfd is on the monotonic clock: wait[t] is the   *)
(* wall time left until t expires, fd the monotonic time left until the    *)
(* timerfd is readable.  Time may pass between any two steps.              *)
(***************************************************************************)
EXTENDS Integers, Sequences

CONSTANTS
  Timers,     \* addresses of Timer objects
  Delays,     \* expiration - now, in addTimer()
  Intervals,  \* interval_, 0 for a timer that does not repeat
  MaxLate,    \* bound: how late a timer may get and still be told from later ones
  Disarmed    \* the timerfd is not armed

ASSUME TimerAssumption ==
  /\ Timers \subseteq Nat
  /\ Delays \subseteq Int
  /\ Intervals \subseteq Nat
  /\ MaxLate \in Nat
  /\ Disarmed \notin Nat

VARIABLES
  heap,      \* the Timer objects that exist
  wait,      \* per timer: expiration_ - now
  interval,  \* per timer: interval_
  pending,   \* addTimerInLoop() functors of other threads, in the loop's queue
  timers,    \* timers_
  toRun,     \* handleRead()'s vector expired: callbacks still to be run
  toReset,   \* the part of it that was run, to be restarted or deleted
  pc,        \* the loop's thread: "loop", "calling" (in handleRead), "callback"
  fd,        \* timerfd_: time left, 0 when it is readable
  clock      \* history of the wall clock: "steady", set "ahead", set "back"

timerVars == <<heap, interval, pending, timers>>
vars == <<timerVars, wait, toRun, toReset, pc, fd, clock>>

Init ==
  /\ heap = {} /\ pending = <<>> /\ timers = {}
  /\ wait = [t \in Timers |-> 0] /\ interval = [t \in Timers |-> 0]
  /\ toRun = {} /\ toReset = {}
  /\ pc = "loop"
  /\ fd = Disarmed
  /\ clock = "steady"

-----------------------------------------------------------------------------
(* The ordered set and the timerfd.                                        *)

\* t is the first of S, a set of pairs of an expiration and an address.
IsFirst(t, S, w) ==
  /\ t \in S
  /\ \A u \in S : w[t] < w[u] \/ (w[t] = w[u] /\ t <= u)

\* resetTimerfd(): a time of zero would disarm the timerfd, so the shortest is 1.
DeadlineMutant(left) == IF left < 1 THEN Disarmed ELSE left
Deadline(left) == IF left < 1 THEN 1 ELSE left

\* insert(): does an expiration come before those in the set?
EarliestChangedMutant(left) == timers = {}
EarliestChanged(left) == \A u \in timers : left < wait[u]

\* addTimerInLoop() of a timer that expires in `left'.
addTimerInLoop(t, left) ==
  /\ timers' = timers \cup {t}
  /\ fd' = IF EarliestChanged(left) THEN Deadline(left) ELSE fd

-----------------------------------------------------------------------------
(* addTimer().                                                             *)

NewTimer(t, left, every) ==
  /\ t \in Timers \ heap
  /\ heap' = heap \cup {t}
  /\ wait' = [wait EXCEPT ![t] = left]
  /\ interval' = [interval EXCEPT ![t] = every]

\* In the loop's thread, from a callback of a timer or from any other one, the
\* functor runs at once.
AddInLoop(t, left, every) ==
  /\ pc \in {"loop", "callback"}
  /\ NewTimer(t, left, every)
  /\ addTimerInLoop(t, left)
  /\ UNCHANGED <<pending, toRun, toReset, pc, clock>>

AddFromThread(t, left, every) ==
  /\ NewTimer(t, left, every)
  /\ pending' = Append(pending, t)
  /\ UNCHANGED <<timers, toRun, toReset, pc, fd, clock>>

RunAddTimer ==
  /\ pc = "loop"
  /\ pending # <<>>
  /\ addTimerInLoop(Head(pending), wait[Head(pending)])
  /\ pending' = Tail(pending)
  /\ UNCHANGED <<heap, interval, wait, toRun, toReset, pc, clock>>

-----------------------------------------------------------------------------
(* handleRead().                                                           *)

\* now is read, the timerfd is read and what has expired leaves the set.  (When a
\* callback of the same turn armed the timerfd again in between, read() finds nothing
\* and the rest is as here; the timerfd armed for a timer that this round takes fires
\* once more, for a round that finds nothing.)
HandleRead ==
  /\ pc = "loop"
  /\ fd = 0
  /\ fd' = Disarmed
  /\ toRun' = {t \in timers : wait[t] <= 0}
  /\ timers' = timers \ toRun'
  /\ pc' = "calling"
  /\ UNCHANGED <<heap, interval, pending, wait, toReset, clock>>

RunCallback ==
  /\ pc = "calling"
  /\ \E t \in toRun :
       /\ IsFirst(t, toRun, wait)
       /\ toRun' = toRun \ {t}
       /\ toReset' = toReset \cup {t}
  /\ pc' = "callback"
  /\ UNCHANGED <<timerVars, wait, fd, clock>>

CallbackReturns ==
  /\ pc = "callback"
  /\ pc' = "calling"
  /\ UNCHANGED <<timerVars, wait, toRun, toReset, fd, clock>>

\* resetTimerfd() for the first timer, if there is any.
ArmForFirst(S, w) ==
  \/ S = {} /\ fd' = fd
  \/ \E t \in S : IsFirst(t, S, w) /\ fd' = Deadline(w[t])

\* One round of the loop in reset(): a repeated timer is restarted, counted from
\* now, another one is deleted, and the timerfd is armed again.
ArmRepeatedOnlyMutant ==
  /\ pc = "calling" /\ toRun = {}
  /\ \E t \in toReset :
       /\ IsFirst(t, toReset, wait)
       /\ toReset' = toReset \ {t}
       /\ wait' = [wait EXCEPT ![t] = interval[t]]
       /\ IF interval[t] > 0
          THEN /\ timers' = timers \cup {t}
               /\ UNCHANGED heap
               /\ ArmForFirst(timers', wait')
          ELSE /\ heap' = heap \ {t}
               /\ UNCHANGED <<timers, fd>>
  /\ UNCHANGED <<interval, pending, toRun, pc, clock>>

DeleteForgottenMutant ==
  /\ pc = "calling" /\ toRun = {}
  /\ \E t \in toReset :
       /\ IsFirst(t, toReset, wait)
       /\ toReset' = toReset \ {t}
       /\ wait' = [wait EXCEPT ![t] = interval[t]]
       /\ timers' = IF interval[t] > 0 THEN timers \cup {t} ELSE timers
  /\ ArmForFirst(timers', wait')
  /\ UNCHANGED <<heap, interval, pending, toRun, pc, clock>>

ResetTimer ==
  /\ pc = "calling" /\ toRun = {}
  /\ \E t \in toReset :
       /\ IsFirst(t, toReset, wait)
       /\ toReset' = toReset \ {t}
       /\ wait' = [wait EXCEPT ![t] = interval[t]]
       /\ IF interval[t] > 0
          THEN /\ timers' = timers \cup {t}
               /\ UNCHANGED heap
          ELSE /\ heap' = heap \ {t}
               /\ UNCHANGED timers
  /\ ArmForFirst(timers', wait')
  /\ UNCHANGED <<interval, pending, toRun, pc, clock>>

EndRead ==
  /\ pc = "calling" /\ toRun = {} /\ toReset = {}
  /\ pc' = "loop"
  /\ UNCHANGED <<timerVars, wait, toRun, toReset, fd, clock>>

-----------------------------------------------------------------------------
(* Time.                                                                   *)

\* The wall clock goes on by d.
WallClock(d) ==
  wait' = [t \in Timers |->
             IF t \notin heap THEN wait[t]
             ELSE IF wait[t] - d < -MaxLate THEN -MaxLate ELSE wait[t] - d]

Tick ==
  /\ WallClock(1)
  /\ fd' = IF fd \in Nat /\ fd > 0 THEN fd - 1 ELSE fd
  /\ UNCHANGED <<timerVars, toRun, toReset, pc, clock>>

\* The wall clock is set ahead, or back (once), or runs slower than the
\* monotonic one.
ClockAhead ==
  /\ WallClock(1)
  /\ clock' = IF clock = "steady" THEN "ahead" ELSE clock
  /\ UNCHANGED <<timerVars, toRun, toReset, pc, fd>>

ClockBack ==
  /\ clock # "back"
  /\ WallClock(-1)
  /\ clock' = "back"
  /\ UNCHANGED <<timerVars, toRun, toReset, pc, fd>>

-----------------------------------------------------------------------------
Adds == \E t \in Timers, left \in Delays, every \in Intervals :
          AddInLoop(t, left, every) \/ AddFromThread(t, left, every)

HandlerStep == RunCallback \/ CallbackReturns \/ ResetTimer \/ EndRead

Next ==
  \/ Adds
  \/ RunAddTimer
  \/ HandleRead
  \/ HandlerStep
  \/ Tick
  \/ ClockAhead
  \/ ClockBack

\* Time passes, callbacks return, and every turn of the loop (EventLoop) runs the
\* functors queued before it: strong fairness, as handleRead() comes in between.
Fairness ==
  /\ WF_vars(Tick)
  /\ SF_vars(RunAddTimer)
  /\ WF_vars(HandleRead)
  /\ WF_vars(HandlerStep)

SafetySpec == Init /\ [][Next]_vars
Spec == SafetySpec /\ Fairness

-----------------------------------------------------------------------------
(* Properties.                                                             *)

TypeOK ==
  /\ heap \in SUBSET Timers /\ timers \in SUBSET Timers
  /\ toRun \in SUBSET Timers /\ toReset \in SUBSET Timers
  /\ pending \in Seq(Timers)
  /\ wait \in [Timers -> Int] /\ interval \in [Timers -> Nat]
  /\ pc \in {"loop", "calling", "callback"}
  /\ fd \in Nat \cup {Disarmed}
  /\ clock \in {"steady", "ahead", "back"}

Queued == {pending[i] : i \in DOMAIN pending}

\* A Timer object is in one place, and is deleted exactly when it is in none:
\* none leaks, and none is deleted that the set, the vector or a functor still
\* refers to.
OwnedOnce ==
  /\ heap = Queued \cup timers \cup toRun \cup toReset
  /\ \A i, j \in DOMAIN pending : pending[i] = pending[j] => i = j
  /\ Queued \cap (timers \cup toRun \cup toReset) = {}
  /\ timers \cap (toRun \cup toReset) = {}
  /\ toRun \cap toReset = {}

\* No timer is forgotten: between two events the timerfd is armed or readable
\* whenever a timer waits, unless the wall clock was set back (then handleRead()
\* may find nothing expired, and arms nothing).
StillArmed ==
  clock # "back" /\ pc = "loop" /\ timers # {} => fd # Disarmed

\* The timerfd fires in time for every timer, not only for the one it was armed
\* for, as long as the wall clock is steady.
OnTime ==
  clock = "steady" /\ pc = "loop" =>
    \A t \in timers : fd # Disarmed /\ fd <= Deadline(wait[t])

\* The inductive invariant behind these: outside a round of handleRead() whose
\* timers are still to be reset, the timerfd is armed whenever a timer waits, early
\* enough for all and not too early for all, so that it never fires in vain.
Idle == toRun = {} /\ toReset = {}

Armed == clock # "back" /\ Idle /\ timers # {} => fd # Disarmed
NotInVain ==
  clock # "back" /\ timers # {} /\ fd # Disarmed => \E t \in timers : wait[t] <= fd
InTime ==
  clock = "steady" /\ Idle /\ fd # Disarmed => \A t \in timers : fd <= Deadline(wait[t])

TimerInv ==
  /\ TypeOK
  /\ OwnedOnce
  /\ pc = "loop" => Idle
  /\ Armed
  /\ NotInVain
  /\ InTime

\* Every timer added is run, and a repeated one again and again: whichever thread
\* added it, and whatever is added, restarted or deleted around it.
TimerRuns ==
  \A t \in Timers :
    (t \in timers \/ t \in Queued) ~> (t \in toReset \/ clock = "back")
=============================================================================
