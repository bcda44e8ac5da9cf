-------------------------- MODULE TimerQueueProofs --------------------------
(* Proofs about TimerQueue, for any set of timers and any times.           *)
EXTENDS TimerQueue, TLAPS

\* The empty queue satisfies the invariant.
LEMMA InitTimerInv == Init => TimerInv
<1> SUFFICES ASSUME Init PROVE TimerInv
  OBVIOUS
<1>1. TypeOK /\ Idle
  BY TimerAssumption DEF Init, TypeOK, Idle
<1>2. OwnedOnce
  BY DEF Init, OwnedOnce, Queued
<1> QED
  BY <1>1, <1>2 DEF Init, TimerInv, Armed, NotInVain, InTime

\* Inserting a timer keeps the timerfd armed early enough: either the new timer
\* is the first and the timerfd is armed for it, or an earlier one is there.
LEMMA InsertKeepsArmed ==
  ASSUME TypeOK, TypeOK', Armed, NotInVain, InTime,
         NEW t \in Timers, NEW left \in Int,
         addTimerInLoop(t, left),
         wait'[t] = left, \A u \in timers : wait'[u] = wait[u],
         UNCHANGED <<toRun, toReset, clock>>
  PROVE  Armed' /\ NotInVain' /\ InTime'
<1>1. /\ timers' = timers \cup {t} /\ timers \subseteq Timers
      /\ wait \in [Timers -> Int] /\ wait' \in [Timers -> Int]
      /\ fd \in Nat \cup {Disarmed}
      /\ clock' = clock /\ Idle' = Idle
  BY DEF addTimerInLoop, TypeOK, Idle
<1>2. CASE EarliestChanged(left)
  <2>1. fd' = Deadline(left) /\ fd' \in Nat /\ fd' # Disarmed /\ left <= fd'
    BY <1>2, TimerAssumption DEF addTimerInLoop, Deadline
  <2>2. \A u \in timers' : fd' <= Deadline(wait'[u])
    BY <1>1, <1>2, <2>1 DEF EarliestChanged, Deadline
  <2>3. wait'[t] <= fd' /\ t \in timers'
    BY <1>1, <2>1
  <2> QED
    BY <2>1, <2>2, <2>3 DEF Armed, NotInVain, InTime
<1>3. CASE ~EarliestChanged(left)
  <2>1. fd' = fd
    BY <1>3 DEF addTimerInLoop
  <2>2. PICK u \in timers : wait[u] <= left
    BY <1>1, <1>3 DEF EarliestChanged
  <2>3. Armed' /\ NotInVain'
    BY <1>1, <2>1, <2>2 DEF Armed, NotInVain
  <2>4. InTime'
    <3> SUFFICES ASSUME clock = "steady", Idle, fd # Disarmed, NEW v \in timers'
                 PROVE  fd <= Deadline(wait'[v])
      BY <1>1, <2>1 DEF InTime
    <3>1. \A w \in timers : fd <= Deadline(wait[w])
      BY DEF InTime
    <3>2. fd \in Nat /\ fd <= Deadline(wait[u]) /\ wait[u] \in Int
      BY <1>1, <2>2, <3>1
    <3> QED
      BY <1>1, <2>2, <3>1, <3>2 DEF Deadline
  <2> QED
    BY <2>3, <2>4
<1> QED
  BY <1>2, <1>3

\* A new Timer object has its times.
LEMMA NewTimerTypes ==
  ASSUME TypeOK, NEW t \in Timers, NEW left \in Delays, NEW every \in Intervals,
         NewTimer(t, left, every)
  PROVE  /\ wait' \in [Timers -> Int] /\ interval' \in [Timers -> Nat]
         /\ heap' = heap \cup {t} /\ t \notin heap /\ left \in Int
         /\ wait'[t] = left /\ \A u \in heap : wait'[u] = wait[u]
  BY TimerAssumption DEF NewTimer, TypeOK

\* addTimer() in the loop's thread.
LEMMA AddInLoopKeepsInv ==
  ASSUME TimerInv, NEW t \in Timers, NEW left \in Delays, NEW every \in Intervals,
         AddInLoop(t, left, every)
  PROVE  TimerInv'
<1>1. TypeOK /\ OwnedOnce /\ NewTimer(t, left, every) /\ addTimerInLoop(t, left)
  BY DEF TimerInv, AddInLoop
<1>2. /\ wait' \in [Timers -> Int] /\ interval' \in [Timers -> Nat]
      /\ heap' = heap \cup {t} /\ t \notin heap /\ left \in Int
      /\ wait'[t] = left /\ \A u \in heap : wait'[u] = wait[u]
  BY <1>1, NewTimerTypes
<1>3. TypeOK'
  BY <1>1, <1>2, TimerAssumption DEF TypeOK, AddInLoop, addTimerInLoop, Deadline
<1>4. OwnedOnce'
  BY <1>1, <1>2 DEF OwnedOnce, Queued, AddInLoop, addTimerInLoop
<1>5. Armed' /\ NotInVain' /\ InTime'
  <2>1. \A u \in timers : wait'[u] = wait[u]
    BY <1>1, <1>2 DEF OwnedOnce
  <2>2. UNCHANGED <<toRun, toReset, clock>>
    BY DEF AddInLoop
  <2> QED
    BY <1>1, <1>2, <1>3, <2>1, <2>2, InsertKeepsArmed DEF TimerInv
<1> QED
  BY <1>3, <1>4, <1>5 DEF TimerInv, Idle, AddInLoop

\* addTimer() in another thread.
LEMMA AddFromThreadKeepsInv ==
  ASSUME TimerInv, NEW t \in Timers, NEW left \in Delays, NEW every \in Intervals,
         AddFromThread(t, left, every)
  PROVE  TimerInv'
<1>1. TypeOK /\ OwnedOnce /\ NewTimer(t, left, every)
  BY DEF TimerInv, AddFromThread
<1>2. /\ wait' \in [Timers -> Int] /\ interval' \in [Timers -> Nat]
      /\ heap' = heap \cup {t} /\ t \notin heap
      /\ \A u \in heap : wait'[u] = wait[u]
  BY <1>1, NewTimerTypes
<1>3. pending \in Seq(Timers) /\ pending' = Append(pending, t)
  BY <1>1 DEF TypeOK, AddFromThread
<1>4. /\ pending' \in Seq(Timers) /\ DOMAIN pending' = DOMAIN pending \cup {Len(pending) + 1}
      /\ \A i \in DOMAIN pending : pending'[i] = pending[i]
      /\ pending'[Len(pending) + 1] = t /\ Len(pending) + 1 \notin DOMAIN pending
  BY <1>3
<1>5. TypeOK'
  BY <1>1, <1>2, <1>4 DEF TypeOK, AddFromThread
<1>6. Queued' = Queued \cup {t} /\ t \notin Queued
  <2>1. t \notin Queued
    BY <1>1, <1>2 DEF OwnedOnce
  <2> QED
    BY <1>4, <2>1 DEF Queued
<1>7. OwnedOnce'
  <2>1. \A i, j \in DOMAIN pending' : pending'[i] = pending'[j] => i = j
    BY <1>1, <1>4, <1>6 DEF OwnedOnce, Queued
  <2> QED
    BY <1>1, <1>2, <1>6, <2>1 DEF OwnedOnce, AddFromThread
<1>8. timers \subseteq heap
  BY <1>1 DEF OwnedOnce
<1> QED
  BY <1>2, <1>5, <1>7, <1>8
     DEF TimerInv, Idle, AddFromThread, Armed, NotInVain, InTime

\* The functor of an addTimer() in another thread.
LEMMA RunAddTimerKeepsInv == TimerInv /\ RunAddTimer => TimerInv'
<1> SUFFICES ASSUME TimerInv, RunAddTimer PROVE TimerInv'
  OBVIOUS
<1> DEFINE t == Head(pending)
<1>1. TypeOK /\ OwnedOnce /\ addTimerInLoop(t, wait[t])
  BY DEF TimerInv, RunAddTimer
<1>2. /\ pending \in Seq(Timers) /\ Len(pending) \in Nat \ {0}
      /\ t = pending[1] /\ t \in Timers
      /\ pending' = Tail(pending) /\ pending' \in Seq(Timers)
      /\ Len(pending') = Len(pending) - 1
      /\ \A i \in 1 .. Len(pending) - 1 : pending'[i] = pending[i + 1]
  <2>1. pending \in Seq(Timers) /\ pending # <<>> /\ pending' = Tail(pending)
    BY <1>1 DEF TypeOK, RunAddTimer
  <2>2. Len(pending) \in Nat \ {0} /\ t = pending[1] /\ t \in Timers
    BY <2>1
  <2> QED
    BY <2>1, <2>2
<1>3. wait[t] \in Int
  BY <1>1, <1>2 DEF TypeOK
<1>4. TypeOK'
  <2>1. fd' \in Nat \cup {Disarmed}
    BY <1>1, <1>3 DEF TypeOK, addTimerInLoop, Deadline
  <2>2. timers' \in SUBSET Timers
    BY <1>1, <1>2 DEF TypeOK, addTimerInLoop
  <2> QED
    BY <1>1, <1>2, <2>1, <2>2 DEF TypeOK, RunAddTimer
<1>5. Queued = Queued' \cup {t} /\ t \notin Queued'
  <2>1. \A i \in DOMAIN pending : i = 1 \/ i - 1 \in DOMAIN pending'
    BY <1>2
  <2>2. \A i \in DOMAIN pending : i # 1 => pending[i] = pending'[i - 1]
    BY <1>2
  <2>3. \A i \in DOMAIN pending' : i + 1 \in DOMAIN pending /\ pending'[i] = pending[i + 1]
    BY <1>2
  <2>4. t \notin Queued'
    BY <1>1, <1>2, <2>3 DEF OwnedOnce, Queued
  <2> QED
    BY <1>2, <2>1, <2>2, <2>3, <2>4 DEF Queued
<1>6. OwnedOnce'
  <2>1. \A i, j \in DOMAIN pending' : pending'[i] = pending'[j] => i = j
    BY <1>1, <1>2 DEF OwnedOnce
  <2>2. timers' = timers \cup {t}
    BY <1>1 DEF addTimerInLoop
  <2> QED
    BY <1>1, <1>5, <2>1, <2>2 DEF OwnedOnce, RunAddTimer
<1>7. Armed' /\ NotInVain' /\ InTime'
  <2>1. wait' = wait /\ UNCHANGED <<toRun, toReset, clock>>
    BY DEF RunAddTimer
  <2> QED
    BY <1>1, <1>2, <1>3, <1>4, <2>1, InsertKeepsArmed DEF TimerInv
<1> QED
  BY <1>4, <1>6, <1>7 DEF TimerInv, Idle, RunAddTimer

\* handleRead() takes out what has expired.  The timerfd does not fire in vain: if
\* nothing has expired, no timer waits.
LEMMA HandleReadKeepsInv == TimerInv /\ HandleRead => TimerInv'
<1> SUFFICES ASSUME TimerInv, HandleRead PROVE TimerInv'
  OBVIOUS
<1>1. TypeOK /\ OwnedOnce /\ Idle
  BY DEF TimerInv, HandleRead
<1>2. TypeOK'
  BY <1>1, TimerAssumption DEF TypeOK, HandleRead
<1>3. OwnedOnce'
  BY <1>1 DEF OwnedOnce, Queued, HandleRead, Idle
<1>4. Armed'
  <2> SUFFICES ASSUME clock # "back", toRun' = {}, timers' # {} PROVE FALSE
    BY DEF Armed, Idle, HandleRead
  <2>1. timers # {} /\ fd = 0 /\ fd # Disarmed
    BY TimerAssumption DEF HandleRead
  <2>2. PICK t \in timers : wait[t] <= 0
    BY <2>1 DEF TimerInv, NotInVain
  <2> QED
    BY <2>2 DEF HandleRead
<1> QED
  BY <1>2, <1>3, <1>4 DEF TimerInv, NotInVain, InTime, HandleRead

\* After a round of reset() the timerfd is armed for the first timer.
LEMMA ResetTimerKeepsInv == TimerInv /\ ResetTimer => TimerInv'
<1> SUFFICES ASSUME TimerInv, ResetTimer PROVE TimerInv'
  OBVIOUS
<1>1. TypeOK /\ OwnedOnce
  BY DEF TimerInv
<1>2. PICK t \in toReset :
        /\ toReset' = toReset \ {t}
        /\ wait' = [wait EXCEPT ![t] = interval[t]]
        /\ IF interval[t] > 0
           THEN timers' = timers \cup {t} /\ heap' = heap
           ELSE heap' = heap \ {t} /\ timers' = timers
  BY DEF ResetTimer
<1>3. t \in Timers /\ interval[t] \in Int /\ wait' \in [Timers -> Int]
      /\ timers' \subseteq Timers
  BY <1>1, <1>2 DEF TypeOK
<1>4. /\ timers' = {} => fd' = fd
      /\ timers' # {} => \E u \in timers' : /\ fd' = Deadline(wait'[u])
                                           /\ \A v \in timers' : wait'[u] <= wait'[v]
  <2>1. ArmForFirst(timers', wait')
    BY DEF ResetTimer
  <2>2. \A u, v \in timers' : wait'[u] \in Int /\ wait'[v] \in Int
    BY <1>3
  <2>3. \A u \in timers' : IsFirst(u, timers', wait')
                            => \A v \in timers' : wait'[u] <= wait'[v]
    BY <2>2 DEF IsFirst
  <2> QED
    BY <2>1, <2>3 DEF ArmForFirst
<1>5. timers' # {} => /\ fd' \in Nat /\ fd' # Disarmed
                      /\ \E u \in timers' : wait'[u] <= fd'
                      /\ \A v \in timers' : fd' <= Deadline(wait'[v])
  <2> SUFFICES ASSUME timers' # {}
               PROVE  /\ fd' \in Nat /\ fd' # Disarmed
                      /\ \E u \in timers' : wait'[u] <= fd'
                      /\ \A v \in timers' : fd' <= Deadline(wait'[v])
    OBVIOUS
  <2>1. PICK u \in timers' : /\ fd' = Deadline(wait'[u])
                             /\ \A v \in timers' : wait'[u] <= wait'[v]
    BY <1>4
  <2>2. \A v \in timers' : wait'[v] \in Int
    BY <1>3
  <2> QED
    BY <2>1, <2>2, TimerAssumption DEF Deadline
<1>6. TypeOK'
  <2>1. fd' \in Nat \cup {Disarmed}
    BY <1>1, <1>4, <1>5 DEF TypeOK
  <2> QED
    BY <1>1, <1>2, <1>3, <2>1 DEF TypeOK, ResetTimer
<1>7. OwnedOnce'
  BY <1>1, <1>2 DEF OwnedOnce, Queued, ResetTimer
<1>8. Armed' /\ NotInVain' /\ InTime'
  BY <1>5 DEF Armed, NotInVain, InTime
<1> QED
  BY <1>6, <1>7, <1>8 DEF TimerInv, ResetTimer

\* As time goes on by one unit, on one clock or on both, the first timer and the
\* timerfd keep their distance.
LEMMA TimeKeepsInv == TimerInv /\ (Tick \/ ClockAhead \/ ClockBack) => TimerInv'
<1> SUFFICES ASSUME TimerInv, Tick \/ ClockAhead \/ ClockBack PROVE TimerInv'
  OBVIOUS
<1>1. TypeOK /\ OwnedOnce
  BY DEF TimerInv
<1>2. /\ UNCHANGED <<heap, interval, pending, timers, toRun, toReset, pc>>
      /\ WallClock(1) \/ WallClock(-1)
  BY DEF Tick, ClockAhead, ClockBack, timerVars
<1>3. wait \in [Timers -> Int] /\ MaxLate \in Nat /\ fd \in Nat \cup {Disarmed}
  BY <1>1, TimerAssumption DEF TypeOK
<1>4. wait' \in [Timers -> Int]
  BY <1>2, <1>3 DEF WallClock
<1>5. TypeOK' /\ OwnedOnce'
  <2>1. fd' \in Nat \cup {Disarmed}
    BY <1>3 DEF Tick, ClockAhead, ClockBack
  <2>2. clock' \in {"steady", "ahead", "back"}
    BY <1>1 DEF Tick, ClockAhead, ClockBack, TypeOK
  <2>3. TypeOK'
    BY <1>1, <1>2, <1>4, <2>1, <2>2 DEF TypeOK
  <2> QED
    BY <1>1, <1>2, <2>3 DEF OwnedOnce, Queued
<1>6. timers \subseteq heap /\ timers \subseteq Timers
  BY <1>1 DEF OwnedOnce, TypeOK
<1>7. CASE Tick
  <2>1. \A t \in timers : wait'[t] = IF wait[t] - 1 < -MaxLate THEN -MaxLate ELSE wait[t] - 1
    BY <1>3, <1>6, <1>7 DEF Tick, WallClock
  <2>2. /\ fd' = IF fd \in Nat /\ fd > 0 THEN fd - 1 ELSE fd
        /\ clock' = clock /\ timers' = timers /\ Idle' = Idle
    BY <1>7, <1>2 DEF Tick, Idle
  <2>3. Armed'
    BY <1>3, <2>2, TimerAssumption DEF TimerInv, Armed
  <2>4. NotInVain'
    BY <1>3, <1>6, <2>1, <2>2, TimerAssumption DEF TimerInv, NotInVain
  <2>5. InTime'
    BY <1>3, <1>6, <2>1, <2>2, TimerAssumption DEF TimerInv, InTime, Deadline
  <2> QED
    BY <1>2, <1>5, <2>3, <2>4, <2>5 DEF TimerInv, Idle
<1>8. CASE ClockAhead
  <2>1. \A t \in timers : wait'[t] = IF wait[t] - 1 < -MaxLate THEN -MaxLate ELSE wait[t] - 1
    BY <1>3, <1>6, <1>8 DEF ClockAhead, WallClock
  <2>2. fd' = fd /\ timers' = timers /\ Idle' = Idle /\ clock' # "steady"
        /\ (clock' # "back" => clock # "back")
    BY <1>8, <1>1, <1>2 DEF ClockAhead, Idle, TypeOK
  <2>3. Armed' /\ InTime'
    BY <2>2 DEF TimerInv, Armed, InTime
  <2>4. NotInVain'
    BY <1>3, <1>6, <2>1, <2>2, TimerAssumption DEF TimerInv, NotInVain
  <2> QED
    BY <1>2, <1>5, <2>3, <2>4 DEF TimerInv, Idle
<1>9. CASE ClockBack
  BY <1>2, <1>5, <1>9 DEF ClockBack, TimerInv, Idle, Armed, NotInVain, InTime
<1> QED
  BY <1>7, <1>8, <1>9

\* Every step keeps the invariant.
LEMMA StepTimerInv == TimerInv /\ [Next]_vars => TimerInv'
<1> SUFFICES ASSUME TimerInv, [Next]_vars PROVE TimerInv'
  OBVIOUS
<1>1. CASE Adds
  BY <1>1, AddInLoopKeepsInv, AddFromThreadKeepsInv DEF Adds
<1>2. CASE RunAddTimer
  BY <1>2, RunAddTimerKeepsInv
<1>3. CASE HandleRead
  BY <1>3, HandleReadKeepsInv
<1>4. CASE ResetTimer
  BY <1>4, ResetTimerKeepsInv
<1>5. CASE RunCallback
  <2>1. PICK t \in toRun : toRun' = toRun \ {t} /\ toReset' = toReset \cup {t}
    BY <1>5 DEF RunCallback
  <2>2. UNCHANGED <<heap, interval, pending, timers, wait, fd, clock>> /\ pc' = "callback"
    BY <1>5 DEF RunCallback, timerVars
  <2>3. TypeOK' /\ OwnedOnce'
    BY <2>1, <2>2 DEF TimerInv, TypeOK, OwnedOnce, Queued
  <2> QED
    BY <2>1, <2>2, <2>3 DEF TimerInv, Idle, Armed, NotInVain, InTime
<1>6. CASE CallbackReturns \/ EndRead \/ UNCHANGED vars
  <2>1. /\ UNCHANGED <<heap, interval, pending, timers, wait, toRun, toReset, fd, clock>>
        /\ pc' \in {"loop", "calling", "callback"}
        /\ pc' = "loop" => Idle
    BY <1>6 DEF CallbackReturns, EndRead, vars, timerVars, TimerInv, TypeOK, Idle
  <2>2. TypeOK' /\ OwnedOnce'
    BY <2>1 DEF TimerInv, TypeOK, OwnedOnce, Queued
  <2> QED
    BY <2>1, <2>2 DEF TimerInv, Idle, Armed, NotInVain, InTime
<1>7. CASE Tick \/ ClockAhead \/ ClockBack
  BY <1>7, TimeKeepsInv
<1> QED
  BY <1>1, <1>2, <1>3, <1>4, <1>5, <1>6, <1>7 DEF Next, HandlerStep

\* The invariant of the timers holds for every set of timers, delays and
\* intervals, with the clocks running on and being set at any time.
THEOREM TimerInvariant == SafetySpec => []TimerInv
<1>1. TimerInv /\ [Next]_vars => TimerInv'
  BY StepTimerInv
<1> QED
  BY InitTimerInv, <1>1, PTL DEF SafetySpec

\* Every Timer object has one owner and is deleted exactly when it has none.
THEOREM TimersOwnedOnce == SafetySpec => []OwnedOnce
<1>1. TimerInv => OwnedOnce
  BY DEF TimerInv
<1> QED
  BY TimerInvariant, <1>1, PTL

\* No timer is forgotten while the wall clock is not set back.
THEOREM TimersStillArmed == SafetySpec => []StillArmed
<1>1. TimerInv => StillArmed
  BY DEF TimerInv, Armed, StillArmed
<1> QED
  BY TimerInvariant, <1>1, PTL

\* The timerfd fires in time for every timer while the wall clock is steady.
THEOREM TimersOnTime == SafetySpec => []OnTime
<1>1. TimerInv => OnTime
  BY DEF TimerInv, Armed, InTime, OnTime
<1> QED
  BY TimerInvariant, <1>1, PTL
=============================================================================
