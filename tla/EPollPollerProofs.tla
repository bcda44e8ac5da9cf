-------------------------- MODULE EPollPollerProofs --------------------------
(* Proofs about EPollPoller, for any sets of channels and descriptors.     *)
EXTENDS EPollPoller, TLAPS

\* The empty poller satisfies the invariant.
LEMMA InitPollerInv == Init => PollerInv
<1> SUFFICES ASSUME Init PROVE PollerInv
  OBVIOUS
<1>1. TypeOK
  BY PollerAssumption DEF Init, TypeOK, Index
<1>2. KernelMirrorsChannels
  BY DEF Init, KernelMirrorsChannels
<1>3. MapAgreesWithIndex /\ DistinctFds
  BY DEF Init, MapAgreesWithIndex, DistinctFds, Live
<1> QED
  BY <1>1, <1>2, <1>3
     DEF Init, PollerInv, NeverFatal, ActiveChannelsLive, ReportedStay, QueuedAreLive

\* The three branches of updateChannel: a channel that is not in the kernel's
\* list is added, one that is there is changed or deleted, and neither fails.
LEMMA SetEventsKeepsInv ==
  ASSUME PollerInv, NEW c \in Channels, NEW ev \in SUBSET Events,
         SetEvents(c, ev)
  PROVE  PollerInv'
<1>t. TypeOK
  BY DEF PollerInv
<1>f. fd[c] \in Fds
  BY <1>t DEF SetEvents, Live, TypeOK
<1>d. \A d \in Channels : fd[d] = fd[c] => d = c
  BY <1>f, PollerAssumption DEF PollerInv, DistinctFds, Live
<1>k. KernelMirrorsChannels /\ MapAgreesWithIndex
  BY DEF PollerInv
<1>1. epoll[fd[c]] = None <=> index[c] # "kAdded"
  BY <1>d, <1>f, <1>k, <1>t DEF KernelMirrorsChannels, TypeOK, Registration
<1>2. /\ events' = [events EXCEPT ![c] = ev]
      /\ UNCHANGED <<fd, size, active, queued, torn, dangling>>
  BY DEF SetEvents, owners
<1>3. CASE index[c] \in {"kNew", "kDeleted"}
  <2>1. /\ index' = [index EXCEPT ![c] = "kAdded"]
        /\ channels' = IF index[c] = "kNew" THEN [channels EXCEPT ![fd[c]] = c]
                       ELSE channels
        /\ Register("ADD", c, ev)
    BY <1>3 DEF SetEvents, updateChannel
  <2>2. /\ fatal' = fatal
        /\ epoll' = [epoll EXCEPT ![fd[c]] = [events |-> ev, ptr |-> c]]
    BY <1>1, <1>3, <1>t, <2>1 DEF Register, TypeOK
  <2>3. TypeOK'
    BY <1>2, <1>f, <1>t, <2>1, <2>2 DEF TypeOK, Registration, Index
  <2>4. KernelMirrorsChannels'
    <3>1. epoll'[fd[c]] \in Registration /\ epoll'[fd[c]] # None
      BY <1>f, <1>t, <2>2, PollerAssumption DEF TypeOK, Registration
    <3> QED
      BY <1>2, <1>d, <1>f, <1>k, <1>t, <2>1, <2>2, <3>1
         DEF KernelMirrorsChannels, TypeOK, Registration
  <2>5. MapAgreesWithIndex'
    <3>1. channels' = [channels EXCEPT ![fd[c]] = c]
      BY <1>3, <1>f, <1>k, <1>t, <2>1, PollerAssumption
         DEF MapAgreesWithIndex, hasChannel, Live, TypeOK
    <3> QED
      BY <1>2, <1>d, <1>f, <1>k, <1>t, <2>1, <3>1, PollerAssumption
         DEF MapAgreesWithIndex, hasChannel, Live, TypeOK
  <2>6. index'[c] # "kNew" /\ \A d \in Channels : index[d] # "kNew" => index'[d] # "kNew"
    BY <1>t, <2>1 DEF TypeOK
  <2> QED
    BY <1>2, <1>t, <2>2, <2>3, <2>4, <2>5, <2>6
       DEF PollerInv, NeverFatal, ActiveChannelsLive, DistinctFds, Live,
           ReportedStay, QueuedAreLive, TypeOK
<1>4. CASE index[c] = "kAdded" /\ ev = {}
  <2>1. /\ index' = [index EXCEPT ![c] = "kDeleted"]
        /\ epoll' = [epoll EXCEPT ![fd[c]] = None]
        /\ UNCHANGED <<channels, fatal>>
    BY <1>4 DEF SetEvents, updateChannel, Unregister
  <2>2. TypeOK'
    BY <1>2, <1>f, <1>t, <2>1 DEF TypeOK, Index
  <2>3. KernelMirrorsChannels'
    BY <1>2, <1>d, <1>f, <1>k, <1>t, <2>1
       DEF KernelMirrorsChannels, TypeOK, Registration
  <2>4. MapAgreesWithIndex'
    BY <1>2, <1>4, <1>d, <1>f, <1>k, <1>t, <2>1
       DEF MapAgreesWithIndex, hasChannel, Live, TypeOK
  <2>5. \A d \in Channels : index[d] # "kNew" => index'[d] # "kNew"
    BY <1>t, <2>1 DEF TypeOK
  <2> QED
    BY <1>2, <1>t, <2>1, <2>2, <2>3, <2>4, <2>5
       DEF PollerInv, NeverFatal, ActiveChannelsLive, DistinctFds, Live,
           ReportedStay, QueuedAreLive, TypeOK
<1>5. CASE index[c] = "kAdded" /\ ev # {}
  <2>1. /\ Register("MOD", c, ev)
        /\ UNCHANGED <<index, channels>>
    BY <1>5 DEF SetEvents, updateChannel
  <2>2. /\ fatal' = fatal
        /\ epoll' = [epoll EXCEPT ![fd[c]] = [events |-> ev, ptr |-> c]]
    BY <1>1, <1>5, <1>t, <2>1 DEF Register, TypeOK
  <2>3. TypeOK'
    BY <1>2, <1>f, <1>t, <2>1, <2>2 DEF TypeOK, Registration
  <2>4. KernelMirrorsChannels'
    <3>1. epoll'[fd[c]] \in Registration /\ epoll'[fd[c]] # None
      BY <1>f, <1>t, <2>2, PollerAssumption DEF TypeOK, Registration
    <3> QED
      BY <1>2, <1>5, <1>d, <1>f, <1>k, <1>t, <2>1, <2>2, <3>1
         DEF KernelMirrorsChannels, TypeOK, Registration
  <2>5. MapAgreesWithIndex'
    BY <1>2, <1>k, <2>1 DEF MapAgreesWithIndex, hasChannel, Live
  <2> QED
    BY <1>2, <2>1, <2>2, <2>3, <2>4, <2>5
       DEF PollerInv, NeverFatal, ActiveChannelsLive, DistinctFds, Live,
           ReportedStay, QueuedAreLive
<1> QED
  BY <1>3, <1>4, <1>5 DEF SetEvents, updateChannel

\* removeChannel() keeps the three records in agreement, whichever state the
\* channel is in; only the channel itself becomes kNew.
LEMMA RemoveKeepsAgreement ==
  ASSUME PollerInv, NEW c \in Channels, Live(c), removeChannel(c),
         UNCHANGED size
  PROVE  /\ fd' \in [Channels -> Fds \cup {None}] /\ events' \in [Channels -> SUBSET Events]
         /\ index' \in [Channels -> Index] /\ channels' \in [Fds -> Channels \cup {None}]
         /\ epoll' \in [Fds -> Registration \cup {None}]
         /\ KernelMirrorsChannels' /\ MapAgreesWithIndex' /\ DistinctFds'
         /\ fd' = fd /\ fatal' = fatal
         /\ \A d \in Channels : d # c => index'[d] = index[d]
<1>t. TypeOK /\ KernelMirrorsChannels /\ MapAgreesWithIndex /\ DistinctFds
  BY DEF PollerInv
<1>f. fd[c] \in Fds /\ \A d \in Channels : fd[d] = fd[c] => d = c
  BY <1>t DEF Live, TypeOK, DistinctFds
<1>1. /\ channels' = [channels EXCEPT ![fd[c]] = None]
      /\ index' = [index EXCEPT ![c] = "kNew"]
      /\ epoll' = IF index[c] = "kAdded" THEN [epoll EXCEPT ![fd[c]] = None]
                  ELSE epoll
      /\ UNCHANGED <<fd, events, fatal>>
  BY DEF removeChannel, Unregister
<1>2. /\ fd' \in [Channels -> Fds \cup {None}] /\ events' \in [Channels -> SUBSET Events]
      /\ index' \in [Channels -> Index] /\ channels' \in [Fds -> Channels \cup {None}]
      /\ epoll' \in [Fds -> Registration \cup {None}]
  BY <1>t, <1>1, <1>f DEF TypeOK, Index
<1>3. KernelMirrorsChannels'
  BY <1>t, <1>1, <1>f DEF KernelMirrorsChannels, TypeOK, Registration
<1>4. MapAgreesWithIndex'
  BY <1>t, <1>1, <1>f, PollerAssumption
     DEF MapAgreesWithIndex, hasChannel, Live, TypeOK
<1>5. DistinctFds'
  BY <1>t, <1>1 DEF DistinctFds, Live
<1>6. \A d \in Channels : d # c => index'[d] = index[d]
  BY <1>t, <1>1 DEF TypeOK
<1> QED
  BY <1>1, <1>2, <1>3, <1>4, <1>5, <1>6

\* Every step keeps the invariant.
LEMMA StepPollerInv == PollerInv /\ [Next]_vars => PollerInv'
<1> SUFFICES ASSUME PollerInv, [Next]_vars PROVE PollerInv'
  OBVIOUS
<1>t. TypeOK
  BY DEF PollerInv
<1>k. KernelMirrorsChannels /\ MapAgreesWithIndex /\ DistinctFds
  BY DEF PollerInv
<1>a. ReportedStay /\ QueuedAreLive /\ ActiveChannelsLive
  BY DEF PollerInv
<1>1. ASSUME NEW c \in Channels, NEW f \in Fds, Construct(c, f)
      PROVE  PollerInv'
  <2>1. TypeOK'
    BY <1>1, <1>t DEF Construct, TypeOK, Index, owners
  <2>2. epoll[f] = None /\ channels[f] = None
    <3>1. \A d \in Channels : fd[d] # f
      BY <1>1 DEF Construct
    <3>2. epoll[f] # None => epoll[f].ptr \in Channels /\ fd[epoll[f].ptr] = f
      BY <1>k, <1>t DEF KernelMirrorsChannels, TypeOK, Registration
    <3>3. channels[f] # None => channels[f] \in Channels /\ fd[channels[f]] = f
      BY <1>k, <1>t DEF MapAgreesWithIndex, TypeOK
    <3> QED
      BY <3>1, <3>2, <3>3
  <2>3. KernelMirrorsChannels'
    BY <1>1, <1>k, <1>t, <2>2, PollerAssumption
       DEF Construct, KernelMirrorsChannels, TypeOK, Registration, Live
  <2>4. MapAgreesWithIndex'
    BY <1>1, <1>k, <1>t, <2>2, PollerAssumption
       DEF Construct, MapAgreesWithIndex, hasChannel, Live, TypeOK
  <2>5. DistinctFds'
    BY <1>1, <1>k, <1>t, PollerAssumption DEF Construct, DistinctFds, Live, TypeOK
  <2> QED
    <3>1. UNCHANGED <<active, fatal, queued, torn, dangling>>
      BY <1>1 DEF Construct, owners
    <3>2. \A d \in Channels : Live(d) => d # c /\ Live(d)' /\ index'[d] = index[d]
      BY <1>1, <1>t DEF Construct, Live, TypeOK
    <3>3. ReportedStay' /\ QueuedAreLive' /\ ActiveChannelsLive'
      BY <1>a, <1>t, <3>1, <3>2
         DEF ReportedStay, QueuedAreLive, ActiveChannelsLive, TypeOK
    <3> QED
      BY <2>1, <2>3, <2>4, <2>5, <3>1, <3>3 DEF PollerInv, NeverFatal
<1>2. ASSUME NEW c \in Channels, NEW e \in Events, Enable(c, e) \/ Disable(c, e)
      PROVE  PollerInv'
  BY <1>2, <1>t, SetEventsKeepsInv DEF Enable, Disable, TypeOK
<1>3. ASSUME NEW c \in Channels, DisableAll(c) PROVE PollerInv'
  BY <1>3, SetEventsKeepsInv DEF DisableAll
<1>4. ASSUME NEW c \in Channels, Retire(c) PROVE PollerInv'
  <2>1. /\ UNCHANGED <<fd, events, index, channels, epoll, fatal, size, active, torn, dangling>>
        /\ queued' = queued \cup {c} /\ Live(c)
    BY <1>4 DEF Retire, poller
  <2>2. TypeOK' /\ DistinctFds' /\ KernelMirrorsChannels' /\ MapAgreesWithIndex'
    BY <1>k, <1>t, <2>1
       DEF TypeOK, DistinctFds, Live, KernelMirrorsChannels, MapAgreesWithIndex, hasChannel
  <2> QED
    BY <1>a, <2>1, <2>2
       DEF PollerInv, NeverFatal, ReportedStay, QueuedAreLive, ActiveChannelsLive, Live
<1>9. ASSUME NEW c \in Channels, ConnectDestroyed(c) PROVE PollerInv'
  <2>1. /\ UNCHANGED <<size, active, torn, dangling>> /\ queued' = queued \ {c}
        /\ active = {} /\ removeChannel(c) /\ Live(c)
    BY <1>9, <1>a DEF ConnectDestroyed, QueuedAreLive
  <2>2. TypeOK' /\ DistinctFds' /\ KernelMirrorsChannels' /\ MapAgreesWithIndex'
        /\ fd' = fd /\ fatal' = fatal
    BY <1>t, <2>1, RemoveKeepsAgreement DEF TypeOK
  <2> QED
    BY <1>a, <2>1, <2>2
       DEF PollerInv, NeverFatal, ReportedStay, QueuedAreLive, ActiveChannelsLive, Live
<1>10. ASSUME NEW c \in Channels, TearDown(c) PROVE PollerInv'
  <2>1. /\ UNCHANGED <<size, active, queued, dangling>>
        /\ torn' = torn \cup ({c} \cap active)
        /\ removeChannel(c) /\ Live(c)
    BY <1>10 DEF TearDown
  <2>2. TypeOK' /\ DistinctFds' /\ KernelMirrorsChannels' /\ MapAgreesWithIndex'
        /\ fd' = fd /\ fatal' = fatal
        /\ \A d \in Channels : d # c => index'[d] = index[d]
    BY <1>t, <2>1, RemoveKeepsAgreement DEF TypeOK
  <2> QED
    BY <1>a, <1>t, <2>1, <2>2
       DEF PollerInv, NeverFatal, ReportedStay, QueuedAreLive, ActiveChannelsLive,
           Live, TypeOK
<1>5. ASSUME NEW c \in Channels, Destroy(c) PROVE PollerInv'
  <2>f. fd[c] \in Fds /\ \A d \in Channels : fd[d] = fd[c] => d = c
    BY <1>5, <1>k, <1>t DEF Destroy, Live, TypeOK, DistinctFds
  <2>1. TypeOK'
    BY <1>5, <1>t, <2>f DEF Destroy, TypeOK
  <2>2. KernelMirrorsChannels'
    BY <1>5, <1>k, <1>t, <2>f, PollerAssumption
       DEF Destroy, KernelMirrorsChannels, TypeOK, Registration
  <2>3. MapAgreesWithIndex'
    BY <1>5, <1>k, <1>t, <2>f, PollerAssumption
       DEF Destroy, MapAgreesWithIndex, hasChannel, Live, TypeOK
  <2>4. DistinctFds'
    BY <1>5, <1>k, <1>t, <2>f DEF Destroy, DistinctFds, Live, TypeOK
  <2>5. ReportedStay' /\ QueuedAreLive' /\ ActiveChannelsLive'
    <3>1. /\ UNCHANGED <<index, active, queued, torn>>
          /\ dangling' = dangling \cup ({c} \cap active)
          /\ index[c] = "kNew" /\ c \notin queued
      BY <1>5 DEF Destroy
    <3>2. \A d \in Channels : d # c /\ Live(d) => Live(d)'
      BY <1>5, <1>t DEF Destroy, Live, TypeOK
    <3> QED
      BY <1>a, <1>t, <3>1, <3>2
         DEF ReportedStay, QueuedAreLive, ActiveChannelsLive, TypeOK
  <2> QED
    BY <1>5, <2>1, <2>2, <2>3, <2>4, <2>5 DEF Destroy, PollerInv, NeverFatal
<1>6. CASE Poll
  <2>1. PICK ready \in SUBSET {f \in Fds : epoll[f] # None} :
          /\ active' = {epoll[f].ptr : f \in ready}
          /\ size' = size \/ size' = size * 2
    BY <1>6 DEF Poll
  <2>u. /\ UNCHANGED <<fd, events, index, channels, epoll, fatal, queued, torn, dangling>>
        /\ active = {}
    BY <1>6 DEF Poll, poller, owners
  <2>2. \A d \in active' : d \in Channels /\ Live(d) /\ index[d] # "kNew"
    BY <1>k, <1>t, <2>1, PollerAssumption
       DEF KernelMirrorsChannels, TypeOK, Registration, Live
  <2>3. TypeOK'
    BY <1>t, <2>1, <2>2, <2>u DEF TypeOK
  <2>4. ReportedStay' /\ QueuedAreLive' /\ ActiveChannelsLive'
    BY <1>a, <2>2, <2>u
       DEF ReportedStay, QueuedAreLive, ActiveChannelsLive, Live
  <2> QED
    BY <1>k, <2>3, <2>4, <2>u
       DEF PollerInv, NeverFatal, DistinctFds, Live,
           KernelMirrorsChannels, MapAgreesWithIndex, hasChannel
<1>7. ASSUME NEW c \in Channels, HandleEvent(c) PROVE PollerInv'
  <2>1. /\ UNCHANGED <<fd, events, index, channels, epoll, fatal, size, queued, dangling>>
        /\ c \notin dangling
        /\ active' = active \ {c}
        /\ torn' = torn \ {c}
    BY <1>7 DEF HandleEvent, poller
  <2>2. TypeOK' /\ DistinctFds' /\ KernelMirrorsChannels' /\ MapAgreesWithIndex'
    BY <1>k, <1>t, <2>1
       DEF TypeOK, DistinctFds, Live, KernelMirrorsChannels, MapAgreesWithIndex, hasChannel
  <2> QED
    BY <1>a, <2>1, <2>2
       DEF PollerInv, NeverFatal, ReportedStay, QueuedAreLive, ActiveChannelsLive, Live
<1>8. CASE UNCHANGED vars
  BY <1>8 DEF vars, poller, owners, PollerInv, TypeOK, NeverFatal,
              ActiveChannelsLive, ReportedStay, QueuedAreLive, DistinctFds, Live,
              KernelMirrorsChannels, MapAgreesWithIndex, hasChannel
<1> QED
  BY <1>1, <1>2, <1>3, <1>4, <1>5, <1>6, <1>7, <1>8, <1>9, <1>10 DEF Next

\* For any number of channels and descriptors the channels, the poller's map
\* and the kernel's list agree, and a reported channel stays in the poller until
\* its round is over, unless a destructor in a callback removed it.
THEOREM PollerInvariant == Spec => []PollerInv
<1>1. QED
  BY InitPollerInv, StepPollerInv, PTL DEF Spec

\* The channels, the map of the poller and the kernel's interest list always agree.
THEOREM ChannelsAlwaysAgree == Spec => []ChannelsAgree
<1>1. PollerInv => ChannelsAgree
  BY DEF PollerInv, ChannelsAgree
<1> QED
  BY <1>1, PollerInvariant, PTL

\* However closes, retirements and the last references to connections fall into a
\* round, a reported channel is gone before its event was handled only if
\* ~TcpServer or ~Acceptor removed it inside a callback of that round.
THEOREM ReportedAreLive == Spec => []ActiveChannelsLive
<1>1. PollerInv => ActiveChannelsLive
  BY DEF PollerInv
<1> QED
  BY <1>1, PollerInvariant, PTL

\* No order of enable, disable and remove makes epoll_ctl ADD or MOD fail.
THEOREM UpdateNeverFatal == Spec => []NeverFatal
<1>1. PollerInv => NeverFatal
  BY DEF PollerInv
<1> QED
  BY <1>1, PollerInvariant, PTL
=============================================================================
