----------------------------- MODULE EPollPoller -----------------------------
(***************************************************************************)
(* Channels and the epoll poller of one loop (src/net/Channel.cc and       *)
(* src/net/poller/EPollPoller.cc).  Three records of one fact have to      *)
(* agree: the channel's own events_ and index_, the poller's channels_,    *)
(* and the kernel's interest list.  The kernel reuses descriptor numbers   *)
(* as soon as they are closed, channel objects come and go, some of them   *)
(* in the callbacks of the round that reported them.  Everything here runs *)
(* in the loop's thread.                                                   *)
(***************************************************************************)
EXTENDS Integers, FiniteSets

CONSTANTS
  Channels,    \* channel objects
  Fds,         \* file descriptor numbers
  None,        \* no channel / no descriptor / not in the interest list
  InitSize     \* kInitEventListSize

Events == {"read", "write"}
Registration == [events : SUBSET Events, ptr : Channels]

ASSUME PollerAssumption ==
  /\ None \notin Channels \cup Fds \cup Registration
  /\ InitSize \in Nat \ {0}

VARIABLES
  fd,          \* per channel: its descriptor, None when the object does not exist
  events,      \* per channel: events_
  index,       \* per channel: index_
  channels,    \* channels_: descriptor -> channel
  epoll,       \* the kernel's interest list: descriptor -> registration
  size,        \* events_.size() of the poller
  active,      \* reported channels whose handleEvent() has not returned yet
  fatal,       \* update() has hit LOG_FATAL, which aborts
  queued,      \* channels whose connectDestroyed() waits in pendingFunctors_
  torn,        \* history: reported channels that a destructor run inside a
               \* callback of this round has removed
  dangling     \* reported channels whose object is gone: raw pointers to
               \* freed memory in activeChannels_

poller == <<fd, events, index, channels, epoll, fatal>>
owners == <<queued, torn, dangling>>
vars == <<poller, size, active, owners>>

Index == {"kNew", "kAdded", "kDeleted"}

Init ==
  /\ fd = [c \in Channels |-> None]
  /\ events = [c \in Channels |-> {}]
  /\ index = [c \in Channels |-> "kNew"]
  /\ channels = [f \in Fds |-> None]
  /\ epoll = [f \in Fds |-> None]
  /\ size = InitSize
  /\ active = {}
  /\ fatal = FALSE
  /\ queued = {}
  /\ torn = {}
  /\ dangling = {}

Live(c) == fd[c] # None

-----------------------------------------------------------------------------
(* epoll_ctl                                                               *)

\* EPollPoller::update: the registration after ADD or MOD of channel c with
\* interest ev; ADD of a present and MOD of an absent descriptor fail (EEXIST,
\* ENOENT) and are fatal, a failing DEL is only logged.
Register(op, c, ev) ==
  LET fails == (op = "ADD") <=> (epoll[fd[c]] # None)
  IN /\ fatal' = (fatal \/ fails)
     /\ epoll' = IF fails THEN epoll
                 ELSE [epoll EXCEPT ![fd[c]] = [events |-> ev, ptr |-> c]]

Unregister(c) ==
  /\ epoll' = [epoll EXCEPT ![fd[c]] = None]
  /\ UNCHANGED fatal

\* EPollPoller::updateChannel, called by Channel::update with events_ = ev.
UpdateForgetsDeletedMutant(c, ev) ==
  \/ /\ index[c] = "kNew"
     /\ index' = [index EXCEPT ![c] = "kAdded"]
     /\ channels' = [channels EXCEPT ![fd[c]] = c]
     /\ Register("ADD", c, ev)
  \/ /\ index[c] # "kNew"
     /\ ev = {}
     /\ index' = [index EXCEPT ![c] = "kDeleted"]
     /\ Unregister(c)
     /\ UNCHANGED channels
  \/ /\ index[c] # "kNew"
     /\ ev # {}
     /\ Register("MOD", c, ev)
     /\ UNCHANGED <<index, channels>>

updateChannel(c, ev) ==
  \/ /\ index[c] \in {"kNew", "kDeleted"}
     /\ index' = [index EXCEPT ![c] = "kAdded"]
     /\ channels' = IF index[c] = "kNew" THEN [channels EXCEPT ![fd[c]] = c]
                    ELSE channels
     /\ Register("ADD", c, ev)
  \/ /\ index[c] = "kAdded"
     /\ ev = {}
     /\ index' = [index EXCEPT ![c] = "kDeleted"]
     /\ Unregister(c)
     /\ UNCHANGED channels
  \/ /\ index[c] = "kAdded"
     /\ ev # {}
     /\ Register("MOD", c, ev)
     /\ UNCHANGED <<index, channels>>

-----------------------------------------------------------------------------
(* Calls on a channel.                                                     *)

\* enableReading/Writing, disableReading/Writing and disableAll: set events_,
\* then update().
SetEvents(c, ev) ==
  /\ Live(c)
  /\ events' = [events EXCEPT ![c] = ev]
  /\ updateChannel(c, ev)
  /\ UNCHANGED <<fd, size, active, owners>>

Enable(c, e) == SetEvents(c, events[c] \cup {e})
Disable(c, e) == SetEvents(c, events[c] \ {e})
DisableAll(c) == SetEvents(c, {})

\* Channel::remove => EPollPoller::removeChannel; events_ is left as it is.
RemoveKeepsEpollMutant(c) ==
  /\ channels' = [channels EXCEPT ![fd[c]] = None]
  /\ index' = [index EXCEPT ![c] = "kNew"]
  /\ UNCHANGED <<fd, events, epoll, fatal>>

removeChannel(c) ==
  /\ channels' = [channels EXCEPT ![fd[c]] = None]
  /\ IF index[c] = "kAdded" THEN Unregister(c) ELSE UNCHANGED <<epoll, fatal>>
  /\ index' = [index EXCEPT ![c] = "kNew"]
  /\ UNCHANGED <<fd, events>>

\* A new descriptor is one that no open file has.
Construct(c, f) ==
  /\ ~Live(c)
  /\ \A d \in Channels : fd[d] # f
  /\ fd' = [fd EXCEPT ![c] = f]
  /\ events' = [events EXCEPT ![c] = {}]
  /\ index' = [index EXCEPT ![c] = "kNew"]
  /\ UNCHANGED <<channels, epoll, size, active, fatal, owners>>

-----------------------------------------------------------------------------
(* The end of a channel.  Its owner removes it from the poller (the        *)
(* disableAll() before that is the action above) and destroys it later,    *)
(* when the last reference goes.  A closed connection is removed by        *)
(* connectDestroyed(), which removeConnectionInLoop() always queues; the   *)
(* destructors of Acceptor and TcpServer remove theirs where they run,     *)
(* which may be inside a callback of this loop.                            *)

\* TcpServer::removeConnectionInLoop: queueInLoop(connectDestroyed).
RetireAtOnceMutant(c) ==
  /\ Live(c)
  /\ c \notin queued
  /\ removeChannel(c)
  /\ UNCHANGED <<size, active, owners>>

Retire(c) ==
  /\ Live(c)
  /\ c \notin queued
  /\ queued' = queued \cup {c}
  /\ UNCHANGED <<poller, size, active, torn, dangling>>

\* doPendingFunctors() runs after the loop over activeChannels_, when every
\* reported handleEvent() has returned.
ConnectDestroyed(c) ==
  /\ active = {}
  /\ c \in queued
  /\ removeChannel(c)
  /\ queued' = queued \ {c}
  /\ UNCHANGED <<size, active, torn, dangling>>

\* ~Acceptor, or connectDestroyed() that ~TcpServer runs through runInLoop(), in
\* this loop's thread: at once, whatever phase the loop is in.
TearDown(c) ==
  /\ Live(c)
  /\ removeChannel(c)
  /\ torn' = torn \cup ({c} \cap active)
  /\ UNCHANGED <<size, active, queued, dangling>>

\* The last reference to a removed channel's owner goes (a functor in the queue
\* holds one): the close() takes the descriptor out of the kernel's list.
Destroy(c) ==
  /\ Live(c)
  /\ index[c] = "kNew"
  /\ c \notin queued
  /\ epoll' = [epoll EXCEPT ![fd[c]] = None]
  /\ fd' = [fd EXCEPT ![c] = None]
  /\ dangling' = dangling \cup ({c} \cap active)
  /\ UNCHANGED <<events, index, channels, size, active, fatal, queued, torn>>

-----------------------------------------------------------------------------
(* poll() and fillActiveChannels(): any registered descriptors may be      *)
(* ready (errors and hangups are reported whatever the interest), at most  *)
(* events_.size() of them are returned, and a full array is doubled.       *)

Poll ==
  /\ active = {}
  /\ \E ready \in SUBSET {f \in Fds : epoll[f] # None} :
       /\ ready # {}
       /\ Cardinality(ready) <= size
       /\ active' = {epoll[f].ptr : f \in ready}
       /\ size' = IF Cardinality(ready) = size THEN size * 2 ELSE size
  /\ UNCHANGED <<poller, owners>>

\* handleEvent() of a reported channel returns; the calls its callbacks make are
\* the actions above.  A call through a dangling pointer is undefined and not
\* followed.
HandleEvent(c) ==
  /\ c \in active \ dangling
  /\ active' = active \ {c}
  /\ torn' = torn \ {c}
  /\ UNCHANGED <<poller, size, queued, dangling>>

Next ==
  \/ \E c \in Channels, f \in Fds : Construct(c, f)
  \/ \E c \in Channels, e \in Events : Enable(c, e)
  \/ \E c \in Channels, e \in Events : Disable(c, e)
  \/ \E c \in Channels : DisableAll(c)
  \/ \E c \in Channels : Retire(c)
  \/ \E c \in Channels : ConnectDestroyed(c)
  \/ \E c \in Channels : TearDown(c)
  \/ \E c \in Channels : Destroy(c)
  \/ Poll
  \/ \E c \in Channels : HandleEvent(c)

Spec == Init /\ [][Next]_vars

-----------------------------------------------------------------------------
(* Properties.                                                             *)

TypeOK ==
  /\ fd \in [Channels -> Fds \cup {None}]
  /\ events \in [Channels -> SUBSET Events]
  /\ index \in [Channels -> Index]
  /\ channels \in [Fds -> Channels \cup {None}]
  /\ epoll \in [Fds -> Registration \cup {None}]
  /\ size \in Nat \ {0}
  /\ active \in SUBSET Channels
  /\ fatal \in BOOLEAN
  /\ queued \in SUBSET Channels
  /\ torn \in SUBSET Channels
  /\ dangling \in SUBSET Channels

\* hasChannel(): the map has this channel under its descriptor.
hasChannel(c) == Live(c) /\ channels[fd[c]] = c

\* The kernel's list mirrors the channels: a descriptor is registered exactly
\* when its channel is kAdded, and then with that channel's events_ and a
\* pointer to that channel, also when numbers are reused and channels are
\* removed and added again.
KernelMirrorsChannels ==
  \A f \in Fds :
    IF epoll[f] = None
    THEN \A c \in Channels : fd[c] = f => index[c] # "kAdded"
    ELSE LET c == epoll[f].ptr
         IN /\ fd[c] = f
            /\ index[c] = "kAdded"
            /\ epoll[f].events = events[c]

\* The poller's map agrees with index_: a channel that is not kNew is in the
\* map under its descriptor, and every entry of the map is the channel that has
\* this descriptor now, never one whose object is gone.
MapAgreesWithIndex ==
  /\ \A c \in Channels : Live(c) => (hasChannel(c) <=> index[c] # "kNew")
  /\ \A f \in Fds : channels[f] # None => fd[channels[f]] = f

\* Both agreements: channels, map and kernel tell the same story whatever the order
\* of calls and however often descriptor numbers are reused.
ChannelsAgree == KernelMirrorsChannels /\ MapAgreesWithIndex

\* epoll_ctl ADD and MOD never fail, whatever order of enable, disable and
\* remove the owners choose (LOG_FATAL in update() would abort the process).
NeverFatal == ~fatal

\* A pointer in activeChannels_ dangles only when a destructor run inside a
\* callback of the same round has removed the channel (~TcpServer or ~Acceptor in
\* a callback of its own loop, which nothing in the code guards against).  The
\* close of a connection never does it, from whichever callback of the round, and
\* whoever drops the last reference when: connectDestroyed() is queued and so
\* the channel stays registered until the whole round was dispatched.
ActiveChannelsLive == dangling \subseteq torn

DistinctFds == \A c, d \in Channels : Live(c) /\ fd[c] = fd[d] => c = d

\* A reported channel that no destructor has removed exists and is still in the
\* poller, so that its owner cannot be destroyed yet.
ReportedStay ==
  /\ \A c \in active \ torn : Live(c) /\ index[c] # "kNew"
  /\ dangling \subseteq active

\* A functor in the queue keeps its connection.
QueuedAreLive == \A c \in queued : Live(c)

\* The inductive invariant: the two agreements, that no two live channels have
\* one descriptor, and what keeps the reported and the queued channels.
PollerInv ==
  /\ TypeOK
  /\ DistinctFds
  /\ KernelMirrorsChannels
  /\ MapAgreesWithIndex
  /\ NeverFatal
  /\ ReportedStay
  /\ QueuedAreLive
  /\ ActiveChannelsLive
=============================================================================
