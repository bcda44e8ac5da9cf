# A TLA+ model of the tiny network library

This directory holds TLA+ modules that model the library under `src/`, TLC
configurations that check them on small instances, and proofs that TLAPS checks
for every value of the constants. Paths below are relative to `src/src/` unless
they start with `src/`.

    tlc -config MCEventLoop.cfg MCEventLoop     # one run
    tlapm EventLoopProofs.tla                   # one proof module

`PROJECT.json` maps every definition to the lines it models, and lists the runs,
the mutants that show each property can fail, the findings and the hazards.

## The system

A reactor in the style of muduo: one thread per event loop, non-blocking
sockets, and callbacks. A server has a base loop that accepts connections and a
pool of sub loops that serve them; next to it there are an asynchronous logger,
a MySQL connection pool, timers, a small HTTP layer, a worker pool and a memory
pool.

| Component | State | Operations | What makes it correct |
| --- | --- | --- | --- |
| `EventLoop` | `pendingFunctors_`, `callingPendingFunctors_`, `quit_`, the eventfd | `loop`, `quit`, `runInLoop`, `queueInLoop`, `wakeup`, `doPendingFunctors` | callbacks of other threads are run once, in order, soon; the loop never sleeps on work; quit ends it |
| `Channel`, `EPollPoller` | `events_`, `index_`, `channels_`, the kernel's interest list, `activeChannels_` | `enable*`, `disable*`, `remove`, `updateChannel`, `removeChannel`, `poll` | the kernel watches what the channels ask for; no failing `epoll_ctl`; no dangling channel |
| `TcpConnection` | `state_`, `outputBuffer_`, channel events, who holds the `shared_ptr` | `send`, `shutdown`, `connectEstablished`, `connectDestroyed`, the event handlers | the byte stream is kept; FIN comes last; one disconnect; nothing used after it is freed; a closed connection goes |
| `TcpServer` | `connections_`, `started_` | `newConnection`, `removeConnection`, the destructor, `start` | every connection is owned until its channel is out of the poller, and its descriptor closed after that |
| `EventLoopThread`, `EventLoopThreadPool`, `Thread` | `loop_`, `mutex_`/`cond_`, `loops_`, `next_` | `startLoop`, `start`, `getNextLoop`, destructors | `start` and the destructors return; loops handed out exist |
| `Acceptor`, `Socket`, `InetAddress` | the listening socket | `listen`, `handleRead` | a client is accepted in the end, even after the descriptors were used up |
| `TimerQueue`, `Timer` | the ordered set of timers, the timerfd | `addTimer`, `handleRead`, `reset` | every timer fires, none early, repeated ones again |
| `Buffer` | two indices into a vector | `append`, `retrieve`, `makeSpace`, `readFd`, `writeFd` | behaves as a sequence of bytes |
| `AsyncLogging`, `FixedBuffer` | current and next buffer, `buffers_`, the spares of the backend | `append`, `start`, `stop`, `threadFunc` | no null buffer; no line lost or reordered on its way to the file |
| `LogFile`, `FileUtil` | the `FILE`, `writtenBytes_`, `count_`, the times of the last roll and flush | `append`, `flush`, `rollFile` | short writes lose nothing; a file is rolled by size and by day |
| `Logging`, `LogStream` | the line being formatted | `operator<<` | formatting only |
| `ConnectionPool`, `MysqlConn` | `connectionQueue_`, `currentSize_` | `getConnection`, the deleter, `produceConnection`, `recycleConnection` | one owner per connection; the limit; nobody sleeps for ever |
| `ThreadPool` | the task queue, `running_` | `add`, `start`, `stop`, `runInThread` | each task is run, no worker sleeps on work, the destructor returns after the last task |
| `MemoryPool` | the page list, `current_`, counts, the list of large blocks | `createPool`, `malloc`, `calloc`, `freeMemory`, `resetPool`, `destroyPool` | areas are disjoint and inside their page; memory nobody uses is available again |
| `HttpContext`, `HttpServer` | the parser's state, the input buffer | `parseRequest`, `onMessage`, `onRequest` | bytes are parsed once and in order; answers in the order of the requests; no refusal without a cause; everybody is answered |

**How they interact.** Threads talk to a loop through `queueInLoop` and the
eventfd only. A connection is accepted in the base loop, given to a sub loop by
`getNextLoop`, established by a functor there, closed there, taken out of
`connections_` by a functor in the base loop and destroyed by a functor that
goes back to the sub loop: its life depends on which `shared_ptr` is let go
last. The logger and the connection pool share state with their callers under
one mutex each and have threads of their own.

**What is hard.** The race between a push, the swap of the functor vector and
the read of the eventfd; functors that hold a bare `this`; `state_` tested in
one thread and changed in another; descriptor numbers that are reused while raw
channel pointers are around; threads whose destructors read a pointer without
its mutex; buffers that change hands; condition variables that are not notified
by everybody who changes the condition. `PROJECT.json` lists these places as
hazards, each at its line.

## Modules

| Module | Models | Composes |
| --- | --- | --- |
| `FunctorQueue` | what a loop promises: a FIFO of callbacks, each run once | |
| `EventLoop` | `net/EventLoop.cc` with any number of calling threads | instantiates `FunctorQueue` for the refinement |
| `EPollPoller` | `net/Channel.*`, `net/poller/*` and the kernel's interest list | |
| `TcpConnection` | `net/TcpConnection.cc` and the part of `net/TcpServer.cc` that owns one connection, its io loop, the base loop, workers, the peer | uses what `EventLoop` and `EPollPoller` promise |
| `EventLoopThreadPool` | `net/EventLoopThread.cc`, `net/EventLoopThreadPool.cc`, `base/Thread.cc` | uses `EventLoop`'s `QuitEndsLoop` as fairness |
| `TcpServer` | `net/TcpServer.cc`, `net/Acceptor.cc` with several connections | extends `EventLoopThreadPool`; what happens on one connection is `TcpConnection`'s |
| `LogFile` | `logger/LogFile.cc`, `logger/FileUtil.cc` and the wall clock | |
| `AsyncLogging` | `logger/AsyncLogging.*`, `logger/FixedBuffer.h` | extends `LogFile` |
| `ThreadPool` | `base/ThreadPool.cc` | |
| `MemoryPool` | `memory/MemoryPool.cc` | |
| `ConnectionPool` | `mysql/ConnectionPool.cc` | |
| `TimerQueue` | `timer/TimerQueue.cc`, `timer/Timer.h` with a wall clock and a monotonic one | uses that a turn of `EventLoop` runs the functors queued before it |
| `Buffer` | `net/Buffer.*`, as operators on the cells of the vector | |
| `HttpServer` | `http/HttpContext.cc`, `http/HttpServer.cc` on one connection, the client and the network | extends `Buffer` |
| `EventLoopProofs`, `EPollPollerProofs`, `TcpConnectionProofs`, `ConnectionPoolProofs`, `TimerQueueProofs` | theorems about the module in their name | extend it |
| `AsyncLoggingProofs` | theorems about the logger and its files | extends `AsyncLogging` (and so `LogFile`) |
| `ServerProofs` | theorems about `Buffer`, `HttpServer`, `TcpServer` and its threads | extends `HttpServer` and `TcpServer` |
| `PoolProofs` | theorems about the worker pool and the memory pool | extends `ThreadPool` and `MemoryPool` |
| `MC*` | instances for TLC | extend the module in their name |

`HttpServer` and `MemoryPool` give `Init`, `Next`, `Spec` and `vars` a prefix
(`HttpInit`, `MemoryInit`, ...), so that a proof module can extend them next to
another component.

**EventLoop.** `loopPc` says where the loop's thread is; one action is one step
that other threads can see: the test of `quit_`, the poll, the read of the
eventfd, another channel's callback, setting the flag, the swap under the mutex,
each functor, clearing the flag. `QueueInLoop` is the push under the mutex and
the decision to wake; the write to the eventfd is a second step. A functor is
the pair of its thread and its number. What callbacks do is left open: while one
runs, the loop's thread may queue and quit like any other.

**EPollPoller.** One action per call on a `Channel`. `epoll` is the kernel's
list, keyed by descriptor, with the pointer stored in it. A channel is in
`active` from the poll that reports it until its `handleEvent()` returns, and the
calls of the callbacks fall between. Channels are removed in the two ways the
code has: `Retire` queues `connectDestroyed()` (`removeConnectionInLoop`), which
runs after the round, and `TearDown` removes at once (`~Acceptor`, and `~TcpServer`
through `runInLoop`), also inside a callback. A removed channel is destroyed in any
phase of the loop, when its last reference goes; if it was reported and its event
is not handled yet, its pointer is `dangling`. `torn` remembers the reported
channels that a destructor removed: the exact exception of `ActiveChannelsLive`.
Descriptor numbers are reused at once.

**TcpConnection.** The io loop polls, dispatches in the order of
`handleEventWithGuard` (hangup, read, write), and runs a batch of functors;
`batchRef` keeps the `shared_ptr`s of a batch until it ends, as the local vector
does. `Alive` says that some `shared_ptr` is left. A message is two bytes, so a
write may be partial. The `state_` test, the `state_` change and the push of a
worker's `send` or `shutdown` are separate steps. `setup` is the program around
the connection: a server with sub loops or one whose base loop serves the
connections too, with or without a `writeCompleteCallback_`, what each worker
calls, whether workers keep their pointer while a functor of theirs is queued, and
whether the server (one with sub loops) may be destroyed. A read fails
(`ReadErrorEvent`) when a reset came after the poll that reported data; the
connection stays open until the next poll reports the reset. The destructor runs
in the base thread after its loop was left: functors queued there are not run any
more; the body queues `connectDestroyed`; then the thread pool quits and joins the
io loop, which may end before it runs that functor (`LoopEnds`); the functors left
go with the loops (`server`, `BaseLoopDestroyed`). `overwritten` remembers that
`shutdown()` stored `kDisconnecting` over `kDisconnected`. After undefined
behaviour (`uaf`) the model stops.

**EventLoopThreadPool and TcpServer.** The owner is the base loop's thread: it
starts the threads, accepts, gives each connection to the next loop, takes
closed ones out of `connections_` and in the end destroys the server and its
pool. Each thread posts its semaphore, publishes its loop, enters `loop()` (which
sets `quit_` to false), runs its functors, leaves, clears `loop_` and ends, and
its loop is destroyed with the functors it has not run. `~EventLoopThread` reads
`loop_` twice, and its `quit()` is two steps: the store to `quit_` (`QuitLoop`) and
the look at `threadId_` (`QuitReadsThread`), between which the loop may end and be
destroyed; the read of it is then harmless or the model stops (`fault` is "late").
A functor carries the
connection it holds a pointer to; a connection exists, and its descriptor is
open, while `connections_` or a functor holds one (`Open`). `EventLoopThreadPool`
has no behaviour of its own: its actions are conjoined with those of the server.

**AsyncLogging and LogFile.** A line takes one cell of a buffer. A buffer
remembers what its unused cells still hold, since `reset()` does not clear and
`length()` is the capacity. A null pointer is `None`. Each `fwrite` of the
backend may be short (`WriteShort`) and is resumed where it stopped; the last one
brings the tests of `appendInLock`: by size, and once in `checkEveryN_` appends by
day and by the time of the last flush. The files are one sequence of cells, of
which a prefix has left the buffer of the `FILE` (`durable`). The wall clock goes
on by seconds and may be set back.

**ThreadPool.** Every critical section is one action; `wait` may end for no
reason. A task may add tasks or throw, and so may the init callback throw:
the worker then ends. Threads outside the pool do not use it once its destructor
has begun.

**MemoryPool.** A page is its place in the list, an address its offset. `areas`
and `held` are what the user was given and has not freed. Fields that the code
reads without having set them (`quote_` of every page, `failed_` of all but the
first, `next_` of the first) begin with any of the values in `Garbage`; `dirty`
remembers the pages whose count did not begin at zero. `createPool` may fail to get
its page and leave `pool_` unset; every later call then follows a null pointer.
`destroyPool` frees page by page (`FreePage`), and after each one reads `next_` in
the page it has just freed: it finds what was there, or a null pointer, which ends
the loop with pages left (`misread`), or something to crash on. After undefined
behaviour (`fault`, or bytes with two owners in `shared`) the model stops.

**ConnectionPool.** Every critical section is one action. The connections that
are idle for too long are a prefix of the queue, since it is ordered by the time
of the last use; `stale` is its length.

**TimerQueue.** `wait[t]` is the wall time left until a timer expires, `fd` the
monotonic time left until the timerfd is readable; `Tick` lets both run down and
`ClockAhead`/`ClockBack` set the wall clock. `HandleRead` is the read of the
timerfd and `getExpired`; the callbacks and the steps of `reset` follow one by
one, since a callback may add timers. A Timer object is an address, and `heap`
says which exist.

**Buffer and HttpServer.** A buffer is a record of the vector and its two
indices, with one operator per member function. `makeSpace` takes its length as an
`int`: the conversion from `size_t` and back (`toInt`, `toSize`) is modelled with the
two widths as constants. In `HttpServer` a client's
requests are one stream of lexemes; `Deliver` lets any number of them arrive,
`HandleRead` is `readFd` and the start of `onMessage`, each turn of the loop in
`parseRequest` is one action, and so is each way in which `onMessage` ends
(400, the callback, or nothing yet). Whether the connection is kept after an
answer is the choice of the user's callback. A client may send anything;
`WellFormedRequest` says, for the properties, what a request looks like that the
server is made for: a request line, lines that begin with a name and a colon, an
empty line. A request with a body is not one: `onMessage` looks for no body and
takes its bytes for the next request.

## Runs

| Run | Bounds | Checks | Result |
| --- | --- | --- | --- |
| `eventloop` | 2 threads and the loop's own, 2 + 1 + 1 callbacks | `NoLostWakeup`, `QueuedIsRun`, `ImplementsQueue`, `QuitEndsLoop` | hold |
| `poller` | 3 channels, 2 descriptors, an array of 1 event that grows | `ChannelsAgree`, `NeverFatal`, `ActiveChannelsLive` | hold |
| `conn` | a careful worker that sends and shuts down, under a server that may be destroyed; two whose `send` and `shutdown` race; two careless ones that send; a careless one under a server that may be destroyed; 2 messages; with and without sub loops, with and without `writeCompleteCallback_` | `StreamPreserved`, `FlushBeforeFin`, `WritingIffOutput`, `UpDownOnce`, `WatchedIsAlive`, `CarefulIsSafe`, `GivesUpAfterDisconnect`, `ClosedIsDestroyed` | hold |
| `conn_raw_this` | 1 worker, 1 message | `NoUseAfterFree` | violated |
| `server` | 2 sub loops, 3 clients, 2 descriptors | `LoopsAreThere`, `FdsAccounted`, `ClientIsAccepted`, `DestroyReturns` | hold |
| `log` | buffers of 3 cells, 5 lines; files of 5 cells, days of 2 seconds, 3 seconds, a check every 2 appends | `BuffersSuffice`, `LinesConserved`, `RollsInTime`, `LineIsWritten` | hold |
| `workers` | 3 workers, 4 tasks | `NobodyOversleeps`, `TaskIsRun`, `DestructorDrains` | hold |
| `memory` | 4 pages of 5 alignments, sizes 1 (small), 5 (fills a page but the first) and 7 (large), 3 areas, 2 blocks and 2 nodes, counts of 3 bits | `AreasDisjoint`, `NothingLeaks` | hold |
| `pool` | 3 clients, limits 1 and 3 | `OneOwner`, `NeverOverLimit`, `ProducerAwakeWhenEmpty`, `FreeIsTaken` | hold |
| `pool_grows` | 3 clients, limits 2 and 4 (`mysql/test/conf.json`) | `GrowsOnDemand` | violated |
| `timers` | 3 timers, delays 0 and 2, intervals 0 and 1 | `OwnedOnce`, `StillArmed`, `OnTime`, `TimerRuns` | hold |
| `http` | 5 clients with one to three requests (well formed with and without headers, unknown method, no version, text for a header), buffers of 2 + 8 cells, `extrabuf` of 16, an `int` of 8 bits and a `size_t` of 10 | `BufferIsStream`, `AnswersInOrder`, `RefusedForCause`, `ClientIsServed` | hold |

**Why the bounds are enough.** `eventloop`: the races are between one push and
each step of the loop; two callbacks of one thread show their order, a second
thread shows that a wakeup may be consumed on behalf of another push, and the
loop's own callback shows the case of `callingPendingFunctors_`. `poller`: three
objects on two descriptors let a number be reused by another object while the
third one interferes. `conn`: two messages of two bytes give partial writes, a
direct write behind a waiting one and a second send after the first. `server`:
three clients for two descriptors let `accept()` fail while a connection is on
its way out, and two loops let one be handed a connection while the other ends;
the third connection comes round to the first loop again. `log`: five lines fill
two buffers of two usable cells and start the third, so that the front runs out
of spares and buffers are reused; one buffer fits a file and two do not, and the
time spans two days. `workers`: four tasks for three workers let a notification
find nobody, the wrong one or more than one task. `memory`: four pages let
`current_` skip two; the limits of five failures and five nodes are constants,
and one of each reaches the same branches. `pool`: three clients, a limit of
three and a minimum of one let the pool be empty, grow and shrink. `timers`:
three timers let one be added, one wait and one be restarted in the same round;
a delay of zero is already over, and two is longer than the interval. `http`: the
longest request is longer than a new buffer, so that reads spill into
`extrabuf`, and three requests let two arrive together before the third; the
first read can hold a whole request, as it can in the code.

**Exceptions stated in the properties.** Some properties name exactly the case
in which the code does not keep them, and hold otherwise:

- `NoLostWakeup` is for loops whose thread does not call `queueInLoop` before
  `loop()` (`PostBeforeLoop` FALSE). Otherwise the callback waits for the first
  poll to end, at most `kPollTimeMs`.
- `QueuedIsRun` ends with the loop: what is queued after the last
  `doPendingFunctors` of a loop that quits is not run.
- `DestroyReturns` excludes a `quit()` that comes between the publication of the
  loop and `quit_ = false` in `loop()`, which is forgotten (`lostQuit`).
- `LoopsAreThere` and `ClientIsAccepted` exclude loops that one of their own
  callbacks ended (`selfQuit`). `LoopsAreThere` also excludes the second half of
  the `quit()` in `~EventLoopThread`, which may look at a loop that has ended
  since the first half and is gone (`net/EventLoop.cc:95`, `103`).
  `ClientIsAccepted` needs connections to be closed again and again when the
  descriptors are used up.
- `CarefulIsSafe` is for workers that keep their pointer until no functor of
  theirs is left and call nothing once the server is destroyed; `conn_raw_this` is
  the other case. After a use of freed memory `ClosedIsDestroyed` asks for
  nothing.
- `WatchedIsAlive` excludes `overwritten` (below), and a `send` of a careless
  worker behind `~TcpServer`, which leaves a connection in `kDisconnecting` in
  that state: in both cases a destroyed connection registers its channel again.
- `UpDownOnce` lets a disconnect go unreported when `~TcpServer` runs: the io loop
  may end before it runs `connectDestroyed`.
- `UpDownOnce` and `GivesUpAfterDisconnect` exclude a `shutdown()` of another
  thread that stores `kDisconnecting` over `kDisconnected` (`overwritten`): then a
  queued send registers the closed channel again and the close is handled twice.
- `StillArmed` and `TimerRuns` exclude a wall clock that was set back: the timerfd
  fires, nothing has expired, and it is not armed again. `OnTime` is for a steady
  clock.
- `RefusedForCause` excludes a request that did not arrive in one read (`cut`);
  `ClientIsServed` excludes requests that arrived in the same read as an earlier
  one and were left in the buffer.
- `LineIsWritten` excludes a stopped logger: `stop()` makes no last swap.
- `RollsInTime` excludes a clock that was set back (`rollFile` waits until it has
  caught up) and lets a file outgrow `rollSize_` within the second of its birth.
- `TaskIsRun` and `DestructorDrains` exclude tasks added from outside after
  `stop()`, and workers that an exception has ended.
- `AreasDisjoint` and `NothingLeaks` exclude pages whose `quote_` did not begin at
  zero; `NothingLeaks` also the first page, which `current_` may leave behind, and
  the pages that `destroyPool` loses when a page it has freed no longer holds its
  `next_` (`misread`).
- `ActiveChannelsLive` excludes channels that were reported and then removed at
  once by `~Acceptor` or `~TcpServer` in a callback of the same round (`torn`).

**Fairness.** Weak fairness of the loop's thread is that the operating system
schedules a thread that is not blocked; in `EventLoop` it does not include the
poll timeout, so that `QueuedIsRun` shows that wakeups alone suffice, and
`QuitEndsLoop` adds the timeout explicitly as its hypothesis (`epoll_wait` is
called with `kPollTimeMs`). `Wakeup` is fair since a caller of `queueInLoop` does
not stop before its `write`. In `TcpConnection` the two loops and a worker in the
middle of a call run on, callbacks return, and a worker lets its pointer go some
day: strong fairness, because the chance (no functor of its own left) may come
and go. Peers, users and the destructor of the server owe nothing. In
`ConnectionPool` threads that can take the mutex do, and `wait_for` ends; clients
may keep a connection for ever. In `AsyncLogging` the backend runs on and
`wait_for` ends within three seconds, and the file system takes
the data in the end; nobody needs to log. In `TcpServer` every thread that can
run does, a loop whose `quit_` is set ends, and clients try again; closing a
connection and destroying the server are nobody's duty. In `ThreadPool` workers
and the owner run on and tasks return. In `TimerQueue` time
passes and callbacks return; `RunAddTimer` is strongly fair because every turn of
the loop runs the functors queued before it, while `HandleRead` may come in
between. In `HttpServer` the network delivers in the end and the io loop goes on
while it has something to do.

## Findings

1. `net/TcpConnection.cc:76`, `96`, `180`: functors bound to a bare `this` run on
   a destroyed connection when the caller's pointer is gone (`conn_raw_this`).
2. `mysql/ConnectionPool.cc:118`: `currentSize_` is counted twice for every
   connection, so that the pool of the shipped configuration never grows beyond
   its minimum (`pool_grows`).

Met while modelling: `quit()` (`net/EventLoop.cc:103`) wakes the loop only if the
caller is the loop's own thread, the opposite of its comment, so that a loop
blocked in poll notices a foreign `quit()` only after the timeout; a `quit()`
before `loop()` is forgotten, and the destructor of the thread then waits for
ever; `FixedBuffer::length()` (`logger/FixedBuffer.h:32`) is the capacity, so that
a reused buffer brings old lines into the file again; the producer of the
connection pool spins when the pool is at its limit; `shutdown()` from another
thread may undo a disconnect (`overwritten`); a `send()` overtaken by a
`shutdown()` writes to a closed socket, and nobody ignores `SIGPIPE`; timers stop
for good when the wall clock is set back past a timer that the timerfd is armed
for, and log files are not rolled until a clock that was set back has caught up;
an HTTP request in two pieces is refused, and one behind another waits;
`destroyPool()` reads a page after freeing it (`memory/MemoryPool.cc:54`, which a
comment there calls wrong), and may leak the rest or crash; `quote_` and `next_` of
pages are used without having been set; the destructor of a loop's thread may look
at a loop that is already gone, in `quit()`; a server destroyed in a callback leaves
reported channels dangling. The properties above state these cases as exact
exceptions. `Buffer::makeSpace(int)` gets no room for more than `INT_MAX` bytes at
once; the theorems about `append` stop there.

## Proofs

| Module | Theorem | Says |
| --- | --- | --- |
| `EventLoopProofs` | `LoopInvariant` | `IndInv` always holds |
| | `LoopNeverSleepsOnWork` | `NoLostWakeup`, if the loop's thread does not queue before `loop()` |
| | `LoopImplementsQueue` | the loop implements `FunctorQueue` |
| `EPollPollerProofs` | `PollerInvariant`, `ChannelsAlwaysAgree`, `UpdateNeverFatal`, `ReportedAreLive` | `PollerInv` and its three consequences |
| `ConnectionPoolProofs` | `PoolInvariant`, `ConnectionHasOneOwner`, `PoolStaysWithinLimit`, `ProducerNeverOversleeps` | `PoolInv` and its three consequences |
| `TcpConnectionProofs` | `ConnInvariant` | `ConnInv` always holds |
| | `StreamAlwaysPreserved`, `AlwaysFlushBeforeFin`, `AlwaysWritingIffOutput`, `AlwaysUpDownOnce`, `AlwaysWatchedIsAlive`, `AlwaysCarefulIsSafe`, `AlwaysGivesUpAfterDisconnect` | every safety property of the `conn` run, for any number of workers and messages |
| `AsyncLoggingProofs` | `BufferInvariant`, `BuffersAlwaysSuffice` | `BufferInv`, and no null buffer |
| | `RollsInTimeAlways` | `RollsInTime`, for every file size, period and interval |
| | `LinesAlwaysConserved` | `LinesConserved`, for every buffer size, number of lines and way of cutting the writes |
| `ServerProofs` | `NewBufferIsEmpty`, `RetrieveDropsFront`, `RoomIsMade`, `AppendAddsAtEnd`, `ReadFdAddsAtEnd` | a buffer is the sequence of its readable bytes, when at most `IntMax` bytes are appended at once |
| | `BufferIsAlwaysStream` | `BufferIsStream`, for every client, cut and buffer size |
| | `HttpInvariant`, `AnswersAlwaysInOrder`, `RefusedOnlyForCause` | `HttpInv`; answers come in the order of the requests and a refusal has a cause, for every client, cut and buffer size |
| | `ServerInvariant`, `LoopsAreAlwaysThere`, `FdsAlwaysAccounted` | `ServerInv`; no loop is used that is not there, but for the late look of `quit()`, and no descriptor is lost, for any number of threads, clients and descriptors |
| `PoolProofs` | `PoolInvariant`, `NobodyEverOversleeps`, `AlwaysDrained` | `PoolInv`; no notification is lost, and the destructor returns with an empty queue, for any number of workers and tasks |
| | `MemoryInvariant`, `AreasAlwaysDisjoint`, `NothingEverLeaks` | `MemoryInv`, and both properties of the `memory` run for every size, alignment and sequence of calls |
| `TimerQueueProofs` | `TimerInvariant`, `TimersOwnedOnce`, `TimersStillArmed`, `TimersOnTime` | `TimerInv` and its three consequences |

The assumptions are the named `ASSUME`s of the modules; they only say what the
constants are (disjoint sets, natural numbers, `1 <= minSize <= maxSize`, buffers
of two cells at least, requests with a text and a target of bytes, at least one
worker and one sub loop, an `extrabuf` whose size is an `int`, headers and pages
that are whole multiples of the alignment, with a counter wide enough for the
slots of a page).

- **IndInv.** `NoLostWakeup` speaks of the poll only. What makes it inductive:
  pending callbacks need a wakeup (in the counter, or of a thread that is about
  to write) except on the way from the poll to the swap, because the read of the
  eventfd may consume the wakeup there; and the flag `callingPendingFunctors_`
  is set exactly from before the swap until after the last functor, which is why
  the loop's own pushes are covered.
- **Refinement.** The abstract queue is `functors \o pendingFunctors`: the swap is
  a stutter because the local vector is empty when it comes (a part of
  `IndInv`), running a functor takes the head. The lemmas about concatenation
  are proved once.
- **ConnInv.** One part for each idea. `BeginInv`: before `connectEstablished` ran it
  is the first functor, and nothing but `~TcpServer`'s `connectDestroyed` is behind
  it. `LoopInv`: what the io loop holds where. `CloseInv`: once the close was handled
  the connection is out of the poller and stays so, unless `overwritten`; until then
  it is read. `OutputInv`, `ShutInv`: output, EPOLLOUT and FIN go together because
  no `send` is accepted once `shutdown` was called. `OwnerInv`: until the close was
  handled `connections_` holds the connection, then a functor on its way to the
  base loop or back does; this is what makes `WatchedIsAlive` inductive.
  `CarefulInv`: a functor bound to `this` has a worker that holds the object, and
  after `~TcpServer` began each of them has a `connectDestroyed` behind it
  (`Covered`). The proof attempt showed that an earlier form of `WatchedIsAlive`
  was false for careless workers behind `~TcpServer`; the exception is now stated.
- **PollerInv.** The agreement between `index_`, the map and the kernel is
  inductive only with `DistinctFds`: no two live channels have one descriptor.
  No reported channel dies because it stays in the poller, and an owner removes
  before it destroys (`ReportedStay`); only a destructor run inside a callback
  takes a reported channel out of the poller (`torn`).
- **PoolInv.** The limit holds because `currentSize_` is never below the number of
  connections (additions count twice, deletions once); the producer's part needs
  `minSize >= 1`, as the recycler does not notify.
- **ServerInv.** Where the owner is says what each thread may have done: a thread
  that the owner has gone past has published its loop (`StartInv`), and only the
  destructor, from the first thread to the one it is at, has called `quit()`
  (`QuitInv`). So a loop that is handed out is there, and `loop_` is not cleared
  between the two reads in `~EventLoopThread`, as long as no loop ends itself. Once
  `quit()` has stored `quit_` the loop may end at any time, which is why the look at
  `threadId_` behind it is the one use that the invariant cannot rule out.
- **FdInv.** A connection has one functor at most in all queues together (`Unique`),
  and each functor fits the state of its connection and the loop it waits in
  (`FunctorInv`); a closed connection has one, unless its loop ended itself
  (`OwnedInv`). The base loop is asked to remove connections only (`BaseInv`), and a
  loop that is gone has no functors (`EndedInv`), which leaves the functors of the
  base loop when `~TcpServer` is done. The queues enter the argument as the relation
  `In`, with one lemma each for a push, a pop and a clear.
- **PoolInv of ThreadPool.** `NobodyOversleeps` compares the number of workers about to
  test the queue with its length; each step changes one of them by one
  (`TestingCount`). With `JoinInv` (all workers have ended when the destructor
  returns) and `EndInv` (a worker that leaves after `stop()` leaves no task without
  another worker) the queue is empty at the end.
- **MemoryInv and LeakInv.** The areas of a page lie between its header and `last_`,
  do not overlap, and are as many as `quote_` counts (`Layout`); `quote_` cannot
  overflow, since every area takes one slot at least. A page without an area has
  been reset and `current_` is not behind it (`EmptyPages`), and the large blocks
  held are those that the list has (`LargeInv`). While `destroyPool` frees, what is
  left are the first page and those from `cur` on (`FreeInv`), unless `misread`.
- **RollInv.** The period of a later time is not an earlier one; as long as the clock
  was not set back, the number of appends since the end of the period is at most
  `count_`, which stays below `checkEveryN_`.
- **BufferInv.** The front loses its spare buffer only with a push to `buffers_`,
  so whenever the backend gives both of its spares away it has two buffers to
  take back.
- **LineInv.** What is held in memory, from the buffer being written to the current
  one, are the lines that follow the last one in the file (`NumberInv`). A step adds
  a line at its end, moves the borders between the buffers, or takes lines from its
  front to the file. What else goes to the file are cells from `cur_` on, and
  `OldInv` says that they hold lines of the file only: a buffer that comes back was
  written completely, and no line of it is later than the last in the file and
  those still to be written, a bound that writing does not change. What
  `FlattenSeq` computes for sequences of any length is proved by looking at the least
  counterexample (`LeastElement`).
- **TimerInv.** `StillArmed` and `OnTime` speak of the loop between events. During
  a round of `handleRead` the timerfd is not armed; what carries over is that
  once it is armed again it is early enough for all timers (`InTime`) and not too
  early for all (`NotInVain`): when it fires at least one has expired, so that
  the loop in `reset` runs and arms it again.
- **Buffer.** The readable bytes are compared cell by cell before and after. That
  the copy to the front makes enough room is the condition of `makeSpace`, with
  its `kCheapPrepend`; that growth suffices is `writerIndex_ + len`. Both need the
  length to survive the conversion to `int` (`ShortLengthIsKept`); what `readFd`
  appends does, since it is never longer than `extrabuf`.
- **StreamInv.** `BufferIsStream` with the counters in order. A read appends the
  next piece of the stream, a parsed line is taken from the front, and a window
  on the stream grows and shrinks in the same way (`WindowGrows`,
  `WindowShrinks`).
- **HttpInv.** The two properties about the answers speak of no position in the stream;
  the invariant does. The number of answers says which request is next, and what has
  been parsed beyond the end of the one before it says where in that request the
  parser stands (`Stands`): at its beginning, at the beginning of one of its lines, or
  at its end when all of it was parsed. It stands at an inner line between two
  messages only if a read ended inside a request (`cut`); if none did, the whole
  request has been received (`ReadInv`, `EndsBehind`), so that the parser does not run
  dry. No line but the first of a well-formed request parses as a request line, since
  the colon of a header comes before any space, and only the empty line at the end has
  no colon (`OtherLine`); hence a request that was cut is refused and never answered
  for another one. What `Upto` computes for any number of requests is proved by least
  counterexample, as above. The invariant was model-checked before it was proved.

Only model-checked: liveness (`QueuedIsRun`, `QuitEndsLoop`, `ClosedIsDestroyed`,
`LineIsWritten`, `FreeIsTaken`, `ClientIsAccepted`, `DestroyReturns`, `TaskIsRun`,
that the destructor of `DestructorDrains` returns, `TimerRuns`, `ClientIsServed`),
which rests on fairness and `ENABLED`, and the prover handles neither. Every other
property of a passing run has a theorem.

## Not modelled

Formatting (`Logging`, `LogStream`, `Timestamp`), plain system-call wrappers
(`Socket`, `InetAddress`), parsing of the pool's configuration, `MysqlConn` beyond
its idle time, `CurrentThread`, and the example programs. Most lines of the
repository are the vendored `mysql/json.hpp` (21045 of them) and copies of the
headers under `src/include`; neither is behaviour of this library.

`highWaterMarkCallback_` is never set by `TcpServer`. `~TcpServer` of a server without
sub loops is left out: it runs `connectDestroyed` of its connections directly, in the
thread of the only loop, where `EPollPoller` has it as `TearDown`. The copy of the caller's
string in `send` is left out: `send(const std::string&)` from another thread keeps
only its `c_str()` (`net/TcpConnection.cc:77`), so every such call depends on the
caller keeping the string. HTTP headers, queries and the text of a response are
data that no step depends on. Process exit, where the detached threads of the
connection pool go on, is left out, and so are log files that cannot be opened
and requests for zero bytes, which `malloc` refuses.

## Plan

Every safety property of the runs is proved. What would come next is the parts named
under "Not modelled" whose behaviour is more than data: `MysqlConn` as the user of a
pooled connection, and log files that cannot be opened.
