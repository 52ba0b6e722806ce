# A TLA+ development of cnet

cnet is a C++ network library in the reactor style: one event loop per thread,
channels that turn kernel events into callbacks, timers, TCP connections,
servers and clients on top, and a small base library of threads and logging.
This directory holds TLA+ models of the library and of two of its example
programs, the TLC runs that check them on small instances, and TLAPS proofs of
the results that hold for every instance.

    tlc -config MCEventLoop.cfg MCEventLoop      # one run
    tlapm EventLoopProofs.tla                    # one set of proofs

`PROJECT.json` lists the components, the runs, the source lines each definition
stands for, the hazards, the mutants that show each property can fail, and the
theorems. Paths below are relative to `src/cnet/`, those of examples to `src/`.

## Inventory

| Component | State | Operations | Interacts through |
|---|---|---|---|
| `net/EventLoop` | `quit_`, `pendingFunctors_` (mutex), the eventfd, `activeChannels_`, `callingPendingFunctors_` | `loop`, `quit`, `runInLoop`, `queueInLoop`, `wakeup`, timers | functors from any thread; calls the poller, the channels, the timer queue |
| `net/EventLoopThread` | `loop_` (partly under a mutex), the thread | `startLoop`, destructor | publishes a loop to its owner, quits and joins it |
| `net/Channel` | `events_`, `revents_`, `index_`, `tie_` | enable/disable reading and writing, `handleEvent`, `remove` | asks the loop's poller; calls its owner back |
| `net/poller/EPollPoller`, `PollPoller` | `channels_`; the event list or the array of `pollfd`s; the kernel's set | `updateChannel`, `removeChannel`, `poll` | fills the loop's active channels |
| `net/TimerQueue` (`Timer`, `TimerId`) | `timers_`, `activeTimers_`, `cancelingTimers_`, the timerfd, the heap of timers | `addTiemr`, `cancel`, `handleRead`, `reset` | functors from other threads; the callbacks it runs call it back |
| `net/TcpConnection` | `state_`, `reading_`, its channel's mask, the output buffer | `send`, `shutdown`, `forceClose`, `forceCloseWithDelay`, `startRead`, `stopRead`, four channel handlers, `connectEstablished`, `connectDestroyed` | queued functors, timers, user callbacks, the server's `removeConnection` |
| `net/TcpServer`, `Acceptor`, `EventLoopThreadPool` | the map of connections, the listening socket, the idle descriptor, the next loop | `start`, `newConnection`, `removeConnection`, destructor | hops between the base loop and the I/O loops |
| `net/Connector`, `TcpClient` | `state_`, `connect_`, the retry delay, `channel_`, `connection_` | `start`, `stop`, `restart`, `retry`, `disconnect`, destructor | timers and functors that hold raw or shared pointers |
| `net/Buffer` | reader and writer index | append, retrieve, prepend, shrink, `readFd` | owned by a connection |
| `net/http`, `net/inspect` | the parser's state; the table of commands | `parseRequest`, responses, `add`, `remove`, `onRequest` | message callbacks of a server; threads that add commands |
| `base/ThreadPool`, `BlockingQueue`, `BoundedBlockingQueue`, `CountDownLatch` | a queue under a mutex and conditions | `run`, `take`, `stop`, `put` | threads |
| `base/AsyncLogging`, `LogFile` | current and next buffer, full buffers, file size and day | `append`, the back-end thread, roll | front-end threads and one writer |
| `base/Date`, `TimeZone` | the transitions of a zone | conversions both ways | log lines and file names |
| `examples/memcached/server` | the items, sharded; one `Session` per connection | the text protocol's commands | sessions in several loops share the items |
| `examples/sudoku` | a pool, statistics, the solver's linked nodes | `onMessage`, `solve`, `record*`, `cover`, `uncover` | connections, workers, an inspector |
| the rest of `base/`, `net/Socket*`, `net/InetAddress` | none that lasts | formatting, dates, wrappers of system calls | |

What is hard in this code, and where (all of it is in the hazard list):

* **interleavings**: pushes to `pendingFunctors_` against the swap, `quit()`
  against the head and the condition of `loop()`, another thread's calls on a
  connection or a timer against the loop thread;
* **order**: functors run after the poll that follows them, a callback cancels
  its own timer, a direct write competes with the buffer, a FIN with the data;
* **stale state**: descriptor numbers and addresses are reused, `state_` is
  tested in one thread and set later, channels wait in `activeChannels_` while an
  earlier channel closes them;
* **timeouts**: the timerfd and the wall clock are two clocks, a delayed close
  meets the peer's close;
* **limits**: the eventfd's counter, the event list of one `epoll_wait`, the
  high-water mark, the last descriptor of the process, a full task queue, more
  than 25 buffers of log lines;
* **fragments**: TCP cuts requests, command lines and values anywhere.

What makes each component correct: the loop loses no functor and no quit and
keeps their order; the poller tells the kernel exactly what the channels ask
for; the timer queue keeps its two sets equal, deletes each timer once and
always has an alarm set; a connection delivers a prefix of what was sent in
order, closes once, and is destroyed; a client has one attempt or one connection
at a time and comes to rest when it is stopped; a server accounts for every
connection and survives the want of descriptors; parsers understand what was
sent however it is cut; a pool loses no task and no wakeup; a log keeps its
lines in order.

## Modules

| Module | Models | Used by |
|---|---|---|
| `TaskQueue` | abstract: one queue of functors | `EventLoop` refines it |
| `EventLoop` | `EventLoop.{h,cc}` | `MCEventLoop`, `EventLoopThread`, `EventLoopProofs` |
| `EventLoopThread` | `EventLoopThread.{h,cc}` composed with `EventLoop` | `MCEventLoopThread` |
| `Channel` | the masks and the order of callbacks of `Channel.{h,cc}` | the pollers and `TcpConnection` |
| `PollerInterest` | abstract: what each channel asked for is what is waited for | `EPollPoller` refines it |
| `EPollPoller` | `EPollPoller.cc`, the epoll set, the dispatch in `loop()` | `MCEPollPoller`, `EPollPollerProofs` |
| `PollPoller` | `updateChannel` and `removeChannel` of `PollPoller.cc` | `MCPollPoller` |
| `TimerQueue` | `TimerQueue.{h,cc}`, `Timer`, `TimerId` | `MCTimerQueue`, `TimerQueueProofs` |
| `TcpConnection` | `TcpConnection.{h,cc}` and the part of `TcpServer` that removes it | `MCTcpConnection`, `TcpConnectionProofs` |
| `Connector` | `Connector.{h,cc}` | `TcpClient` |
| `TcpClient` | `TcpClient.{h,cc}` on its `Connector` | `MCTcpClient`, `TcpClientProofs` |
| `TcpServer` | `TcpServer`, `Acceptor`, `EventLoopThreadPool` | `MCServers`, `ServersProofs` |
| `ThreadPool` | `base/ThreadPool` and its conditions | `SudokuServer`, `MCServers`, `ServersProofs` |
| `SudokuServer` | the four programs of `examples/sudoku` | `MCServers`, `ServersProofs` |
| `SudokuStat` | `stat.h` | `MCServers`, `DataProofs` |
| `SudokuSolver` | `sudoku.cc` | `MCServers` |
| `Wire` | byte streams and `findCRLF` | `Http`, `Memcache`, `SudokuServer` |
| `Buffer` | `net/Buffer` | `MCProtocols`, `ProtocolsProofs` |
| `Http` | `net/http`, `net/inspect` | `MCProtocols` |
| `Memcache` | `examples/memcached/server` | `MCProtocols`, `ProtocolsProofs` |
| `LogFile` | `LogFile`, `FileUtil`, `LogStream`'s buffer | `AsyncLogging`, `DataProofs` |
| `AsyncLogging` | `AsyncLogging`, the front end of `Logging` | `MCLogging`, `DataProofs` |
| `Calendar` | `Date`, `TimeZone` | `MCLogging`, `DataProofs` |
| `EventLoopProofs`, `EPollPollerProofs`, `TimerQueueProofs`, `TcpConnectionProofs`, `TcpClientProofs`, `ServersProofs`, `ProtocolsProofs`, `DataProofs` | theorems and proofs | |

`MCProtocols`, `MCServers` and `MCLogging` check components that share nothing
side by side: a variable `system`, chosen in the initial state, says which of them
a behaviour runs, and the others stay as they start. So one run explores the sum
of their states and not the product. Each component module has its own start,
next-state relation and fairness (`PoolStart`, `PoolNext`, `PoolFairness`).

Variables that are members in the code keep their names. The models follow a
release build: an `assert` does not stop a step, and what asserts say is stated
as a property where it matters. Definitions named `X_Something` are mutants of
`X`: the plausible mistakes that each property is shown to catch.

**EventLoop.** `pc` is where the loop thread is. A step is what a thread does
between two accesses to shared state: the push under the mutex and the write to
the eventfd are two steps of `queueInLoop` (`call[t]` is what the thread still
owes), the store and the write two steps of `quit`, the test and the store of
`quit_` at the head of `loop()` two steps (`CheckCreated`, `StoreRunning`). At
the pcs `setup`, `handler` and `functor` user code runs in the loop thread and
may call the library. The constructor leaves `callingPendingFunctors_`
uninitialised, so `Init` allows both values. `startup` is a history variable: the
functors the loop's own thread queues before `loop()`, for which the code makes
no wakeup (unless that uninitialised value happens to be true); they are the one
exception to "no functor is slept over".

**EventLoopThread.** The owner's `startLoop` and destructor and the new
thread's `threadFunc` around the same loop; `loop_` is tested and used without
the mutex as in the code.

**EPollPoller.** Channel objects share descriptors (`FdOf`), one after the
other. `registered` and `mask` are the kernel's epoll set, and `update` says when
`epoll_ctl` fails. `poll` returns any choice of ready descriptors that fits the
list and doubles a full list. `current` and `activeChannels` are the dispatch in
`loop()`. Clients keep the library's own rule (the assertion of
`EventLoop::removeChannel`): a channel waiting for its dispatch is not removed
by another one.

**TimerQueue.** An id is a pair of address and sequence, an address is reused
after `delete`, and `heap[a]` with sequence 0 is free memory. `AddOffLoop` and
`ReadSequence` are the two halves of `addTiemr` in another thread. `armed` and
`readable` are the timerfd, which may fire early or late relative to the wall
clock `now`. Between `PollTimerfd` and `handleRead` other channels' callbacks may
add and cancel. One unit of time is the 100 µs minimum of `howMuchTimeFromNow`;
`resetTimerfd` gets the relative time of it, and a relative time of 0 disarms the
timerfd, as `timerfd_settime` does.

**TcpConnection.** Bytes are numbered as `sendInLoop` takes them, so order and
gaps show. `phase` follows one iteration of the loop: `poll`, `active` (the
channel is in `activeChannels_`, an earlier channel may run), `handle`,
`functors`. `user` is the user callback running, in which the user may call the
connection. `Begin` and `Finish` are the two halves of a call from another
thread: the test of `state_` and the rest. `revived` records that a closed
connection was brought back, which the code allows in three ways: another
thread's `shutdown`/`forceClose` sets `kDisconnecting` after the close; a timer
closes the connection while events already reported for it wait; and the
channel is put into the epoll set at or after the close (`startRead`/`stopRead`
that come late; `disableAll` on a channel that `stopRead` had already emptied:
`updateChannel` re-adds a `kDeleted` channel whatever its mask, and epoll then
reports POLLHUP). The removal goes through the server's loop as an asynchronous
step, which covers both a server with its own loop only and one with a pool of
loops.

**Connector, TcpClient.** `fd` is what each socket is doing; descriptor numbers
are reused. A batch of functors is taken from the queue at once, as
`doPendingFunctors` does, so the queued `resetChannel` and a newer attempt can
meet. The client's calls from another thread are two steps where the loop thread
can come between two accesses (`call`). `doing` is what the loop thread is in the
middle of. `asserted` records that an assertion of `startInLoop` or `connecting`
would fail, `touched` that a destroyed object is used, `dtor` whether the
destructor ran in the loop thread, `stopped` that `stop()` came after the last
`connect()`. A `removeConnection` that has already found `connect_` true restarts
the Connector in spite of a `stop()` of another thread: such a `stop()` is not
counted, but one before the test is. Assumed of time: one iteration of the loop is
shorter than the first retry delay (500 ms) and than the one-second timer that
keeps the `Connector` alive; a channel enabled in an iteration is first reported
by the next poll.

**TcpServer.** Connections go through phases; the record `server` has the map,
each loop's functors, the backlog and the descriptors. `handleRead` after `EMFILE`
is three steps (close the idle descriptor, accept and close, open it again), between
which other threads may take the freed descriptor. The destructor may run while
an I/O loop is about to queue `removeConnection`; `touched` records that a functor
then goes through the destroyed server, and nothing else: a connection that were
removed twice would violate `ConnectionsAccounted`. Its loop
over `connections_` is one step: the map's order only decides the order of
`connectDestroyed` functors of different connections in one queue.

**ThreadPool, SudokuServer.** A step is the part of a method under `mutex_` up to
a wait. A notification wakes any one of those that wait, a wakeup may
also come for no reason. The server composes with the pool: `HandOver` is `run()` in the
message callback, and a worker's answer comes back by `runInLoop` (`RunSendInLoop`).

**SudokuStat, SudokuSolver.** `record*` is one step under the mutex. In the
solver the nodes, their six links and the stack of `solve()` are those of the code;
`cover` and `uncover` relink node by node in the same order.

**Wire, Buffer, Http, Memcache.** `Buffer` is the vector with its indices, in
bytes. In the protocols a CR, an LF and a run of text are one token each, since
the parsers only look for CR LF or count; TCP delivers any number of tokens at a
time. `Http` handles a message in one step, but the inspector finds a command in
one step and calls it in the next. `Memcache` takes one turn of the loop of
`onMessage`, or one key of a `get`, as a step, which is what the shard's lock makes
atomic. The size in a command goes through `strtoull` and the cast to `int` with
the widths as constants (`SizeModulus`, `IntLimit`), and the two bytes of CR LF are
added in `int`; `misread` records that a size was read that is not the one written.
A failing assertion ends the process (`Aborts`) or lets it go on as a release build
does, whichever the step chooses.

**LogFile, AsyncLogging, Calendar.** Each use of `mutex_` is a step. The wait on
`cond_` ends by a notification, its timeout or for no reason. A line is its id and
size: the front end's bounded buffer drops whole pieces, so a line that is too
long loses its newline. A FATAL line flushes stdio and aborts. `Calendar` walks
through days and half hours; its reference is a calendar kept by the leap-year
rule.

## Runs

| Run | Instance | Distinct states | Shows |
|---|---|---|---|
| `EventLoop` | 2 threads and the loop, 3 functors, 2 calls per callback, eventfd limit 2 | 62,772 | no functor or quit slept over; order; functors run; quit ends the loop; input is handled |
| `EPollPoller` | channels `a`, `b` on one descriptor, `c3` on another, list of 1 | 83,705 | `index_` is true, `epoll_ctl` never fails, interest is refined, no starvation |
| `TimerQueue` | 1 other thread, 2 addresses, 3 timers, clock to 2, expirations to 3, queue of 1 | 950,036 | the sets agree, one owner, an alarm covers every timer, cancels stick, due timers run |
| `TcpConnection` | 1 other thread with 1 call, 2 calls in the loop, messages of 2 bytes, mark 3 | 592,395 | order, `POLLOUT` iff bytes wait, FIN after data, one close, quiet after it, shutdown and destruction complete |
| `TcpClient` | 2 sockets, delays 1 to 3, 3 calls by the loop and another thread | 378,386 | every socket accounted for, one start is safe, a client destroyed in its loop leaves nothing behind, stop() comes to rest, retry goes on |
| `Protocols` | `Buffer`: vector of at most 8, 4 unread; `Http`: 3 requests of 7 kinds; `Memcache`: 2 sessions, 181 pairs of scripts, an `int` of 4 bits and a `size_t` of 8 | 268,779 | the buffer holds what is unread, requests and commands are understood as sent, cas is sound |
| `Servers` | `TcpServer`: 3 connections, 0 or 2 I/O loops, 3 descriptors of which another thread takes 1; pool: 2 workers, 2 producers, 2 tasks, queue of 1; sudoku: 3 lines; window of 3 of 6 seconds; 257 boards of 4 x 4 | 98,041 | connections accounted for, tasks run and stop() returns, answers in order, window true, solver exact, no busy loop for want of descriptors |
| `Logging` | 4 lines, buffers of 16, at most 2 wait, files of 12, 3 seconds; 5 x 800 days, 3 zones x 240 half hours | 150,185 | lines in order and once, on disk or dropped, stop() returns; dates and local times return |
| `EventLoopThread_quit` | owner and loop thread | violation | a quit is lost and the destructor hangs |
| `PollPoller_index` | 3 channels | violation | stale indices after `removeChannel` |
| `TimerQueue_add` | 1 other thread, 2 timers | violation | the sequence of a deleted timer is read |
| `TcpConnection_close` | no other thread, one delayed close | violation | `handleClose` and `connectDestroyed` twice |

Why the bounds are enough. *EventLoop*: two threads let two pushes, two eventfd
writes and the loop's read of it interleave, three functors fill a batch and the
next queue, and the limit 2 makes the eventfd overflow. A functor's name is
reused after it ran, so runs are unbounded in length. *EPollPoller*: two channels
on one descriptor give reuse, the second descriptor makes a list of one too
short. *TimerQueue*: two addresses for three timers force reuse of an address;
one expiration beyond the clock keeps a timer pending. *TcpConnection*: two bytes
per message give every partial write, two messages cross the mark, and the other
thread's call can overlap any step. Every operation of the
connection may be called in either place. *TcpClient*: two sockets let a new
attempt begin while the old channel waits for its reset; three calls give
connect, stop and connect or disconnect in either thread, and the delay reaches its
maximum. *Protocols*: the vector is full, moved, grown and shrunk; a request is cut
at each token and two come in one message; a value is accepted, appended to and too
large; sizes below zero, at the edge of an `int` and beyond it are sent, commands
without a key, a line without end and a key that is too long. *Servers*: three connections on two loops make round robin wrap, and with
the idle descriptor they exhaust the limit; one place in the queue makes both
producers wait. Boards with none to seven empty cells, contradictory and
illegal ones, make the solver backtrack through every level. *Logging*: four lines
fill a buffer, take the next one and exceed the two that may wait; the file rolls
by size and by day; the days cross leap years, the century that is none, and 1970.

No symmetry reduction is used: the passing runs check liveness.

**Fairness.** *EventLoop*: weak fairness of the loop thread's own steps and of a
thread finishing a call it began. The poll timeout is left unfair, so nothing
shown waits for `kPollTimeMs`. *EPollPoller*: the loop thread's steps.
*TimerQueue*: the loop thread's steps, and an armed timerfd fires. *TcpConnection*:
the loop thread and the base loop run; `poll()` returns when functors wait (this
is what `NoSleepOnFunctor` of `EventLoop` says); strong fairness of a pending
timer and of POLLOUT being reported while it is asked for, which assumes a peer
that reads or a reset; without it no data would have to leave. *TcpClient*: the
loop thread runs, a connection attempt ends, a call that began ends; strong
fairness of the retry timer. *ThreadPool*: workers that are awake run, tasks
return, a producer that was woken runs, a join ends. *TcpServer*: loops run;
strong fairness of the base loop's functors, because each iteration ends with
them although every step of `handleRead` disables them in between. *AsyncLogging*:
the back end runs, which includes that `waitForSeconds` times out. Callbacks are
assumed to return, as everywhere in a reactor.

**Findings.** The four violation runs are disagreements between the code and its
own comments, tests or assertions:

1. `EventLoop.cc:95`: test and store of `quit_` are not atomic; a `quit()` in
   between is lost. `QuitEndsLoop` shows that this window is the only one.
2. `PollPoller.cc:116`: `removeChannel` leaves stale indices.
3. `TimerQueue.cc:122`: `addTiemr` reads a timer it no longer owns.
4. `TcpConnection.cc:325`: end of file (or POLLHUP) after a delayed close in the
   same iteration closes a second time. `ClosesOnceUnlessRevived` shows that it
   takes one of the three ways above.

Behaviour that the properties are careful about, because the code does it and no
document says otherwise:

* `Connector`: `state_` stays `kConnected` after a connection was handed over, so a
  second `start()` meets the assertion at `net/Connector.cc:43`; `stop()` and
  `start()` in one batch let the queued `resetChannel` destroy the new attempt's
  channel. Hence `OneStartIsSafe` is about one call of `connect()`.
* `net/http/HttpServer.cc` parses one request per message, so a second one that
  arrived with it waits for more input. After a bad request line the server shuts
  down and goes on parsing.
* `net/inspect/Inspector.cc:159` looks commands up without the mutex that `add`
  and `remove` hold.
* `net/http/HttpRequest.cc:46` gives the port with its colon to the conversion,
  which then always fails; a request's body is never parsed.
* `ThreadPool::stop()` drops queued tasks and does not wake producers that wait
  for room. `server_threadpool` with several workers answers requests without id
  out of order; `server_hybrid` avoids it.
* In memcached the size of a value is cast to `int`
  (`examples/memcached/server/Session.cc:63`) and two is added in `int` (195, 201). A
  size above 2^31 - 3, or one below zero, is another size to the session, which then
  cuts the stream at other places than the client means or fails the assertion of
  `Item.cc:24`. `CommandsAsSent` claims nothing from there on, and everything before.
* A line of more than 1024 bytes shuts the connection down for writing and leaves the
  session reading (`Session.cc:110`). A `get` with a key that is too long leaves the items found
  so far in `outputBuf_`, in front of the next answer (`Session.cc:251`). An update
  without a key dereferences the tokenizer's end (`Session.cc:158`).
* In memcached a reply EXISTS or NOT_FOUND ends without CR LF
  (`examples/memcached/server/Session.cc:329` and `338`).
* `AsyncLogging`: lines appended after the last swap are lost at `stop()`, and of
  more than 25 buffers all but two are dropped.
* `TimeZone` assumes that daylight saving is one hour; the zones of the run keep
  to that. For the hour that is repeated it chooses by the `tm_isdst` it is given.
* A timer cancelled by an earlier callback of its batch still runs once
  (`net/TimerQueue.cc:190`).
* The destructor of `TcpServer` and an I/O loop race for the raw pointer of the close
  callback (`net/TcpServer.cc:95`).
* `Acceptor::handleRead` at the limit opens the idle descriptor again only if no other
  thread took it; without it nothing is refused (`net/Acceptor.cc:71`), and `ServerDrains`
  exempts that.
* `PollPoller` never restores the descriptor that
  `disableAll` made negative (`net/poller/PollPoller.cc:95`).

## Proofs

The theorems hold for any sets and bounds, under the named assumptions of the
component modules, which TLC evaluates in the runs. They say of the constants only
what the code fixes: sizes and delays are natural numbers and those that are
divided by, armed or waited for are not 0, the null pointer and "no socket" are no
address and no socket, the base loop is none of the pool's, there are finitely
many connections, workers and producers, the limit on values is a number that an
`int` holds with two more, a `size_t` is at least as wide as an `int`, "no task"
is neither a task nor the number of a request, years are not negative, and the initial retry delay is at
most the maximal one. Two say what the code takes for granted: a zone's local
times differ by an hour (`fromLocalTime` subtracts 3600), and its transitions are
more than an hour apart.

| Module | Theorems (property) | Inductive invariant |
|---|---|---|
| `EventLoopProofs` | `TypeCorrect`, `FunctorsNotSleptOver` (`NoSleepOnFunctor`), `QuitNotSleptOver` (`NoSleepOnQuit`), `ImplementsTaskQueue` (`RunsInOrder`) | `WakeInv`, `BatchInv` |
| `EPollPollerProofs` | `TypeCorrect`, `IndexIsTrue` (`KernelMirrors`), `CtlNeverFails` (`NoCtlFailure`), `RefinesInterest` (`ImplementsInterest`) | `Placed` and the two properties |
| `TimerQueueProofs` | `TypeCorrect`, `SetsStayTogether` (`SetsAgree`), `TimersHaveOneOwner` (`OneOwner`), `CancelledStaysCancelled` (`CancelSticks`), `TimersHaveAnAlarm` (`AlarmCovers`) | `Inv` |
| `TcpConnectionProofs` | `TypeCorrect`, `StreamStaysInOrder` (`StreamInOrder`), `WaitsWhileBuffered` (`WritingIffBuffered`), `FinIsLast` (`FinAfterData`), `GoesDownOnce` (`ClosesOnceUnlessRevived`), `NoDataAfterDown` (`QuietAfterDown`, an action property) | `StreamInv`, `LoopInv`, `StartInv`, `WriteInv`, `CloseInv` |
| `TcpClientProofs` | `TypeCorrect`, `SocketsStayAccounted` (`SocketsAccounted`), `OneStartSafe` (`OneStartIsSafe`), `DeadClientStaysUntouched` (`DeadClientUntouched`) | `SocketInv`, `StartInv`, `DeadInv` |
| `ServersProofs` | `ConnectionsStayAccounted` (`ConnectionsAccounted`), `BacklogStaysSound`, `SudokuAnswersInOrder` (`AnswersInOrder`), `PoolLosesNoWakeup` (`PoolSound`, the safety part of `PoolDrains`) | `ServerInv`, `OrderInv`, `PoolInv` |
| `ProtocolsProofs` | `BufferHoldsUnread` (`HoldsUnread`), `CasIsSound` (`CasSound`), `CommandsAreAsSent` (`CommandsAsSent`) | `BufferInv`, `CasInv`, `CacheOK` |
| `DataProofs` | `LogLinesInOrder` (`LinesInOrder`), `StatWindowIsTrue` (`WindowIsTrue`), `CalendarReturns` (`CalendarRoundTrip`) | `SafeLog`, `TrueStat`, `Walk` |

Most of the invariants were checked with TLC before they were proved. Why the
properties need them:

*EventLoop.* That a functor waits in poll() only with a wakeup
coming depends on how the loop got there. `WakeInv` says where a wakeup is needed
(everywhere but on the way to the swap) and that `callingPendingFunctors_` is true
while a batch runs, which is what makes a functor queued by a functor write the
eventfd. `ImplementsTaskQueue` maps the abstract queue to `functors \o
pendingFunctors_`; with `BatchInv` (a batch is finished before the next swap)
every step is a `Submit`, a `RunHead` or a stutter.

*EPollPoller.* `Placed` (a descriptor's entries name channels of
that descriptor) is what makes a removal or a close leave the other channels
alone. `RefinesInterest` maps `asked` to `events_` and `interest` to the kernel's
mask of the channel that is registered.

*TimerQueue.* `SetsAgree` says nothing of the timers outside the two sets.
`OwnerInv` gives each allocated address one place: the two sets, the batch of
`handleRead`, or the functor of `addTiemr`. `SeqInv` says that sequence numbers
are unique and never reused, which is what keeps a stale `TimerId` from
cancelling the timer that got its address, and `BatchInv` that there is a batch only
during the callbacks. The alarm is proved on top of that, step by step: it is
open only between the callbacks and `reset()`, and the minimum of
`howMuchTimeFromNow` is what keeps a timer that is already due from disarming it.

*TcpConnection.* A dead socket loses bytes; `StreamInv` adds that from then on the
buffer is empty and POLLOUT is not asked for, so that nothing is buffered behind
the gap. For the masks `StartInv` says that nothing at all has happened before
`connectEstablished`, the first functor, has run, and that it runs once. `CloseInv`
says that a connection that is closed and was not brought back is out of the epoll
set, has no callback left that reads or closes, and counts who is still to destroy
it: the down callback, a removal on its way, the server. `NoDataAfterDown` is an
action property from the same invariant.

*TcpClient.* Until an assertion fails, `SocketInv` ties every socket to its holder
(the registered channel, the step between Connector and client, the connection,
one queued `connectDestroyed`) and an unregistered channel to exactly one queued
`resetChannel`. With one `connect()`, `StartInv` says that there is one token: the
call, a retry timer, the attempt or the connection; and that a `forceClose` of the
destructor is always behind the functor that detaches the close callback. `SafeInv`
says what a client destroyed in its loop leaves behind, and why none of it can reach
the client: the callbacks are detached, and the Connector is held by the timer or
has nothing left to do.

*TcpServer.* `ServerInv` says of each kind of functor in which queue it may be and
which phases its connection may be in (`FunctorOK`); that in a queue
`connectEstablished` precedes `connectDestroyed` of the same connection (`Ordered`),
without which a destroyed connection could be revived; that the backlog holds
connections the server has not seen; and how far the round robin is. A step
changes one connection, so `OneConnection` reduces it to that connection
(`ConnOK`); the destructor, which changes all, is proved directly, with
`SetToSeqIs` for the order in which the map is walked. The descriptors are counted by
`FdsKept` and `FdsTaken`: only an accept opens one. `BacklogStaysSound` holds also
after the destructor raced with an I/O loop.

*Sudoku server.* A request that was taken is in exactly one place: the pool's queue,
a worker's hands, the loop's functors, or answered. Where at most one thread
works, the requests further on have smaller numbers and there is no gap, so they
come out as they went in; the number of a new one is the greatest because of where
the parser is in the client's stream. The theorem supposes a client that numbers
its requests in order. With several workers it speaks of requests without id only
where the program keeps their order (`server_hybrid`).

*ThreadPool.* `PoolSound` says why no `notify()` is lost although each wakes one
thread only. While a worker sleeps, at least as many workers are about to look at
the queue as it has tasks: `run()` adds a task and wakes one of them. While a producer
sleeps on `notFull_`, there is no more room than producers already woken for it:
`take()` makes room for one and wakes one, and one that is refused again finds the queue
full. `PoolInv` adds only that a sleeping producer has its task in hand. That the
threads so woken do get to run, and so that the queue empties and `stop()` returns, is
liveness and stays with TLC.

*Buffer.* `Holds` adds that `kCheapPrepend` is within the vector, since
`retrieveAll` and `makeSpace` set the indices back to it, and says byte by byte
what the readable part is, so that the copies can be followed. What the conversion
to network order computes stays opaque: the proof shows that an integer is read
from exactly the bytes that were written for it and are unread.

*Memcache.* A number that a client has seen must not be given to another value.
`CasInv` adds that no item and no client has a number beyond `g_cas`, so that the
next one drawn is new to all. The scripts of the clients are arbitrary. For
`CommandsAsSent` a client writes by the protocol's rules (`Written`: a line for each
command and after a good update as many tokens as it says and two more; TLC
evaluates it for the scripts of the run). `CacheOK` says how many tokens of the script
are read, that input and wire are the others, and, within a command, which part of
its value is there or how much of it is still to be discarded. So a session is at the
end of a command exactly when the script is, and the commands done are as many as
the commands read. The sizes in the scripts are any integers. `Fits` is what passes
`strtoull`, the cast and the addition unchanged; of a session that has read
another size it is proved only that its client sent one (`Misread`).

*Logging.* `SafeLog` says what each buffer holds (whole lines, no more bytes than
fit) and where each line is: every line that was appended and not dropped is in
exactly one of the files, the back end's buffers, the queue of full buffers and the
current one, and the positions in these places, taken one after the other, are in
the order of the calls. `LinesInOrder` is stated element by element for that reason:
the provers know nothing of a filtered sequence.

*Statistics.* `TrueStat` gives each slot of a ring the second it stands for, and
counts what was reported for that second; a report of an older second than the
ring's first is in the totals only.

*Calendar.* A year is taken from March on, so that the leap day is its last, and
split into periods of 400, 100, 4 and 1 years. The next day has the next number
(`Walk`), and so every day from the year 0 on has a date, by induction. Days before
1970 are counted down by the same step as those after it are counted up. For
the zones: the offset that is found is the one in force, or that of standard time an
hour on, where the code subtracts the hour again; the repeated hour needs that the
next transition is not within it, so that the local times of the transitions are
sorted as `lower_bound` requires.

Induction over data is stated over a *set* of natural numbers (`NatSetInduction`,
from the least element of its complement), since a theorem with an operator as a
parameter cannot be instantiated here. The folds of the community modules choose a
recursive function; for each there is a lemma that such a function exists and one
that any two agree.

Only model-checked:

* every liveness property: fairness and ENABLED are out of the prover's reach;
* `ServedAsSent` of `Http` and `SolverExact` of `SudokuSolver`, whose modules reach
  recursive operators.

## Not modelled

* Object lifetimes beyond timers, clients and servers: raw `this` in a
  connection's queued functors, `Channel::tie`, a `loop_` cleared under its owner.
* Texts: formatting of numbers, times and addresses, what the inspector's commands
  and `procmon` print, bodies of HTTP responses, the bytes of a zone file.
* `BlockingQueue` and `BoundedBlockingQueue`, which repeat the monitor of
  `ThreadPool` without its `stop()`; system call wrappers and thread wrappers.
* `PollPoller::poll`, which relies on indices that are already shown wrong.
* Example clients that measure latencies, `procmon`, `dummyload` and `wordcount`.
* `protobuf` and `protorpc`, of which the repository has only build files.

The reasons are per component in `PROJECT.json`.

## Plan

Done: every component with state that lasts has a module, except those above, and
the safety properties of the core (loop, poller, timers, connection, client,
server, buffer), the commands of a cache, the order of lines and answers, the
statistics, the calendar and the wakeups of a thread pool are theorems. Left:
a model of the queued functors' lifetime in `TcpConnection`, and of
`PollPoller::poll` if its indices are corrected.
