# A verification project for wethands

wethands is a C++11 network library in the style of muduo: reactors (event
loops), timers, TCP servers and clients, thread pools, an asynchronous logger
and a small HTTP server. This directory holds TLA+ models of its core, the TLC
configurations that check them on small instances, and theorems about them
with proofs checked by TLAPS.

Paths below are those of the repository, e.g. `reactor/EventLoop.cc` for
`src/reactor/EventLoop.cc`. The models follow the debug build, in which
assertions are checked and abort the program.

## 1. The system

### Components, their state and their operations

| Component | State | Operations | Met by |
| --- | --- | --- | --- |
| EventLoop | `quit_`, `pendingFunctors_` under `lock_`, the eventfd, `activeChannels_` | Loop, Quit, RunInLoop, QueueInLoop, Wakeup | every thread |
| Poller, Channel | the descriptors epoll knows and the events asked for, `revents_` | Poll, UpdateChannel, RemoveChannel, HandleEvent | the loop thread |
| TimerQueue, Timer | `timers_` ordered by (expiration, sequence), the timerfd | AddTimer, CancelTimer (any thread), HandleRead | loop, users |
| EventLoopThread, EventLoopThreadPool | a thread with its loop, a latch; a list of loops and an index | StartLoop, NextLoop, Start | base thread |
| Acceptor, TcpServer | the listening channel, `connections_`, the pool | Start, NewConnection, RemoveConnection, the destructor | base loop |
| TcpConnection | `state_`, `reading_`, its channel, two buffers, `shared_ptr` count | ConnectionEstablished/Destroyed, Send, StartRead, StopRead, Shutdown, ForceClose, HandleRead/Write/Close/Error | its I/O loop, users |
| Connector, TcpClient | `connecting_`, `stop_`, the retry timer, `connection_` | Start, Restart, Stop, HandleWrite, Retry | its loop, users |
| Buffer | two indices into a vector | Append, Retrieve, Prepend, ReadFd | one thread |
| HttpContext, HttpServer | the parser's state, per connection | ParseRequest, onMessage | the I/O loop |
| AsyncLogging, LogFile | current and spare buffers, queue, `running_` | Append (any thread), Start, Stop, ThreadFunc | every thread |
| ThreadPool, BlockingQueue, BoundedBlockingQueue | a task queue, two conditions, `running_` | Run, Take, Stop; Put, Take | every thread |
| Mutex, Condition, CountDownLatch, Thread | pthread objects | wrappers | the above |

### How they interact

Everything that belongs to a loop is done on its thread. Other threads hand it
functors (RunInLoop, QueueInLoop) and write to its eventfd; timers and
connections are built on that alone. RunInLoop on the loop's own thread calls
the functor on the spot, so the same code runs nested or queued depending on
the caller: most of what is hard below comes from that. A TcpServer spans two
loops: the base loop accepts, records and removes a connection, its I/O loop
does the rest, and the two send functors to each other. Connections live by
`shared_ptr`; channels, and the pointers epoll returns, are raw.

### What is hard

* the window between a push and its wakeup, and who may skip the wakeup;
* callbacks that call back: a timer callback that cancels timers, a message
  callback that closes its own or another connection;
* `revents_` and timer indices that are read long after they were written;
* a state tested on one thread and overwritten on another (Shutdown);
* lifetime: the last reference to a connection released on either loop or by
  the user, against a channel pointer held by epoll; a timer that its loop
  deletes before the thread that added it has read its number;
* time read twice, and compared with a clock of another kind;
* stopping: functors never run, log lines not written, tasks dropped, a loop
  that is destroyed between the store of its `quit_` and the write that is to
  wake it;
* limits: the last descriptor, the 16th buffer, the full queue whose consumers
  are its producers.

The list with line numbers is `hazards` in `PROJECT.json`.

### What makes each component correct

* EventLoop: functors start in the order they were handed over, once; a functor
  of another thread and a Quit() never wait for the poll timeout.
* TimerQueue: each allocated timer is in one place; no timer runs early, twice,
  or after a cancel that found it; a cancel deletes no timer but its own; the
  timerfd is armed for the first timer.
* TcpServer/TcpConnection: no channel is used after its connection; each
  connection is read until it is closed, and closed, removed and destroyed once;
  assertions hold.
* TcpConnection's output: bytes leave in the order they were accepted, none
  twice, and all of them while the connection lives; EPOLLOUT is asked for while
  output waits; the high water callback is due once per crossing.
* TcpServer, its pool and its acceptor: Start() and the destructor return, with
  all threads joined; clients are accepted, or turned away when descriptors run
  out.
* Connector/TcpClient: one retry timer, attempt or connection at a time, and
  always one of them until the client is stopped.
* Buffer: what was received and not retrieved, in order, through every move and
  growth. HttpServer: each request is answered once, from its own lines,
  wherever the stream is cut.
* AsyncLogging and LogFile: every line is in one place, in order, and reaches the
  file; a buffer to log into is always there; files are rolled by size and day.
* ThreadPool, BoundedBlockingQueue: bounded FIFO queues; no thread waits for an
  item or a slot that nobody is on the way to; Stop() returns.

## 2. The modules

| Module | What it is |
| --- | --- |
| `TaskExecutor` | abstract: what an EventLoop promises to those who hand it tasks |
| `EventLoop` | one loop, its thread and the threads that call it |
| `TimerQueue` | the timers of one loop |
| `TcpServer` | base loop, I/O loops, connections, users and peers |
| `TcpOutput` | the output of one connection: sends, buffer, write events |
| `ServerLife` | a server from Start() to the end of its destructor: pool, loop threads, acceptor, descriptors |
| `Connector` | attempts to connect, as operators on the connector's state |
| `TcpClient` | extends `Connector`: client, connection, timers and the user |
| `Buffer` | the buffer, as operators on a record |
| `HttpServer` | extends `Buffer`: a stream of requests cut anywhere, the parser, the answers |
| `LogFile` | log files: rolling and flushing, as operators |
| `AsyncLogging` | extends `LogFile`: logging threads, the background thread, Start and Stop |
| `BoundedFifo` | abstract: a bounded first-in-first-out queue |
| `BoundedBlockingQueue` | the ring, its lock and conditions, the waiting threads |
| `ThreadPool` | workers, callers, nested Run(), Stop() |
| `SequenceLemmas` | facts about sequences used by the proofs |
| `ReactorProofs`, `TcpServerProofs`, `TcpOutputProofs`, `ThreadPoolProofs`, `BoundedBlockingQueueProofs`, `EndpointProofs`, `AsyncLoggingProofs` | the theorems; those about `EventLoop` and `TimerQueue` are in `ReactorProofs`, those about `TcpClient` and `ServerLife` in `EndpointProofs`, those about `Buffer` in `TcpOutputProofs`, those about `LogFile` in `AsyncLoggingProofs` |
| `MCEventLoop`, `MCTimerQueue`, `MCTcpServer`, `MCTcpOutput`, `MCBoundedBlockingQueue`, `MCThreadPool` | instances for TLC; the other modules are run as they are |

Operators whose comment begins with "Mutation" are not part of the
specifications: each is a plausible mistake in one definition, named in
`PROJECT.json`, under which a property must fail.

### EventLoop and TaskExecutor

`loopPc` is the place of the loop thread in Loop(): before it (`idle`), at the
test of `quit_` (`check`), in `epoll_wait` (`poll`), in the loop over the active
channels (`handle`), at the swap, in the loop over the functors (`run`).
`depth` counts the nested pieces of unknown code on the loop thread: the code
before Loop(), a channel callback, a functor, and functors that RunInLoop calls
inside those. Each may queue, run and quit before it returns. A foreign call has
two steps, the locked push (or the store to `quit_`) and Wakeup(). The eventfd
is readable or not; one ordinary channel stands for all others. `assert(!quit_)`
at the entry of Loop() leads to `aborted`.

`TaskExecutor` has a queue `waiting`, the sequence `started`, and two flags.
`EventLoop!Executor` instantiates it with `waiting <- functors \o
pendingFunctors_`: the swap becomes a stuttering step. What is promised includes
that functors still queued when Loop() ends are *not* run.

### TimerQueue

Timer callbacks and other code of the loop call AddTimer and CancelTimer on the
spot (`LoopAdd`, `LoopCancel`), other threads through the queue of functors
`pendingOps` (`RunAdd`, `RunCancel`), which EventLoop shows to be FIFO. HandleRead
is one step up to its loop (reading the clock, reading the timerfd, GetExpired),
two per timer (its callback starts, it is restarted or deleted) and one at the
end. `memory` records whether a Timer is allocated; it is checked against the
places the loop keeps a pointer to it in. UpdateTimerfd reads the clock twice, with up
to `MaxSlip` ticks in between. `index` and `sequence` are the expiration and the
number in the TimerIndex that AddTimer returned, by which CancelTimerInLoop
searches.

On another thread AddTimer is two steps: `ForeignAdd` queues the functor (line
93), `AddReturns` then reads timer->Sequence() (line 94). From the first step on
nothing but the loop owns the timer, so it may have been run and deleted by the
second: this is a use after free of the code, recorded in `stale`. What is read
then depends on the allocator. `NewTimer` may take the memory of a deleted timer
that an AddTimer is still to read (`adding`), which gives the reader the number of
the new one; in every other case it reads the number of no scheduled timer, be it
the old one or garbage. A timer is cancelled by its index, so not before AddTimer has
returned (`Created \ adding`).

`Destroy` deletes what is in `timers_`, as the destructor does. The functors that
are still queued then are dropped with the loop and hold plain pointers, so the
timers that they were to add are marked `leaked`.

The dereference of `timers_.begin()` of an empty set (line 105) is undefined
behaviour on paper; the value read decides nothing, because `timers_.empty()`
makes the condition true in every case, so the model has one outcome.

### TcpServer

`frames[l]` is the call stack of loop thread `l`; functors taken by the loop are
its outermost frames. `ReturnAndRunInLoop` is RunInLoop: a frame on the same
thread, a queued functor on another. Everything TcpConnection calls without
waiting is one step (HandleClose as part of HandleRead, of the close callback or
of ForceCloseInLoop). `Alive` lists the places a `shared_ptr` can be in; frames
of the channel's event handling (`ChannelOps`) hold none. `registered` is what
epoll knows; DisableAll leaves it set, and `Reported` gives EPOLLHUP whatever
`interest` says, as epoll does. After a failed assertion, or a use of a channel
that is gone, `aborted` is set and nothing happens any more.

A user keeps connections from callbacks (`userHolds`), calls StartRead,
StopRead, Shutdown and ForceClose from callbacks on the loop thread and from other threads, where the
test and the store of Shutdown are two steps, and drops its references at any
time. ForceClose on another thread stores and queues in one step: nothing
between the two can tell. Peers send, close, and reset at any time. `reading_`
is kept apart from `interest`, as in the code: ConnectionEstablished() enables
reading without setting it, so StopRead() does nothing to an open connection, and
StartRead() does something to a closed one only.

`blame` records for each connection what the assertions depend on; the
properties use it to say under which conditions they hold.

### TcpOutput

The same connection from the side of its output, on an I/O loop that is not the
base loop. A byte is a pair (number of the send, position), so loss, repetition
and order can be told. `wire` is what the socket has taken, `accepted` what
SendInLoop() did not refuse; write() takes any number of bytes it is offered,
or none when the socket is full. `frames` is the call stack of the loop thread:
the calls HandleEvent() makes for one report of epoll, and the callbacks, which
may send, shut down and force the close from inside one another: SendInLoop()
calls the write complete callback on the spot. A foreign Send() tests the state
in one step and queues SendInLoop() in another, with a pointer that keeps
nothing alive (`Shares`); `Alive` says whether it still points to a connection.
`removal` follows the connection through RemoveConnection to
ConnectionDestroyed. The bytes of an empty Send() and a high water callback
that is not set are left out.

### ServerLife

`main` is where the main thread is in the life of the server, `thread[i]` where
loop thread `i` is: created, past the hand-shake with Thread::Start, past the one
with StartLoop(), at the condition of Loop(), in the poll, swapping, running, or
gone. Quit() has two steps (the store, and Wakeup() on a loop that may have been
destroyed by then). Connections only open and close here, and a close on an I/O
loop sends RemoveConnection to the base loop, which may outlive the server.
Descriptors are counted. Acceptor::HandleRead() without a free one has three
steps, between which other threads may open one; `errnoKept` says whether the
logging in Socket::Accept() leaves errno as accept() set it.

### Connector and TcpClient

Everything a connector does happens inside callbacks of one loop thread, so its
operations are functions on a record: where connect() decides, a set of possible
results. TcpClient makes steps of them: the channel becomes writable (success,
failure, self-connect), timers expire (a batch leaves the queue first: `due`),
functors queued by another thread run, the connection is lost by an end of
stream or a reset, the user connects, disconnects, stops, destroys, from a loop
callback, from inside the connection callback (`nested ...`) or from another
thread. `did` records what the user has called. With `direct` the connector is
used alone, which is the only way to call Restart(). `fault` names how the
process went wrong.

### Buffer and HttpServer

A buffer is a record of a vector and its two indices, a byte a token: a text
without line breaks, `CR` or `LF`. HandleRead() receives any number of the bytes
waiting in the socket, up to what readv() can take, and calls onMessage() with
all it calls: the parser (`ParseRequest`, recursive as the loop in the code is),
the answer of handleRequest(), the 400 of a failed parse, Send() and Shutdown().
memcpy() of overlapping bytes in CheckAndMakePlace() is undefined by its contract:
where `Overlaps` holds, either the bytes arrive as intended or the run ends with
`fault`. The peer's Content-Length is not looked at by the code: the body
of one request is read as the beginning of the next.

### AsyncLogging and LogFile

A buffer is the sequence of its lines, a line its number. The critical sections
of Append() and of the background thread are one step each; the background
thread's loop is the test of `running_`, the wait, the swap, one step per buffer
written, and the recycling with the flush. Time passes between the steps (`now`),
LogFile reads it. A file is a record of when it was made and its lines; `flushed`
counts the lines that have left stdio's buffer. A FATAL line aborts the process
after its Append().

### ThreadPool

As BoundedBlockingQueue: a step is what a thread does between taking the lock and
giving it up. Tasks may call Run() once (`Spawns`), so a worker can wait in
`notFull_`. `running_` is read without the lock by the workers' loop. What is in
the queue when the pool stops is dropped. `BoundedFifo` is implemented with
`items <- queue_`.

### BoundedBlockingQueue and BoundedFifo

Everything a thread does while it has the lock is one step. Wait() gives the
lock up, so Put and Take are two actions each: the call, and a try after having
waited, which tests the condition again. `notFull_` and `notEmpty_` are the
blocked threads; a thread in `putting` or `taking` that is not among them was
woken and races for the lock. Wakeups without a signal may happen at any time.
`vec_` grows while the ring is filled for the first time (`count_`), which is
when `push_back` ignores `endIndex_`. `BoundedFifo` is implemented with `items`
read from the slots between the indices (`Contents`).

## 3. The runs

That every variable has its type is proved, except for HttpServer (section 4); a run
checks it where the type says more than that.

| Run | Bounds | Distinct states |
| --- | --- | --- |
| `event_loop` | 2 other threads, 3 functors | 0.3 million |
| `timer_queue` | 2 timers, interval 0 or 1, clock 0..3, 2 cancels, slip up to 2 | 1.0 million |
| `tcp_server` | 2 connections, 1 I/O thread, 1 user call; symmetric | 1.3 million |
| `tcp_connection` | 1 connection, 1 I/O thread, 3 user calls | 0.6 million |
| `tcp_output` | 1 other thread, 3 sends of 2 bytes, high water mark 3 | 0.15 million |
| `server_life` | up to 2 threads, 2 clients, 3 descriptors | 70 thousand |
| `tcp_client` | 6 user calls, 3 timers, delays 1 to 30 | 0.12 million |
| `http_server` | 3 requests of 6 kinds; 2 + 4 bytes of buffer, 4 on the stack | 0.4 million |
| `async_logging` | 8 lines, 2 per buffer, 3 buffers before a drop, 4 ticks | 0.14 million |
| `thread_pool` | 2 workers, 1 caller, 6 tasks, 2 of which submit another, queue of 2 | 0.13 million |
| `bounded_queue` | 3 producers, 3 consumers, 2 items, 3 slots; symmetric | 35 thousand |
| `tcp_shutdown` | 1 connection, 1 call | a violation |

*event_loop.* `NothingSleptThrough`: no wakeup is lost, neither of a functor nor
of a Quit(), and functors of callbacks are taken before the loop can block.
`ImplementsExecutor`. Liveness: functors of other threads run and Quit() ends the
loop without help of the poll timeout (`ForeignCallsTakeEffect`); with it, every
functor runs (`TimeoutRunsEveryFunctor`, whose premise adds the fairness of the
timeout). Two threads make the races for one wakeup possible, three functors a
queue of two behind one that runs. Deadlock is checked: other threads can always
call.

*timer_queue.* `OwnedOnce`: the loop frees no timer twice, uses none that it has
deleted, and loses none while it lives (those queued when it is destroyed are
leaked, see `Destroy`). It says nothing of the thread that called AddTimer; that is
`StaleReadsExplained`: the number of a deleted timer is read only if the timer had no
interval and has run, the loop is gone, or a cancel with a number that was itself
read too late has deleted it, and every other index is right. `CancelsItsOwn`: a
cancel deletes the timer of its index and no other, except with such a number. All
of these exceptions occur. `TimerfdArmed`, `RunsWhenDue` (never early, a timer that does not repeat once, a
cancelled one never unless its cancel came too late or met a repeating timer that
has run), `ScheduledTimersFire`. Two timers suffice for one to cancel another in
the same batch, in either order; three ticks for a repeating timer to run, be
restarted and run again. The queue may be destroyed and the clock ends, so the
run allows for deadlock.

*tcp_server, tcp_connection.* `AbortsExplained`: the assertions fail only after
a reset by the peer, after a callback closed another connection of its loop,
after a user call overwrote `kDisconnected`, or after StartRead() on a closed
connection; all four do occur (and with no I/O threads a channel is used after
its connection was destroyed inside its own event). `LifetimesSafe`: lifetime,
the assertions of the destructors, and the bookkeeping of open connections, which
are listed and read. `OneDownCallback`. `DeadConnectionsLeave`: a connection
whose peer is gone leaves the server, whatever StopRead() was asked, or the
program aborts. Two connections on one loop are what closing another one needs;
three calls on one connection cover a Shutdown that straddles a ForceClose, a
ForceClose after everything else, and a StartRead, StopRead, StartRead after the
close. A server may idle for ever, hence no deadlock check.

*tcp_output.* `StreamInOrder`: what is written and what waits is what was
accepted. `BufferWatched`: output waits only while EPOLLOUT is asked for, the
interest ends with the output if a write complete callback is set, and the high
water callback is due once per crossing of the mark. `AbortsExplained`: the
program dies only after a reset (the assertion of HandleClose(), a fatal
ECONNRESET), or because a Send() that tested the state before the close was
queued after it and ran on a freed connection; all of these occur.
`OutputDrains`: accepted output is written, Shutdown() or not, unless the
connection dies. Two bytes per send make partial writes, three sends a send
inside the callback of another while a third is queued; a mark of three bytes is
met below, exactly and above. A connection may idle, hence no deadlock check.
With data that a Shutdown() overtakes nothing is promised: SendInLoop() refuses
it.

*server_life.* `AbortsExplained` names the four ways in which a server goes wrong
between Start() and the end of its destructor (Start() twice; a peer that closes a
connection of a server without loop threads, which frees the connection inside the
event of its own channel; destruction with connections, before a thread has come to
Loop(), or between the store of `quit_` and the Wakeup() of a loop that is gone; a
descriptor lost while the acceptor had given its placeholder up); each occurs. A
close without loop threads may also go well, when the user still holds the
connection: both outcomes are in `PeerCloses`. `StartsServesAndEnds`: the hand-shakes, the joins and the accepting
of clients come to an end. Two threads let one be quit while the other is still
on its way into its loop; three descriptors are a placeholder and two
connections, or one that another thread took. A finished server is a deadlock.

*tcp_client.* `FaultsExplained` names, for each way in which client and connector
go wrong, the call that it takes; without such a call no order of timers, events
and functors does. `OneAttempt`, `KeepsTrying`. Six calls are enough for a
connection to be made and lost and the client to be stopped and destroyed from
inside a callback; three timers, for Stop() and Start() to leave more than one.

*http_server.* `BytesKept`: indices and contents of the buffer. `AnswersMatch`:
an answer is made from the version and the header of its own request, and after
one without a length the connection is shut down. `OneAnswerEach`: a client that
waits for each answer gets one per request; not so one whose request line a read
has cut, which is answered with 400 however well formed, and of requests sent
together all but the first wait for further input. The stack buffer and
the vector are small enough for bytes to be moved, for the vector to grow, and
for one read to fill both. Three requests let one remain in the buffer, a second
be cut and a third arrive behind them.

*async_logging.* `LinesAccounted`: each line taken is in the files, in the
buffers of the background thread or in the front, once and in order, or was
dropped. `TypeOK`: both spare buffers are back before they are needed.
`LogFilesRolled`: files are made a second apart or more; one that is longer than
its size holds a single batch, or was filled within its first second. A batch is
never longer than a file here, so the first of these exceptions is for the theorem,
which has no bound on either. `DayNoticed`: an append that leaves a file of an
earlier day in use counts up to the one that looks at the clock, so midnight is
not missed for more than `CheckEveryN` appends in a file that is a second old.
`LinesGetWritten`: a line reaches the file unless its buffer was dropped, Stop() came, or the process aborted. Eight lines
are four buffers, one more than are kept; four ticks pass a flush interval, a
second and a day.

*thread_pool.* `TypeOK`: the queue holds `MaxQueueSize` tasks at most, although a
thread that was woken can be overtaken before it has the lock. `NoneForgotten`,
`ImplementsFifo`, `TasksRunAndStopReturns`: tasks are taken unless all workers wait in a Run() of their own tasks, which two
workers and a queue of two places bring about; Stop() gets them out of it.

*bounded_queue.* `LiveSlotsHoldItems`, `NoneForgotten` (each item, or free slot,
has a woken thread on its way while one of its kind blocks), and
`ImplementsFifo`. Three threads of each kind let two be woken while a third
blocks and newcomers overtake them; three slots wrap around, and differ from two
in that begin and end can be apart in both directions. Deadlock is checked: with
producers and consumers in the program somebody can always go on.

*tcp_shutdown* is a disagreement of the code with its header: ShutdownInLoop()
tests for `kConnected`, which Shutdown() has replaced by `kDisconnecting`; the
write end is never shut.

### Other disagreements that the models show

They are named as exceptions inside the properties that hold, each reachable:

* A repeating timer cannot be cancelled after its first run: Restart() changes
  the expiration that its index is looked up by (`RunsWhenDue`).
* UpdateTimerfd can compute a timeout of 0, which disarms the timerfd; the timer
  then waits for another one to be added (`TimerfdArmed`, `slipped`).
* `reactor/TimerQueue.h:21` lets other threads than the loop's call AddTimer(). There
  it queues the functor and then reads its timer's number
  (`reactor/TimerQueue.cc:93-94`), when the loop may have run and deleted the timer: a
  use after free (`StaleReadsExplained`). The number would have to be read first.
* A cancel with an index whose number was read too late can delete another timer,
  one that was allocated in the same memory and expires at the same time
  (`CancelsItsOwn`).
* Timers that other threads have handed over and the loop has not added when it is
  destroyed are never deleted (`Destroy`, `OwnedOnce`).
* A server without loop threads frees a connection that its peer closes inside the
  event of that connection's channel, and HandleEvent() goes on to read the channel
  (`server_life`; in `TcpServer` for `NumThreads = 0`).
* `thread/ThreadPool.h:43` has QueueIsFull() return false while the size of the queue
  does not exceed the maximum; the code (`thread/ThreadPool.cc:66`) compares with
  `>=`, so a queue of exactly the maximum is full already. The model has the code's
  limit, and `TypeOK` of `thread_pool` shows that the queue keeps to it: the header's
  would let one task more in.
* A reset by the peer makes HandleClose() run twice and fail its assertion, as
  EPOLLHUP is reported until the channel leaves epoll (`AbortsExplained`).
* A send that is written at once, on a connection without a write complete
  callback, asks for EPOLLOUT with an empty buffer. HandleWrite() then writes
  nothing and never gives the interest up, so the loop spins (`BufferWatched`).
* StopRead() has no effect on an open connection (`LifetimesSafe`).
* `net/TcpServer.h:57` says that a second Start() has no effect: `started_` is
  never set, and the assertion of the pool fails (`server_life`).
* A Quit() whose Wakeup() comes after its loop has been destroyed writes to a
  closed, perhaps reused, descriptor (`server_life`).
* Stop() of a TcpClient, and its destruction with that of its connector, end in
  Connector::StopInLoop(), which closes the socket of an attempt before it
  unregisters the channel: epoll_ctl() fails, and the program ends (`tcp_client`).
* What is in the front buffers when AsyncLogging is stopped is never written,
  although `logger/AsyncLogging.h:66` says that lines wait to be written
  (`LinesGetWritten`, `LinesAccounted`); so is a FATAL line, since the process
  aborts after its Append().
* A request line that a read has cut is answered with 400 (`OneAnswerEach`).

Seen on the way and not modelled: a short fwrite() writes a line's beginning
again (`utils/FileUtil.cc:31`); a clock that goes back fails an assertion
(`logger/LogFile.cc:84`); `Channel::kReadEvent` is `EPOLLIN && EPOLLPRI`, which
happens to be the value of EPOLLIN (`reactor/Channel.h:72`).

### Fairness

Loop threads go on while they have something to do; callbacks and functors
return (`reactor/EventLoop.h` asks for that); a thread inside QueueInLoop or Quit
reaches Wakeup. For TimerQueue also: time passes, and the loop polls a readable
timerfd again and again. For TcpOutput: EPOLLOUT is reported again while it is
asked for (epoll is level triggered), and a peer that does not reset the
connection goes on reading, so write() does not fail for ever; both are strong
fairness, since other events and full sockets come in between. For ServerLife:
the main thread goes on with a Start() or a destructor it is in, the loop threads
with their start and their end, and epoll reports a waiting client again. For
TcpClient: timers expire and functors run; an attempt may stay under way for
ever, as the kernel may take any time over it. For AsyncLogging: the background
thread gets the lock, and its timed wait ends with or without a Notify, as
pthread_cond_timedwait() does. For ThreadPool: a thread that can go on does so, a
woken one gets the lock, and task bodies return, unless they wait in a Run() of
their own. Nobody is obliged to call anything, no peer to send,
and no queue to be destroyed. The poll timeout is not part of the fairness; one
property adds it as a premise.

## 4. The proofs

All are invariants, action properties, step simulations, or facts about
operators. They assume nothing but the named assumptions on the constants
(`TimerQueueAssumption`: the bounds are natural numbers, intervals are positive;
`QueueAssumption`: finitely many threads, at least one slot; `PoolAssumption`:
finitely many threads, a limit that is a natural number; `BufferAssumption`:
sizes are natural numbers; `TcpOutputAssumption`: lengths and the mark are
positive; `TcpServerAssumption`: numbers of threads and calls are natural
numbers; `ConnectorAssumption`: delays are positive, the maximum is not below
the first; `TcpClientAssumption`: a natural number of calls, one timer or more;
`ServerLifeAssumption`: a natural number of threads, one descriptor or more;
`LogFileAssumption`: sizes, a second and a day are positive;
`AsyncLoggingAssumption`: a buffer holds a line, the limit of a swap is not below
the two buffers that are kept, a null buffer is not an empty one) or, for
EventLoop, nothing at all. The connections of a server, the
timers, the tasks and the calls that the runs bound may be any number.

### EventLoop

* `TypeCorrect`.
* `NothingIsSleptThrough`, that is `NothingSleptThrough`, from the inductive
  invariant `WakeupInv`. That no wakeup is lost says nothing while the loop
  handles channels, and is not inductive: the eventfd may have been emptied by
  then. The invariant adds what holds there (the eventfd is emptied only while
  `handle`, from which the swap is always reached), and that a functor whose
  origin is a callback is pending only before the swap.
* `LoopImplementsExecutor`: a refinement proof. `QueueInv` says that what is left
  of `functors` is empty outside `run`, so that the swap leaves `functors \o
  pendingFunctors_` as it is, and that queued and started functors are not
  fresh. One case per action: Submit, StartNext, StartDirectly, RequestQuit,
  Stop, or a stutter.

### TimerQueue

`ReactorProofs` extends both `EventLoop` and `TimerQueue`, which is why `Init`,
`Next` and the like of the latter begin with `Timer`.

* `TimerTypeCorrect`.
* `TimerOwnedOnce`, about the loop's own pointers: the inductive invariant `OwnInv` adds to `OwnedOnce` that the
  queued adds are distinct, and that `expired` and `running` are empty where
  HandleRead is not active; without the latter a new batch could overwrite an
  old one.
* `StaleReadsAreExplained`, that is `StaleReadsExplained`, and `CancelsOnlyItsOwn`,
  that is `CancelsItsOwn`. `IndexInv`: the number at a timer that has not been
  deleted is its own, since a new timer takes the memory of deleted ones only.
  `NumberInv` adds that an index that was read in time keeps that number after its
  timer is deleted, that no cancel is queued before its index was returned, and that
  one of the three reasons holds for each deleted timer whose number is read late or
  still to be read (`Explained`). The third reason mentions another index that was
  read late, so it has to be shown to stay (`ExplainedStays`).
* `TimerfdIsArmed`: `TimerfdArmed` over `OwnInv`. `UpdateTimerfdArms` says what
  setting the timerfd achieves if the two readings of the clock do not slip
  past the expiration; an add that sets nothing leaves the first timer first.
* `CallbacksRunWhenDue`: the action property `RunsWhenDue`, from `HistoryInv`: a
  batch was due when HandleRead read the clock, which does not go back
  (`ClockForward`), and a timer whose index is stale, or that a cancel missed
  while it was scheduled, repeats and has run.

### TcpServer

* `TypeCorrect`.
* `OneEnd`, that is `OneDownCallback`, from `LifeInv`: one call at a time moves a
  connection on (`MovesOnce`: its establishment, its removal or its destruction,
  on whichever loop, on the stack or queued, is alone); a call is on the loop it
  belongs to and finds the connection in the state it is for (`CallsFit`); events
  and the user know no connection before its establishment (`EventsFit`,
  `ConnsFit`). `CallsAfter` says once for all actions where the calls of a loop
  can come from; the steps of the invariant are proved from it.
* `LifetimesCorrect`, that is `LifetimesSafe`. `ServedInv` adds that open
  connections are listed and read, that `reading_` is set by a StartRead() on
  closed connections only, and that the write end is never shut. `WorkInv` adds
  what the events and calls of one iteration rely on: they come before the
  functors of the iteration, so ConnectionDestroyed() cannot run between
  `epoll_wait` and the last of them if it is queued by another loop; each
  connection has one event; a read callback is called first. `ServerInv` adds
  that a registered channel has a connection in `connections_` or in a call on
  its way that will remove it (`RegisteredListed`), so that someone holds it.
* `AbortsCorrect`, that is `AbortsExplained`, from `ServerInv`: one step per check
  that can fail.

### TcpOutput

* `TypeCorrect`; `BytesInOrder`, that is `StreamInOrder`; `BufferIsWatched`. The
  two places that write split what they are given (`SplitAt`), and the parts are
  put behind one another in the same order (`SendKeepsOrder`,
  `WriteKeepsOrder`). ConnectionDestroyed() clears the write interest without a
  look at the buffer, so `BufferWatched` needs that the connection is closed by
  then (`ClosedInOrder`).
* `OnlyLateSendsDangle`, that is `AbortsExplained`: `SendsFirst` says that a send
  waits behind the functor that removes the connection only if it is late,
  `ClosesOnce` that HandleClose() is on the stack once unless the peer has
  reset the connection.

### ServerLife

`EndpointProofs` extends both `TcpClient` and `ServerLife`, which is why `Init`,
`Next`, `TypeOK` and the like of the latter begin with `Server`.

* `ServerTypeCorrect`, that is `ServerTypeOK`, and `ServerAbortsCorrect`, that is
  `AbortsExplained`, from the inductive invariant `ServerInv`, for any clients, any
  number of loop threads and any number of descriptors.
* `AbortsExplained` says nothing before the process has gone wrong, so the
  invariant has to tell why each assertion holds until then. `ConnsPlaced` and
  `ThreadsPlaced` say what there can be by the time the main thread is where it is:
  no connection before the first Start(), `quit_` only in the destructor, no thread
  inside its loop after it.
* `Served` is the part about connections. `Due` is what a loop has taken followed by
  its queue, so that the swap changes nothing; `Agree` says that each functor
  that is due finds its connection in the state it is for, that a loop has at most
  one for a connection, and that a closed connection the server has forgotten has
  its ConnectionDestroyed() due. All of it holds as long as the destructor has left
  no connection behind (`left`), which is why every assertion on a state that fails
  has that for its reason (`FaultsKnown`).
* `FilesCounted` is why Socket::CloseFd() fails only if another thread has come in
  between: the descriptor that HandleRead() has given up is free, or `raced`. It
  needs that no step but accept() lets more connections hold a descriptor:
  `Kept` is the set of those that the server or a functor still refers to, and the
  steps are proved never to make it larger (`ConnStep`).

### Connector and TcpClient

* `TypeCorrect`, `OneAtATime` (that is `OneAttempt`) and `FaultsCorrect` (that is
  `FaultsExplained`), from `ClientInv`. It is about `Attempts`: the retry timers
  (scheduled or in the batch that expires), a registered channel, the `start`
  functors that are queued, and the connection, each of which counts as one. Their sum
  is 1 at most unless Restart() was called (`AttemptsBounded`), and 0 before
  Connect(), which is called once (`StartsOnce`): without the queued functor the
  sum would not be inductive, and `OneAttempt` itself says nothing of it.
  `CallsRemembered` adds what the state tells about the user's calls (a client that
  is gone was destroyed, a `stop` functor comes from Stop(), Restart() was called on
  a connector without a client, which had been started), and `Typed`
  that `connecting_`, the channel and the socket agree.
* The connector's operations are operators on a record, so what each does to the
  load and to the order of its fields is a lemma of its own (`Retry`, `Faulty`,
  `Start`, `Restart`, `Stop`, ...); an action that touches the connection only, the
  attempt only, or adds nothing, is covered by `ConnectionAlone`, `AttemptAlone`
  and `NothingAdded`.

### AsyncLogging and LogFile

* `MidnightIsNoticed`, that is `DayNoticed`, by the cases of an append: over the
  size, at the check, before it.
* `TypeCorrect`, `NoLineAstray` (that is `LinesAccounted`) and `FilesAreRolled`
  (that is `LogFilesRolled`), from the inductive invariant `LogInv`, for buffers
  of any size, any number of lines and any sizes and periods of the files.
* `SparesBack` is why no thread that logs meets a null buffer. The background
  thread gives both spare buffers away only if `nextBuffer_` was used, which fills
  `buffers_`; then the swap leaves two buffers or more, even after it has dropped
  some, and Recycle finds two to take back. That needs `Placed`: which file and which
  buffers the background thread has where it is.
* `LinesAccounted` is about the sequence of all chunks: the files, what is yet to
  be written, the buffers of the front, the current one. `PartsAccount` takes it
  apart into statements about the four places, `InOrderConcat`, `LinesOfConcat`
  and `ContinueLast` say what moving or extending a chunk does to the order and
  to the set of lines. It states order and membership by quantifiers, so
  nothing has to be computed by recursion over the chunks.
* `Rolled` adds to `LogFilesRolled` that `lastRoll_` is when the file in use was made,
  which is not later than now. `DaysApart` says that a file of an earlier day was
  made before today began: so a period that has moved on without a new file lies
  after the file's making, by less than the second for which a roll is refused.

### ThreadPool

* `TypeCorrect`, over `Placement`: a thread inside Run() is not inside Take().
* `NoSignalLost`: `NoneForgotten`, by counting the woken threads, for any number of
  workers, callers and tasks, nested Run() and Stop() included.
* `TasksInOnePlace`: a task is queued, waits in a Run(), or is at work, and only
  one of these (`InOnePlace`), and is submitted by one task at most.
* `PoolImplementsFifo`: the refinement of `BoundedFifo`.

### BoundedBlockingQueue

* `TypeCorrect`, and `LiveSlotsHold` from `RingInv`,
  which adds to `LiveSlotsHoldItems` where `endIndex_` points (at the slot after
  the youngest item) and, while the ring has not been filled once, that the slot
  push_back writes, `count_`, is that same slot. The lemmas before it are the
  arithmetic of the ring for any capacity.
* `NoSignalLost`: `NoneForgotten` is inductive over `TypeOK`; the steps count
  woken threads, with the library's facts on cardinalities.
* `QueueImplementsFifo`: Put appends to `Contents`, Take removes its head (both
  from `RingInv`), everything else stutters.

### Buffer, and the lemmas

* `TcpOutputProofs`, last part: for any vector, any indices that respect the order of
  prepended, readable and writable bytes (`Buffers(S)`), and any bytes:
  `PlaceIsMade` (CheckAndMakePlace makes the room asked for, its assertions hold,
  and the bytes in the buffer stay what they were), `AppendAppends`,
  `ReadFdAppends` (what readv() has spread over the vector and the stack comes out
  in one piece and in order) and `RetrieveDropsOldest`. The first two go through
  the three cases of the code (room behind, room in front, growth); ReadFd is
  Append after a full vector. They speak of the outcome in which overlapping
  bytes are copied as intended.
* `SequenceLemmas`: Append, Head and Tail against concatenation, the range of a
  sequence built in either way, parts of a sequence put together again, and
  functions on an interval.

### Only model-checked

All liveness properties (TLAPS does not do fairness). HttpServer, with
`BytesKept`, `AnswersMatch` and `OneAnswerEach`: its parser is a RECURSIVE operator,
for which tlapm has no SMT backend, and what it computes for every input would take
an induction over the bytes; the buffer it reads from has its own proofs.

## 5. Not modelled, and why

* Formatting of log lines (Logger), InetAddress, Timestamp, the enums
  and strings of HTTP: conversions without a state. What FileUtil does with a
  short fwrite() is described above; the disk does not fail in the models.
* Socket options and the wrappers of system calls in `net/Socket.cc`, except
  accept() and close(). Failing system calls that abort the program
  (LOG_SYSFATAL), EINTR in `epoll_wait` (assertion at `reactor/Poller.cc:51`), and
  exhaustion of memory.
* Poller's table of channels and its list of events, which doubles when it is
  full: what epoll reports is a set here. UpdateChannel, RemoveChannel and Poll
  are modelled as their callers see them.
* TcpConnection::HandleError() only logs; thread ids and names only label.
* A wall clock that is set back (Timestamp::Now() is CLOCK_REALTIME).
* BlockingQueue: one lock, one condition and no limit, a part of what
  BoundedBlockingQueue and ThreadPool show.
* TcpServer leaves sending to TcpOutput, which leaves ForceClose() on other
  threads and the gap inside Shutdown() to TcpServer; start and end of a server
  are in ServerLife, which knows only that connections open and close. A user is
  assumed to do nothing but look at the state in the callback for a closed
  connection, as the comment at `net/TcpConnection.cc:118` demands.
* HTTP: the method, the path, the query and headers other than Connection, which
  the answers do not depend on.

## 6. Plan

All components are modelled but for the parts listed in section 5, and every
invariant that a run checks is proved except those of HttpServer. What is left is
that module's `BytesKept`, once the parser's loop is stated without a RECURSIVE
operator.
