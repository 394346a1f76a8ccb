# LTMuduo: a TLA+ verification project

LTMuduo is a C++ network library in the manner of muduo: one event loop per
thread, non-blocking sockets, callbacks. The modules here model its core from the
code under `src/src` and `src/include`; TLC checks them on small instances and
TLAPS proves part of them for every value of their constants. `PROJECT.json`
names, for every definition, the lines it stands for.

## 1. The system

| Component | State it keeps | Operations | Module |
|---|---|---|---|
| `EventLoop` | `looping_`, `quit_`, `callingPendingFunctors_`, `pendingFunctors_` under `mutex_`, eventfd `wakeupFd_`, `activeChannels_` | `loop`, `quit`, `runInLoop`, `queueInLoop`, `wakeup`, `handleRead`, `doPendingFunctors` | `EventLoop` |
| `EventLoopThread`, `Thread` | `loop_` under `mutex_` with `cond_`, `exiting_`, the start semaphore, joined or detached | `startLoop`, `threadFunc`, destructor | `EventLoopThread` |
| `Channel` | `events_`, `revents_`, `index_`, `tie_` | enable and disable, `remove`, `handleEvent` | `EPollPoller` (interest), `TcpConnection` (dispatch), `TcpServer` (lifetime) |
| `EPollPoller` | map `channels_`, event list, and in the kernel the epoll set | `updateChannel`, `removeChannel`, `poll` | `EPollPoller` |
| `Buffer` | vector, `readerIndex_`, `writerIndex_` | `append`, `retrieve...`, `readFd`, `writeFd` | `Buffer` |
| `TcpConnection` | `state_`, channel, output and input buffer, the user's callbacks | `send`, `shutdown`, `connectEstablished`, `connectDestroyed`, four handlers | `TcpConnection` |
| `TcpServer` | `connections_`, `nextConnId_`, `started_` | `start`, `newConnection`, `removeConnection`, destructor | `TcpServer`; what one connection sees of it in `TcpConnection` |
| `EventLoopThreadPool` | `loops_`, `next_` | `start`, `getNextLoop`, destructor | `TcpServer` |
| `Acceptor`, `Socket` | the listening socket, `listenning_`, a descriptor each | `listen`, `handleRead`, `accept`, destructors | `TcpServer` |
| `Logger` | one shared `logLevel_` | `setLogLevel`, `log` | not modelled |
| `InetAddress`, `Timestamp`, `CurrentThread` | none, or a cached tid | conversions | not modelled |

How they interact. A loop's thread blocks in `poll`, lets each active channel
call its handlers, and then runs the functors that were queued. Other threads
reach a loop only through `queueInLoop` (append under `mutex_`, then write to the
eventfd) and `quit` (store `quit_`, then write). A connection belongs to one I/O
loop; `send` and `shutdown` from elsewhere test the atomic `state_`, and queue the
rest. When a connection closes, its loop calls `TcpServer::removeConnection`, which
goes to the base loop, which sends `connectDestroyed` back to the I/O loop: two
hops between two threads, during which the connection still exists.

What is hard here: functors queued between the swap of the pending vector and the
next poll; `quit` that arrives before, in, or after `loop()`; an `EventLoop` on the
stack of a thread that may leave at any time; a connection's `state_` tested in
one thread and changed in another; sends and shutdowns on their way to a loop that
closes the connection meanwhile; writes that take part of the data; hangups,
errors and data in one dispatch; file descriptor numbers that are reused while
three places (the map, `index_`, the kernel) remember the old owner; pointers
(raw `this`, `c_str()`) in functors; and an end in which `main` destroys the
server while its I/O loops still close connections. The complete list, line by line and with the
properties that answer each, is under `hazards` in `PROJECT.json`.

What makes each part correct:

- the loop loses and reorders no functor, sleeps on neither a functor nor a quit,
  and starves neither functors nor descriptors;
- the thread hands out a loop that lives, and ends before what it uses;
- the poller, the kernel and the channels agree on who watches which fd for what;
- the buffer is a byte queue that neither leaks space nor overruns;
- the connection is a byte stream: bytes in order and once, the end behind the last
  byte, the callbacks once each, nothing stuck, nothing revived;
- the server shares connections out evenly, accepts whom it has a descriptor for,
  keeps each connection as long as anything points to it and no longer, and destroys
  it once, in its own loop, also when the server itself ends.

## 2. Plan

In order, and all done.

1. `FunctorQueue` (abstract), `EventLoop`, its proofs.
2. `EventLoopThread`, composed with `EventLoop` by EXTENDS.
3. `ByteQueue` (abstract), `Buffer`, its proofs.
4. `EPollPoller` with the channels' interest, its proofs.
5. `ByteStream` (abstract), `TcpConnection` with loop, other threads, server,
   kernel and peer; first proofs.
6. `ConnectionLife` (abstract), `TcpServer`: base loop and I/O loops, `Acceptor`,
   the round robin of `EventLoopThreadPool`, the two hops of removal, the
   destructors, and the lifetime of connections.
7. Proofs of what the runs check beyond the first proofs: the invariants of
   `EventLoopThread`, those of `TcpServer` and its refinement, then `WriteInterest`,
   `CallbacksOnce`, `FinIsLast`, `StaysOutOfPoller` and `StreamSpec` of `TcpConnection`.

How the modules compose: `EventLoopThread` EXTENDS
`EventLoop`; `TcpServer` composes loops, pool, acceptor and connections; a
`*_proofs` module EXTENDS the module it proves things of, and
`EventLoopThread_proofs` also `EventLoop_proofs`, whose theorems it carries over.

## 3. The models

Common conventions. A variable has the name of the member it stands for (with its
underscore); a variable without one is a local of the code, a program counter, the
kernel, or history. A step is what one thread does without another being able to
interfere: a critical section, one access to an atomic, one system call, or, where
only one thread has access, a whole method. Every module models the user's code
as somebody who may make any legal call at any time it runs. A definition commented
"A slip" is not part of the system: it is what the definition after it would be
with a plausible mistake, and exists to show that the property named with it in
`PROJECT.json` (`mutants`) would notice.

**`EventLoop`** has one action for every atomic access, critical section and system
call of `loop`, `queueInLoop`, `quit` and `doPendingFunctors`. `pc` is where the
loop thread is, `call[t]` says that thread `t` is between its store and the wakeup,
`stack` holds the functors running on the loop thread: a functor or a handler may
call `runInLoop`, which nests (to `MaxDepth`), `queueInLoop` and `quit`. The
eventfd is a flag, since only "not zero" is ever looked at. `FunctorQueue` is what
users are promised: what is queued runs once, in order.

**`EventLoopThread`** extends it with the owner (constructor, `startLoop`,
destructor), the thread's function, the semaphore of `Thread::start` and the
condition variable with spurious wakeups. `alive` tells whether the `EventLoop` on
the thread's stack exists. The destructor reads `loop_` twice without `mutex_`, to
test it (`Destroy`, or `Detach` when it is null: `~Thread` then detaches the thread)
and to call `quit()` on it (`DestroyQuit`). When a quit of the program's has ended
the thread in between, the second read finds null, or an old value that dangles:
`DestroyCrash`, after which nothing is promised, or a call that happens to have no
effect. So does a `quit()` or `queueInLoop` of the owner's whose loop goes under it
(`CallCompletes`). Undefined behaviour is that choice, wherever it occurs.

**`Buffer`** is a record of the class's three members; the operators have the names
of its methods, and the vector is followed byte by byte, the stale bytes outside the
readable region included. `ByteQueue` is the queue it implements through
`queue <- Content(b)`.

**`EPollPoller`** keeps the three copies of the registration (`index_`,
`channels_`, the kernel's `watched` and `mask`) apart, as the code does, and makes
`epoll_ctl` fail the way Linux does: ADD for a watched fd and MOD for one that is not
are `LOG_FATAL`, which exits; DEL is logged. Owners create a channel on a free fd,
change its interest in any order, remove it and destroy it. `Destroy` requires that
the channel is not in the active list. That is the owner's duty, and
`NoDanglingThis` of `TcpServer` shows that the library does it:
`removeConnectionInLoop` queues `connectDestroyed` rather than run it. The mutant
`DestroyAtOnce` shows what that buys.

**`TcpConnection`** is one connection in its loop, from the queued
`connectEstablished` to the end of `connectDestroyed`. `pc` moves from `poll` through
`dispatch` (the cases of `handleEventWithGuard`, in its order, over the `revents` of
the poll, however stale they are by then) to `functors` and back; a user callback is
`pc = "user"`, from which `UserSend` and `UserShutdown` may be taken any number of
times. `handleClose`, whose callbacks are user code, is cut there. Another thread's
`send` is a test of `state_` and later a queued functor; its `shutdown` a test, a
store and a queued functor. The server removes the connection when told, or stops
(`~TcpServer`). `write(2)` takes any part that fits in `room`, and everything that
cannot be excluded when the peer resets. A message is its name repeated `Size`
times, so `wire`, the sequence of all bytes written, shows order, loss and repetition.
It relies on the other modules through what they are shown to implement: the buffers
are byte queues, the functors a queue that loses nothing, and the poller reports
what `events_` asks for. A message may be empty: `write(2)` of nothing returns 0, and
nothing is buffered. `ByteStream` is the promise to the sending side.

**`TcpServer`** is a server with all its loops, from its construction to the end of
`main`. A loop is its rounds: `Poll` takes what is ready and needs something to wake
it (`Woken`), each handler is a step, `Swap` takes the pending functors, `RunFunctor`
runs one, `EndRound` drops the vector and tests `quit_`; `EnterLoop` leads to that
test, so a quit that comes before the first poll skips every round. `main` starts the server,
enters the base loop and, when somebody has quit it, destroys the server (each entry
of `connections_`, then each thread of the pool in turn, then the `Acceptor`) and the
base loop; the I/O loops go on closing connections meanwhile. With no I/O thread
the base loop is everybody's loop, and what `runInLoop` is given runs at once.
Reference counts are not counted but seen: a connection is `Alive` as long as it is
in the map, in a functor that binds its `TcpConnectionPtr` (a loop's vector keeps
its functors to the end of the round) or in a user's hands. The functors of
`writeCompleteCallback_` and `highWaterMarkCallback_` bind it, too, and are followed
as the two sets of connections that have any pending (`queued`) or in the vector
that runs (`taken`). The pointers of the
running handler (`guard`, `connPtr`) live within one step. A descriptor is held by
each connection that is alive, so `accept` may find none (`Refuse`). Users may keep
the pointer they get and send with it in two steps, test and queue.
What a connection carries and how a close is noticed is in `TcpConnection`; here it
is up, has data, or its client has left. `ConnectionLife` is what the server promises
of a connection: up, down, and only then freed, unless the server ends.

## 4. The runs

| Run | Instance | Result |
|---|---|---|
| `loop` | two other threads, two functors, nesting 2, queue of 3; no poll timeout | types, `NoStrandedFunctor`, `NoStrandedQuit`, the refinement of `FunctorQueue`, `QueuedFunctorRuns`, `QuitEndsLoop` and `IoNotStarved` hold |
| `thread` | owner, thread and its loop; the program may quit the loop too | `StartedLoopIsAlive` (also between the destructor's two reads of `loop_`) and `ThreadEndsFirst` as long as it does not, `StartLoopReturns` with spurious wakeups and either order of the lock, and `DestructorDoesNotHang` for a loop that was looping when the destructor saw it, whoever quits it |
| `thread_lostquit` | does the destructor's `quit()` always end the thread it joins? | no: finding 1 |
| `thread_deadloop` | does `quit` run on a loop that exists? | no: finding 2 |
| `buffer` | vector of up to 7 bytes, prepend 1, two byte values | types and index order, `EmptyIsReset`, `GrowsOnlyWhenFull`, the refinement of `ByteQueue` hold |
| `poller` | three channels, two on one fd number in turn; an event list of one | `MapFollowsIndex`, `KernelFollowsChannels`, `NeverFatal` and `ReportableIsReported` hold |
| `conn_sends` | two other threads send, also nothing, only the loop shuts down; the server may stop | `CallbacksOnce`, `FinIsLast`, `StaysOutOfPoller` and the refinement of `ByteStream` hold |
| `conn_live` | another thread sends and shuts down; the server may stop; a peer that reads until it resets | `StreamInOrder`, `WriteInterest`, `HighWaterOnce`, `AllDelivered`, `ShutdownEnds`, `PeerGoneIsNoticed` hold |
| `conn_latesend` | another thread sends | `NoWriteAfterFin` is violated: finding 3 |
| `conn_reregister` | two other threads send and shut down | `StaysOutOfPoller` is violated: finding 4 |
| `conn_strings` | senders that do not keep their strings | `StreamInOrder` is violated: finding 5 |
| `server` | no, one or two I/O threads, one or two descriptors, two clients; `main` may end it at any time | `NoDanglingThis`, `DestroyedOnce`, `Balanced`, the refinement of `ConnectionLife`, `GoneIsFreed`, `HeadIsAccepted` and `EndFreesAll` hold |

The properties of `TcpConnection` differ in what the callers must respect, and the
runs show that the line is where it is drawn: those of `conn_live` hold whoever
calls; those of `conn_sends` hold when only the loop's thread shuts the connection
down, and `conn_reregister` shows what another thread's `shutdown()` does to one of
them (`FinIsLast` breaks too: a shutdown that reaches the loop after
`handleClose` finds no interest in writing and takes unsent output for sent).

`CHECK_DEADLOCK FALSE` is set where the system really may stop: a connection that
is destroyed, an `EventLoopThread` that is gone and a `main` that is over have
nothing left to do. Every other run checks deadlock.

Bounds, and why they are enough.

- `loop`: every hazard is a race between one store, one wakeup and one stretch of
  the loop; two callers and two functors give each race and a competitor for it.
  The queue of 3 holds a batch, a functor queued during it and one by another thread.
- `thread_*`: there is one owner and one thread in the code. One functor is enough,
  because what functors do to the loop is checked in `loop`.
- `buffer`: initial size 3, pieces up to 4, `extrabuf` 2 and at most 7 bytes cover
  each branch of `makeSpace`, `readFd` and `retrieve` on, below and above its limit,
  and growing twice. `MaxSize` only bounds the exploration.
- `poller`: two channels on one fd number are what reuse needs, the third is the
  bystander. The event list starts at 1 (16 in the code) so that it fills.
- `conn_*`: a message of 1 and one of 3 bytes, a socket that takes 1 and a mark at 2:
  a message goes out whole, in part, or not at all, and the mark is crossed by one
  message or by two. Each message is sent once, which bounds the run; two threads
  are enough for one to hold a stale `state_` while the other's call is queued.
  `conn_live` has one beside the loop, for the size of its liveness check: the loop
  sends and shuts down as well, so two calls still cross. `conn_sends` adds the
  empty message.
- `server`: what is at stake is one connection between two loops and a second one
  that competes with it for the round robin, the functors of a batch and the one
  descriptor. Two I/O threads make the shares differ and the wrap visible; one and
  none are the other two shapes of the pool. Each client connects once; one of them
  sends, and one's pointer is kept by a user with one send on its way, for the size
  of the liveness check. A client that leaves before it is accepted, a server that
  ends with any functor in any queue, and a free descriptor that comes late all
  happen within these bounds.

Fairness. A thread that is inside a call of the library, or in the loop, goes on
(weak fairness of its next step: the operating system schedules it, and no step of
the code waits for anything but what its guard says), and callbacks return (strong
fairness in `EventLoop`, where a callback may make calls before it returns; a callback
that never returns blocks muduo by design). Nobody is bound to call anything, the
10 s poll timeout is never relied on, so liveness shows that the wakeups are
sufficient. In `conn_live` a peer that has not reset the connection reads on, which
is what "delivered" needs; it need not send or close. In `server` the threads
run: each I/O loop, `main` (in the base loop and in the destructors), and a user in
`send()`. Nobody has to connect, send, leave, quit the loop or release a pointer. `GoneIsFreed`
and `HeadIsAccepted` are of the form "again and again", which with connections that
never come back and a backlog that keeps its order is as good as "each of them in
the end", and is one search for TLC instead of one for each client. The
kernel of `poller` is not fair at all: it may prefer any ready fd for ever.

## 5. Findings

1. `quit()` before `loop()` is erased by `quit_ = false` (`EventLoop.cc:68`), and the
   destructor of `EventLoopThread` then joins for ever.
2. `quit()` uses the `EventLoop` after the store that lets its thread destroy it
   (`EventLoop.cc:96`).
3. A send queued before the loop shut down is written after `SHUT_WR`
   (`TcpConnection.cc:92` tests for `kDisconnected` where the comment speaks of
   shutdown).
4. `shutdown()` in another thread may overwrite `kDisconnected`
   (`TcpConnection.cc:149`); a late send then puts the closed channel back into epoll.
5. `send` from another thread queues a pointer into the caller's string
   (`TcpConnection.cc:77`).

The properties of `thread` have an exception that is the code's as well. A program
that quits the loop itself and then destroys the `EventLoopThread` may meet a null
`loop_` (the thread is detached, over members that are destroyed), or one that
`threadFunc` clears between the test at `EventLoopThread.cc:19` and the call at
line 21, which is then made through null or on a loop that is gone. `ThreadEndsFirst`
and `StartedLoopIsAlive` hold for programs that leave the quit to the destructor,
and `DestructorDoesNotHang` promises everybody that the destructor of a looping
thread does not wait for ever, but not that it survives. Nothing in the repository
promises more, or says who may quit such a loop.

`NoStrandedFunctor` has an exception that is the code's: what the loop's own thread
queues outside `loop()` wakes nobody (`EventLoop.cc:128`), and waits for the first
event or the 10 s timeout.

Three things met on the way are no disagreement between program and documentation,
or are outside every model:

- `createNonblocking` (`Acceptor.cc:10`) has lost the condition before its
  `LOG_FATAL` and has no `return`: taken literally, no `Acceptor` can be constructed.
  `TcpServer` starts from a constructed server, which is what the message ("create
  error"), the example and everything else presuppose.
- `getAllLoops` (`EventLoopThreadPool.cc:60`) and `set_revents` (`Channel.h:44`) lack
  a `return`, too; nobody uses what they return.
- `send()` from another thread binds a raw `this` (`TcpConnection.cc:74`). A user who
  drops the last `TcpConnectionPtr` before that functor has run leaves it dangling;
  `NoDanglingThis` holds for users who do not (`MayRelease`), and only for them.

## 6. What is proved

`*_proofs.tla` hold the proofs. None assumes anything but the named ASSUMEs of the
module it extends (types of the constants, positive sizes, a pool without the base
loop or the same thread twice), and none bounds them. Every invariant, action
property and refinement that a passing run checks is a theorem; what a run alone
shows is liveness. Each inductive invariant below was checked by TLC on the instance
of its run before it was proved.

**`EventLoop_proofs`**: `TypeCorrect`, `NoFunctorIsStranded`, `NoQuitIsStranded`,
`ImplementsFunctorQueue`. `TypeOK` is inductive because it says at which points of
the loop each flag and local may be set. `NoStrandedFunctor` is not: what makes it so
is that at every point of the loop from the swap's end to the poll, a pending functor
has a readable eventfd, a wakeup under way, or an owner who queued it outside
`loop()`; the same for `quit_`. The refinement follows step by step with
`queue <- functors \o pendingFunctors_`; the swap is a stutter.

**`EventLoopThread_proofs`**: `ThreadDrivesLoop`, `ThreadTypeCorrect`,
`StartLoopGivesLiveLoop`, `ThreadEndsBeforeObject`, `ThreadStrandsNothing`. First,
every step of owner, thread and program is a step of the `EventLoop` inside, or
leaves it alone: `ThreadSpec => Spec`. So its types and what is proved of
its functors and quits hold here too (`ThreadStrandsNothing`). The two safety
properties need each other and three more facts: the semaphore is posted once, for
the owner that waits for it (`Handshake`); a loop sees `quit_`, or is over, only
after somebody called `quit()`, and the thread is past the loop only then
(`EndsOnQuit`), which is why both of the destructor's reads of `loop_` find it; and
the types of each thread's program counter.

**`Buffer_proofs`**: `TypeCorrect`, `IndicesDoNotCreep`, `ImplementsByteQueue`,
`GrowsOnlyForContent`. Each operator has a lemma that says what it does to the
content of any well-formed buffer: `Resize`, `MoveDown` and `EnsureWritableBytes`
leave it, `Written` and `Appended` add the data behind it, `Retrieved` cuts its
front. The invariant is `TypeOK /\ EmptyIsReset`, and the refinement is those lemmas,
once per operation.

**`EPollPoller_proofs`**: `TypeCorrect`, `MapIsRight`, `KernelIsRight`,
`ControlNeverFails`. The conjunction of the four is inductive and none of them is
alone: that ADD does not fail needs the kernel to follow the channels, which needs
one live channel per fd.

**`TcpConnection_proofs`**: `TypeCorrect`, `WarnsOnce`, `KeepsOrder`. The bytes
change in `SendInLoop` and in `DispatchWrite` only; `accepted = wire \o
outputBuffer_` survives the first because a direct write happens only with an
empty buffer, and the second because what is retrieved is what was written.
`KeepsOrder` assumes `StringsKept`, the duty of the caller that finding 5 is about;
with it, `Memory` is the message itself.

**`TcpConnectionLife_proofs`**: `WritesWhileNeeded`, `CallsBackOnce`,
`EndsBehindLastByte`, `ClosedStaysOut`, `ImplementsByteStream`. All rest on
`BeginInv`: until `connectEstablished` has run it is the loop's first functor, only
a server that stops may have queued anything behind it, and there are no interest,
output or calls; afterwards nobody queues it again, so it runs once. With that
`WriteInterest` is inductive, for any callers. The others have the hypothesis
`LoopShutsDown`, that no thread but the loop's calls `shutdown()`: finding 4 is
what happens without it. Under it `CloseInv` holds: `state_` does not
leave `kDisconnected`; a closed channel has no interest, and what the poller
reported before holds nothing that would close it again (a hangup and a read are
never reported together, and each is used up by the close it leads to); the server
lets go only of a connection that is down, or of one it stops under. `FinIsLast` then
follows from `WriteInterest`: between the callbacks "no interest in writing", which
is what `shutdownInLoop` asks for, says that the buffer is empty. In the refinement
of `ByteStream`, `connectEstablished` is `Up`, a send or a write that does something
and a `shutdown()` are `Move`, the close is `Down`, and all else stutters.

**`TcpServer_proofs`**: `ServerInvariant`, `NothingDangles`, `EachIsDestroyedOnce`.
Whether a pointer dangles depends on what is still queued where, so the invariant
follows, for each connection `c`, its four functors through `ToRun(l)`, what loop
`l` has still to run: `connectEstablished` once and before all else, in an I/O loop
only; `removeConnectionInLoop` once, in the base loop, for a connection that is down
and, while the server is there, in the map; `connectDestroyed` in the loop of `c`,
once, exactly when `c` has left the map and it has not run; `sendInLoop` before
`connectDestroyed`, unless `c` is down by then (`ConnInv`). Around it stand the phases
of server and base loop (`BaseInv`), the pool and how far the destructor has joined
it (`PoolInv`), a loop's round (`RoundInv`) and the backlog (`BacklogInv`). `NothingDangles`
reads off it that whoever is in an active list, the poller or a functor still to run
is held by the map, by a functor that owns it, or by its user.

**`TcpServerLife_proofs`**: `ServerTypeCorrect`, `ConnectionsLive`, `LoopsAreBalanced`.
Each step changes the life of at most one connection, and makes one only when a
descriptor is free: that bounds their number, and maps the step to one of
`ConnectionLife` or a stutter. For the round robin, `RobinInv` says that the loops
before `next_` have one connection more than the last one has, and the others
as many; `Balanced` alone is not inductive, since it does not know whose turn it is.

Only model-checked: liveness (`QueuedFunctorRuns`, `QuitEndsLoop`, `IoNotStarved`,
`StartLoopReturns`, `DestructorDoesNotHang`, `ReportableIsReported`, `AllDelivered`,
`ShutdownEnds`, `PeerGoneIsNoticed`, `GoneIsFreed`, `HeadIsAccepted`, `EndFreesAll`),
which rests on fairness and ENABLED and is beyond the prover; and the
violations behind the findings, which are counterexamples. No property needs
induction over data.

## 7. What is not modelled

- In `TcpConnection` the object outlives all calls and the I/O loop has a thread of
  its own; `TcpServer` has the lifetime and the server without I/O threads, and in
  turn no `shutdown()` from another thread (finding 4) and no bytes. The two are not
  composed: together they would be beyond TLC. So `TcpServer` does not know when
  output drains: the functor that `handleWrite` queues for `writeCompleteCallback_`
  (`TcpConnection.cc:224`) is one that the send before it queues, a send in the
  connection callback is one in the first message callback, and what the user does
  in these callbacks is left to `TcpConnection`.
- A server whose I/O thread is told to quit before it is in `loop()`: its destructor
  joins for ever (finding 1), which is why `EndFreesAll` asks for the thread to be
  there. A base loop that still runs while `~TcpServer` does: `main` of the example
  destroys the server when the loop has returned, and the raw `this` of the server in
  the base loop's queue is safe only then. A base loop that is run again after `quit()`. A user thread that is still
  in a call on a connection when `~TcpServer` begins: the library offers nothing to
  wait for it, and the model has it finish first.
- Descriptors are what connections use; a failure of `accept` other than `EMFILE` is
  treated the same by the code. An `Acceptor` without a callback: the only user of
  the class sets one in its constructor. Socket options, `bind`, `listen` failing
  (each `LOG_FATAL`), the backlog's limit.
- `SIGPIPE` (the library does not ignore it; the model takes the
  user to do so, and a write after the stream's end to return `EPIPE`).
- `inputBuffer_` in `TcpConnection`: whether there is something to read is one flag;
  `readFd` itself is in `Buffer`.
- Event handlers of the user that close over more state; callbacks set after the
  connection is up; several messages in flight beyond two.
- `EINTR` and unexpected errors of system calls, which the code logs and goes on from.
- Names, addresses, time stamps, formatting and logging. `Logger`'s one `logLevel_`,
  which every thread sets before it logs, can only give a line of the log the wrong
  label. That connection names differ is taken from `nextConnId_`, an `int` that
  overflows after 2^31 connections.
- `CMakeLists.txt` and `autobuild.sh`. The echo server of `src/example/testserver.cc`
  is one of the users that `TcpConnection` enumerates (it sends and shuts down in the
  message callback), and its `main` is the one of `TcpServer`.
