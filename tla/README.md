# A verification of high_concurrency_server

TLA+ models, TLC runs and TLAPS proofs for the C++ server in `src/`: a
one-loop-per-thread TCP server (`source/server.hpp`) with an HTTP server and an
echo server on top (`source/http/http.hpp`, `source/echo/echo.hpp`).

## 1. The system

| Component | State | Operations | Works with |
|---|---|---|---|
| `Buffer` | `_buffer`, `_read_idx`, `_write_idx` | Write, Read, MoveReadOffset, GetLine, EnsureWriteSpace | one per direction in every Connection |
| `Socket` | `_sockfd` | Create, Bind, Listen, Accept, Recv, Send, Close | Acceptor, Connection; tests `errno` |
| `Channel` | `_events`, `_revents`, callbacks | Enable/DisableRead/Write, HandleEvent | one per descriptor; updates the loop's Poller |
| `Poller` | `_epfd`, `_channels` (fd -> Channel*) | UpdateFromEpoll, RemoveFromEpoll, Poll | EventLoop |
| `TimerTask`, `TimerWheel` | `_tick`, `_timerwheel`, `_timer_tasks`, `_timerfd` | TimerAdd, TimerRefresh, TimerCancel, Ontime, TickOnce | EventLoop; its callbacks are `Connection::Release` and `RunAfter` functions |
| `EventLoop` | `_tasks`, `_mutex`, `_event_fd`, Poller, TimerWheel | Start, RunInLoop, QueueInLoop, RunAllTask | every thread that hands it a closure |
| `LoopThread`, `LoopThreadPool` | `_loop`, `_mutex`, `_cond`; `_loop_index` | GetLoop, ThreadIntry, GetLoopBalanced | TcpServer |
| `Connection` | `_status`, buffers, Channel, Socket, timer id, context | Establish, Send, Shutdown, Release, EnableInactiveRelease, the four handlers | its loop; the base loop at birth and death |
| `Acceptor` | listening Socket and Channel | Listen, HandleRead | base loop, TcpServer |
| `TcpServer` | `_conn_id`, `_conns` | NewConnection, RemoveConnection, RunAfter | base loop, pool, connections |
| `HttpContext` | parser state, HttpRequest | RecvHttpRequest, Reset | `Connection::_context` |
| `HttpServer` | route tables | OnMessage, Route, WriteResponse | message callback of every connection |
| `Util` | none | Split, UrlEncode, UrlDecode, ... | HttpContext, HttpServer |

How they interact. The *base* thread runs `_base_loop`: it accepts, constructs
the Connection, and hands it to a loop of the pool with two closures,
`EnableInactiveReleaseInLoop` and `EstablishInLoop`. From then on only that
loop's thread touches the connection: epoll events call the handlers, the
handlers call the user's message callback, which calls `Send` and `Shutdown`.
The end is always a queued `ReleaseInLoop`: it leaves the poller, closes the
socket, cancels the timer, and asks the base loop to erase the `shared_ptr` in
`_conns`, which destroys the object. Closures and callbacks bind a raw `this`;
only `_conns`, `NewConnection`'s local variable and the closure of
`RemoveConnection` own the object.

What is hard: closures and eventfd writes interleave with a loop about to block;
a loop's timers tick late; one call of `HandleEvent` runs several handlers; a
connection ends through end of file, error, hang-up, `Shutdown`, a failed send or
its idle timer, possibly through two of them at once, while its birth may still
be in progress on another thread. What makes each part correct:

* EventLoop: no closure is lost, repeated or reordered, and none waits in a
  sleeping loop, but for one whose write of the eventfd was interrupted.
* TimerWheel: a callback runs exactly when its delay has passed since the last
  refresh, never for a cancelled timer, and a timer that is left alone goes away.
* Connection and TcpServer: no callback reaches a destroyed object, a connection
  is released once, output is flushed before it, an ending stream leads to the
  release, a released connection is destroyed.
* Buffer: the bytes that come out are those that went in, in order.
* Poller: a reported descriptor belongs to a registered channel.
* LoopThread: `GetLoop` returns the loop of a running thread.
* HTTP: the parser finds the same requests however the bytes are cut.

## 2. The modules

| Module | Models |
|---|---|
| `TaskQueue` | abstract: what `QueueInLoop` promises |
| `EventLoop` | the task pool, the eventfd and `Start`'s cycle |
| `LoopThreadStart` | a LoopThread's start-up, composed with the EventLoop it creates |
| `EventLoop_proofs` | theorems about both |
| `IdleTimer` | abstract: what the wheel promises |
| `TimerWheel` | the wheel, its weak and shared pointers, the timerfd |
| `TimerWheel_proofs` | theorems about it |
| `TcpServer` | Acceptor, TcpServer, Connection, Channel and their loops |
| `TcpServer_proofs` | theorems about it: types, output, the life of a connection |
| `TcpServerClose_proofs` | theorems about it: a closing connection goes on and is closed once |
| `ByteQueue` | abstract: what a `Buffer` promises |
| `Buffer` | the vector, its two offsets, compaction and growth |
| `Buffer_proofs` | theorems about it |
| `HttpStream` | the requests in a stream of bytes, found with the whole of it at hand |
| `HttpServer` | `HttpContext`'s parser and `OnMessage` on one connection |
| `HttpServer_proofs` | theorems about it, `HttpStream` included |
| `Util` | `Split`, `UrlEncode`, `UrlDecode`, `ValidPath`, `Mime` on texts of bytes |
| `HttpRoute` | registration, the query, routing, static files, the handlers of `main.cc`, `WriteResponse` |
| `HttpRoute_proofs` | theorems about it and about `Util` |
| `Positions` | lemmas about positions in a sequence and recursion over them, for the proofs about HTTP |
| `MCEventLoop`, `MCTimerWheel`, `MCTcpServer`, `MCBuffer`, `MCHttpServer`, `MCHttpRoute` | what the configurations instantiate |
| `MCTcpServerModes` | TcpServer with a pool and with a single reactor, as the instance chooses |

**EventLoop.** `tasks` is `_tasks`; `batch` the vector `RunAllTask` swapped out,
less what it has executed; `eventfd` the kernel's counter; `caller[x]` holds the
closure that thread `x` has pushed in `QueueInLoop` and not announced yet with
`WriteEventFd`, if it is between the two. The critical sections under `_mutex` are single actions (`QueueInLoop`,
`SwapTasks`), the write of the eventfd is another. The loop's own thread is a
caller as well, from a socket's handler or from a running task (`StartTask` to
`EndTask`), and takes no other step while it is inside `QueueInLoop`. Everything
else the poller watches, the timerfd included, is one source, `socketReady`, that
need not be ready. Every call may be interrupted. `PollInterrupted` is `epoll_wait`
failing with `EINTR`: `Start` then runs `RunAllTask` without any event. A read of the
eventfd that fails with `EINTR` or `EAGAIN` leaves the counter as it is
(`server.hpp:697`), which costs one more turn of the loop. A write that fails with
`EINTR` returns without having written and is not repeated (`server.hpp:709-712`):
`missed` holds the closures whose own write was lost so while they were in the pool.
Nothing wakes the loop for them until another closure is announced, a socket is
ready, or the timerfd expires (`TimerExpires`). Linux does not interrupt a write to a
non-blocking eventfd, so this costs up to a second only where a kernel does; the path
is in the code, hence in the model. `EAGAIN`, on which the code aborts, takes
2^64 - 2 unread writes and is left out.

**LoopThreadStart.** It EXTENDS EventLoop. `base` is where the base thread is in
`LoopThread()` and `GetLoop()`, `entry` where the new thread is in `ThreadIntry`;
`mutex` says who holds `_mutex`, or that it is still raw memory, since `_thread` is
declared before it and starts the thread when it is initialized
(`server.hpp:744-748`). What raw memory holds is a choice (`heap`): zeros behave as
a free mutex, anything else as one that is held. Constructing the mutex writes
zeros, whoever holds it. `GetLoopTest` and `GetLoopWait` are the predicate and the
atomic release-and-block of `_cond.wait`; `SpuriousWakeup` is always possible. The
EventLoop's actions are those of its module behind what the start-up allows: nobody
has a pointer to the loop before `GetLoop` returned it, and its thread polls once
`Start` is called.

**TimerWheel.** `wheel[s]` is the set of tasks slot `s` holds pointers to: several
pointers to one task in the same slot are destroyed together, so a set says what
the vector does. `timer_tasks` is the key set of the weak-pointer map. `TickOnce`
moves the hand, clears the slot and runs the destructors of the tasks whose last
pointer it held (`LastPointer`): callback unless cancelled, then erasure.
`expired` is the timerfd's counter, `times` what is left of `Ontime`'s loop.
`delay` and `canceled` are fields of the tasks. `due` counts the expirations of the
timerfd, one a second, that a task has still to wait for: at an add or a refresh the
delay, less the expirations that were counted by then and not yet ticked for
(`Missing`). `TickOnceAndAdd` is a callback
that adds a timer (`EchoServer::Func` re-arms itself with `RunAfter`); it excludes
delays that are multiples of the wheel's size, for which the code pushes into the
vector that `clear()` is destroying, which is undefined.

**TcpServer.** `conn[c]` is a Connection with its Channel, its Socket and the
kernel's and peer's view of that socket. `pc`, `queue`, `batch` are a loop as in
EventLoop; a task is `[op, c]`. The base loop is loop 0; with `ThreadNum = 0` it is
the only one. Handlers are set-valued operators over a record of the connection,
`errno`, the releases queued and whether SIGPIPE came: each yields one record
per thing the user's callback or the kernel may do, and `HandleConn` is one whole
`Channel::HandleEvent`. The user's callback (`MessageCallback`) consumes any part
of the input, sends at most one answer per message it consumed, and having
answered may call `Shutdown()`. `NewConnection` is four steps, since other loops
run while the base thread is inside it: `Accept`, `NewConnectionEnable`,
`NewConnectionEstablish`, `NewConnectionInsert`. `Alive(c)` says whether any
`shared_ptr` owns the object: `_conns`, `NewConnection`'s local, a queued
`RemoveConnection`, or one that has run but whose closure the base loop's vector
still holds (`held`). `proc` records how the process ended: an assertion, SIGPIPE,
or a use of a destroyed object, after which C++ says nothing and the model stops.

Abstractions there: a buffer is a number of messages; the wake-up of a loop is
EventLoop's matter, so `Poll` may return at any time (the timerfd expires every
second anyway); a timer is armed or not and may fire whenever the timerfd is read,
which is what IdleTimer allows once the seconds are forgotten; the end of the
process ends the model; the peer stops once the server has closed the socket.

**Buffer.** `buffer` is `_buffer` as a function on `0 .. size - 1`, `read_idx` and
`write_idx` its offsets. `EnsureWriteSpace` yields one of three states: `Unmoved`,
`Moved` (the readable bytes are copied to the front and those behind them stay),
`Grown`. Bytes that were consumed stay in the vector, as in the code, so a search
or a copy that goes too far finds them. `last` records what a call moved, which is
what a ByteQueue shows its user, and `peak` the most that was ever readable. The
assertions of `MoveReadOffset` and `Read` are guards: callers ask for no more than
there is. Offsets are natural numbers; nothing the server does takes a `uint64_t`
to its end.

**HttpServer.** A stream is a sequence of texts, each a piece of a line or its end
(`eol`); `MaxLine` counts them, and a body takes `BodyLength` of them, `eol` like
any other. `HandleRead(n)` reads the next `n` texts, so every cut of the stream is
a behaviour. `pc` says where `OnMessage` is and `caller` which handler called it:
from `HandleRead`, or nested in `ShutdownInLoop`, which hands it what is left in the
input when the answer closed the connection or the stream ended. Each line parsed,
each part of a body and each answer is a step; the loop's thread does nothing else
while `pc # "idle"`. `HttpStream` defines by itself what the requests of a stream
are: `Complete`, `Faulty` and `FaultStatus` look at positions of the whole stream and
know nothing of parser states. `served`, `failed`, `kept` and `burst` are histories.
The end of the stream is reported until the release, since epoll is
level-triggered. A connection's queued `ReleaseInLoop` is one step with its cause;
hang-ups, failed sends and the idle timer are TcpServer's matter. Left out: which
handler a route finds and what it answers, parts of a request that the parser
stores but does not act on, the copy of the input into a local array for a log line
(`http.hpp:734`), and `stoul` throwing on a Content-Length that is no number.

**Util and HttpRoute.** A text is a sequence of bytes, and the functions of `Util`
walk over it with an index like the loops of the code: `Split` passes `substr` a
position where a length is asked for, `Escape` prints a signed `char`, `HexToI`
gives -1 for what is no digit. In HttpRoute the routes are registered in any order,
with or without a base directory, before `Listen`; then a connection sends requests
one by one. The actions follow `ParseHttpLine` from the query on (one parameter a
step), `Route` (which does not return after `FileHandler`), `Dispatcher` with the
first route that matches, the handler, and `WriteResponse`. A pattern is the set of
the paths it matches, which is all that `std::regex_match` says of it; `Hello` stands
for `Hello`, `Login` and `DelFile`, whose bodies are the same. `files` are the regular
files below the base directory, which `PutFile` overwrites. A body is a sequence of
a few tokens, a file's extension stands for the type that the MIME table gives it, and
`wire` is what was given to `Send`, heads and the bytes of bodies, so that
`ReadFrom` can go through it as a client does. The parser is HttpServer's: here requests
arrive whole. Redirection is left out, because nothing sets its flag; so is a request
whose path is empty after decoding, for which `_path.back()` is undefined
(`http.hpp:872`).

**Mutants.** Some definitions are preceded by variants of themselves named as
mutants in the comment: plausible slips, not part of the model. For every checked
property one of them, put in place of its original, makes TLC report that
property violated; `PROJECT.json` pairs them.

## 3. The runs

| Run | Instance | Shows |
|---|---|---|
| `event_loop` | a LoopThread, 2 foreign threads, the loop's thread, 3 closures | types of the start-up and of the loop; `GotLoopIsConstructed` and `GetLoopReturns`; `NoLostWakeup`: only the closure whose own write was interrupted waits unannounced; `Accounting`; every pushed closure runs (`TaskRuns`), that one once the timerfd has expired; the started loop implements TaskQueue, liveness included |
| `timer_wheel` | 2 timers, 3 slots, delays 1..3, up to 3 unread expirations | types; `LockNeverNull`; the wheel implements IdleTimer; `FiresAfterDelay`; `Expires` |
| `server` | 2 connections; a pool of 2 loops, or a single reactor with one message more in flight; no faults | `ClosedOnce` and the liveness properties, where closures are queued and where every `RunInLoop` is a call |
| `server_faults` | 1 connection, 1 pool loop, idle timer, RST, EINTR/EAGAIN | what holds whatever happens: `CallbacksReachLive`, `ClosingProgresses`, `NoStrandedOutput`, `StatusForward` |
| `buffer` | strings of up to 3 bytes over 2, a vector that starts with 2, up to 4 readable | types; `GrowthBounded`; the buffer implements ByteQueue |
| `http` | up to 3 items from a list of right and wrong requests, in every cut; lines of 4 texts, bodies of 2 | types; `ServedInOrder`, `ErrorIsReal`, `NothingWaits`: the parser finds what HttpStream says; `ClosesAsAnnounced`; `Descends` and `Returns`: OnMessage and Shutdown do not call each other for ever |
| `http_route` | any registration of up to 1 route, with or without base directory; 2 requests; queries of up to 3 parameters | types; `QueryUnderstood`: of a query encoded by `UrlEncode` the names arrive, the values at least to their ends, the first and the last exactly; `ResponsesFramed`: a client that goes by Content-Length finds the responses, up to the first whose end it cannot tell |
| `server_reset` | RST | violates `OneReleasePerEvent` |
| `server_sigpipe` | RST | violates `SendFailureHandled` |
| `server_errno` | EINTR | violates `PeerCloseReleases` |
| `server_assert` | idle timer | violates `EstablishAssertion` |
| `http_static` | as `http_route` | violates `StaticResourceFound` |

The bounds. Three closures are the fewest with one in the batch, one in the pool
and one being pushed. Three slots are the fewest in which a refreshed task can
have pointers behind, under and ahead of the hand; `Delays` includes a full turn,
the largest delay that works, and three unread expirations let one `Ontime`
turn the whole wheel. One connection per pool loop and one more loop make
every hand-over between threads happen; two connections on one loop make one
connection's release and another's birth overlap. `MaxData` bounds the messages of
one connection in receive queue and buffers; 2 is enough for a send to take part
of the output. In `server` it is 1 with the pool and 2 on the single reactor. `closes` is counted up to 2. The runs with faults check no
liveness and no deadlock: the process may end.

Strings of three bytes may or may not fit into a vector of two, and with four
readable bytes the free space lies in front, behind, on both sides or nowhere;
lines that have ended and lines that have not occur at every offset.
`GrowthBounded` is a ratio (once grown, the vector is below twice what was ever
readable), so `MaxReadable` hides no slow growth. The items of `MCHttpServer` hold
every kind of line and of fault, a line of exactly `MaxLine` and one beyond, a body
that looks like lines, two headers of one name, and text that never ends; three of
them put a request between two others on one connection. `http` does not check
deadlock: a released connection does nothing more. In `http_route` names and values
are made of the very bytes that separate and escape (`=`, `&`, space, `+`, `%`), and
three parameters are the fewest with one that is neither first nor last. One route
is enough for a path to have a route, a file, both or neither, and a `PUT` in the
first request changes the file that the second asks for. The server of `http_route`
stops after its requests, so deadlock is not checked there either.

Fairness. `Start` is an endless loop and each of its steps other than `epoll_wait`
returns, so the steps of a loop are weakly fair; in TcpServer `Poll` is too,
because the timerfd of each loop expires every second. A thread inside
`QueueInLoop` goes on (`WF(WriteEventFd)`), interrupted or not. In EventLoop the
timerfd is relied on only while some closure's write was lost
(`WF(TimerExpires)`, enabled when `missed` is not empty): `TaskRuns` owes nothing to
it for any other closure. The clock does not stop (`WF(Expire)`). A peer that is alive reads (`WF(ClientReads)`): without it a
connection with unsent output stays, as the code intends. Nothing is assumed of
clients connecting, sending or closing, nor of faults. In HttpServer
`WF(OnMessage)` says that each step of a handler returns. In LoopThreadStart both
threads run (`WF(BaseStep)`, `WF(EntryStep)`); `SF(EntryLock)` says that a thread
waiting for a mutex that is free again and again gets it, which only matters against
a base thread that wakes up spuriously without end. Nothing is assumed of spurious
wakeups.

### What the violated runs show

* **Reset.** On an RST `HandleEvent` runs the read handler (error, `ShutdownInLoop`,
  `Release`) and then the error handler (`Release`). The second `ReleaseInLoop`
  calls the close callbacks again; on a single reactor the object is destroyed by
  then. The guards `if (_status == DISCONNECTED) return` are commented out.
* **SIGPIPE.** An RST while output is pending: the failed read consumes the error
  and waits for the output, the send that follows raises SIGPIPE.
* **errno.** `recv` returning 0 sets no `errno`. After an interrupted call it still
  is `EINTR`, and the end of file is taken for an empty socket; the loop spins on
  it, and each event refreshes the idle timer.
* **Assertion.** The base thread is delayed between the two closures of
  `NewConnection` for an iteration in which the connection's loop, itself behind
  the clock, arms the timer and fires it.
* **Static files.** A file below the base directory is found and put in the
  response, `Route` goes on into `Dispatcher`, and as no handler matches the path the
  status becomes 404, with the file as the body.

### Notes on what the code does

IdleTimer is implemented only when no delay exceeds the wheel's size: the slot is
`(_tick + delay) % 60`, so 61 seconds become 1, and nothing checks the timeout that
`TcpServer`'s constructor or `RunAfter` is given (`server.hpp:512`). The theorem
`WheelKeepsTime` assumes it.

`OnMessage` handles one request per call. A second request that one read brought
together with the first is answered when the client sends more, or closes;
`NothingWaits` excepts exactly that case (`burst`). Once an answer has said `close`
or an error was found, bytes that still arrive before the release are parsed and
served as well, because `ShutdownInLoop` does not disable reading (the call is
commented out): `served` stops at the first error for that reason. An error's
answer takes its Connection header from a request that may be half parsed, so it may
say `keep-alive` on a connection that is then closed; `ClosesAsAnnounced` is about
connections without an error.

`TimerRefreshInLoop` computes the slot from `_tick`. If the loop was busy for `n`
seconds, `_tick` is `n` behind, and a connection refreshed in the iteration that then
reads the timerfd loses these `n` seconds, up to being released at once.
`FiresAfterDelay` says that it loses these and no more.

`_thread` starts before `_mutex` and `_cond` are constructed. If the new thread is
fast enough to lock the raw mutex, the construction then frees a mutex that it holds;
the base thread may test `_loop`, be about to wait, and miss the notification, after
which `GetLoop` never returns; or the new thread is stuck. `GetLoopReturns` is about
the executions where it was not as fast (`raced`), `GotLoopIsConstructed` about all.

Requests and responses: `Split` passes a position for a length (`http.hpp:163`), so a
piece of a query that is neither the first nor the last runs on into the parameters
behind it, and with it the value. `QueryUnderstood` says what arrives in spite of
that: the names, no more and no fewer, and each value at least to its end, exactly if
it is the first or the last. It does not say that a value in between is right, which
is false. `UrlEncode`, which nothing in the server calls,
stands for the client's encoder, on bytes below 128; others it turns into `%FF`. Of
two parameters of one name the first is kept, and of two Content-Types the first too,
so that a handler's own body may be announced with the type of the file that was
found before (`http.hpp:889`). On a kept connection a response without a body has no
Content-Length (`PutFile`'s), and an answer to `HEAD` may have a body: the client cannot
tell where the next response begins. `Delimited` names the responses of which this is
not so, and `ResponsesFramed` is about each response that comes after none but these:
its head is found, and its body if it is one of them. Of what the client reads behind
a response that is not, nothing is promised. The comment on
`Route` speaks of 405 where the code answers 404.

`ClosedOnce` is checked, and proved, without the idle timer. With it, the timer may fire in the
iteration in which the connection is already being closed; then two `ReleaseInLoop`
are queued as on an RST.

## 4. The proofs

All theorems hold for every value of the constants that satisfies the named
assumptions; `Safe` is the specification without fairness.

* `EventLoop_proofs`: `TypeCorrect`; `WakeupNotLost`, about every closure of the pool
  but those in `missed`, whose invariant is inductive given the types: an interrupted
  write adds to `missed` no more than the closure it was for, and a read that resets
  the counter leaves the loop on its way to the swap; `TasksAccounted`, from the fact that `done \o batch \o tasks`
  changes only by an append (`AppendToPool`, `ExecuteHead`);
  `StepsImplementTaskQueue`, every step is one of TaskQueue or a stutter, where a
  closure that is fresh is not pending by `Accounting`.
  Of a loop being started: `StartTypeCorrect`; `LoopIsConstructed`
  (`GotLoopIsConstructed`), which needs no mutex: `_loop` is written only by a thread
  whose loop is constructed, and the predicate of the wait is tested after every
  wakeup. `StartImplementsEventLoop`: a step of the composition is a step of
  EventLoop or leaves its variables alone, so that EventLoop's theorems hold of a
  loop being started; `StartedLoopLosesNothing` draws that conclusion for
  `Accounting` and `NoLostWakeup`.
* `TimerWheel_proofs`: `TypeCorrect`; `WeakPointersLive` (`LockNeverNull`);
  `WheelKeepsTime`, that the wheel implements IdleTimer when no delay exceeds
  `Size`. The mapping takes a maximum over slots; `IsLeft` states it without one,
  and the invariant `WithinDelay` (no pointer is further ahead than its task's
  delay) makes a refresh's new pointer the last one to go. Both the assumption
  and `WithinDelay` are needed. `FiresNoEarlier` (`FiresAfterDelay`) has an invariant
  of its own: while expirations are missing, some pointer to the task is at least
  that many ticks ahead and, on top, the ticks owed for expirations that were counted
  already (`FarEnough`); a tick that comes nearer pays one of these.
* `TcpServer_proofs`: first what a handler may do. `Keeps(x, y)` relates the record a
  handler takes to one it yields (registration, timer and reported events kept,
  status kept or `DISCONNECTING`, EPOLLOUT asked for whenever output is left
  behind); it is transitive, one lemma shows it of each handler, and
  `HandleEventKeeps` is their composition. `TypeCorrect` has one lemma per action.
  `OutputNotStranded` (`NoStrandedOutput`) holds because every action keeps
  `WaitsForOutput` for every connection, registered or not.
  `CallbacksReachTheLiving` (`CallbacksReachLive`) and `StatusNeverGoesBack`
  (`StatusForward`) are about the life of a connection. Neither property is inductive. The
  invariant `Life`, which holds while `proc = "up"`, adds: a reported event belongs to
  a registered connection whose loop is handling events, so none is left when
  tasks run (`ConnOK`); a connection not yet `DISCONNECTED` is in `_conns` or in
  NewConnection's hands; a queued task is about a connection of that loop, or is the
  removal of a released one (`TaskOK`); and the task that arms the timer comes
  before every other task about its connection, behind at most the establishment
  (`EnableFirst`, `EnableAhead`), so that no timer is armed on an object already
  released. The theorems assume nothing of the order in which loops run.
* `TcpServerClose_proofs`: `ClosingAlwaysProgresses` (`ClosingProgresses`). For each
  connection, closing means output left or a release queued on its own loop
  (`WillClose`); the lemmas say of each handler that it queues a release unless it
  leaves output behind (`Shuts`, `Serves`), and of each step of a loop that a queued
  release stays until it is run, which makes the status `DISCONNECTED`. It uses `Life`
  for where tasks are. `OrderlyClosedOnce` (`ClosedOnce`, with `EstablishAssertion` and
  `SendFailureHandled`) assumes no reset and no idle timer, and calls may be
  interrupted. The runs `server_assert` and `server_sigpipe` show that neither
  assumption can be dropped. Its invariant `OnceInv` says that no
  task but a removal is queued twice (`SingleApart`), that a release is about a
  connection in the poller and waits in the queue only while its loop handles events
  and that connection's are done (`LateRelease`), and that EPOLLOUT is reported only
  with output left (`Orderly`), so that a read that releases is not followed by a
  write that releases again (`HandleEventSound`).
* `Buffer_proofs`: `TypeCorrect`; `GrowthIsBounded`; `StepsImplementByteQueue`, that
  every call moves the bytes a queue of bytes would. `EnsureMakesRoom` says what
  `EnsureWriteSpace` leaves, whichever way it took: room for the write, and the same
  readable bytes from the read offset on (`Room`). `WriteAppends` and `DropBytes`
  turn offsets into sequences: a write appends to the content, a read drops from its
  front; `LineFound` says that the line the search finds is the first one.
* `HttpServer_proofs`: `TypeCorrect`, where a body never outgrows its
  Content-Length. `ClosedAsAnnounced` (`ClosesAsAnnounced`) is not inductive:
  `Announced` also speaks of an `OnMessage` that has not returned, and says that
  Shutdown calls it only on a connection that is closing. `OnMessageDescends`
  (`Descends`) needs no invariant but the types: `Rank` counts the input five times
  and where OnMessage stands, every line parsed shortens the input, and the steps
  that do not shorten it go forward within one call.

  `ParserFollows` is the result about the parser: however the reads cut a stream, the
  context stands at one of its requests, having parsed of it exactly what has left the
  buffer, or at its first fault. None of `ServedInOrder`, `ErrorIsReal` and
  `NothingWaits` is inductive, because they compare `served` with the requests of the
  whole stream and say nothing of a parser in the middle of one. The invariant
  `Followed` names a position `i` of what has arrived such that the requests before
  `i` have been served and no other (`Routed`), and a position `j` such that the
  buffer is the stream from `j` on and `request`, `recv_status` and `resp_status` are
  what the lines between `i` and `j` make of them (`Parsing`: `ParsedHead`,
  `ParsedBody` or `FoundFault`). Its lemmas are of two kinds. The first are about
  HttpStream alone and say that what is complete or wrong stays so when the stream
  grows (`LineKept`, `FaultKept`, `RequestKept`, `FromExtends`), which is why a read
  may cut it anywhere. The others take one step of the parser at a time
  (`AwaitLineParses`, `LineParses`, `HeaderParses`, `BodyParses`, `ReadParses`,
  `ResetParses`). `RequestsServedInOrder` and `ErrorsAreReal` follow at once;
  `NoRequestWaits` needs `Few` besides, that at most one request or fault is in work
  unless one read brought two. TLC checked `Followed` and `Few` on the instance of
  `http` before they were proved.
* `HttpRoute_proofs`: first `Util`. `DecodeStep`, `EncodeStep` and `SplitStep` say what
  the loops of `UrlDecode`, `UrlEncode` and `Split` do at each position. `RoundTrip`:
  what `UrlEncode` writes of any text of bytes below 128 has neither `&` nor `=` in it,
  and `UrlDecode` gives the text back. `DecodesBefore` says more: whatever follows what
  was encoded, `UrlDecode` reads the text before it goes on to the rest (`DecodesCode`
  is one byte of it), so that a piece that is too long still begins with its value.
  `QuerySays`: an encoded list of parameters of any length is cut by `Split` into
  pieces that have the names and begin with the values, the last one having its value
  exactly and, since the first is cut at the right place, the first one as well. Then
  the server. `TypeCorrect` gives the types in full (`Typed`), among them those of headers
  and of the stream. `QueriesUnderstood` (`QueryUnderstood`) has the invariant `Parsed`:
  of the pieces of the query the first `c` have been looked at, `params` has their
  names, with what was read of the first one of each, and `c` is all of them when the
  request is routed. `AnswersFramed` (`ResponsesFramed`) has the invariant `Framed`: no
  response in work announces a length, every answer announces its own, and there are
  positions, one behind the other, at which the answers stand in the stream. That a
  handler may replace the body `FileHandler` set is harmless because of the first
  part. `ReadFollows` shows that where a client looks is well-defined for any answers, and
  `ReadsStarts`, by induction over the answers, that it looks at these positions as
  long as it has met none but delimited ones. TLC checked `Parsed` and `Framed` on the instance of
  `http_route` first.

The functions over a stream or a text recur, and what a recursive definition computes
needs an induction the library's theorems cannot give here, since they take an operator
as parameter. `Positions` does with sets what they do with operators: a set of
positions has a first one (`LeastPosition`, from the well-foundedness of `<`),
induction from the last position down is about a set (`DownInduction`), and a recursion
that always goes on to a later position defines a function (`RecursionExists`,
`WalkExists`).

Beside those named above the theorems assume of the constants only their types:
streams, requests and `IndexHtml` are texts, `Intended` are lists of pairs of texts of
bytes below 128, and the bounds are natural numbers. No theorem depends on how small
the bounds are.

Only model-checked: liveness (`TaskRuns`, `Expires`, `PeerCloseReleases`,
`ReleasedIsDestroyed`, `InputIsRead`, `Returns`, `GetLoopReturns`, and the fairness of
TaskQueue), because the prover does not treat fairness. Every invariant and every
action property that a passing run checks is a theorem.

## 5. Not modelled, and the plan

Not modelled:

* `Poller` as a module of its own: a registered bit per connection stands for its map
  from descriptors to channels. Descriptors are reused only after `ReleaseInLoop` has
  taken the channel out of the poller and closed the socket; a second `ReleaseInLoop`
  of the same connection is always in the same batch of the same loop, before any
  further event is polled there.
* Creation and options of sockets, which are system calls and their return values.
* `Any`: type erasure around one pointer.
* `ReadFile`, `WriteFile` and `IsRegular`, which are HttpRoute's `files`, and the
  tables of statuses and MIME types, which are data.
* The copy of the input for a log line and `stoul` on what is no number (section 2).
* The any-event callback and the user's close callback of a Connection, which the
  programs of the repository do not set.
* Logging, the examples and the manual tests.

What could follow: `RunAfter` as an action of TcpServer, so
that `EchoServer::Func` and the connections' timers share one wheel; descriptors and
the numbers the kernel chooses for them.
