------------------------------ MODULE TcpServer ------------------------------
(***************************************************************************)
(* The TCP server of server.hpp: Acceptor, TcpServer, Connection, Channel, *)
(* and the event loops they run on.  The base loop accepts a connection,   *)
(* hands it to a loop of the pool and keeps its shared_ptr in _conns; the  *)
(* connection's own loop reads, writes and closes it, with closures that   *)
(* hold a raw `this', and finally asks the base loop to drop the pointer.  *)
(*                                                                         *)
(* A loop is as in EventLoop, which shows that a queued closure wakes it:  *)
(* here Poll may return at any time (the timerfd expires every second).    *)
(* A timer is as in TimerWheel, with the time left abstracted: the read of *)
(* the timerfd may return any number of ticks, so any armed timer may fire.*)
(* Buffers are counts of messages.                                         *)
(***************************************************************************)
EXTENDS Naturals, Sequences, Functions

CONSTANTS
    MaxConn,        \* bound: connections the clients open
    ThreadNum,      \* _thread_num, the loops of the pool; 0: a single reactor
    IdleTimeout,    \* _enable_inactive_release
    MaxData,        \* bound: messages of a connection in flight
    Faults          \* of "reset" (RST), "interrupt" (EINTR or EAGAIN)

ASSUME MaxConnAssumption == MaxConn \in Nat
ASSUME ThreadNumAssumption == ThreadNum \in Nat
ASSUME IdleTimeoutAssumption == IdleTimeout \in BOOLEAN
ASSUME MaxDataAssumption == MaxData \in Nat
ASSUME FaultsAssumption == Faults \subseteq {"reset", "interrupt"}

Conn == 1 .. MaxConn
Loop == 0 .. ThreadNum
Base == 0

VARIABLES
    backlog,    \* connections established by the kernel and not yet accepted
    connId,     \* TcpServer::_conn_id
    loopIndex,  \* LoopThreadPool::_loop_index
    loopOf,     \* Connection::_loop
    conns,      \* the keys of TcpServer::_conns
    accepting,  \* NewConnection: the connection it holds (0: none)
    stage,      \* and the statement it is at
    conn,       \* the Connection objects with their channels and sockets
    pc,         \* where each loop is in Start
    pend,       \* the active channels that are not connections
    queue,      \* EventLoop::_tasks
    batch,      \* RunAllTask's vector, the tasks not yet run
    held,       \* the shared_ptrs in the tasks of the base loop's vector that
                \* have run: the vector lives until RunAllTask returns
    errno,      \* errno of each loop's thread: "again" for EAGAIN and EINTR
    proc        \* "up", "abort" (assertion), "sigpipe", "undefined" (a use of
                \* a destroyed Connection)

serverVars == <<connId, loopIndex, loopOf, conns, accepting, stage>>
loopVars   == <<pc, pend, queue, batch, held, errno>>
vars       == <<backlog, serverVars, conn, loopVars, proc>>

\* A Connection object, its channel and its socket before any event.
NewConn ==
    [status |-> "CONNECTING",
     in     |-> 0,          \* _in_buffer
     out    |-> 0,          \* _out_buffer
     want   |-> FALSE,      \* EPOLLOUT in Channel::_events
     reg    |-> FALSE,      \* the channel is in the Poller (EPOLLIN)
     rev    |-> {},         \* Channel::_revents, between Poll and HandleEvent
     timer  |-> FALSE,      \* a TimerTask calls Release and is not cancelled
     closes |-> 0,          \* history: calls of _server_close_callback
     rcv    |-> 0,          \* the socket's receive queue
     peer   |-> "open",     \* what arrived from the peer: FIN, RST, or both
     err    |-> FALSE,      \* the RST is not yet reported by a system call
     full   |-> FALSE]      \* the socket's send queue is full

Init ==
    /\ backlog = 0
    /\ connId = 0 /\ loopIndex = 0
    /\ loopOf = [c \in Conn |-> Base]
    /\ conns = {}
    /\ accepting = 0 /\ stage = "idle"
    /\ conn = [c \in Conn |-> NewConn]
    /\ pc = [l \in Loop |-> "poll"]
    /\ pend = [l \in Loop |-> {}]
    /\ queue = [l \in Loop |-> <<>>] /\ batch = [l \in Loop |-> <<>>]
    /\ held = {}
    /\ errno = [l \in Loop |-> "other"]
    /\ proc = "up"

-----------------------------------------------------------------------------
(* Lifetime.                                                               *)

Task(op, c) == [op |-> op, c |-> c]

Pending(l, t) == t \in Range(queue[l]) \cup Range(batch[l])

\* Some shared_ptr owns the connection: _conns, NewConnection's local, or the
\* closure of RemoveConnection.
Alive(c) == \/ c \in conns
            \/ c = accepting
            \/ Pending(Base, Task("remove", c))
            \/ c \in held

Reset(r) == r.peer \in {"rst", "finrst"}

-----------------------------------------------------------------------------
(* The handlers of a connection.  Each takes and yields a record of the    *)
(* connection, errno, the Releases it queued and whether SIGPIPE came; the *)
(* result is the set of records the user's callback and the kernel allow.  *)

\* The user's message callback (HttpServer::OnMessage, EchoServer::OnMessage),
\* external to server.hpp: it consumes k messages and answers j of them with
\* Send(), which asks for EPOLLOUT; having answered, it may call Shutdown(), and
\* then k and j include what the callbacks nested in it did.
MessageCallback(x) ==
    LET Served == {[x EXCEPT !.c.in = @ - kj[1], !.c.out = @ + kj[2],
                             !.c.want = @ \/ kj[2] > 0] :
                        kj \in {q \in (0 .. x.c.in) \X (0 .. x.c.in) : q[2] <= q[1]}}
    IN  Served \cup {[y EXCEPT !.c.status = "DISCONNECTING"] :
                        y \in {z \in Served : z.c.out > x.c.out}}

CallIfInput(x) == IF x.c.in > 0 THEN MessageCallback(x) ELSE {x}

\* Release() queues ReleaseInLoop.
QueueRelease(x) == [x EXCEPT !.rel = @ + 1]

\* Mutants: the release does not wait for the output; nothing is released when
\* there is no output.
ShutdownAtOnce(x) ==
    {QueueRelease([y EXCEPT !.c.want = y.c.out > 0]) :
        y \in CallIfInput([x EXCEPT !.c.status = "DISCONNECTING"])}

ShutdownWithoutRelease(x) ==
    {IF y.c.out > 0 THEN [y EXCEPT !.c.want = TRUE] ELSE y :
        y \in CallIfInput([x EXCEPT !.c.status = "DISCONNECTING"])}

ShutdownInLoop(x) ==
    {IF y.c.out > 0 THEN [y EXCEPT !.c.want = TRUE] ELSE QueueRelease(y) :
        y \in CallIfInput([x EXCEPT !.c.status = "DISCONNECTING"])}

\* Socket::Recv consults errno whenever recv returns 0 or -1; at end of file
\* recv returns 0 and sets no errno.
HandleRead(x) ==
    CASE x.c.rcv > 0 ->
            CallIfInput([x EXCEPT !.c.in = @ + x.c.rcv, !.c.rcv = 0])
      [] x.c.rcv = 0 /\ x.c.peer = "rst" /\ x.c.err ->
            ShutdownInLoop([x EXCEPT !.c.err = FALSE, !.errno = "other"])
      [] x.c.rcv = 0 /\ ~(x.c.peer = "rst" /\ x.c.err) ->
            IF x.errno = "again" THEN CallIfInput(x) ELSE ShutdownInLoop(x)

\* Mutant: the read offset moves past the end of the output.
SentTooMuch(x) ==
    {[x EXCEPT !.c.out = @ - k, !.c.full = k < x.c.out] : k \in 1 .. x.c.out + 1}

\* What send may do with a non-empty buffer while the peer has not reset.
Sent(x) ==
    {[x EXCEPT !.c.out = @ - k, !.c.full = k < x.c.out] : k \in 1 .. x.c.out}
    \cup IF "interrupt" \in Faults THEN {[x EXCEPT !.errno = "again"]} ELSE {}

\* Mutants: EPOLLOUT is given up though output is left; a closing connection is
\* not released once flushed.
AfterSendAlwaysDisable(x) ==
    LET y == [x EXCEPT !.c.want = FALSE]
    IN  IF y.c.out = 0 /\ y.c.status = "DISCONNECTING" THEN QueueRelease(y) ELSE y

AfterSendWithoutRelease(x) ==
    IF x.c.out > 0 THEN x ELSE [x EXCEPT !.c.want = FALSE]

AfterSend(x) ==
    IF x.c.out > 0 THEN x
    ELSE LET y == [x EXCEPT !.c.want = FALSE]
         IN  IF y.c.status = "DISCONNECTING" THEN QueueRelease(y) ELSE y

\* Sending after a reset raises SIGPIPE, unless the error is still to be
\* reported; then send fails.
HandleWrite(x) ==
    CASE x.c.out = 0 -> {AfterSend(x)}
      [] x.c.out > 0 /\ ~Reset(x.c) -> {AfterSend(y) : y \in Sent(x)}
      [] x.c.out > 0 /\ Reset(x.c) ->
            IF x.c.peer = "rst" /\ x.c.err
            THEN {QueueRelease(y) :
                    y \in CallIfInput([x EXCEPT !.c.err = FALSE, !.errno = "other"])}
            ELSE {[x EXCEPT !.signal = TRUE]}

\* HandleClose, and HandleError which calls it.
HandleClose(x) == {QueueRelease(y) : y \in CallIfInput(x)}

\* Channel::HandleEvent.  A handler killed by SIGPIPE runs no further.
HandleEvent(x) ==
    LET rev == x.c.rev
        first == IF "in" \in rev THEN HandleRead(x) ELSE {x}
        second(y) == IF "out" \in rev THEN HandleWrite(y)
                     ELSE IF "hup" \in rev THEN HandleClose(y)
                     ELSE {y}
    IN  UNION {second(y) : y \in first}

-----------------------------------------------------------------------------
(* Start: Poll, HandleEvent of the active channels, RunAllTask.            *)

\* What epoll_wait reports for a connection (level triggered).
Revents(r) ==
    IF ~r.reg THEN {}
    ELSE {e \in {"in", "out", "hup"} :
            CASE e = "in"  -> r.rcv > 0 \/ r.peer # "open"
              [] e = "out" -> r.want /\ (~r.full \/ Reset(r))
              [] e = "hup" -> Reset(r)}

On(l) == {c \in Conn : c <= connId /\ loopOf[c] = l}

Active(l) == pend[l] # {} \/ \E c \in On(l) : conn[c].rev # {}

\* The timerfd is of interest when it may fire a timer, the listening socket
\* on the base loop.
Poll(l) ==
    /\ pc[l] = "poll"
    /\ \E p \in SUBSET {"timerfd", "listen"} :
         /\ "timerfd" \in p => \E c \in On(l) : conn[c].timer
         /\ "listen" \in p <=> l = Base /\ backlog > 0
         /\ pend' = [pend EXCEPT ![l] = p]
    /\ conn' = [c \in Conn |-> IF c \in On(l) THEN [conn[c] EXCEPT !.rev = Revents(conn[c])]
                                             ELSE conn[c]]
    /\ pc' = [pc EXCEPT ![l] = "handle"]
    /\ UNCHANGED <<backlog, serverVars, queue, batch, held, errno, proc>>

\* A signal interrupts epoll_wait: no event is reported, errno stays EINTR.
PollInterrupted(l) ==
    /\ "interrupt" \in Faults
    /\ pc[l] = "poll"
    /\ errno' = [errno EXCEPT ![l] = "again"]
    /\ pc' = [pc EXCEPT ![l] = "handle"]
    /\ UNCHANGED <<backlog, serverVars, conn, pend, queue, batch, held, proc>>

\* The base loop is inside NewConnection while it accepts.
Handling(l) == pc[l] = "handle" /\ (l = Base => accepting = 0)

HandleConn(l, c) ==
    /\ Handling(l) /\ c \in On(l) /\ conn[c].rev # {}
    /\ \E x \in HandleEvent([c |-> conn[c], errno |-> errno[l], rel |-> 0, signal |-> FALSE]) :
         /\ conn' = [conn EXCEPT ![c] = [x.c EXCEPT !.rev = {}]]
         /\ errno' = [errno EXCEPT ![l] = x.errno]
         /\ queue' = [queue EXCEPT ![l] = @ \o [i \in 1 .. x.rel |-> Task("release", c)]]
         /\ proc' = IF ~Alive(c) THEN "undefined" ELSE IF x.signal THEN "sigpipe" ELSE proc
    /\ UNCHANGED <<backlog, serverVars, pc, pend, batch, held>>

\* Ontime destroys a TimerTask; its callback is Connection::Release.
FireTimer(l, c) ==
    /\ Handling(l) /\ "timerfd" \in pend[l]
    /\ c \in On(l) /\ conn[c].timer
    /\ conn' = [conn EXCEPT ![c].timer = FALSE]
    /\ queue' = [queue EXCEPT ![l] = Append(@, Task("release", c))]
    /\ proc' = IF Alive(c) THEN proc ELSE "undefined"
    /\ UNCHANGED <<backlog, serverVars, pc, pend, batch, held, errno>>

EndOntime(l) ==
    /\ Handling(l) /\ "timerfd" \in pend[l]
    /\ pend' = [pend EXCEPT ![l] = @ \ {"timerfd"}]
    /\ UNCHANGED <<backlog, serverVars, conn, pc, queue, batch, held, errno, proc>>

SwapTasks(l) ==
    /\ Handling(l) /\ ~Active(l)
    /\ batch' = [batch EXCEPT ![l] = queue[l]]
    /\ queue' = [queue EXCEPT ![l] = <<>>]
    /\ pc' = [pc EXCEPT ![l] = "run"]
    /\ UNCHANGED <<backlog, serverVars, conn, pend, held, errno, proc>>

EndBatch(l) ==
    /\ pc[l] = "run" /\ batch[l] = <<>>
    /\ pc' = [pc EXCEPT ![l] = "poll"]
    /\ held' = IF l = Base THEN {} ELSE held
    /\ UNCHANGED <<backlog, serverVars, conn, pend, queue, batch, errno, proc>>

-----------------------------------------------------------------------------
(* Accepting: Acceptor::HandleRead and TcpServer::NewConnection, on the    *)
(* base loop, one statement per step since the other loops run meanwhile.  *)

\* accept fails, for instance with EMFILE; errno is neither EAGAIN nor EINTR.
AcceptFails ==
    /\ Handling(Base) /\ "listen" \in pend[Base]
    /\ pend' = [pend EXCEPT ![Base] = @ \ {"listen"}]
    /\ errno' = [errno EXCEPT ![Base] = "other"]
    /\ UNCHANGED <<backlog, serverVars, conn, pc, queue, batch, held, proc>>

\* GetLoopBalanced.
NextIndex == IF ThreadNum = 0 THEN 0 ELSE (loopIndex + 1) % ThreadNum
NextLoop  == IF ThreadNum = 0 THEN Base ELSE NextIndex + 1

Accept ==
    /\ Handling(Base) /\ "listen" \in pend[Base]
    /\ pend' = [pend EXCEPT ![Base] = @ \ {"listen"}]
    /\ backlog' = backlog - 1
    /\ connId' = connId + 1
    /\ loopIndex' = NextIndex
    /\ loopOf' = [loopOf EXCEPT ![connId + 1] = NextLoop]
    /\ accepting' = connId + 1
    /\ stage' = IF IdleTimeout THEN "enable" ELSE "establish"
    /\ UNCHANGED <<conns, conn, pc, queue, batch, held, errno, proc>>

\* EnableInactiveReleaseInLoop and EstablishInLoop; the assertion of the second
\* aborts the process.
EnableInactiveRelease(c) ==
    /\ conn' = [conn EXCEPT ![c].timer = TRUE]
    /\ proc' = IF Alive(c) THEN proc ELSE "undefined"

\* Mutants: no EnableRead; no assertion.
EstablishUnread(c) ==
    /\ proc' = IF Alive(c) THEN proc ELSE "undefined"
    /\ conn' = [conn EXCEPT ![c].status = "CONNECTED"]

EstablishUnchecked(c) ==
    /\ proc' = IF Alive(c) THEN proc ELSE "undefined"
    /\ conn' = [conn EXCEPT ![c].status = "CONNECTED", ![c].reg = TRUE]

Establish(c) ==
    /\ proc' = IF ~Alive(c) THEN "undefined"
                ELSE IF conn[c].status # "CONNECTING" THEN "abort" ELSE proc
    /\ conn' = IF proc' = "up"
                THEN [conn EXCEPT ![c].status = "CONNECTED", ![c].reg = TRUE]
                ELSE conn

\* RunInLoop, called by the base loop: at once when the connection is on it.
RunFromBase(op, c, InLoop) ==
    IF loopOf[c] = Base
    THEN InLoop /\ UNCHANGED queue
    ELSE /\ queue' = [queue EXCEPT ![loopOf[c]] = Append(@, Task(op, c))]
         /\ UNCHANGED <<conn, proc>>

NewConnectionEnable ==
    /\ stage = "enable"
    /\ RunFromBase("enable", accepting, EnableInactiveRelease(accepting))
    /\ stage' = "establish"
    /\ UNCHANGED <<backlog, connId, loopIndex, loopOf, conns, accepting,
                   pc, pend, batch, held, errno>>

NewConnectionEstablish ==
    /\ stage = "establish"
    /\ RunFromBase("establish", accepting, Establish(accepting))
    /\ stage' = "insert"
    /\ UNCHANGED <<backlog, connId, loopIndex, loopOf, conns, accepting,
                   pc, pend, batch, held, errno>>

NewConnectionInsert ==
    /\ stage = "insert"
    /\ conns' = conns \cup {accepting}
    /\ accepting' = 0 /\ stage' = "idle"
    /\ UNCHANGED <<backlog, connId, loopIndex, loopOf, conn, loopVars, proc>>

-----------------------------------------------------------------------------
(* The tasks.                                                              *)

\* Mutants: the timer is not cancelled; the channel stays in the poller.
ReleasedWithTimer(r) ==
    [r EXCEPT !.status = "DISCONNECTED", !.reg = FALSE,
              !.closes = IF @ < 2 THEN @ + 1 ELSE @]

ReleasedInPoller(r) ==
    [r EXCEPT !.status = "DISCONNECTED", !.timer = FALSE,
              !.closes = IF @ < 2 THEN @ + 1 ELSE @]

\* Everything ReleaseInLoop does to the object: leave the poller, close the
\* socket, cancel the timer, call the server's close callback.
Released(r) ==
    [r EXCEPT !.status = "DISCONNECTED", !.reg = FALSE, !.timer = FALSE,
              !.closes = IF @ < 2 THEN @ + 1 ELSE @]

\* Mutant: the connection's loop erases it from _conns itself.
ReleaseOffBase(l, c) ==
    /\ proc' = IF Alive(c) THEN proc ELSE "undefined"
    /\ conn' = [conn EXCEPT ![c] = Released(@)]
    /\ conns' = conns \ {c}
    /\ UNCHANGED <<queue, held>>

\* RemoveConnection is RunInLoop on the base loop: a connection of the base loop
\* leaves _conns at once and its object is destroyed when the task returns.
ReleaseInLoop(l, c) ==
    /\ proc' = IF Alive(c) THEN proc ELSE "undefined"
    /\ conn' = [conn EXCEPT ![c] = Released(@)]
    /\ IF l = Base
       THEN /\ conns' = conns \ {c}
            /\ UNCHANGED queue
       ELSE /\ queue' = [queue EXCEPT ![Base] = Append(@, Task("remove", c))]
            /\ UNCHANGED conns
    /\ UNCHANGED held

\* RemoveConnectionInLoop.
RemoveConnection(c) ==
    /\ conns' = conns \ {c}
    /\ held' = held \cup {c}
    /\ UNCHANGED <<conn, queue, proc>>

RunTask(l) ==
    /\ pc[l] = "run" /\ batch[l] # <<>>
    /\ LET t == Head(batch[l])
       IN  \/ /\ t.op = "enable" /\ EnableInactiveRelease(t.c)
              /\ UNCHANGED <<conns, queue, held>>
           \/ /\ t.op = "establish" /\ Establish(t.c)
              /\ UNCHANGED <<conns, queue, held>>
           \/ t.op = "release" /\ ReleaseInLoop(l, t.c)
           \/ t.op = "remove" /\ RemoveConnection(t.c)
    /\ batch' = [batch EXCEPT ![l] = Tail(@)]
    /\ UNCHANGED <<backlog, connId, loopIndex, loopOf, accepting, stage, pc, pend, errno>>

-----------------------------------------------------------------------------
(* The clients and the network.                                            *)

Connect ==
    /\ connId + backlog < MaxConn
    /\ backlog' = backlog + 1
    /\ UNCHANGED <<serverVars, conn, loopVars, proc>>

\* The peer of an accepted connection whose socket the server has not closed.
ClientStep(c, r) ==
    /\ c <= connId /\ conn[c].status # "DISCONNECTED"
    /\ conn' = [conn EXCEPT ![c] = r]
    /\ UNCHANGED <<backlog, serverVars, loopVars, proc>>

ClientSends(c) ==
    /\ conn[c].peer = "open"
    /\ conn[c].rcv + conn[c].in + conn[c].out < MaxData
    /\ ClientStep(c, [conn[c] EXCEPT !.rcv = @ + 1])

ClientReads(c) ==
    /\ conn[c].full
    /\ ClientStep(c, [conn[c] EXCEPT !.full = FALSE])

ClientCloses(c) ==
    /\ conn[c].peer = "open"
    /\ ClientStep(c, [conn[c] EXCEPT !.peer = "fin"])

\* An RST, in answer to data sent to a closed socket or from an abort.
ConnectionReset(c) ==
    /\ "reset" \in Faults
    /\ ~Reset(conn[c])
    /\ ClientStep(c, [conn[c] EXCEPT !.err = TRUE,
                         !.peer = IF @ = "fin" THEN "finrst" ELSE "rst"])

-----------------------------------------------------------------------------

LoopStep(l) ==
    /\ proc = "up"
    /\ \/ Poll(l)
       \/ \E c \in Conn : HandleConn(l, c) \/ FireTimer(l, c)
       \/ EndOntime(l)
       \/ SwapTasks(l) \/ RunTask(l) \/ EndBatch(l)
       \/ l = Base /\ \/ AcceptFails \/ Accept
                      \/ NewConnectionEnable \/ NewConnectionEstablish
                      \/ NewConnectionInsert

Client(c) ==
    /\ proc = "up"
    /\ ClientSends(c) \/ ClientReads(c) \/ ClientCloses(c) \/ ConnectionReset(c)

Next ==
    \/ \E l \in Loop : LoopStep(l)
    \/ \E l \in Loop : proc = "up" /\ PollInterrupted(l)
    \/ \E c \in Conn : Client(c)
    \/ proc = "up" /\ Connect

Safe == Init /\ [][Next]_vars

\* Every loop runs: epoll_wait returns at the latest when the timerfd expires,
\* and no other step blocks.  A peer that is alive reads what it is sent.
Fairness ==
    /\ \A l \in Loop : WF_vars(LoopStep(l))
    /\ \A c \in Conn : WF_vars(proc = "up" /\ ClientReads(c))

Spec == Safe /\ Fairness

-----------------------------------------------------------------------------
(* Properties.                                                             *)

Ops == {"enable", "establish", "release", "remove"}

TaskType == [op : Ops, c : Conn]

ConnType ==
    [status : {"CONNECTING", "CONNECTED", "DISCONNECTING", "DISCONNECTED"},
     in : Nat, out : Nat, want : BOOLEAN, reg : BOOLEAN,
     rev : SUBSET {"in", "out", "hup"}, timer : BOOLEAN, closes : 0 .. 2,
     rcv : Nat, peer : {"open", "fin", "rst", "finrst"},
     err : BOOLEAN, full : BOOLEAN]

\* The types of the variables; the listening socket is ready while a connection
\* waits.
TypeOK ==
    /\ connId \in 0 .. MaxConn /\ backlog \in 0 .. MaxConn
    /\ connId + backlog <= MaxConn
    /\ "listen" \in pend[Base] => backlog > 0
    /\ loopIndex \in Nat
    /\ loopOf \in [Conn -> Loop]
    /\ conns \in SUBSET Conn /\ held \in SUBSET Conn
    /\ accepting \in {0} \cup Conn
    /\ stage \in {"idle", "enable", "establish", "insert"}
    /\ accepting = 0 <=> stage = "idle"
    /\ conn \in [Conn -> ConnType]
    /\ pc \in [Loop -> {"poll", "handle", "run"}]
    /\ pend \in [Loop -> SUBSET {"timerfd", "listen"}]
    /\ queue \in [Loop -> Seq(TaskType)] /\ batch \in [Loop -> Seq(TaskType)]
    /\ errno \in [Loop -> {"again", "other"}]
    /\ proc \in {"up", "abort", "sigpipe", "undefined"}

\* No event and no timer reaches a destroyed Connection (ReleaseInLoop leaves
\* the poller and cancels the timer before the server drops the shared_ptr):
\* whatever epoll or the wheel can still call is owned by someone.
CallbacksReachLive ==
    proc = "up" =>
      \A c \in Conn : conn[c].reg \/ conn[c].rev # {} \/ conn[c].timer => Alive(c)

\* Output is never stranded (SendInLoop, HandleWrite): a connection in the
\* poller with a non-empty _out_buffer waits for EPOLLOUT.
NoStrandedOutput ==
    \A c \in Conn : conn[c].reg /\ conn[c].out > 0 => conn[c].want

\* A closing connection (ShutdownInLoop) cannot be forgotten: it has output to
\* flush, or its release is queued.
ClosingProgresses ==
    proc = "up" =>
      \A c \in Conn : conn[c].status = "DISCONNECTING" =>
        conn[c].out > 0 \/ Pending(loopOf[c], Task("release", c))

\* The status only moves forward: CONNECTING, CONNECTED, DISCONNECTING,
\* DISCONNECTED.
Rank(st) == CASE st = "CONNECTING" -> 0 [] st = "CONNECTED" -> 1
              [] st = "DISCONNECTING" -> 2 [] st = "DISCONNECTED" -> 3

StatusForward ==
    [][\A c \in Conn : Rank(conn[c].status) <= Rank(conn'[c].status)]_vars

\* A connection is closed once: the close callback is not called again and no
\* task touches the object after its destruction.
ClosedOnce == proc # "undefined" /\ \A c \in Conn : conn[c].closes <= 1

\* Channel::HandleEvent handles one operation at a time that may release the
\* connection: one call of it queues at most one ReleaseInLoop.
OneReleasePerEvent ==
    [][\A l \in Loop, c \in Conn : HandleConn(l, c) => Len(queue'[l]) <= Len(queue[l]) + 1]_vars

\* EstablishInLoop's assertion: the connection is still CONNECTING.
EstablishAssertion == proc # "abort"

\* HandleWrite: when sending fails the connection is released; the process goes
\* on.
SendFailureHandled == proc # "sigpipe"

\* The end of the client's stream leads to the release of the connection, once
\* the peer has read what it was sent.
PeerCloseReleases ==
    \A c \in Conn : conn[c].peer = "fin" ~> conn[c].status = "DISCONNECTED"

\* A released connection is dropped by the base loop and destroyed.
ReleasedIsDestroyed ==
    \A c \in Conn : conn[c].status = "DISCONNECTED" ~> ~Alive(c)

\* What a client sent is answered or consumed, never left in a socket that
\* nobody reads.
InputIsRead ==
    \A c \in Conn : conn[c].rcv > 0 ~> conn[c].rcv = 0 \/ conn[c].status = "DISCONNECTED"
=============================================================================
