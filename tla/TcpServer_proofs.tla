--------------------------- MODULE TcpServer_proofs ---------------------------
(***************************************************************************)
(* Theorems about the TCP server, for any numbers of connections, loops    *)
(* and messages, with or without the idle timer and with all faults; among *)
(* them those about the life of a connection: what epoll or the wheel can  *)
(* still call is owned, and a status never goes back.                      *)
(***************************************************************************)
EXTENDS TcpServer, SequenceTheorems, TLAPS

-----------------------------------------------------------------------------
(* What a handler may do to its connection.                                *)

HandlerType ==
    [c : ConnType, errno : {"again", "other"}, rel : Nat, signal : BOOLEAN]

\* A handler keeps the registration, the timer and the reported events, moves
\* the status to DISCONNECTING or not at all, and asks for EPOLLOUT when it
\* leaves output behind.
KeepsConn(r, s) ==
    /\ s \in ConnType
    /\ s.reg = r.reg /\ s.timer = r.timer /\ s.rev = r.rev /\ s.closes = r.closes
    /\ s.status \in {r.status, "DISCONNECTING"}
    /\ (r.out > 0 => r.want) => (s.out > 0 => s.want)

Keeps(x, y) == y \in HandlerType /\ KeepsConn(x.c, y.c)

\* Handlers compose.
LEMMA KeepsTransitive ==
  ASSUME NEW x, NEW y, NEW z, Keeps(x, y), Keeps(y, z)
  PROVE  Keeps(x, z)
BY DEF Keeps, KeepsConn

\* A handler that does nothing, and one that queues a release.
LEMMA KeepsSelf ==
  ASSUME NEW x \in HandlerType
  PROVE  Keeps(x, x) /\ Keeps(x, QueueRelease(x))
BY DEF Keeps, KeepsConn, QueueRelease, HandlerType

\* A handler that replaces the connection.
LEMMA KeepsUpdate ==
  ASSUME NEW x \in HandlerType, NEW r, KeepsConn(x.c, r)
  PROVE  Keeps(x, [x EXCEPT !.c = r])
<1>1. r \in ConnType
  BY DEF KeepsConn
<1>2. [x EXCEPT !.c = r] \in HandlerType /\ [x EXCEPT !.c = r].c = r
  BY <1>1 DEF HandlerType
<1> QED
  BY <1>2 DEF Keeps

\* Input consumed and output produced, by k and j messages.
LEMMA ServeKeeps ==
  ASSUME NEW r \in ConnType, NEW k \in 0 .. r.in, NEW j \in 0 .. r.in
  PROVE  KeepsConn(r, [r EXCEPT !.in = @ - k, !.out = @ + j, !.want = @ \/ j > 0])
<1> DEFINE w == r.want \/ j > 0
           s == [r EXCEPT !.in = r.in - k, !.out = r.out + j, !.want = w]
<1>1. w \in BOOLEAN
  OBVIOUS
<1>2. r.in - k \in Nat /\ r.out + j \in Nat
  BY DEF ConnType
<1>3. (r.out > 0 => r.want) => (r.out + j > 0 => w)
  BY DEF ConnType
<1> HIDE DEF w
<1>4. s \in ConnType
  BY <1>1, <1>2 DEF ConnType
<1>5. /\ s.reg = r.reg /\ s.timer = r.timer /\ s.rev = r.rev /\ s.closes = r.closes
      /\ s.status = r.status /\ s.out = r.out + j /\ s.want = w
  BY DEF ConnType
<1>6. KeepsConn(r, s)
  BY <1>3, <1>4, <1>5 DEF KeepsConn
<1> QED
  BY <1>6 DEF w

\* The status set to DISCONNECTING.
LEMMA DisconnectingKeeps ==
  ASSUME NEW x \in HandlerType
  PROVE  Keeps(x, [x EXCEPT !.c.status = "DISCONNECTING"])
<1> DEFINE s == [x.c EXCEPT !.status = "DISCONNECTING"]
<1>1. x.c \in ConnType
  BY DEF HandlerType
<1>2. s \in ConnType
  BY <1>1 DEF ConnType
<1>3. /\ s.reg = x.c.reg /\ s.timer = x.c.timer /\ s.rev = x.c.rev
      /\ s.closes = x.c.closes /\ s.status = "DISCONNECTING"
      /\ s.out = x.c.out /\ s.want = x.c.want
  BY <1>1 DEF ConnType
<1>4. KeepsConn(x.c, s)
  BY <1>2, <1>3 DEF KeepsConn
<1>5. [x EXCEPT !.c.status = "DISCONNECTING"] = [x EXCEPT !.c = s]
  OBVIOUS
<1> QED
  BY <1>4, <1>5, KeepsUpdate

\* The user's message callback.
LEMMA MessageCallbackKeeps ==
  ASSUME NEW x \in HandlerType, NEW y \in MessageCallback(x)
  PROVE  Keeps(x, y)
<1> DEFINE P == {q \in (0 .. x.c.in) \X (0 .. x.c.in) : q[2] <= q[1]}
           F(q) == [x EXCEPT !.c.in = @ - q[1], !.c.out = @ + q[2],
                             !.c.want = @ \/ q[2] > 0]
<1>1. ASSUME NEW q \in P
      PROVE  Keeps(x, F(q))
  <2> DEFINE s == [x.c EXCEPT !.in = @ - q[1], !.out = @ + q[2], !.want = @ \/ q[2] > 0]
  <2>1. x.c \in ConnType
    BY DEF HandlerType
  <2>2. q[1] \in 0 .. x.c.in /\ q[2] \in 0 .. x.c.in
    OBVIOUS
  <2>3. KeepsConn(x.c, s)
    BY <2>1, <2>2, ServeKeeps
  <2>4. F(q) = [x EXCEPT !.c = s]
    BY <2>1 DEF ConnType, HandlerType
  <2> QED
    BY <2>3, <2>4, KeepsUpdate
<1>2. \/ y \in {F(q) : q \in P}
      \/ y \in {[z EXCEPT !.c.status = "DISCONNECTING"] : z \in
                    {z \in {F(q) : q \in P} : z.c.out > x.c.out}}
  BY DEF MessageCallback
<1>3. PICK z : Keeps(x, z) /\ (y = z \/ y = [z EXCEPT !.c.status = "DISCONNECTING"])
  <2> HIDE DEF F, P
  <2> QED
    BY <1>1, <1>2
<1>4. z \in HandlerType
  BY <1>3 DEF Keeps
<1>5. Keeps(z, [z EXCEPT !.c.status = "DISCONNECTING"])
  BY <1>4, DisconnectingKeeps
<1> QED
  BY <1>3, <1>5, KeepsTransitive

\* The callback, called only when there is input.
LEMMA CallIfInputKeeps ==
  ASSUME NEW x \in HandlerType, NEW y \in CallIfInput(x)
  PROVE  Keeps(x, y)
BY MessageCallbackKeeps, KeepsSelf DEF CallIfInput

\* The fields of the socket, and the input: data received, an error reported.
LEMMA ReceiveKeeps ==
  ASSUME NEW r \in ConnType, NEW i \in Nat, NEW n \in Nat
  PROVE  KeepsConn(r, [r EXCEPT !.in = i, !.rcv = n])
<1> DEFINE s == [r EXCEPT !.in = i, !.rcv = n]
<1>1. s \in ConnType
  BY DEF ConnType
<1>2. /\ s.reg = r.reg /\ s.timer = r.timer /\ s.rev = r.rev /\ s.closes = r.closes
      /\ s.status = r.status /\ s.out = r.out /\ s.want = r.want
  BY DEF ConnType
<1> QED
  BY <1>1, <1>2 DEF KeepsConn

\* The error of a reset socket, taken by a system call.
LEMMA ErrorKeeps ==
  ASSUME NEW r \in ConnType
  PROVE  KeepsConn(r, [r EXCEPT !.err = FALSE])
<1> DEFINE s == [r EXCEPT !.err = FALSE]
<1>1. s \in ConnType
  BY DEF ConnType
<1>2. /\ s.reg = r.reg /\ s.timer = r.timer /\ s.rev = r.rev /\ s.closes = r.closes
      /\ s.status = r.status /\ s.out = r.out /\ s.want = r.want
  BY DEF ConnType
<1> QED
  BY <1>1, <1>2 DEF KeepsConn

\* The error of a reset connection, consumed by recv or by send.
LEMMA ConsumeErrorKeeps ==
  ASSUME NEW x \in HandlerType
  PROVE  Keeps(x, [x EXCEPT !.c.err = FALSE, !.errno = "other"])
<1> DEFINE r == [x.c EXCEPT !.err = FALSE]
           y == [x EXCEPT !.c.err = FALSE, !.errno = "other"]
<1>1. KeepsConn(x.c, r)
  BY ErrorKeeps DEF HandlerType
<1>2. r \in ConnType
  BY <1>1 DEF KeepsConn
<1> HIDE DEF r
<1>3. [x EXCEPT !.c = r, !.errno = "other"] \in HandlerType
  BY <1>2 DEF HandlerType
<1>4. [x EXCEPT !.c = r, !.errno = "other"].c = r
  BY DEF HandlerType
<1>5. y = [x EXCEPT !.c = r, !.errno = "other"]
  BY DEF r, HandlerType
<1> QED
  BY <1>1, <1>3, <1>4, <1>5 DEF Keeps

\* ShutdownInLoop: the callback on the rest of the input, then EPOLLOUT or the release.
LEMMA ShutdownInLoopKeeps ==
  ASSUME NEW x \in HandlerType, NEW y \in ShutdownInLoop(x)
  PROVE  Keeps(x, y)
<1> DEFINE d == [x EXCEPT !.c.status = "DISCONNECTING"]
<1>1. Keeps(x, d) /\ d \in HandlerType
  BY DisconnectingKeeps DEF Keeps
<1> HIDE DEF d
<1>2. PICK z \in CallIfInput(d) :
        y = IF z.c.out > 0 THEN [z EXCEPT !.c.want = TRUE] ELSE QueueRelease(z)
  BY DEF ShutdownInLoop, d
<1>3. Keeps(d, z) /\ z \in HandlerType
  BY <1>1, <1>2, CallIfInputKeeps DEF Keeps
<1>4. Keeps(z, QueueRelease(z))
  BY <1>3, KeepsSelf
<1>5. Keeps(z, [z EXCEPT !.c.want = TRUE])
  <2> DEFINE s == [z.c EXCEPT !.want = TRUE]
  <2>1. z.c \in ConnType
    BY <1>3 DEF HandlerType
  <2>2. s \in ConnType
    BY <2>1 DEF ConnType
  <2>3. /\ s.reg = z.c.reg /\ s.timer = z.c.timer /\ s.rev = z.c.rev
        /\ s.closes = z.c.closes /\ s.status = z.c.status /\ s.want = TRUE
    BY <2>1 DEF ConnType
  <2>4. KeepsConn(z.c, s)
    BY <2>2, <2>3 DEF KeepsConn
  <2>5. [z EXCEPT !.c.want = TRUE] = [z EXCEPT !.c = s]
    OBVIOUS
  <2> QED
    BY <1>3, <2>4, <2>5, KeepsUpdate
<1>6. Keeps(z, y)
  BY <1>2, <1>4, <1>5
<1> QED
  BY <1>1, <1>3, <1>6, KeepsTransitive

\* HandleRead: what is received goes to the callback, or the connection is shut down.
LEMMA HandleReadKeeps ==
  ASSUME NEW x \in HandlerType, NEW y \in HandleRead(x)
  PROVE  Keeps(x, y)
<1> DEFINE a == [x EXCEPT !.c.in = @ + x.c.rcv, !.c.rcv = 0]
           b == [x EXCEPT !.c.err = FALSE, !.errno = "other"]
           r == [x.c EXCEPT !.in = x.c.in + x.c.rcv, !.rcv = 0]
<1>1. x.c \in ConnType /\ x.c.in + x.c.rcv \in Nat
  BY DEF HandlerType, ConnType
<1>2. KeepsConn(x.c, r)
  BY <1>1, ReceiveKeeps
<1>3. a = [x EXCEPT !.c = r]
  BY <1>1 DEF HandlerType, ConnType
<1>4. Keeps(x, a)
  BY <1>2, <1>3, KeepsUpdate
<1>5. Keeps(x, b)
  BY ConsumeErrorKeeps
<1>6. y \in CallIfInput(a) \cup ShutdownInLoop(b) \cup CallIfInput(x) \cup ShutdownInLoop(x)
  <2>1. x.c.rcv > 0 \/ x.c.rcv = 0
    BY <1>1 DEF ConnType
  <2> QED
    BY <2>1 DEF HandleRead
<1> HIDE DEF a, b
<1>7. a \in HandlerType /\ b \in HandlerType
  BY <1>4, <1>5 DEF Keeps
<1> QED
  BY <1>4, <1>5, <1>6, <1>7, CallIfInputKeeps, ShutdownInLoopKeeps, KeepsTransitive

\* k messages of the output sent.
LEMMA SentKeepsConn ==
  ASSUME NEW r \in ConnType, NEW k \in 1 .. r.out
  PROVE  KeepsConn(r, [r EXCEPT !.out = @ - k, !.full = k < r.out])
<1> DEFINE f == k < r.out
           s == [r EXCEPT !.out = r.out - k, !.full = f]
<1>1. f \in BOOLEAN
  OBVIOUS
<1>2. r.out - k \in Nat /\ r.out > 0
  BY DEF ConnType
<1> HIDE DEF f
<1>3. s \in ConnType
  BY <1>1, <1>2 DEF ConnType
<1>4. /\ s.reg = r.reg /\ s.timer = r.timer /\ s.rev = r.rev /\ s.closes = r.closes
      /\ s.status = r.status /\ s.want = r.want
  BY DEF ConnType
<1>5. KeepsConn(r, s)
  BY <1>2, <1>3, <1>4 DEF KeepsConn
<1> QED
  BY <1>5 DEF f

\* What send does: some of the output, or nothing when it is interrupted.
LEMMA SentKeeps ==
  ASSUME NEW x \in HandlerType, NEW y \in Sent(x)
  PROVE  Keeps(x, y)
<1> DEFINE F(k) == [x EXCEPT !.c.out = @ - k, !.c.full = k < x.c.out]
           e == [x EXCEPT !.errno = "again"]
<1>1. x.c \in ConnType
  BY DEF HandlerType
<1>2. ASSUME NEW k \in 1 .. x.c.out
      PROVE  Keeps(x, F(k))
  <2> DEFINE s == [x.c EXCEPT !.out = @ - k, !.full = k < x.c.out]
  <2>1. KeepsConn(x.c, s)
    BY <1>1, SentKeepsConn
  <2>2. F(k) = [x EXCEPT !.c = s]
    BY <1>1 DEF ConnType, HandlerType
  <2> QED
    BY <2>1, <2>2, KeepsUpdate
<1>3. Keeps(x, e)
  BY <1>1 DEF Keeps, KeepsConn, HandlerType
<1>4. y \in {F(k) : k \in 1 .. x.c.out} \/ y = e
  BY DEF Sent
<1> HIDE DEF F, e
<1> QED
  BY <1>2, <1>3, <1>4

\* DisableWrite when the output is empty, and the release of a closing
\* connection.
LEMMA AfterSendKeeps ==
  ASSUME NEW x \in HandlerType
  PROVE  Keeps(x, AfterSend(x))
<1>1. x.c \in ConnType
  BY DEF HandlerType
<1>2. CASE x.c.out > 0
  BY <1>2, KeepsSelf DEF AfterSend
<1>3. CASE ~(x.c.out > 0)
  <2> DEFINE s == [x.c EXCEPT !.want = FALSE]
             y == [x EXCEPT !.c.want = FALSE]
  <2>1. s \in ConnType
    BY <1>1 DEF ConnType
  <2>2. /\ s.reg = x.c.reg /\ s.timer = x.c.timer /\ s.rev = x.c.rev
        /\ s.closes = x.c.closes /\ s.status = x.c.status /\ s.out = x.c.out
    BY <1>1 DEF ConnType
  <2>3. KeepsConn(x.c, s)
    BY <1>3, <2>1, <2>2 DEF KeepsConn
  <2>4. y = [x EXCEPT !.c = s]
    OBVIOUS
  <2>5. Keeps(x, y)
    BY <2>3, <2>4, KeepsUpdate
  <2>6. AfterSend(x) \in {y, QueueRelease(y)}
    BY <1>3 DEF AfterSend
  <2> HIDE DEF y
  <2>7. Keeps(y, QueueRelease(y))
    BY <2>5, KeepsSelf DEF Keeps
  <2> QED
    BY <2>5, <2>6, <2>7, KeepsTransitive
<1> QED
  BY <1>2, <1>3

\* HandleWrite: output sent, a failure that releases, or SIGPIPE.
LEMMA HandleWriteKeeps ==
  ASSUME NEW x \in HandlerType, NEW y \in HandleWrite(x)
  PROVE  Keeps(x, y)
<1> DEFINE b == [x EXCEPT !.c.err = FALSE, !.errno = "other"]
           g == [x EXCEPT !.signal = TRUE]
<1>1. x.c \in ConnType
  BY DEF HandlerType
<1>2. Keeps(x, g)
  BY <1>1 DEF Keeps, KeepsConn, HandlerType
<1>3. Keeps(x, b) /\ b \in HandlerType
  BY ConsumeErrorKeeps DEF Keeps
<1>4. \/ y = AfterSend(x)
      \/ \E z \in Sent(x) : y = AfterSend(z)
      \/ \E z \in CallIfInput(b) : y = QueueRelease(z)
      \/ y = g
  <2>1. x.c.out > 0 \/ x.c.out = 0
    BY <1>1 DEF ConnType
  <2> QED
    BY <2>1 DEF HandleWrite
<1> HIDE DEF b, g
<1>5. ASSUME NEW z \in Sent(x) PROVE Keeps(x, AfterSend(z))
  <2>1. Keeps(x, z) /\ z \in HandlerType
    BY SentKeeps DEF Keeps
  <2> QED
    BY <2>1, AfterSendKeeps, KeepsTransitive
<1>6. ASSUME NEW z \in CallIfInput(b) PROVE Keeps(x, QueueRelease(z))
  <2>1. Keeps(b, z) /\ z \in HandlerType
    BY <1>3, CallIfInputKeeps DEF Keeps
  <2>2. Keeps(z, QueueRelease(z))
    BY <2>1, KeepsSelf
  <2> QED
    BY <1>3, <2>1, <2>2, KeepsTransitive
<1> QED
  BY <1>2, <1>4, <1>5, <1>6, AfterSendKeeps

\* HandleClose: the callback on the rest of the input, then the release.
LEMMA HandleCloseKeeps ==
  ASSUME NEW x \in HandlerType, NEW y \in HandleClose(x)
  PROVE  Keeps(x, y)
<1>1. PICK z \in CallIfInput(x) : y = QueueRelease(z)
  BY DEF HandleClose
<1>2. Keeps(x, z) /\ z \in HandlerType
  BY CallIfInputKeeps DEF Keeps
<1> QED
  BY <1>1, <1>2, KeepsSelf, KeepsTransitive

\* HandleEvent: a read, then one of write, close or nothing.
LEMMA HandleEventKeeps ==
  ASSUME NEW x \in HandlerType, NEW y \in HandleEvent(x)
  PROVE  Keeps(x, y)
<1>1. PICK z : /\ z \in HandleRead(x) \/ z = x
               /\ y \in HandleWrite(z) \/ y \in HandleClose(z) \/ y = z
  BY DEF HandleEvent
<1>2. Keeps(x, z) /\ z \in HandlerType
  BY <1>1, HandleReadKeeps, KeepsSelf DEF Keeps
<1>3. Keeps(z, y)
  BY <1>1, <1>2, HandleWriteKeeps, HandleCloseKeeps, KeepsSelf
<1> QED
  BY <1>2, <1>3, KeepsTransitive

-----------------------------------------------------------------------------
(* Type correctness.                                                       *)

\* A Connection object that has just been made.
LEMMA NewConnType == NewConn \in ConnType
BY DEF NewConn, ConnType

\* A released connection is out of the poller, without a timer.
LEMMA ReleasedType ==
  ASSUME NEW r \in ConnType
  PROVE  /\ Released(r) \in ConnType
         /\ Released(r).status = "DISCONNECTED"
         /\ Released(r).reg = FALSE /\ Released(r).timer = FALSE
         /\ Released(r).rev = r.rev
<1> DEFINE n == IF r.closes < 2 THEN r.closes + 1 ELSE r.closes
<1>1. n \in 0 .. 2
  BY DEF ConnType
<1> HIDE DEF n
<1>2. Released(r) = [r EXCEPT !.status = "DISCONNECTED", !.reg = FALSE,
                              !.timer = FALSE, !.closes = n]
  BY DEF Released, n
<1> QED
  BY <1>1, <1>2 DEF ConnType

\* The records that HandleConn hands to HandleEvent and takes back.
LEMMA HandleConnType ==
  ASSUME TypeOK, NEW l \in Loop, NEW c \in Conn,
         NEW x \in HandleEvent([c |-> conn[c], errno |-> errno[l], rel |-> 0,
                                signal |-> FALSE])
  PROVE  /\ x \in HandlerType
         /\ KeepsConn(conn[c], x.c)
         /\ [x.c EXCEPT !.rev = {}] \in ConnType
<1> DEFINE w == [c |-> conn[c], errno |-> errno[l], rel |-> 0, signal |-> FALSE]
<1>1. w \in HandlerType
  BY DEF TypeOK, HandlerType
<1>2. w.c = conn[c]
  OBVIOUS
<1> HIDE DEF w
<1>3. Keeps(w, x)
  BY <1>1, HandleEventKeeps DEF w
<1>4. x.c \in ConnType
  BY <1>3 DEF Keeps, KeepsConn
<1>5. [x.c EXCEPT !.rev = {}] \in ConnType
  BY <1>4 DEF ConnType
<1> QED
  BY <1>2, <1>3, <1>5 DEF Keeps

\* The queue of a loop after one more task.
LEMMA AppendType ==
  ASSUME NEW q \in [Loop -> Seq(TaskType)], NEW l \in Loop, NEW t \in TaskType
  PROVE  [q EXCEPT ![l] = Append(@, t)] \in [Loop -> Seq(TaskType)]
<1>1. Append(q[l], t) \in Seq(TaskType)
  OBVIOUS
<1> QED
  BY <1>1

\* The tasks that the handlers make.
LEMMA TaskIsType ==
  ASSUME NEW op \in Ops, NEW c \in Conn
  PROVE  Task(op, c) \in TaskType
BY DEF Task, TaskType

\* The event of a connection.
LEMMA HandleConnTypeOK ==
  ASSUME TypeOK, NEW l \in Loop, NEW c \in Conn, HandleConn(l, c)
  PROVE  TypeOK'
<1>1. PICK x \in HandleEvent([c |-> conn[c], errno |-> errno[l], rel |-> 0, signal |-> FALSE]) :
         /\ conn' = [conn EXCEPT ![c] = [x.c EXCEPT !.rev = {}]]
         /\ errno' = [errno EXCEPT ![l] = x.errno]
         /\ queue' = [queue EXCEPT ![l] = @ \o [i \in 1 .. x.rel |-> Task("release", c)]]
         /\ proc' = IF ~Alive(c) THEN "undefined" ELSE IF x.signal THEN "sigpipe" ELSE proc
  BY DEF HandleConn
<1>2. x \in HandlerType /\ [x.c EXCEPT !.rev = {}] \in ConnType
  BY HandleConnType
<1>3. conn' \in [Conn -> ConnType]
  BY <1>1, <1>2 DEF TypeOK
<1>4. errno' \in [Loop -> {"again", "other"}]
  BY <1>1, <1>2 DEF TypeOK, HandlerType
<1>5. queue' \in [Loop -> Seq(TaskType)]
  <2>1. Task("release", c) \in TaskType
    BY DEF Task, TaskType, Ops
  <2>2. x.rel \in Nat
    BY <1>2 DEF HandlerType
  <2>3. [i \in 1 .. x.rel |-> Task("release", c)] \in Seq(TaskType)
    BY <2>1, <2>2
  <2>4. queue[l] \o [i \in 1 .. x.rel |-> Task("release", c)] \in Seq(TaskType)
    BY <2>3 DEF TypeOK
  <2> QED
    BY <1>1, <2>4 DEF TypeOK
<1>6. proc' \in {"up", "abort", "sigpipe", "undefined"}
  BY <1>1 DEF TypeOK
<1>7. UNCHANGED <<backlog, serverVars, pc, pend, batch, held>>
  BY DEF HandleConn
<1> QED
  BY <1>3, <1>4, <1>5, <1>6, <1>7 DEF TypeOK, serverVars

\* The return of epoll_wait.
LEMMA PollTypeOK ==
  ASSUME TypeOK, NEW l \in Loop, Poll(l)
  PROVE  TypeOK'
<1>1. conn' \in [Conn -> ConnType]
  <2>1. ASSUME NEW c \in Conn PROVE [conn[c] EXCEPT !.rev = Revents(conn[c])] \in ConnType
    <3>1. conn[c] \in ConnType
      BY DEF TypeOK
    <3>2. Revents(conn[c]) \in SUBSET {"in", "out", "hup"}
      BY DEF Revents
    <3> QED
      BY <3>1, <3>2 DEF ConnType
  <2>2. conn' = [c \in Conn |-> IF c \in On(l) THEN [conn[c] EXCEPT !.rev = Revents(conn[c])]
                                               ELSE conn[c]]
    BY DEF Poll
  <2> QED
    BY <2>1, <2>2 DEF TypeOK
<1>2. /\ pend' \in [Loop -> SUBSET {"timerfd", "listen"}]
      /\ "listen" \in pend'[Base] => backlog > 0
  <2>1. PICK p \in SUBSET {"timerfd", "listen"} :
          /\ "listen" \in p <=> l = Base /\ backlog > 0
          /\ pend' = [pend EXCEPT ![l] = p]
    BY DEF Poll
  <2>2. pend \in [Loop -> SUBSET {"timerfd", "listen"}] /\ Base \in Loop
    BY ThreadNumAssumption DEF TypeOK, Base, Loop
  <2> QED
    BY <2>1, <2>2 DEF TypeOK
<1>3. pc' \in [Loop -> {"poll", "handle", "run"}]
  BY DEF TypeOK, Poll
<1>4. UNCHANGED <<backlog, serverVars, queue, batch, held, errno, proc>>
  BY DEF Poll
<1> QED
  BY <1>1, <1>2, <1>3, <1>4 DEF TypeOK, serverVars

\* The expiry of a timer.
LEMMA FireTimerTypeOK ==
  ASSUME TypeOK, NEW l \in Loop, NEW c \in Conn, FireTimer(l, c)
  PROVE  TypeOK'
<1>1. conn[c] \in ConnType
  BY DEF TypeOK
<1>2. [conn[c] EXCEPT !.timer = FALSE] \in ConnType
  BY <1>1 DEF ConnType
<1>3. conn' = [conn EXCEPT ![c] = [conn[c] EXCEPT !.timer = FALSE]]
  BY DEF FireTimer
<1>4. conn' \in [Conn -> ConnType]
  BY <1>2, <1>3 DEF TypeOK
<1>5. queue' \in [Loop -> Seq(TaskType)]
  BY AppendType, TaskIsType DEF TypeOK, FireTimer, Ops
<1>6. proc' \in {"up", "abort", "sigpipe", "undefined"}
  BY DEF TypeOK, FireTimer
<1>7. UNCHANGED <<backlog, serverVars, pc, pend, batch, held, errno>>
  BY DEF FireTimer
<1> QED
  BY <1>4, <1>5, <1>6, <1>7 DEF TypeOK, serverVars

\* The cycle of a loop: Ontime's return, the swap, the end of RunAllTask.
LEMMA CycleTypeOK ==
  ASSUME TypeOK, NEW l \in Loop, EndOntime(l) \/ SwapTasks(l) \/ EndBatch(l) \/ PollInterrupted(l)
  PROVE  TypeOK'
<1>1. CASE EndOntime(l)
  <2>1. /\ pend' \in [Loop -> SUBSET {"timerfd", "listen"}]
        /\ "listen" \in pend'[Base] => "listen" \in pend[Base]
    BY <1>1 DEF TypeOK, EndOntime
  <2> QED
    BY <1>1, <2>1 DEF TypeOK, serverVars, EndOntime
<1>2. CASE SwapTasks(l)
  <2>1. <<>> \in Seq(TaskType)
    BY EmptySeq
  <2>2. /\ batch' \in [Loop -> Seq(TaskType)] /\ queue' \in [Loop -> Seq(TaskType)]
        /\ pc' \in [Loop -> {"poll", "handle", "run"}]
    BY <1>2, <2>1 DEF TypeOK, SwapTasks
  <2> QED
    BY <1>2, <2>2 DEF TypeOK, serverVars, SwapTasks
<1>3. CASE EndBatch(l)
  <2>1. held' \in SUBSET Conn /\ pc' \in [Loop -> {"poll", "handle", "run"}]
    BY <1>3 DEF TypeOK, EndBatch
  <2> QED
    BY <1>3, <2>1 DEF TypeOK, serverVars, EndBatch
<1>4. CASE PollInterrupted(l)
  BY <1>4 DEF TypeOK, serverVars, PollInterrupted
<1> QED
  BY <1>1, <1>2, <1>3, <1>4

\* EnableInactiveReleaseInLoop.
LEMMA EnableType ==
  ASSUME TypeOK, NEW c \in Conn, EnableInactiveRelease(c)
  PROVE  /\ conn' \in [Conn -> ConnType]
         /\ proc' \in {"up", "abort", "sigpipe", "undefined"}
<1>1. [conn[c] EXCEPT !.timer = TRUE] \in ConnType
  <2>1. conn[c] \in ConnType
    BY DEF TypeOK
  <2> QED
    BY <2>1 DEF ConnType
<1>2. conn' = [conn EXCEPT ![c] = [conn[c] EXCEPT !.timer = TRUE]]
  BY DEF EnableInactiveRelease
<1>3. conn' \in [Conn -> ConnType]
  BY <1>1, <1>2 DEF TypeOK
<1> QED
  BY <1>3 DEF EnableInactiveRelease, TypeOK

\* EstablishInLoop.
LEMMA EstablishType ==
  ASSUME TypeOK, NEW c \in Conn, Establish(c)
  PROVE  /\ conn' \in [Conn -> ConnType]
         /\ proc' \in {"up", "abort", "sigpipe", "undefined"}
<1> DEFINE s == [conn[c] EXCEPT !.status = "CONNECTED", !.reg = TRUE]
<1>1. s \in ConnType
  <2>1. conn[c] \in ConnType
    BY DEF TypeOK
  <2> QED
    BY <2>1 DEF ConnType
<1>2. conn' = conn \/ conn' = [conn EXCEPT ![c] = s]
  BY DEF Establish
<1> HIDE DEF s
<1>3. conn' \in [Conn -> ConnType]
  BY <1>1, <1>2 DEF TypeOK
<1> QED
  BY <1>3 DEF Establish, TypeOK

\* ReleaseInLoop.
LEMMA ReleaseInLoopType ==
  ASSUME TypeOK, NEW l \in Loop, NEW c \in Conn, ReleaseInLoop(l, c)
  PROVE  /\ conn' \in [Conn -> ConnType]
         /\ proc' \in {"up", "abort", "sigpipe", "undefined"}
         /\ queue' \in [Loop -> Seq(TaskType)]
         /\ conns' \in SUBSET Conn
         /\ held' = held
<1>1. Released(conn[c]) \in ConnType
  BY ReleasedType DEF TypeOK
<1>2. conn' = [conn EXCEPT ![c] = Released(conn[c])]
  BY DEF ReleaseInLoop
<1>3. conn' \in [Conn -> ConnType]
  BY <1>1, <1>2 DEF TypeOK
<1>4. Base \in Loop
  BY ThreadNumAssumption DEF Base, Loop
<1>5. queue' \in [Loop -> Seq(TaskType)]
  <2>1. CASE l = Base
    BY <2>1 DEF ReleaseInLoop, TypeOK
  <2>2. CASE l # Base
    <3>1. queue' = [queue EXCEPT ![Base] = Append(@, Task("remove", c))]
      BY <2>2 DEF ReleaseInLoop
    <3>2. Task("remove", c) \in TaskType /\ queue \in [Loop -> Seq(TaskType)]
      BY TaskIsType DEF TypeOK, Ops
    <3> QED
      BY <1>4, <3>1, <3>2, AppendType
  <2> QED
    BY <2>1, <2>2
<1>6. /\ proc' \in {"up", "abort", "sigpipe", "undefined"}
      /\ conns' \in SUBSET Conn /\ held' = held
  BY DEF ReleaseInLoop, TypeOK
<1> QED
  BY <1>3, <1>5, <1>6

\* A task of any kind.
LEMMA RunTaskTypeOK ==
  ASSUME TypeOK, NEW l \in Loop, RunTask(l)
  PROVE  TypeOK'
<1> DEFINE t == Head(batch[l])
<1>1. /\ t \in TaskType
      /\ Tail(batch[l]) \in Seq(TaskType)
  BY HeadTailProperties DEF RunTask, TypeOK
<1>2. t.c \in Conn
  BY <1>1 DEF TaskType
<1>3. \/ EnableInactiveRelease(t.c) /\ UNCHANGED <<conns, queue, held>>
      \/ Establish(t.c) /\ UNCHANGED <<conns, queue, held>>
      \/ ReleaseInLoop(l, t.c)
      \/ RemoveConnection(t.c)
  BY DEF RunTask
<1>4. batch' \in [Loop -> Seq(TaskType)]
  BY <1>1 DEF RunTask, TypeOK
<1> HIDE DEF t
<1>5. /\ conn' \in [Conn -> ConnType]
      /\ proc' \in {"up", "abort", "sigpipe", "undefined"}
      /\ queue' \in [Loop -> Seq(TaskType)]
      /\ conns' \in SUBSET Conn /\ held' \in SUBSET Conn
  <2>1. CASE EnableInactiveRelease(t.c) /\ UNCHANGED <<conns, queue, held>>
    BY <1>2, <2>1, EnableType DEF TypeOK
  <2>2. CASE Establish(t.c) /\ UNCHANGED <<conns, queue, held>>
    BY <1>2, <2>2, EstablishType DEF TypeOK
  <2>3. CASE ReleaseInLoop(l, t.c)
    BY <1>2, <2>3, ReleaseInLoopType DEF TypeOK
  <2>4. CASE RemoveConnection(t.c)
    BY <1>2, <2>4 DEF RemoveConnection, TypeOK
  <2> QED
    BY <1>3, <2>1, <2>2, <2>3, <2>4
<1>6. UNCHANGED <<backlog, connId, loopIndex, loopOf, accepting, stage, pc, pend, errno>>
  BY DEF RunTask
<1> QED
  BY <1>4, <1>5, <1>6 DEF TypeOK

\* Acceptor::HandleRead, whether accept succeeds or fails.
LEMMA AcceptTypeOK ==
  ASSUME TypeOK, Accept \/ AcceptFails
  PROVE  TypeOK'
<1>1. Base \in Loop
  BY ThreadNumAssumption DEF Base, Loop
<1>2. /\ pend' \in [Loop -> SUBSET {"timerfd", "listen"}]
      /\ "listen" \notin pend'[Base]
  <2>1. pend' = [pend EXCEPT ![Base] = @ \ {"listen"}]
    BY DEF Accept, AcceptFails
  <2>2. pend \in [Loop -> SUBSET {"timerfd", "listen"}]
    BY DEF TypeOK
  <2> QED
    BY <1>1, <2>1, <2>2
<1>3. CASE Accept
  <2>1. backlog > 0
    BY <1>3 DEF TypeOK, Accept
  <2>2. connId + 1 \in Conn /\ backlog - 1 \in 0 .. MaxConn
    BY <2>1, MaxConnAssumption DEF TypeOK, Conn
  <2>3. NextIndex \in Nat /\ NextLoop \in Loop
    <3>1. CASE ThreadNum = 0
      BY <1>1, <3>1 DEF NextIndex, NextLoop
    <3>2. CASE ThreadNum # 0
      <4>1. loopIndex + 1 \in Nat /\ ThreadNum \in Nat \ {0}
        BY <3>2, ThreadNumAssumption DEF TypeOK
      <4>2. (loopIndex + 1) % ThreadNum \in 0 .. ThreadNum - 1
        BY <4>1
      <4> QED
        BY <3>2, <4>1, <4>2 DEF NextIndex, NextLoop, Loop
    <3> QED
      BY <3>1, <3>2
  <2>4. loopOf' \in [Conn -> Loop]
    BY <1>3, <2>3 DEF Accept, TypeOK
  <2>5. accepting' \in Conn /\ stage' \in {"enable", "establish"}
    BY <1>3, <2>2 DEF Accept
  <2>6. accepting' # 0
    BY <2>5 DEF Conn
  <2> QED
    BY <1>2, <1>3, <2>2, <2>3, <2>4, <2>5, <2>6 DEF Accept, TypeOK, Conn
<1>4. CASE AcceptFails
  <2>1. errno' \in [Loop -> {"again", "other"}]
    BY <1>4 DEF AcceptFails, TypeOK
  <2> QED
    BY <1>2, <1>4, <2>1 DEF AcceptFails, TypeOK, serverVars
<1> QED
  BY <1>3, <1>4

\* The statements of NewConnection.
LEMMA NewConnectionTypeOK ==
  ASSUME TypeOK, NewConnectionEnable \/ NewConnectionEstablish \/ NewConnectionInsert
  PROVE  TypeOK'
<1>1. stage # "idle" /\ accepting \in Conn
  BY DEF TypeOK, NewConnectionEnable, NewConnectionEstablish, NewConnectionInsert
<1>2. accepting # 0
  BY <1>1 DEF Conn
<1>3. loopOf[accepting] \in Loop
  BY <1>1 DEF TypeOK
<1>4. CASE NewConnectionEnable
  <2>1. queue' \in [Loop -> Seq(TaskType)]
    <3>1. CASE loopOf[accepting] = Base
      BY <1>4, <3>1 DEF NewConnectionEnable, RunFromBase, TypeOK
    <3>2. CASE loopOf[accepting] # Base
      <4>1. queue' = [queue EXCEPT ![loopOf[accepting]] = Append(@, Task("enable", accepting))]
        BY <1>4, <3>2 DEF NewConnectionEnable, RunFromBase
      <4>2. Task("enable", accepting) \in TaskType /\ queue \in [Loop -> Seq(TaskType)]
        BY <1>1, TaskIsType DEF TypeOK, Ops
      <4> QED
        BY <1>3, <4>1, <4>2, AppendType
    <3> QED
      BY <3>1, <3>2
  <2>2. /\ conn' \in [Conn -> ConnType]
        /\ proc' \in {"up", "abort", "sigpipe", "undefined"}
    BY <1>1, <1>4, EnableType DEF NewConnectionEnable, RunFromBase, TypeOK
  <2> QED
    BY <1>2, <1>4, <2>1, <2>2 DEF NewConnectionEnable, TypeOK
<1>5. CASE NewConnectionEstablish
  <2>1. queue' \in [Loop -> Seq(TaskType)]
    <3>1. CASE loopOf[accepting] = Base
      BY <1>5, <3>1 DEF NewConnectionEstablish, RunFromBase, TypeOK
    <3>2. CASE loopOf[accepting] # Base
      <4>1. queue' = [queue EXCEPT ![loopOf[accepting]] = Append(@, Task("establish", accepting))]
        BY <1>5, <3>2 DEF NewConnectionEstablish, RunFromBase
      <4>2. Task("establish", accepting) \in TaskType /\ queue \in [Loop -> Seq(TaskType)]
        BY <1>1, TaskIsType DEF TypeOK, Ops
      <4> QED
        BY <1>3, <4>1, <4>2, AppendType
    <3> QED
      BY <3>1, <3>2
  <2>2. /\ conn' \in [Conn -> ConnType]
        /\ proc' \in {"up", "abort", "sigpipe", "undefined"}
    BY <1>1, <1>5, EstablishType DEF NewConnectionEstablish, RunFromBase, TypeOK
  <2> QED
    BY <1>2, <1>5, <2>1, <2>2 DEF NewConnectionEstablish, TypeOK
<1>6. CASE NewConnectionInsert
  BY <1>1, <1>6 DEF NewConnectionInsert, TypeOK, loopVars
<1> QED
  BY <1>4, <1>5, <1>6

\* The clients and the network.
LEMMA ClientTypeOK ==
  ASSUME TypeOK, Connect \/ \E c \in Conn : Client(c)
  PROVE  TypeOK'
<1>1. CASE Connect
  BY <1>1, MaxConnAssumption DEF Connect, TypeOK, serverVars, loopVars
<1>2. ASSUME NEW c \in Conn, Client(c)
      PROVE  TypeOK'
  <2>1. conn[c] \in ConnType
    BY DEF TypeOK
  <2>2. conn[c].rcv + 1 \in Nat
    BY <2>1 DEF ConnType
  <2>3. /\ [conn[c] EXCEPT !.rcv = conn[c].rcv + 1] \in ConnType
        /\ [conn[c] EXCEPT !.full = FALSE] \in ConnType
        /\ [conn[c] EXCEPT !.peer = "fin"] \in ConnType
        /\ [conn[c] EXCEPT !.err = TRUE, !.peer = "finrst"] \in ConnType
        /\ [conn[c] EXCEPT !.err = TRUE, !.peer = "rst"] \in ConnType
    BY <2>1, <2>2 DEF ConnType
  <2>4. PICK r \in ConnType : ClientStep(c, r)
    BY <1>2, <2>3 DEF Client, ClientSends, ClientReads, ClientCloses, ConnectionReset
  <2>5. conn' \in [Conn -> ConnType]
    BY <2>4 DEF ClientStep, TypeOK
  <2> QED
    BY <2>4, <2>5 DEF ClientStep, TypeOK, serverVars, loopVars
<1> QED
  BY <1>1, <1>2

\* The variables keep their types.
THEOREM TypeCorrect == Safe => []TypeOK
<1>1. Init => TypeOK
  <2>1. <<>> \in Seq(TaskType) /\ Base \in Loop
    BY EmptySeq, ThreadNumAssumption DEF Base, Loop
  <2> QED
    BY <2>1, NewConnType, MaxConnAssumption DEF Init, TypeOK
<1>2. TypeOK /\ [Next]_vars => TypeOK'
  <2> SUFFICES ASSUME TypeOK, [Next]_vars PROVE TypeOK'
    OBVIOUS
  <2>1. CASE UNCHANGED vars
    BY <2>1 DEF TypeOK, vars, serverVars, loopVars
  <2>2. CASE Next
    BY <2>2, PollTypeOK, HandleConnTypeOK, FireTimerTypeOK, CycleTypeOK, RunTaskTypeOK,
       AcceptTypeOK, NewConnectionTypeOK, ClientTypeOK DEF Next, LoopStep
  <2> QED
    BY <2>1, <2>2
<1> QED
  BY <1>1, <1>2, PTL DEF Safe

-----------------------------------------------------------------------------
(* Output is never stranded.                                               *)

WaitsForOutput(r) == r.out > 0 => r.want

\* What the server itself keeps of a connection is unchanged.
SameServer(r, s) ==
    /\ s.status = r.status /\ s.reg = r.reg /\ s.timer = r.timer /\ s.rev = r.rev
    /\ s.closes = r.closes /\ s.out = r.out /\ s.want = r.want

\* A client only changes what has arrived and what the socket can take, and only
\* on a connection that the server has not closed.
LEMMA ClientKeepsServer ==
  ASSUME TypeOK, NEW c \in Conn, Client(c), NEW d \in Conn
  PROVE  SameServer(conn[d], conn'[d])
<1>1. conn \in [Conn -> ConnType] /\ conn[c] \in ConnType
  BY DEF TypeOK
<1>2. /\ SameServer(conn[c], [conn[c] EXCEPT !.rcv = conn[c].rcv + 1])
      /\ SameServer(conn[c], [conn[c] EXCEPT !.full = FALSE])
      /\ SameServer(conn[c], [conn[c] EXCEPT !.peer = "fin"])
      /\ SameServer(conn[c], [conn[c] EXCEPT !.err = TRUE,
                                             !.peer = IF @ = "fin" THEN "finrst" ELSE "rst"])
  BY <1>1 DEF SameServer, ConnType
<1>3. PICK r : SameServer(conn[c], r) /\ conn' = [conn EXCEPT ![c] = r]
  BY <1>2 DEF Client, ClientSends, ClientReads, ClientCloses, ConnectionReset, ClientStep
<1> QED
  BY <1>1, <1>3 DEF SameServer

\* The task that RunTask takes is one.
LEMMA HeadTask ==
  ASSUME TypeOK, NEW l \in Loop, RunTask(l)
  PROVE  Head(batch[l]) \in TaskType /\ Head(batch[l]).c \in Conn
<1>1. batch[l] \in Seq(TaskType) /\ batch[l] # <<>>
  BY DEF RunTask, TypeOK
<1>2. Head(batch[l]) \in TaskType
  BY <1>1, HeadTailProperties
<1> QED
  BY <1>2 DEF TaskType

\* A step keeps a connection with output waiting for EPOLLOUT.
LEMMA StepKeepsOutput ==
  ASSUME TypeOK, [Next]_vars, NEW d \in Conn, WaitsForOutput(conn[d])
  PROVE  WaitsForOutput(conn'[d])
<1>1. conn \in [Conn -> ConnType] /\ conn[d] \in ConnType
  BY DEF TypeOK
<1>2. ASSUME conn'[d].out = conn[d].out, conn'[d].want = conn[d].want
      PROVE  WaitsForOutput(conn'[d])
  BY <1>2 DEF WaitsForOutput
<1>3. ASSUME conn' = conn
       PROVE  WaitsForOutput(conn'[d])
  BY <1>2, <1>3
<1>4. ASSUME NEW l \in Loop, NEW c \in Conn, HandleConn(l, c)
      PROVE  WaitsForOutput(conn'[d])
  <2>1. PICK x \in HandleEvent([c |-> conn[c], errno |-> errno[l], rel |-> 0, signal |-> FALSE]) :
           conn' = [conn EXCEPT ![c] = [x.c EXCEPT !.rev = {}]]
    BY <1>4 DEF HandleConn
  <2>2. KeepsConn(conn[c], x.c) /\ x.c \in ConnType
    BY HandleConnType DEF KeepsConn
  <2>3. [x.c EXCEPT !.rev = {}].out = x.c.out /\ [x.c EXCEPT !.rev = {}].want = x.c.want
    BY <2>2 DEF ConnType
  <2>4. CASE c = d
    BY <1>1, <2>1, <2>2, <2>3, <2>4 DEF KeepsConn, WaitsForOutput
  <2>5. CASE c # d
    BY <1>1, <1>2, <2>1, <2>5
  <2> QED
    BY <2>4, <2>5
<1>5. ASSUME NEW l \in Loop, Poll(l)
      PROVE  WaitsForOutput(conn'[d])
  BY <1>1, <1>2, <1>5 DEF Poll, ConnType
<1>6. ASSUME NEW l \in Loop, NEW c \in Conn, FireTimer(l, c)
      PROVE  WaitsForOutput(conn'[d])
  BY <1>1, <1>2, <1>6 DEF FireTimer, ConnType
<1>7. ASSUME NEW c \in Conn, EnableInactiveRelease(c) \/ Establish(c)
      PROVE  WaitsForOutput(conn'[d])
  <2>1. conn' = conn \/ \E b \in BOOLEAN : conn' = [conn EXCEPT ![c].timer = b]
        \/ conn' = [conn EXCEPT ![c].status = "CONNECTED", ![c].reg = TRUE]
    BY <1>7 DEF EnableInactiveRelease, Establish
  <2> QED
    BY <1>1, <1>2, <2>1 DEF ConnType
<1>8. ASSUME NEW l \in Loop, NEW c \in Conn, ReleaseInLoop(l, c)
      PROVE  WaitsForOutput(conn'[d])
  BY <1>1, <1>2, <1>8 DEF ReleaseInLoop, Released, ConnType
<1>9. ASSUME NEW c \in Conn, Client(c)
      PROVE  WaitsForOutput(conn'[d])
  BY <1>2, <1>9, ClientKeepsServer DEF SameServer
<1>10. ASSUME NEW l \in Loop, RunTask(l)
      PROVE  WaitsForOutput(conn'[d])
  <2>1. Head(batch[l]).c \in Conn
    BY <1>10, HeadTask
  <2> QED
    BY <1>7, <1>8, <1>10, <1>3, <2>1 DEF RunTask, RemoveConnection
<1>11. ASSUME NewConnectionEnable \/ NewConnectionEstablish
       PROVE  WaitsForOutput(conn'[d])
  <2>1. accepting \in Conn
    BY <1>11 DEF TypeOK, NewConnectionEnable, NewConnectionEstablish
  <2> QED
    BY <1>2, <1>7, <1>11, <2>1 DEF NewConnectionEnable, NewConnectionEstablish, RunFromBase
<1>12. CASE UNCHANGED vars
  BY <1>3, <1>12 DEF vars
<1>13. CASE Next
  <2>1. ASSUME NEW l \in Loop, EndOntime(l) \/ SwapTasks(l) \/ EndBatch(l) \/ PollInterrupted(l)
        PROVE  conn' = conn
    BY <2>1 DEF EndOntime, SwapTasks, EndBatch, PollInterrupted
  <2>2. ASSUME AcceptFails \/ Accept \/ NewConnectionInsert \/ Connect
        PROVE  conn' = conn
    BY <2>2 DEF AcceptFails, Accept, NewConnectionInsert, Connect
  <2> QED
    BY <1>4, <1>5, <1>6, <1>9, <1>10, <1>11, <1>3, <1>13, <2>1, <2>2 DEF Next, LoopStep
<1> QED
  BY <1>12, <1>13

\* A connection in the poller with output in its buffer waits for EPOLLOUT, whatever
\* its status, the faults and the interleaving.
THEOREM OutputNotStranded == Safe => []NoStrandedOutput
<1> DEFINE O == \A c \in Conn : WaitsForOutput(conn[c])
<1>1. Init => O
  BY DEF Init, NewConn, WaitsForOutput
<1>2. O /\ TypeOK /\ [Next]_vars => O'
  BY StepKeepsOutput
<1>3. O => NoStrandedOutput
  BY DEF NoStrandedOutput, WaitsForOutput
<1> QED
  BY <1>1, <1>2, <1>3, TypeCorrect, PTL DEF Safe

-----------------------------------------------------------------------------
(* The inductive invariant of the life of a connection.                    *)

\* No event and no timer has touched the connection.
Untouched(r) == r.status = "CONNECTING" /\ ~r.reg /\ ~r.timer

ConnOK(c) ==
    /\ conn[c].reg => conn[c].status \in {"CONNECTED", "DISCONNECTING"}
    /\ conn[c].rev # {} => conn[c].reg /\ pc[loopOf[c]] = "handle"
    /\ conn[c].timer => conn[c].status # "DISCONNECTED"
    /\ conn[c].status # "DISCONNECTED" /\ c <= connId => c \in conns \/ c = accepting
    /\ connId < c => Untouched(conn[c])

AcceptOK ==
    /\ accepting <= connId
    /\ stage = "enable" => Untouched(conn[accepting])

\* A task of loop l is about a connection of that loop, or removes a released
\* one; a connection whose timer is still to be armed is untouched.
TaskOK(l, t) ==
    /\ t.c <= connId
    /\ t.op = "remove" => l = Base /\ conn[t.c].status = "DISCONNECTED"
    /\ t.op # "remove" => loopOf[t.c] = l
    /\ t.op \in {"enable", "establish"} => l # Base
    /\ t.op = "enable" => Untouched(conn[t.c])
    /\ ~(stage = "enable" /\ t.c = accepting)

TasksOK(l, s) == \A i \in DOMAIN s : TaskOK(l, s[i])

\* The enabling of a connection's timer precedes its other tasks, which until
\* then are at most its establishment.
Touches(t, u) == t.op = "enable" /\ u.op # "remove" /\ u.c = t.c

EnableFirst(s) ==
    \A i, j \in DOMAIN s :
        Touches(s[i], s[j]) => i = j \/ (i < j /\ s[j].op = "establish")

EnableAhead(s, r) ==
    \A i \in DOMAIN s, j \in DOMAIN r :
        /\ Touches(s[i], r[j]) => r[j].op = "establish"
        /\ ~Touches(r[j], s[i])

LoopOK(l) ==
    /\ pc[l] # "run" => batch[l] = <<>>
    /\ TasksOK(l, batch[l]) /\ TasksOK(l, queue[l])
    /\ EnableFirst(batch[l]) /\ EnableFirst(queue[l])
    /\ EnableAhead(batch[l], queue[l])

Life == AcceptOK /\ (\A c \in Conn : ConnOK(c)) /\ (\A l \in Loop : LoopOK(l))

Inv == proc = "up" => Life

(* Sequences of tasks.                                                     *)

\* The tasks of a sequence are tasks.
LEMMA TasksHaveType ==
  ASSUME NEW s \in Seq(TaskType), NEW i \in DOMAIN s
  PROVE  s[i] \in TaskType /\ s[i].c \in Conn
<1>1. s[i] \in TaskType
  OBVIOUS
<1> QED
  BY <1>1 DEF TaskType

\* A task put behind others that it may follow.
LEMMA AppendEnableFirst ==
  ASSUME NEW s \in Seq(TaskType), NEW t \in TaskType, EnableFirst(s),
         \A i \in DOMAIN s : /\ Touches(s[i], t) => t.op = "establish"
                             /\ ~Touches(t, s[i])
  PROVE  EnableFirst(Append(s, t))
<1> DEFINE a == Append(s, t)
<1>1. /\ DOMAIN a = 1 .. Len(s) + 1 /\ DOMAIN s = 1 .. Len(s) /\ Len(s) \in Nat
      /\ \A i \in DOMAIN s : a[i] = s[i]
      /\ a[Len(s) + 1] = t
  OBVIOUS
<1> HIDE DEF a
<1> SUFFICES ASSUME NEW i \in DOMAIN a, NEW j \in DOMAIN a, Touches(a[i], a[j]), i # j
             PROVE  i < j /\ a[j].op = "establish"
  BY DEF EnableFirst, a
<1>2. CASE i \in DOMAIN s /\ j \in DOMAIN s
  BY <1>1, <1>2 DEF EnableFirst
<1>3. CASE i \in DOMAIN s /\ j = Len(s) + 1
  BY <1>1, <1>3
<1>4. CASE i = Len(s) + 1 /\ j \in DOMAIN s
  BY <1>1, <1>4
<1> QED
  BY <1>1, <1>2, <1>3, <1>4

\* The same for a task put behind those of the batch and of the queue.
LEMMA AppendEnableAhead ==
  ASSUME NEW b \in Seq(TaskType), NEW s \in Seq(TaskType), NEW t \in TaskType,
         EnableAhead(b, s),
         \A i \in DOMAIN b : /\ Touches(b[i], t) => t.op = "establish"
                             /\ ~Touches(t, b[i])
  PROVE  EnableAhead(b, Append(s, t))
<1> DEFINE a == Append(s, t)
<1>1. /\ DOMAIN a = 1 .. Len(s) + 1 /\ DOMAIN s = 1 .. Len(s) /\ Len(s) \in Nat
      /\ \A i \in DOMAIN s : a[i] = s[i]
      /\ a[Len(s) + 1] = t
  OBVIOUS
<1> HIDE DEF a
<1>2. \A j \in DOMAIN a : j \in DOMAIN s \/ j = Len(s) + 1
  BY <1>1
<1>3. EnableAhead(b, a)
  BY <1>1, <1>2 DEF EnableAhead
<1> QED
  BY <1>3 DEF a

Releases(n, c) == [i \in 1 .. n |-> Task("release", c)]

\* n tasks, all the same.
LEMMA ReleasesSeq ==
  ASSUME NEW n \in Nat, NEW c \in Conn
  PROVE  /\ Releases(n, c) \in Seq(TaskType) /\ Len(Releases(n, c)) = n
         /\ \A i \in 1 .. n : Releases(n, c)[i] = Task("release", c)
<1>1. Task("release", c) \in TaskType
  BY DEF Task, TaskType, Ops
<1> QED
  BY <1>1 DEF Releases

\* Append is one of them.
LEMMA AppendRelease ==
  ASSUME NEW s \in Seq(TaskType), NEW c \in Conn
  PROVE  Append(s, Task("release", c)) = s \o Releases(1, c)
<1> DEFINE t == Task("release", c)  a == Append(s, t)
<1>1. t \in TaskType
  BY TaskIsType DEF Ops
<1>2. PICK z \in Seq(TaskType) : z = Releases(1, c) /\ Len(z) = 1 /\ z[1] = t
  <2>1. /\ Releases(1, c) \in Seq(TaskType) /\ Len(Releases(1, c)) = 1
        /\ \A i \in 1 .. 1 : Releases(1, c)[i] = Task("release", c)
    BY ReleasesSeq
  <2>2. Releases(1, c)[1] = t
    BY <2>1
  <2> HIDE DEF t
  <2> QED
    BY <2>1, <2>2
<1> HIDE DEF t
<1>3. /\ a \in Seq(TaskType) /\ Len(a) = Len(s) + 1 /\ Len(s) \in Nat
      /\ \A i \in 1 .. Len(s) : a[i] = s[i]
      /\ a[Len(s) + 1] = t
  BY <1>1
<1>4. /\ s \o z \in Seq(TaskType) /\ Len(s \o z) = Len(s) + 1
      /\ \A i \in 1 .. Len(s) : (s \o z)[i] = s[i]
      /\ (s \o z)[Len(s) + 1] = t
  <2>1. Len(s) \in Nat /\ Len(z) = 1
    BY <1>2
  <2> QED
    BY <1>2, <2>1, ConcatProperties
<1> HIDE DEF a
<1>5. \A i \in 1 .. Len(a) : a[i] = (s \o z)[i]
  BY <1>3, <1>4
<1>6. a = s \o z
  BY <1>3, <1>4, <1>5, SeqEqual
<1> QED
  BY <1>2, <1>6 DEF a, t

\* What holds of a queue s behind a batch b once the releases are put behind it.
AfterReleases(b, s, n, c) ==
    LET r == s \o Releases(n, c)
    IN  /\ EnableFirst(r) /\ EnableAhead(b, r)
        /\ \A i \in DOMAIN r : r[i] = Task("release", c) \/ \E j \in DOMAIN s : r[i] = s[j]

\* The releases that one HandleEvent queues, behind tasks that do not touch them.
LEMMA ReleasesEnable ==
  ASSUME NEW b \in Seq(TaskType), NEW s \in Seq(TaskType), NEW n \in Nat, NEW c \in Conn,
         EnableFirst(s), EnableAhead(b, s),
         \A i \in DOMAIN b : ~Touches(b[i], Task("release", c)),
         \A i \in DOMAIN s : ~Touches(s[i], Task("release", c))
  PROVE  AfterReleases(b, s, n, c)
<1> DEFINE k == Len(s)  t == Task("release", c)  r == s \o Releases(n, c)
<1>1. /\ DOMAIN r = 1 .. k + n /\ DOMAIN s = 1 .. k /\ k \in Nat
      /\ \A i \in DOMAIN s : r[i] = s[i]
      /\ \A i \in DOMAIN r : i \notin DOMAIN s => r[i] = t
  <2>1. PICK z \in Seq(TaskType) : z = Releases(n, c) /\ Len(z) = n /\ \A i \in 1 .. n : z[i] = t
    BY ReleasesSeq
  <2>2. r = s \o z
    BY <2>1
  <2> HIDE DEF t
  <2> QED
    BY <2>1, <2>2
<1>2. \A u : ~Touches(t, u)
  BY DEF Touches, Task
<1> HIDE DEF t, k, r
<1>3. EnableFirst(r)
  <2> SUFFICES ASSUME NEW i \in DOMAIN r, NEW j \in DOMAIN r, Touches(r[i], r[j])
               PROVE  i = j \/ (i < j /\ r[j].op = "establish")
    BY DEF EnableFirst
  <2>1. i \in DOMAIN s
    BY <1>1, <1>2
  <2>2. j \in DOMAIN s
    BY <1>1, <2>1 DEF t
  <2> QED
    BY <1>1, <2>1, <2>2 DEF EnableFirst
<1>4. EnableAhead(b, r)
  <2> SUFFICES ASSUME NEW i \in DOMAIN b, NEW j \in DOMAIN r
               PROVE  (Touches(b[i], r[j]) => r[j].op = "establish") /\ ~Touches(r[j], b[i])
    BY DEF EnableAhead
  <2>1. CASE j \in DOMAIN s
    BY <1>1, <2>1 DEF EnableAhead
  <2>2. CASE j \notin DOMAIN s
    BY <1>1, <1>2, <2>2 DEF t
  <2> QED
    BY <2>1, <2>2
<1> QED
  BY <1>1, <1>3, <1>4 DEF t, r, AfterReleases

\* What holds of the rest of a batch b before a queue s once its first task is taken.
AfterTail(b, s) ==
    LET t == Head(b)
        r == Tail(b)
    IN  /\ EnableFirst(r) /\ EnableAhead(r, s)
        /\ \A i \in DOMAIN r : ~Touches(r[i], t)
        /\ \A i \in DOMAIN s : ~Touches(s[i], t)
        /\ \A i \in DOMAIN r : \E j \in DOMAIN b : r[i] = b[j]

\* The first task taken off a batch: no other task enables its connection.
LEMMA TailEnable ==
  ASSUME NEW b \in Seq(TaskType), NEW s \in Seq(TaskType), b # <<>>,
         EnableFirst(b), EnableAhead(b, s)
  PROVE  AfterTail(b, s)
<1> DEFINE t == Head(b)  r == Tail(b)
<1>1. /\ Len(b) \in Nat \ {0} /\ DOMAIN b = 1 .. Len(b) /\ DOMAIN r = 1 .. Len(b) - 1
      /\ \A i \in DOMAIN r : i + 1 \in DOMAIN b /\ r[i] = b[i + 1]
      /\ t = b[1] /\ 1 \in DOMAIN b
  OBVIOUS
<1> HIDE DEF t, r
<1>2. EnableFirst(r)
  <2> SUFFICES ASSUME NEW i \in DOMAIN r, NEW j \in DOMAIN r, Touches(r[i], r[j])
               PROVE  i = j \/ (i < j /\ r[j].op = "establish")
    BY DEF EnableFirst
  <2>1. i + 1 = j + 1 \/ (i + 1 < j + 1 /\ r[j].op = "establish")
    BY <1>1 DEF EnableFirst
  <2> QED
    BY <1>1, <2>1
<1>3. EnableAhead(r, s)
  BY <1>1 DEF EnableAhead
<1>4. ASSUME NEW i \in DOMAIN r, Touches(r[i], t) PROVE FALSE
  <2>1. i + 1 = 1 \/ i + 1 < 1
    BY <1>1, <1>4 DEF EnableFirst
  <2> QED
    BY <1>1, <2>1
<1>5. \A i \in DOMAIN s : ~Touches(s[i], t)
  BY <1>1 DEF EnableAhead
<1> QED
  BY <1>1, <1>2, <1>3, <1>4, <1>5 DEF AfterTail, t, r

-----------------------------------------------------------------------------
(* The steps.                                                              *)

\* The fields of a connection that its life depends on.
SameLife(r, s) == s.status = r.status /\ s.reg = r.reg /\ s.timer = r.timer

\* A step that moves no task and changes no connection but for the events
\* reported: the invariant depends on these and on where the loops are.
LEMMA QuietLife ==
  ASSUME TypeOK, Life,
         UNCHANGED <<connId, loopOf, conns, accepting, stage, queue, batch>>,
         \A c \in Conn : /\ SameLife(conn[c], conn'[c])
                         /\ conn'[c].rev # {} => conn[c].reg /\ pc'[loopOf[c]] = "handle",
         \A l \in Loop : pc'[l] # "run" => batch[l] = <<>>
  PROVE  Life'
<1>1. AcceptOK'
  <2>1. stage = "enable" => accepting \in Conn
    BY DEF TypeOK
  <2> QED
    BY <2>1 DEF Life, AcceptOK, Untouched, SameLife
<1>2. ASSUME NEW c \in Conn PROVE ConnOK(c)'
  BY DEF Life, ConnOK, Untouched, SameLife
<1>3. ASSUME NEW l \in Loop PROVE LoopOK(l)'
  <2>1. LoopOK(l) /\ batch[l] \in Seq(TaskType) /\ queue[l] \in Seq(TaskType)
    BY DEF Life, TypeOK
  <2>2. ASSUME NEW s \in Seq(TaskType), TasksOK(l, s) PROVE TasksOK(l, s)'
    <3>1. \A i \in DOMAIN s : s[i].c \in Conn
      BY TasksHaveType
    <3> QED
      BY <2>2, <3>1 DEF TasksOK, TaskOK, Untouched, SameLife
  <2>3. TasksOK(l, batch[l])' /\ TasksOK(l, queue[l])'
    BY <2>1, <2>2 DEF LoopOK
  <2> QED
    BY <2>1, <2>3 DEF LoopOK
<1> QED
  BY <1>1, <1>2, <1>3 DEF Life

\* A step of loop l that changes one connection of it, which an event or a timer has
\* already touched, and queues n releases of it.
LEMMA ReleasesLife ==
  ASSUME TypeOK, Life, NEW l \in Loop, NEW c \in Conn, NEW r \in ConnType, NEW n \in Nat,
         c <= connId, loopOf[c] = l, ~Untouched(conn[c]),
         conn' = [conn EXCEPT ![c] = r],
         queue' = [queue EXCEPT ![l] = @ \o Releases(n, c)],
         UNCHANGED <<batch, pc, connId, loopOf, conns, accepting, stage>>,
         r.rev # {} => conn[c].rev # {}, r.reg = conn[c].reg, r.timer => conn[c].timer,
         r.status = conn[c].status \/ (r.status = "DISCONNECTING" /\ conn[c].reg)
  PROVE  Life'
<1>1. conn \in [Conn -> ConnType] /\ queue \in [Loop -> Seq(TaskType)]
  BY DEF TypeOK
<1>2. conn'[c] = r /\ \A d \in Conn : d # c => conn'[d] = conn[d]
  BY <1>1
<1>3. AcceptOK'
  <2>1. stage = "enable" => accepting \in Conn /\ accepting # c
    BY DEF TypeOK, Life, AcceptOK
  <2> QED
    BY <1>2, <2>1 DEF Life, AcceptOK, Untouched
<1>4. ASSUME NEW d \in Conn PROVE ConnOK(d)'
  <2>1. ConnOK(d)
    BY DEF Life
  <2>2. CASE d = c
    BY <1>2, <2>1, <2>2 DEF ConnOK, Untouched
  <2>3. CASE d # c
    BY <1>2, <2>1, <2>3 DEF ConnOK, Untouched
  <2> QED
    BY <2>2, <2>3
<1>5. ASSUME NEW k \in Loop, NEW t \in TaskType, TaskOK(k, t)
      PROVE  TaskOK(k, t)' /\ ~Touches(t, Task("release", c))
  <2>1. t.c \in Conn
    BY DEF TaskType
  <2>2. t.op \in {"enable", "remove"} /\ t.c = c => t.op = "remove" /\ conn[c].status = "DISCONNECTED"
    BY <1>5 DEF TaskOK
  <2>3. conn[c].status = "DISCONNECTED" => r.status = "DISCONNECTED"
    BY DEF Life, ConnOK
  <2> QED
    BY <1>2, <1>5, <2>1, <2>2, <2>3 DEF TaskOK, Touches, Task
<1>6. ASSUME NEW k \in Loop PROVE LoopOK(k)'
  <2> PICK b \in Seq(TaskType), q \in Seq(TaskType) : b = batch[k] /\ q = queue[k]
    BY DEF TypeOK
  <2>1. LoopOK(k)
    BY DEF Life
  <2>2. ASSUME NEW s \in Seq(TaskType), TasksOK(k, s)
        PROVE  TasksOK(k, s)' /\ \A i \in DOMAIN s : ~Touches(s[i], Task("release", c))
    BY <1>5, <2>2, TasksHaveType DEF TasksOK
  <2>3. CASE k # l
    <3>1. queue'[k] = q
      BY <1>1, <2>3
    <3> QED
      BY <2>1, <2>2, <3>1 DEF LoopOK
  <2>4. CASE k = l
    <3> DEFINE a == q \o Releases(n, c)
    <3>1. queue'[k] = a
      BY <1>1, <2>4
    <3>2. TaskOK(k, Task("release", c))'
      BY <1>3, <2>4 DEF TaskOK, Task, Life, AcceptOK
    <3>3. /\ TasksOK(k, b)' /\ TasksOK(k, q)'
          /\ EnableFirst(q) /\ EnableAhead(b, q)
          /\ \A i \in DOMAIN b : ~Touches(b[i], Task("release", c))
          /\ \A i \in DOMAIN q : ~Touches(q[i], Task("release", c))
      BY <2>1, <2>2 DEF LoopOK
    <3>4. AfterReleases(b, q, n, c)
      BY <3>3, ReleasesEnable
    <3>5. /\ EnableFirst(a) /\ EnableAhead(b, a)
          /\ \A i \in DOMAIN a : a[i] = Task("release", c) \/ \E j \in DOMAIN q : a[i] = q[j]
      BY <3>4 DEF AfterReleases
    <3> HIDE DEF a
    <3>6. TasksOK(k, a)'
      BY <3>2, <3>3, <3>5 DEF TasksOK
    <3> QED
      BY <2>1, <3>1, <3>3, <3>5, <3>6 DEF LoopOK
  <2> QED
    BY <2>3, <2>4
<1> QED
  BY <1>3, <1>4, <1>6 DEF Life

\* An event.
LEMMA HandleConnLife ==
  ASSUME TypeOK, Life, NEW l \in Loop, NEW c \in Conn, HandleConn(l, c)
  PROVE  Life'
<1>1. PICK x \in HandleEvent([c |-> conn[c], errno |-> errno[l], rel |-> 0, signal |-> FALSE]) :
         /\ conn' = [conn EXCEPT ![c] = [x.c EXCEPT !.rev = {}]]
         /\ queue' = [queue EXCEPT ![l] = @ \o Releases(x.rel, c)]
  BY DEF HandleConn, Releases
<1> DEFINE r == [x.c EXCEPT !.rev = {}]
<1>2. /\ x.rel \in Nat /\ r \in ConnType
      /\ KeepsConn(conn[c], x.c) /\ x.c \in ConnType
  BY HandleConnType DEF HandlerType, KeepsConn
<1>3. /\ r.rev = {} /\ r.reg = conn[c].reg /\ r.timer = conn[c].timer
      /\ r.status \in {conn[c].status, "DISCONNECTING"}
  BY <1>2 DEF KeepsConn, ConnType
<1>4. c <= connId /\ loopOf[c] = l /\ conn[c].reg
  BY DEF HandleConn, On, Life, ConnOK
<1>5. ~Untouched(conn[c])
  BY <1>4 DEF Untouched
<1>6. UNCHANGED <<batch, pc, connId, loopOf, conns, accepting, stage>>
  BY DEF HandleConn, serverVars
<1>7. conn' = [conn EXCEPT ![c] = r]
  BY <1>1
<1> HIDE DEF r
<1> QED
  BY <1>1, <1>2, <1>3, <1>4, <1>5, <1>6, <1>7, ReleasesLife

\* A timer.
LEMMA FireTimerLife ==
  ASSUME TypeOK, Life, NEW l \in Loop, NEW c \in Conn, FireTimer(l, c)
  PROVE  Life'
<1> DEFINE r == [conn[c] EXCEPT !.timer = FALSE]
<1>1. conn[c] \in ConnType
  BY DEF TypeOK
<1>2. /\ r \in ConnType /\ r.rev = conn[c].rev /\ r.reg = conn[c].reg
      /\ r.timer = FALSE /\ r.status = conn[c].status
  BY <1>1 DEF ConnType
<1>3. conn' = [conn EXCEPT ![c] = r]
  BY DEF FireTimer
<1>4. queue' = [queue EXCEPT ![l] = @ \o Releases(1, c)]
  <2>1. queue[l] \in Seq(TaskType) /\ Task("release", c) \in TaskType
    BY TaskIsType DEF TypeOK, Ops
  <2> QED
    BY <2>1, AppendRelease DEF FireTimer
<1>5. c <= connId /\ loopOf[c] = l /\ ~Untouched(conn[c])
  BY DEF FireTimer, On, Untouched
<1>6. UNCHANGED <<batch, pc, connId, loopOf, conns, accepting, stage>>
  BY DEF FireTimer, serverVars
<1> HIDE DEF r
<1> QED
  BY <1>2, <1>3, <1>4, <1>5, <1>6, ReleasesLife

\* The tasks of a loop become its batch.
LEMMA SwapTasksLife ==
  ASSUME TypeOK, Life, NEW l \in Loop, SwapTasks(l)
  PROVE  Life'
<1>1. UNCHANGED <<connId, loopOf, conns, accepting, stage, conn>>
  BY DEF SwapTasks, serverVars
<1>2. AcceptOK'
  BY <1>1 DEF Life, AcceptOK
<1>3. ASSUME NEW c \in Conn PROVE ConnOK(c)'
  <2>1. ConnOK(c)
    BY DEF Life
  <2>2. conn[c].rev # {} => loopOf[c] # l
    <3>1. conn[c].rev # {} => c <= connId
      BY <2>1 DEF ConnOK, Untouched, TypeOK, Conn
    <3> QED
      BY <3>1 DEF SwapTasks, Active, On
  <2>3. loopOf[c] # l => pc'[loopOf[c]] = pc[loopOf[c]]
    BY DEF SwapTasks, TypeOK
  <2> QED
    BY <1>1, <2>1, <2>2, <2>3 DEF ConnOK
<1>4. ASSUME NEW k \in Loop PROVE LoopOK(k)'
  <2> PICK b \in Seq(TaskType), q \in Seq(TaskType) : b = batch[k] /\ q = queue[k]
    BY DEF TypeOK
  <2>1. LoopOK(k)
    BY DEF Life
  <2>2. ASSUME NEW s \in Seq(TaskType), TasksOK(k, s) PROVE TasksOK(k, s)'
    BY <1>1, <2>2 DEF TasksOK, TaskOK
  <2>3. CASE k # l
    <3>1. batch'[k] = b /\ queue'[k] = q /\ pc'[k] = pc[k]
      BY <2>3 DEF SwapTasks, TypeOK
    <3> QED
      BY <2>1, <2>2, <3>1 DEF LoopOK
  <2>4. CASE k = l
    <3>1. batch'[k] = q /\ queue'[k] = <<>> /\ pc'[k] = "run"
      BY <2>4 DEF SwapTasks, TypeOK
    <3>2. TasksOK(k, <<>>)' /\ EnableFirst(<<>>) /\ EnableAhead(q, <<>>)
      BY DEF TasksOK, EnableFirst, EnableAhead
    <3> QED
      BY <2>1, <2>2, <3>1, <3>2 DEF LoopOK
  <2> QED
    BY <2>3, <2>4
<1> QED
  BY <1>2, <1>3, <1>4 DEF Life

\* The steps that move no task and change no connection but for the events reported.
LEMMA CycleLife ==
  ASSUME TypeOK, Life, NEW l \in Loop,
         Poll(l) \/ PollInterrupted(l) \/ EndOntime(l) \/ EndBatch(l)
  PROVE  Life'
<1>1. conn \in [Conn -> ConnType] /\ pc \in [Loop -> {"poll", "handle", "run"}]
  BY DEF TypeOK
<1>2. ASSUME NEW c \in Conn
      PROVE  ConnOK(c) /\ loopOf[c] \in Loop
  BY DEF TypeOK, Life
<1>3. ASSUME NEW k \in Loop
      PROVE  pc[k] # "run" => batch[k] = <<>>
  BY DEF Life, LoopOK
<1>4. CASE Poll(l)
  <2>1. pc' = [pc EXCEPT ![l] = "handle"] /\ pc[l] = "poll"
    BY <1>4 DEF Poll
  <2>2. ASSUME NEW c \in Conn
        PROVE  /\ SameLife(conn[c], conn'[c])
               /\ conn'[c].rev # {} => conn[c].reg /\ pc'[loopOf[c]] = "handle"
    <3>1. CASE c \in On(l)
      <4>1. conn'[c] = [conn[c] EXCEPT !.rev = Revents(conn[c])] /\ conn[c] \in ConnType
        BY <1>1, <1>4, <3>1 DEF Poll
      <4>2. SameLife(conn[c], conn'[c]) /\ conn'[c].rev = Revents(conn[c])
        BY <4>1 DEF SameLife, ConnType
      <4>3. Revents(conn[c]) # {} => conn[c].reg
        BY DEF Revents
      <4> QED
        BY <1>1, <2>1, <3>1, <4>2, <4>3 DEF On
    <3>2. CASE c \notin On(l)
      <4>1. conn'[c] = conn[c]
        BY <1>4, <3>2 DEF Poll
      <4> QED
        BY <1>1, <1>2, <2>1, <4>1 DEF SameLife, ConnOK
    <3> QED
      BY <3>1, <3>2
  <2>3. UNCHANGED <<connId, loopOf, conns, accepting, stage, queue, batch>>
    BY <1>4 DEF Poll, serverVars
  <2>4. ASSUME NEW k \in Loop PROVE pc'[k] # "run" => batch[k] = <<>>
    BY <1>1, <1>3, <2>1
  <2> QED
    BY <2>2, <2>3, <2>4, QuietLife
<1>5. CASE PollInterrupted(l) \/ EndOntime(l) \/ EndBatch(l)
  <2>1. \/ pc' = pc
        \/ pc' = [pc EXCEPT ![l] = "handle"] /\ pc[l] = "poll"
        \/ pc' = [pc EXCEPT ![l] = "poll"] /\ pc[l] = "run" /\ batch[l] = <<>>
    BY <1>5 DEF PollInterrupted, EndOntime, EndBatch
  <2>2. UNCHANGED <<connId, loopOf, conns, accepting, stage, queue, batch, conn>>
    BY <1>5 DEF PollInterrupted, EndOntime, EndBatch, serverVars
  <2>3. ASSUME NEW c \in Conn
        PROVE  /\ SameLife(conn[c], conn'[c])
               /\ conn'[c].rev # {} => conn[c].reg /\ pc'[loopOf[c]] = "handle"
    BY <1>1, <1>2, <2>1, <2>2 DEF SameLife, ConnOK
  <2>4. ASSUME NEW k \in Loop PROVE pc'[k] # "run" => batch[k] = <<>>
    BY <1>1, <1>3, <2>1
  <2> QED
    BY <2>2, <2>3, <2>4, QuietLife
<1> QED
  BY <1>4, <1>5

\* The clients, and accept when it fails.
LEMMA ClientLife ==
  ASSUME TypeOK, Life, Connect \/ AcceptFails \/ \E c \in Conn : Client(c)
  PROVE  Life'
<1>1. UNCHANGED <<connId, loopOf, conns, accepting, stage, queue, batch, pc>>
  BY DEF Connect, AcceptFails, Client, ClientSends, ClientReads, ClientCloses, ConnectionReset,
         ClientStep, serverVars, loopVars
<1>2. ASSUME NEW d \in Conn
      PROVE  SameLife(conn[d], conn'[d]) /\ conn'[d].rev = conn[d].rev
  <2>1. CASE conn' = conn
    BY <2>1 DEF SameLife
  <2>2. CASE \E c \in Conn : Client(c)
    BY <2>2, ClientKeepsServer DEF SameServer, SameLife
  <2> QED
    BY <2>1, <2>2 DEF Connect, AcceptFails
<1>3. ASSUME NEW d \in Conn
      PROVE  conn'[d].rev # {} => conn[d].reg /\ pc'[loopOf[d]] = "handle"
  BY <1>1, <1>2 DEF Life, ConnOK
<1>4. ASSUME NEW l \in Loop
      PROVE  pc'[l] # "run" => batch[l] = <<>>
  BY <1>1 DEF Life, LoopOK
<1> QED
  BY <1>1, <1>2, <1>3, <1>4, QuietLife

\* A new connection: nothing is queued about it, and nothing has touched it.
LEMMA AcceptLife ==
  ASSUME TypeOK, Life, Accept
  PROVE  Life'
<1> PICK n \in Conn : n = connId + 1
  <2>1. connId + 1 \in 1 .. MaxConn
    BY MaxConnAssumption DEF TypeOK, Accept
  <2> QED
    BY <2>1 DEF Conn
<1>1. /\ connId \in Nat /\ connId' = n /\ accepting' = n
      /\ accepting = 0 /\ stage # "enable"
      /\ UNCHANGED <<conns, conn, queue, batch, pc>>
  BY DEF Accept, Handling, TypeOK, Base
<1>2. \A d \in Conn : d # n => loopOf'[d] = loopOf[d]
  BY DEF Accept, TypeOK
<1>3. Untouched(conn[n]) /\ conn[n].rev = {}
  <2>1. connId < n /\ ConnOK(n)
    BY <1>1 DEF Life
  <2> QED
    BY <2>1 DEF ConnOK, Untouched
<1>4. AcceptOK'
  BY <1>1, <1>3 DEF AcceptOK
<1>5. ASSUME NEW d \in Conn PROVE ConnOK(d)'
  <2>1. ConnOK(d) /\ d \in Nat /\ d # 0
    BY DEF Life, Conn
  <2>2. CASE d = n
    BY <1>1, <1>3, <2>2 DEF ConnOK, Untouched
  <2>3. CASE d # n
    <3>1. d <= connId' => d <= connId
      BY <1>1, <2>1, <2>3
    <3>2. connId' < d => connId < d
      BY <1>1, <2>1
    <3> QED
      BY <1>1, <1>2, <2>1, <2>3, <3>1, <3>2 DEF ConnOK
  <2> QED
    BY <2>2, <2>3
<1>6. ASSUME NEW k \in Loop, NEW t \in TaskType, TaskOK(k, t) PROVE TaskOK(k, t)'
  <2>1. t.c \in Conn /\ t.c \in Nat
    BY DEF TaskType, Conn
  <2>2. t.c # n /\ t.c <= connId'
    BY <1>1, <1>6, <2>1 DEF TaskOK
  <2> QED
    BY <1>1, <1>2, <1>6, <2>1, <2>2 DEF TaskOK
<1>7. ASSUME NEW k \in Loop PROVE LoopOK(k)'
  <2> PICK b \in Seq(TaskType), q \in Seq(TaskType) : b = batch[k] /\ q = queue[k]
    BY DEF TypeOK
  <2>1. LoopOK(k) /\ batch'[k] = b /\ queue'[k] = q /\ pc'[k] = pc[k]
    BY <1>1 DEF Life
  <2>2. ASSUME NEW s \in Seq(TaskType), TasksOK(k, s) PROVE TasksOK(k, s)'
    BY <1>6, <2>2, TasksHaveType DEF TasksOK
  <2> QED
    BY <2>1, <2>2 DEF LoopOK
<1> QED
  BY <1>4, <1>5, <1>7 DEF Life

\* What a task may do to the life of a connection that is being set up.
SetUp(r, s) ==
    /\ r.status = "CONNECTING" /\ s.status \in {"CONNECTING", "CONNECTED"}
    /\ r.reg => s.reg
    /\ s.reg => r.reg \/ s.status = "CONNECTED"
    /\ r.rev # {} <=> s.rev # {}

\* A step that sets up a connection, at once or as the first task of a batch: no
\* task is left that enables its timer.
LEMMA SetUpLife ==
  ASSUME TypeOK, Life, NEW c \in Conn, NEW r \in ConnType,
         conn' = [conn EXCEPT ![c] = r], SetUp(conn[c], r), c <= connId,
         UNCHANGED <<connId, loopOf, accepting, conns, pc, queue>>,
         stage' = "enable" => stage = "enable" /\ accepting # c,
         \A k \in Loop : \/ batch'[k] = batch[k]
                         \/ pc[k] = "run" /\ batch[k] # <<>> /\ batch'[k] = Tail(batch[k]),
         \A k \in Loop : /\ \A i \in DOMAIN batch'[k] : ~Touches(batch'[k][i], Task("enable", c))
                         /\ \A i \in DOMAIN queue[k] : ~Touches(queue[k][i], Task("enable", c))
  PROVE  Life'
<1>1. conn'[c] = r /\ \A d \in Conn : d # c => conn'[d] = conn[d]
  BY DEF TypeOK
<1>2. AcceptOK'
  <2>1. stage = "enable" => accepting \in Conn
    BY DEF TypeOK
  <2> QED
    BY <1>1, <2>1 DEF Life, AcceptOK
<1>3. ASSUME NEW d \in Conn PROVE ConnOK(d)'
  <2>1. ConnOK(d)
    BY DEF Life
  <2>2. CASE d = c
    <3>1. connId \in Nat /\ c \in Nat
      BY DEF TypeOK, Conn
    <3>2. ~(connId' < c)
      BY <3>1
    <3> QED
      BY <1>1, <2>1, <2>2, <3>2 DEF ConnOK, SetUp
  <2>3. CASE d # c
    BY <1>1, <2>1, <2>3 DEF ConnOK
  <2> QED
    BY <2>2, <2>3
<1>4. ASSUME NEW k \in Loop, NEW t \in TaskType, TaskOK(k, t), ~Touches(t, Task("enable", c))
      PROVE  TaskOK(k, t)'
  <2>1. t.c \in Conn
    BY DEF TaskType
  <2>2. t.op \in {"enable", "remove"} => t.c # c
    BY <1>4 DEF TaskOK, Touches, Task, SetUp
  <2> QED
    BY <1>1, <1>4, <2>1, <2>2 DEF TaskOK
<1>5. ASSUME NEW k \in Loop PROVE LoopOK(k)'
  <2> PICK b \in Seq(TaskType), q \in Seq(TaskType) : b = batch[k] /\ q = queue[k]
    BY DEF TypeOK
  <2>1. LoopOK(k) /\ queue'[k] = q /\ pc'[k] = pc[k]
    BY DEF Life
  <2>2. ASSUME NEW s \in Seq(TaskType), TasksOK(k, s),
               \A i \in DOMAIN s : ~Touches(s[i], Task("enable", c))
        PROVE  TasksOK(k, s)'
    BY <1>4, <2>2, TasksHaveType DEF TasksOK
  <2>3. TasksOK(k, q)'
    BY <2>1, <2>2 DEF LoopOK
  <2>4. CASE batch'[k] = b
    BY <2>1, <2>2, <2>3, <2>4 DEF LoopOK
  <2>5. CASE pc[k] = "run" /\ b # <<>> /\ batch'[k] = Tail(b)
    <3> PICK e \in Seq(TaskType) : e = Tail(b)
      BY <2>5, HeadTailProperties
    <3>1. EnableFirst(b) /\ EnableAhead(b, q) /\ EnableFirst(q) /\ TasksOK(k, b)
      BY <2>1 DEF LoopOK
    <3>2. /\ EnableFirst(e) /\ EnableAhead(e, q)
          /\ \A i \in DOMAIN e : \E j \in DOMAIN b : e[i] = b[j]
      BY <2>5, <3>1, TailEnable DEF AfterTail
    <3>3. TasksOK(k, e)
      BY <3>1, <3>2 DEF TasksOK
    <3>4. TasksOK(k, e)'
      BY <2>2, <2>5, <3>3
    <3> QED
      BY <2>1, <2>3, <2>5, <3>1, <3>2, <3>4 DEF LoopOK
  <2> QED
    BY <2>4, <2>5
<1> QED
  BY <1>2, <1>3, <1>5 DEF Life

\* A step of NewConnection that queues a task.
LEMMA QueueLife ==
  ASSUME TypeOK, Life, NEW l \in Loop, NEW t \in TaskType,
         queue' = [queue EXCEPT ![l] = Append(@, t)],
         UNCHANGED <<conn, connId, loopOf, accepting, conns, pc, batch>>,
         stage' # "enable", TaskOK(l, t)',
         \A u \in TaskType : TaskOK(l, u) => /\ Touches(u, t) => t.op = "establish"
                                             /\ ~Touches(t, u)
  PROVE  Life'
<1>1. AcceptOK' /\ \A c \in Conn : ConnOK(c)'
  BY DEF Life, AcceptOK, ConnOK
<1>2. ASSUME NEW k \in Loop PROVE LoopOK(k)'
  <2> PICK b \in Seq(TaskType), q \in Seq(TaskType) : b = batch[k] /\ q = queue[k]
    BY DEF TypeOK
  <2>1. LoopOK(k) /\ batch'[k] = b /\ pc'[k] = pc[k]
    BY DEF Life
  <2>2. ASSUME NEW s \in Seq(TaskType), TasksOK(k, s) PROVE TasksOK(k, s)'
    BY <2>2 DEF TasksOK, TaskOK
  <2>3. CASE k # l
    <3>1. queue'[k] = q
      BY <2>3 DEF TypeOK
    <3> QED
      BY <2>1, <2>2, <3>1 DEF LoopOK
  <2>4. CASE k = l
    <3> PICK a \in Seq(TaskType) : a = Append(q, t)
      BY AppendProperties
    <3>1. queue'[k] = a
      BY <2>4 DEF TypeOK
    <3>2. /\ EnableFirst(b) /\ EnableFirst(q) /\ EnableAhead(b, q)
          /\ TasksOK(k, b) /\ TasksOK(k, q)
      BY <2>1 DEF LoopOK
    <3>3. ASSUME NEW s \in Seq(TaskType), TasksOK(k, s), NEW i \in DOMAIN s
          PROVE  (Touches(s[i], t) => t.op = "establish") /\ ~Touches(t, s[i])
      BY <2>4, <3>3, TasksHaveType DEF TasksOK
    <3>4. EnableFirst(a)
      BY <3>2, <3>3, AppendEnableFirst
    <3>5. EnableAhead(b, a)
      BY <3>2, <3>3, AppendEnableAhead
    <3>6. \A i \in DOMAIN a : a[i] = t \/ \E j \in DOMAIN q : a[i] = q[j]
      OBVIOUS
    <3>7. TasksOK(k, q)'
      BY <2>2, <3>2
    <3>8. TasksOK(k, a)'
      BY <2>4, <3>6, <3>7 DEF TasksOK
    <3> QED
      BY <2>1, <2>2, <3>1, <3>2, <3>4, <3>5, <3>8 DEF LoopOK
  <2> QED
    BY <2>3, <2>4
<1> QED
  BY <1>1, <1>2 DEF Life

\* The timer and the establishment of the connection being accepted: at once on the
\* base loop, else behind the tasks of its loop.
LEMMA NewConnectionLife ==
  ASSUME TypeOK, Life, proc' = "up", NewConnectionEnable \/ NewConnectionEstablish
  PROVE  Life'
<1> PICK c \in Conn : c = accepting
  BY DEF TypeOK, NewConnectionEnable, NewConnectionEstablish
<1> DEFINE l == loopOf[c]
<1>1. /\ conn[c] \in ConnType /\ conn \in [Conn -> ConnType] /\ l \in Loop
      /\ c <= connId /\ ConnOK(c)
      /\ \A k \in Loop : batch[k] \in Seq(TaskType) /\ queue[k] \in Seq(TaskType)
  BY DEF TypeOK, Life, AcceptOK
<1>2. /\ UNCHANGED <<connId, loopOf, accepting, conns, pc, batch>>
      /\ stage' # "enable"
  BY DEF NewConnectionEnable, NewConnectionEstablish
<1>3. CASE l = Base
  <2>1. UNCHANGED queue
    BY <1>3 DEF NewConnectionEnable, NewConnectionEstablish, RunFromBase
  <2>2. PICK r \in ConnType : conn' = [conn EXCEPT ![c] = r] /\ SetUp(conn[c], r)
    <3>1. CASE NewConnectionEnable
      <4> DEFINE r == [conn[c] EXCEPT !.timer = TRUE]
      <4>1. Untouched(conn[c])
        BY <3>1 DEF Life, AcceptOK, NewConnectionEnable
      <4>2. conn' = [conn EXCEPT ![c] = r]
        BY <1>3, <3>1 DEF NewConnectionEnable, RunFromBase, EnableInactiveRelease
      <4>3. r \in ConnType /\ r.status = conn[c].status /\ r.reg = conn[c].reg
            /\ r.rev = conn[c].rev
        BY <1>1 DEF ConnType
      <4>4. SetUp(conn[c], r)
        BY <4>1, <4>3 DEF SetUp, Untouched
      <4> QED
        BY <4>2, <4>3, <4>4
    <3>2. CASE NewConnectionEstablish
      <4> DEFINE r == [conn[c] EXCEPT !.status = "CONNECTED", !.reg = TRUE]
      <4>1. conn[c].status = "CONNECTING" /\ conn' = [conn EXCEPT ![c] = r]
        BY <1>3, <3>2 DEF NewConnectionEstablish, RunFromBase, Establish
      <4>2. r \in ConnType /\ r.status = "CONNECTED" /\ r.reg = TRUE
            /\ r.rev = conn[c].rev
        BY <1>1 DEF ConnType
      <4>3. SetUp(conn[c], r)
        BY <4>1, <4>2 DEF SetUp
      <4> QED
        BY <4>1, <4>2, <4>3
    <3> QED
      BY <3>1, <3>2
  <2>3. ASSUME NEW k \in Loop, NEW s \in Seq(TaskType), TasksOK(k, s), NEW i \in DOMAIN s
        PROVE  ~Touches(s[i], Task("enable", c))
    BY <1>3, <2>3 DEF TasksOK, TaskOK, Touches, Task
  <2>4. ASSUME NEW k \in Loop
        PROVE  /\ \A i \in DOMAIN batch'[k] : ~Touches(batch'[k][i], Task("enable", c))
               /\ \A i \in DOMAIN queue[k] : ~Touches(queue[k][i], Task("enable", c))
    BY <1>1, <1>2, <2>3 DEF Life, LoopOK
  <2> HIDE DEF l
  <2> QED
    BY <1>1, <1>2, <2>1, <2>2, <2>4, SetUpLife
<1>4. CASE l # Base
  <2>1. UNCHANGED conn
    BY <1>4 DEF NewConnectionEnable, NewConnectionEstablish, RunFromBase
  <2>2. CASE NewConnectionEnable
    <3> DEFINE t == Task("enable", c)
    <3>1. queue' = [queue EXCEPT ![l] = Append(@, t)] /\ stage = "enable"
      BY <1>4, <2>2 DEF NewConnectionEnable, RunFromBase
    <3>2. t \in TaskType
      BY TaskIsType DEF Ops
    <3>3. Untouched(conn[c])
      BY <3>1 DEF Life, AcceptOK
    <3>4. TaskOK(l, t)'
      BY <1>1, <1>2, <1>4, <2>1, <3>3 DEF TaskOK, Task
    <3>5. ASSUME NEW u \in TaskType, TaskOK(l, u)
          PROVE  (Touches(u, t) => t.op = "establish") /\ ~Touches(t, u)
      BY <3>1, <3>5 DEF TaskOK, Touches, Task
    <3> HIDE DEF t
    <3> QED
      BY <1>1, <1>2, <2>1, <3>1, <3>2, <3>4, <3>5, QueueLife
  <2>3. CASE NewConnectionEstablish
    <3> DEFINE t == Task("establish", c)
    <3>1. queue' = [queue EXCEPT ![l] = Append(@, t)]
      BY <1>4, <2>3 DEF NewConnectionEstablish, RunFromBase
    <3>2. t \in TaskType
      BY TaskIsType DEF Ops
    <3>3. TaskOK(l, t)'
      BY <1>1, <1>2, <1>4, <2>1 DEF TaskOK, Task
    <3>4. ASSUME NEW u \in TaskType, TaskOK(l, u)
          PROVE  (Touches(u, t) => t.op = "establish") /\ ~Touches(t, u)
      BY DEF Touches, Task
    <3> HIDE DEF t
    <3> QED
      BY <1>1, <1>2, <2>1, <3>1, <3>2, <3>3, <3>4, QueueLife
  <2> QED
    BY <2>2, <2>3
<1> QED
  BY <1>3, <1>4

\* The connection enters _conns.
LEMMA InsertLife ==
  ASSUME TypeOK, Life, NewConnectionInsert
  PROVE  Life'
<1>1. /\ conns' = conns \cup {accepting} /\ accepting' = 0 /\ stage' = "idle"
      /\ UNCHANGED <<connId, loopOf, conn, pc, queue, batch>>
  BY DEF NewConnectionInsert, loopVars
<1>2. AcceptOK'
  BY <1>1 DEF AcceptOK, TypeOK
<1>3. ASSUME NEW c \in Conn PROVE ConnOK(c)'
  BY <1>1 DEF Life, ConnOK
<1>4. ASSUME NEW l \in Loop PROVE LoopOK(l)'
  <2> PICK b \in Seq(TaskType), q \in Seq(TaskType) : b = batch[l] /\ q = queue[l]
    BY DEF TypeOK
  <2>1. LoopOK(l) /\ batch'[l] = b /\ queue'[l] = q
    BY <1>1 DEF Life
  <2>2. ASSUME NEW s \in Seq(TaskType), TasksOK(l, s) PROVE TasksOK(l, s)'
    BY <1>1, <2>2 DEF TasksOK, TaskOK
  <2> QED
    BY <1>1, <2>1, <2>2 DEF LoopOK
<1> QED
  BY <1>2, <1>3, <1>4 DEF Life

\* What is left of the tasks of a loop once it has taken the first of its batch.
LEMMA RestOfBatch ==
  ASSUME TypeOK, Life, NEW l \in Loop, RunTask(l), NEW k \in Loop
  PROVE  \E b, q \in Seq(TaskType) :
            /\ b = batch'[k] /\ q = queue[k]
            /\ EnableFirst(b) /\ EnableFirst(q) /\ EnableAhead(b, q)
            /\ TasksOK(k, b) /\ TasksOK(k, q)
            /\ pc[k] # "run" => b = <<>>
            /\ k = l => /\ \A i \in DOMAIN b : ~Touches(b[i], Head(batch[l]))
                        /\ \A i \in DOMAIN q : ~Touches(q[i], Head(batch[l]))
<1> PICK a \in Seq(TaskType), q \in Seq(TaskType) : a = batch[k] /\ q = queue[k]
  BY DEF TypeOK
<1>1. /\ EnableFirst(a) /\ EnableFirst(q) /\ EnableAhead(a, q)
      /\ TasksOK(k, a) /\ TasksOK(k, q)
      /\ pc[k] # "run" => a = <<>>
  BY DEF Life, LoopOK
<1>2. CASE k # l
  <2>1. batch'[k] = a
    BY <1>2 DEF RunTask, TypeOK
  <2> QED
    BY <1>1, <1>2, <2>1
<1>3. CASE k = l
  <2>1. batch'[k] = Tail(a) /\ a # <<>> /\ pc[k] = "run"
    BY <1>3 DEF RunTask, TypeOK
  <2>2. PICK b \in Seq(TaskType) : b = Tail(a)
    BY <2>1, HeadTailProperties
  <2>3. AfterTail(a, q)
    BY <1>1, <2>1, TailEnable
  <2>4. /\ EnableFirst(b) /\ EnableAhead(b, q)
        /\ \A i \in DOMAIN b : ~Touches(b[i], Head(a))
        /\ \A i \in DOMAIN q : ~Touches(q[i], Head(a))
        /\ \A i \in DOMAIN b : \E j \in DOMAIN a : b[i] = a[j]
    BY <2>2, <2>3 DEF AfterTail
  <2>5. TasksOK(k, b)
    BY <1>1, <2>4 DEF TasksOK
  <2> QED
    BY <1>1, <1>3, <2>1, <2>2, <2>4, <2>5
<1> QED
  BY <1>2, <1>3

\* The task taken is one that the invariant allows, of a loop that handles no event.
LEMMA HeadOK ==
  ASSUME TypeOK, Life, NEW l \in Loop, RunTask(l)
  PROVE  /\ TaskOK(l, Head(batch[l])) /\ pc[l] = "run"
         /\ \A c \in Conn : loopOf[c] = l => conn[c].rev = {}
<1>1. batch[l] \in Seq(TaskType) /\ batch[l] # <<>> /\ TasksOK(l, batch[l]) /\ pc[l] = "run"
  BY DEF TypeOK, Life, LoopOK, RunTask
<1>2. 1 \in DOMAIN batch[l] /\ Head(batch[l]) = batch[l][1]
  BY <1>1
<1>3. TaskOK(l, Head(batch[l]))
  BY <1>1, <1>2 DEF TasksOK
<1> QED
  BY <1>1, <1>3 DEF Life, ConnOK

\* A task that arms the timer or establishes the connection.
LEMMA RunSetUpLife ==
  ASSUME TypeOK, Life, proc' = "up", NEW l \in Loop, RunTask(l),
         Head(batch[l]).op \in {"enable", "establish"}
  PROVE  Life'
<1> PICK t \in TaskType : t = Head(batch[l])
  BY HeadTask
<1> PICK c \in Conn : c = t.c
  BY HeadTask
<1>1. /\ TaskOK(l, t) /\ loopOf[c] = l /\ c <= connId
      /\ stage = "enable" => accepting # c
  BY HeadOK DEF TaskOK
<1>2. conn[c] \in ConnType
  BY DEF TypeOK
<1>3. PICK r \in ConnType : conn' = [conn EXCEPT ![c] = r] /\ SetUp(conn[c], r)
  <2>1. CASE t.op = "enable"
    <3> DEFINE r == [conn[c] EXCEPT !.timer = TRUE]
    <3>1. Untouched(conn[c])
      BY <1>1, <2>1 DEF TaskOK
    <3>2. conn' = [conn EXCEPT ![c] = r]
      BY <2>1 DEF RunTask, EnableInactiveRelease
    <3>3. r \in ConnType /\ r.status = conn[c].status /\ r.reg = conn[c].reg
          /\ r.rev = conn[c].rev
      BY <1>2 DEF ConnType
    <3>4. SetUp(conn[c], r)
      BY <3>1, <3>3 DEF SetUp, Untouched
    <3> QED
      BY <3>2, <3>3, <3>4
  <2>2. CASE t.op = "establish"
    <3> DEFINE r == [conn[c] EXCEPT !.status = "CONNECTED", !.reg = TRUE]
    <3>1. conn[c].status = "CONNECTING" /\ conn' = [conn EXCEPT ![c] = r]
      BY <2>2 DEF RunTask, Establish
    <3>2. r \in ConnType /\ r.status = "CONNECTED" /\ r.reg = TRUE /\ r.rev = conn[c].rev
      BY <1>2 DEF ConnType
    <3>3. SetUp(conn[c], r)
      BY <3>1, <3>2 DEF SetUp
    <3> QED
      BY <3>1, <3>2, <3>3
  <2> QED
    BY <2>1, <2>2
<1>4. UNCHANGED <<connId, loopOf, accepting, stage, conns, pc, queue>>
  BY DEF RunTask
<1>5. ASSUME NEW k \in Loop
      PROVE  \/ batch'[k] = batch[k]
             \/ pc[k] = "run" /\ batch[k] # <<>> /\ batch'[k] = Tail(batch[k])
  BY DEF RunTask, TypeOK
<1>6. ASSUME NEW k \in Loop
      PROVE  /\ \A i \in DOMAIN batch'[k] : ~Touches(batch'[k][i], Task("enable", c))
             /\ \A i \in DOMAIN queue[k] : ~Touches(queue[k][i], Task("enable", c))
  <2> PICK b \in Seq(TaskType), q \in Seq(TaskType) :
            /\ b = batch'[k] /\ q = queue[k]
            /\ TasksOK(k, b) /\ TasksOK(k, q)
            /\ k = l => /\ \A i \in DOMAIN b : ~Touches(b[i], t)
                        /\ \A i \in DOMAIN q : ~Touches(q[i], t)
    BY RestOfBatch
  <2>1. CASE k = l
    BY <2>1 DEF Touches, Task
  <2>2. CASE k # l
    BY <1>1, <2>2 DEF TasksOK, TaskOK, Touches, Task
  <2> QED
    BY <2>1, <2>2
<1> QED
  BY <1>1, <1>3, <1>4, <1>5, <1>6, SetUpLife

\* RemoveConnection: the connection it drops is released.
LEMMA RunRemoveLife ==
  ASSUME TypeOK, Life, NEW l \in Loop, RunTask(l), Head(batch[l]).op = "remove"
  PROVE  Life'
<1> PICK t \in TaskType : t = Head(batch[l])
  BY HeadTask
<1> PICK c \in Conn : c = t.c
  BY HeadTask
<1>1. conn[c].status = "DISCONNECTED"
  BY HeadOK DEF TaskOK
<1>2. /\ conns' = conns \ {c}
      /\ UNCHANGED <<connId, loopOf, accepting, stage, conn, pc, queue>>
  BY DEF RunTask, RemoveConnection
<1>3. AcceptOK'
  BY <1>2 DEF Life, AcceptOK
<1>4. ASSUME NEW d \in Conn PROVE ConnOK(d)'
  BY <1>1, <1>2 DEF Life, ConnOK
<1>5. ASSUME NEW k \in Loop PROVE LoopOK(k)'
  <2> PICK b \in Seq(TaskType), q \in Seq(TaskType) :
            /\ b = batch'[k] /\ q = queue[k]
            /\ EnableFirst(b) /\ EnableFirst(q) /\ EnableAhead(b, q)
            /\ TasksOK(k, b) /\ TasksOK(k, q)
            /\ pc[k] # "run" => b = <<>>
    BY RestOfBatch
  <2>1. ASSUME NEW s \in Seq(TaskType), TasksOK(k, s) PROVE TasksOK(k, s)'
    BY <1>2, <2>1 DEF TasksOK, TaskOK
  <2> QED
    BY <1>2, <2>1 DEF LoopOK
<1> QED
  BY <1>3, <1>4, <1>5 DEF Life

\* ReleaseInLoop: whatever else is queued about the connection does not set it up.
LEMMA RunReleaseLife ==
  ASSUME TypeOK, Life, NEW l \in Loop, RunTask(l), Head(batch[l]).op = "release"
  PROVE  Life'
<1> PICK t \in TaskType : t = Head(batch[l])
  BY HeadTask
<1> PICK c \in Conn : c = t.c
  BY HeadTask
<1> PICK r \in ConnType : r = Released(conn[c])
  BY ReleasedType DEF TypeOK
<1>1. /\ loopOf[c] = l /\ c <= connId /\ conn[c].rev = {}
      /\ stage = "enable" => accepting # c
  BY HeadOK DEF TaskOK
<1>2. r.status = "DISCONNECTED" /\ r.reg = FALSE /\ r.timer = FALSE /\ r.rev = {}
  BY <1>1, ReleasedType DEF TypeOK
<1>3. /\ ReleaseInLoop(l, c)
      /\ UNCHANGED <<connId, loopOf, accepting, stage, pc>>
  BY DEF RunTask
<1>4. conn'[c] = r /\ \A d \in Conn : d # c => conn'[d] = conn[d]
  BY <1>3 DEF ReleaseInLoop, TypeOK
<1>5. conns' = conns \/ conns' = conns \ {c}
  BY <1>3 DEF ReleaseInLoop
<1>6. AcceptOK'
  <2>1. stage = "enable" => accepting \in Conn
    BY DEF TypeOK
  <2> QED
    BY <1>1, <1>3, <1>4, <2>1 DEF Life, AcceptOK
<1>7. ASSUME NEW d \in Conn PROVE ConnOK(d)'
  <2>1. ConnOK(d)
    BY DEF Life
  <2>2. CASE d = c
    <3>1. connId \in Nat /\ c \in Nat
      BY DEF TypeOK, Conn
    <3>2. ~(connId' < c)
      BY <1>1, <1>3, <3>1
    <3> QED
      BY <1>2, <1>4, <2>2, <3>2 DEF ConnOK
  <2>3. CASE d # c
    BY <1>3, <1>4, <1>5, <2>1, <2>3 DEF ConnOK
  <2> QED
    BY <2>2, <2>3
<1>8. ASSUME NEW k \in Loop, NEW u \in TaskType, TaskOK(k, u), k = l => ~Touches(u, t)
      PROVE  TaskOK(k, u)'
  <2>1. u.c \in Conn
    BY DEF TaskType
  <2>2. u.op = "enable" => u.c # c
    BY <1>1, <1>8 DEF TaskOK, Touches
  <2> QED
    BY <1>2, <1>3, <1>4, <1>8, <2>1, <2>2 DEF TaskOK
<1>9. ASSUME NEW k \in Loop PROVE LoopOK(k)'
  <2> PICK b \in Seq(TaskType), q \in Seq(TaskType) :
            /\ b = batch'[k] /\ q = queue[k]
            /\ EnableFirst(b) /\ EnableFirst(q) /\ EnableAhead(b, q)
            /\ TasksOK(k, b) /\ TasksOK(k, q)
            /\ pc[k] # "run" => b = <<>>
            /\ k = l => /\ \A i \in DOMAIN b : ~Touches(b[i], t)
                        /\ \A i \in DOMAIN q : ~Touches(q[i], t)
    BY RestOfBatch
  <2>1. ASSUME NEW s \in Seq(TaskType), TasksOK(k, s),
               k = l => \A i \in DOMAIN s : ~Touches(s[i], t)
        PROVE  TasksOK(k, s)'
    BY <1>8, <2>1, TasksHaveType DEF TasksOK
  <2>2. TasksOK(k, b)' /\ TasksOK(k, q)'
    BY <2>1
  <2>3. CASE queue'[k] = q
    BY <1>3, <2>2, <2>3 DEF LoopOK
  <2>4. CASE queue'[k] # q
    <3> DEFINE v == Task("remove", c)
    <3>1. k = Base /\ l # Base /\ queue'[k] = Append(q, v)
      BY <1>3, <2>4 DEF ReleaseInLoop, TypeOK
    <3>2. v \in TaskType
      BY TaskIsType DEF Ops
    <3>3. TaskOK(k, v)'
      BY <1>1, <1>2, <1>3, <1>4, <3>1 DEF TaskOK, Task
    <3>4. \A u : ~Touches(u, v) /\ ~Touches(v, u)
      BY DEF Touches, Task
    <3> HIDE DEF v
    <3> PICK a \in Seq(TaskType) : a = Append(q, v)
      BY <3>2, AppendProperties
    <3>5. EnableFirst(a) /\ EnableAhead(b, a)
      BY <3>2, <3>4, AppendEnableFirst, AppendEnableAhead
    <3>6. \A i \in DOMAIN a : a[i] = v \/ \E j \in DOMAIN q : a[i] = q[j]
      OBVIOUS
    <3>7. TasksOK(k, a)'
      BY <2>2, <3>3, <3>6 DEF TasksOK
    <3> QED
      BY <1>3, <2>2, <3>1, <3>5, <3>7 DEF LoopOK
  <2> QED
    BY <2>3, <2>4
<1> QED
  BY <1>6, <1>7, <1>9 DEF Life

-----------------------------------------------------------------------------
(* The theorems.                                                           *)

LifeInv == proc = "up" => Life

\* The invariant holds as long as the process does.
LEMMA LifeInvariant == Safe => []LifeInv
<1>1. Init => LifeInv
  <2> SUFFICES ASSUME Init PROVE Life
    BY DEF LifeInv
  <2>1. AcceptOK
    BY DEF Init, AcceptOK
  <2>2. ASSUME NEW c \in Conn PROVE ConnOK(c)
    <3>1. conn[c] = NewConn /\ ~(c <= connId)
      BY DEF Init, Conn
    <3> QED
      BY <3>1 DEF ConnOK, NewConn, Untouched
  <2>3. ASSUME NEW l \in Loop PROVE LoopOK(l)
    BY DEF Init, LoopOK, TasksOK, EnableFirst, EnableAhead
  <2> QED
    BY <2>1, <2>2, <2>3 DEF Life
<1>2. TypeOK /\ LifeInv /\ [Next]_vars => LifeInv'
  <2> SUFFICES ASSUME TypeOK, LifeInv, [Next]_vars, proc' = "up" PROVE Life'
    BY DEF LifeInv
  <2>1. CASE UNCHANGED vars
    <3>1. Life
      BY <2>1 DEF LifeInv, vars
    <3>2. \A c \in Conn : ConnOK(c)
      BY <3>1 DEF Life
    <3> QED
      BY <2>1, <3>1, <3>2, QuietLife DEF vars, serverVars, loopVars, SameLife, ConnOK, Life, LoopOK
  <2>2. CASE Next
    <3>1. Life
      BY <2>2 DEF LifeInv, Next, LoopStep, Client
    <3>2. ASSUME NEW l \in Loop, LoopStep(l) PROVE Life'
      <4>1. ASSUME RunTask(l) PROVE Life'
        <5>1. Head(batch[l]).op \in {"enable", "establish", "release", "remove"}
          BY <4>1, HeadTask DEF TaskType, Ops
        <5> QED
          BY <3>1, <4>1, <5>1, RunSetUpLife, RunReleaseLife, RunRemoveLife
      <4> QED
        BY <3>1, <3>2, <4>1, CycleLife, HandleConnLife, FireTimerLife, SwapTasksLife,
           ClientLife, AcceptLife, NewConnectionLife, InsertLife DEF LoopStep
    <3> QED
      BY <2>2, <3>1, <3>2, CycleLife, ClientLife DEF Next
  <2> QED
    BY <2>1, <2>2
<1> QED
  BY <1>1, <1>2, TypeCorrect, PTL DEF Safe

\* No event and no timer reaches a destroyed Connection: what epoll or the wheel can
\* still call is in _conns or in NewConnection's hands, however the loops interleave.
THEOREM CallbacksReachTheLiving == Safe => []CallbacksReachLive
<1>1. TypeOK /\ LifeInv => CallbacksReachLive
  <2> SUFFICES ASSUME TypeOK, LifeInv, proc = "up", NEW c \in Conn,
                      conn[c].reg \/ conn[c].rev # {} \/ conn[c].timer
               PROVE  Alive(c)
    BY DEF CallbacksReachLive
  <2>1. ConnOK(c)
    BY DEF LifeInv, Life
  <2>2. conn[c].status # "DISCONNECTED" /\ ~Untouched(conn[c])
    BY <2>1 DEF ConnOK, Untouched
  <2>3. c <= connId
    BY <2>1, <2>2 DEF ConnOK, TypeOK, Conn
  <2> QED
    BY <2>1, <2>2, <2>3 DEF ConnOK, Alive
<1> QED
  BY <1>1, TypeCorrect, LifeInvariant, PTL

\* A step moves the status of a connection forward or not at all.
LEMMA StepForward ==
  ASSUME TypeOK, LifeInv, Next, NEW d \in Conn
  PROVE  Rank(conn[d].status) <= Rank(conn'[d].status)
<1> DEFINE Forward == Rank(conn[d].status) <= Rank(conn'[d].status)
<1>1. conn \in [Conn -> ConnType] /\ conn[d] \in ConnType
  BY DEF TypeOK
<1>2. ASSUME \/ conn'[d].status = conn[d].status
             \/ conn'[d].status = "DISCONNECTED"
             \/ conn[d].status = "CONNECTING" /\ conn'[d].status = "CONNECTED"
             \/ conn[d].status = "CONNECTED" /\ conn'[d].status = "DISCONNECTING"
      PROVE  Forward
  BY <1>1, <1>2 DEF Rank, ConnType
<1> HIDE DEF Forward
<1>3. ASSUME conn' = conn PROVE Forward
  BY <1>2, <1>3
<1>4. ASSUME NEW l \in Loop, NEW c \in Conn, Life, HandleConn(l, c) PROVE Forward
  <2>1. PICK x \in HandleEvent([c |-> conn[c], errno |-> errno[l], rel |-> 0, signal |-> FALSE]) :
           conn' = [conn EXCEPT ![c] = [x.c EXCEPT !.rev = {}]]
    BY <1>4 DEF HandleConn
  <2>2. KeepsConn(conn[c], x.c) /\ x.c \in ConnType
    BY HandleConnType DEF KeepsConn
  <2>3. [x.c EXCEPT !.rev = {}].status \in {conn[c].status, "DISCONNECTING"}
    BY <2>2 DEF ConnType, KeepsConn
  <2>4. conn[c].status \in {"CONNECTED", "DISCONNECTING"}
    BY <1>4 DEF HandleConn, Life, ConnOK
  <2>5. CASE c = d
    BY <1>1, <1>2, <2>1, <2>3, <2>4, <2>5
  <2>6. CASE c # d
    BY <1>1, <1>2, <2>1, <2>6
  <2> QED
    BY <2>5, <2>6
<1>5. ASSUME NEW l \in Loop, Poll(l) PROVE Forward
  BY <1>1, <1>2, <1>5 DEF Poll, ConnType
<1>6. ASSUME NEW l \in Loop, NEW c \in Conn, FireTimer(l, c) PROVE Forward
  BY <1>1, <1>2, <1>6 DEF FireTimer, ConnType
<1>7. ASSUME NEW c \in Conn, EnableInactiveRelease(c) PROVE Forward
  BY <1>1, <1>2, <1>7 DEF EnableInactiveRelease, ConnType
<1>8. ASSUME NEW c \in Conn, Establish(c) PROVE Forward
  <2>1. CASE conn' = conn
    BY <1>3, <2>1
  <2>2. CASE conn' # conn
    <3>1. /\ conn[c].status = "CONNECTING"
          /\ conn' = [conn EXCEPT ![c].status = "CONNECTED", ![c].reg = TRUE]
      BY <1>8, <2>2 DEF Establish
    <3> QED
      BY <1>1, <1>2, <3>1 DEF ConnType
  <2> QED
    BY <2>1, <2>2
<1>9. ASSUME NEW l \in Loop, NEW c \in Conn, ReleaseInLoop(l, c) PROVE Forward
  BY <1>1, <1>2, <1>9 DEF ReleaseInLoop, Released, ConnType
<1>10. ASSUME NEW c \in Conn, Client(c) PROVE Forward
  BY <1>2, <1>10, ClientKeepsServer DEF SameServer
<1>11. ASSUME NEW l \in Loop, RunTask(l) PROVE Forward
  <2>1. Head(batch[l]).c \in Conn
    BY <1>11, HeadTask
  <2> QED
    BY <1>3, <1>7, <1>8, <1>9, <1>11, <2>1 DEF RunTask, RemoveConnection
<1>12. ASSUME NewConnectionEnable \/ NewConnectionEstablish PROVE Forward
  <2>1. accepting \in Conn
    BY <1>12 DEF TypeOK, NewConnectionEnable, NewConnectionEstablish
  <2> QED
    BY <1>3, <1>7, <1>8, <1>12, <2>1
       DEF NewConnectionEnable, NewConnectionEstablish, RunFromBase
<1>13. ASSUME NEW l \in Loop,
              EndOntime(l) \/ SwapTasks(l) \/ EndBatch(l) \/ PollInterrupted(l)
       PROVE  Forward
  BY <1>3, <1>13 DEF EndOntime, SwapTasks, EndBatch, PollInterrupted
<1>14. ASSUME AcceptFails \/ Accept \/ NewConnectionInsert \/ Connect PROVE Forward
  BY <1>3, <1>14 DEF AcceptFails, Accept, NewConnectionInsert, Connect
<1>15. Life
  BY DEF LifeInv, Next, LoopStep, Client
<1>16. Forward
  BY <1>4, <1>5, <1>6, <1>10, <1>11, <1>12, <1>13, <1>14, <1>15 DEF Next, LoopStep
<1> QED
  BY <1>16 DEF Forward

\* The status of a connection never goes back, with any faults and any number of loops.
THEOREM StatusNeverGoesBack == Safe => StatusForward
<1> DEFINE Forward == \A c \in Conn : Rank(conn[c].status) <= Rank(conn'[c].status)
<1>1. TypeOK /\ LifeInv /\ [Next]_vars => [Forward]_vars
  BY StepForward
<1> QED
  BY <1>1, TypeCorrect, LifeInvariant, PTL DEF Safe, StatusForward
=============================================================================
