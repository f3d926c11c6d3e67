------------------------ MODULE TcpServerClose_proofs ------------------------
(***************************************************************************)
(* How a connection ends, for any numbers of connections and loops: one    *)
(* that is closing has output left to flush or its release queued, and,    *)
(* without resets and the idle timer, it is released once.                 *)
(***************************************************************************)
EXTENDS TcpServer_proofs

-----------------------------------------------------------------------------
(* What the handlers do to the output and to the count of releases.        *)

\* The message callback queues no release, and disconnects only having answered.
Serves(x, y) ==
    /\ y.rel = x.rel
    /\ y.c.out >= x.c.out
    /\ y.c.status = x.c.status \/ (y.c.status = "DISCONNECTING" /\ y.c.out > x.c.out)

LEMMA CallIfInputServes ==
  ASSUME NEW x \in HandlerType, NEW y \in CallIfInput(x)
  PROVE  Serves(x, y) /\ y \in HandlerType
<1> DEFINE P == {q \in (0 .. x.c.in) \X (0 .. x.c.in) : q[2] <= q[1]}
           F(q) == [x EXCEPT !.c.in = @ - q[1], !.c.out = @ + q[2],
                             !.c.want = @ \/ q[2] > 0]
           G(z) == [z EXCEPT !.c.status = "DISCONNECTING"]
<1>1. x.c \in ConnType
  BY DEF HandlerType
<1>2. ASSUME NEW q \in P
      PROVE  /\ F(q).rel = x.rel /\ F(q).c.status = x.c.status
             /\ F(q).c.out = x.c.out + q[2] /\ q[2] \in Nat
             /\ G(F(q)).rel = x.rel /\ G(F(q)).c.status = "DISCONNECTING"
             /\ G(F(q)).c.out = x.c.out + q[2]
  <2>1. q[2] \in Nat
    BY <1>1 DEF ConnType
  <2> QED
    BY <1>1, <2>1 DEF HandlerType, ConnType
<1> HIDE DEF F, G, P
<1>3. ASSUME NEW q \in P PROVE Serves(x, F(q))
  <2>1. x.c.out \in Nat
    BY <1>1 DEF ConnType
  <2> QED
    BY <1>2, <2>1 DEF Serves
<1>4. ASSUME NEW q \in P, F(q).c.out > x.c.out PROVE Serves(x, G(F(q)))
  <2>1. x.c.out \in Nat
    BY <1>1 DEF ConnType
  <2> QED
    BY <1>2, <1>4, <2>1 DEF Serves
<1>5. Serves(x, x)
  BY <1>1 DEF Serves, ConnType
<1>6. \/ y \in {F(q) : q \in P}
      \/ y \in {G(z) : z \in {z \in {F(q) : q \in P} : z.c.out > x.c.out}}
      \/ y = x
  BY DEF CallIfInput, MessageCallback, F, G, P
<1>7. y \in HandlerType
  BY CallIfInputKeeps DEF Keeps
<1> QED
  BY <1>3, <1>4, <1>5, <1>6, <1>7

\* ShutdownInLoop queues a release unless output is left.
Shuts(x, y) ==
    /\ y.c.status = "DISCONNECTING"
    /\ y.c.out >= x.c.out
    /\ y.rel = IF y.c.out > 0 THEN x.rel ELSE x.rel + 1

LEMMA ShutdownInLoopShuts ==
  ASSUME NEW x \in HandlerType, NEW y \in ShutdownInLoop(x)
  PROVE  Shuts(x, y)
<1> DEFINE d == [x EXCEPT !.c.status = "DISCONNECTING"]
<1>1. d \in HandlerType
  BY DisconnectingKeeps DEF Keeps
<1>2. /\ d.rel = x.rel /\ d.c.out = x.c.out
      /\ d.c.status = "DISCONNECTING"
  BY DEF HandlerType, ConnType
<1> HIDE DEF d
<1>3. PICK z \in CallIfInput(d) :
        y = IF z.c.out > 0 THEN [z EXCEPT !.c.want = TRUE] ELSE QueueRelease(z)
  BY DEF ShutdownInLoop, d
<1>4. Serves(d, z) /\ z \in HandlerType
  BY <1>1, <1>3, CallIfInputServes
<1>5. CASE z.c.out > 0
  <2>1. /\ y.rel = z.rel /\ y.c.out = z.c.out
        /\ y.c.status = z.c.status
    BY <1>3, <1>4, <1>5 DEF HandlerType, ConnType
  <2> QED
    BY <1>2, <1>4, <1>5, <2>1 DEF Shuts, Serves
<1>6. CASE ~(z.c.out > 0)
  <2>1. y.rel = z.rel + 1 /\ y.c = z.c
    BY <1>3, <1>4, <1>6 DEF QueueRelease, HandlerType
  <2> QED
    BY <1>2, <1>4, <1>6, <2>1 DEF Shuts, Serves
<1> QED
  BY <1>5, <1>6

-----------------------------------------------------------------------------
(* ClosingProgresses.                                                      *)

\* Between the statements of a handler: output is left, or a release is queued.
Closes(x) == x.c.status = "DISCONNECTING" => x.c.out > 0 \/ x.rel > 0

LEMMA ServesCloses ==
  ASSUME NEW x \in HandlerType, NEW y \in HandlerType, Serves(x, y), Closes(x)
  PROVE  Closes(y)
BY DEF Serves, Closes, HandlerType, ConnType

LEMMA ShutsCloses ==
  ASSUME NEW x \in HandlerType, NEW y, Shuts(x, y)
  PROVE  Closes(y)
BY DEF Shuts, Closes, HandlerType

LEMMA QueueReleaseCloses ==
  ASSUME NEW x \in HandlerType
  PROVE  Closes(QueueRelease(x))
BY DEF QueueRelease, Closes, HandlerType

\* The error reported to the read; the data received.
LEMMA HandleReadCloses ==
  ASSUME NEW x \in HandlerType, Closes(x), NEW y \in HandleRead(x)
  PROVE  Closes(y)
<1> DEFINE a == [x EXCEPT !.c.in = @ + x.c.rcv, !.c.rcv = 0]
           b == [x EXCEPT !.c.err = FALSE, !.errno = "other"]
           r == [x.c EXCEPT !.in = x.c.in + x.c.rcv, !.rcv = 0]
<1>1. x.c \in ConnType /\ x.c.in + x.c.rcv \in Nat
  BY DEF HandlerType, ConnType
<1>2. KeepsConn(x.c, r)
  BY <1>1, ReceiveKeeps
<1>3. a = [x EXCEPT !.c = r]
  BY <1>1 DEF HandlerType, ConnType
<1>4. a \in HandlerType
  BY <1>2, <1>3, KeepsUpdate DEF Keeps
<1>5. Closes(a)
  BY <1>1 DEF Closes, HandlerType, ConnType
<1>6. b \in HandlerType
  BY ConsumeErrorKeeps DEF Keeps
<1>7. y \in CallIfInput(a) \cup ShutdownInLoop(b) \cup CallIfInput(x) \cup ShutdownInLoop(x)
  <2>1. x.c.rcv > 0 \/ x.c.rcv = 0
    BY <1>1 DEF ConnType
  <2> QED
    BY <2>1 DEF HandleRead
<1> HIDE DEF a, b
<1> QED
  BY <1>4, <1>5, <1>6, <1>7, CallIfInputServes, ServesCloses, ShutdownInLoopShuts, ShutsCloses

\* Once the output is gone a closing connection is released.
LEMMA AfterSendCloses ==
  ASSUME NEW x \in HandlerType
  PROVE  Closes(AfterSend(x))
BY DEF AfterSend, QueueRelease, Closes, HandlerType, ConnType

LEMMA HandleWriteCloses ==
  ASSUME NEW x \in HandlerType, Closes(x), NEW y \in HandleWrite(x)
  PROVE  Closes(y)
<1> DEFINE b == [x EXCEPT !.c.err = FALSE, !.errno = "other"]
           g == [x EXCEPT !.signal = TRUE]
<1>1. x.c \in ConnType
  BY DEF HandlerType
<1>2. Closes(g)
  BY DEF Closes, HandlerType
<1>3. b \in HandlerType
  BY ConsumeErrorKeeps DEF Keeps
<1>4. \/ y = AfterSend(x)
      \/ \E z \in Sent(x) : y = AfterSend(z)
      \/ \E z \in CallIfInput(b) : y = QueueRelease(z)
      \/ y = g
  <2>1. x.c.out > 0 \/ x.c.out = 0
    BY <1>1 DEF ConnType
  <2> QED
    BY <2>1 DEF HandleWrite
<1> HIDE DEF b, g
<1>5. ASSUME NEW z \in Sent(x) PROVE z \in HandlerType
  BY SentKeeps DEF Keeps
<1>6. ASSUME NEW z \in CallIfInput(b) PROVE z \in HandlerType
  BY <1>3, CallIfInputServes
<1> QED
  BY <1>2, <1>4, <1>5, <1>6, AfterSendCloses, QueueReleaseCloses

LEMMA HandleEventCloses ==
  ASSUME NEW x \in HandlerType, Closes(x), NEW y \in HandleEvent(x)
  PROVE  Closes(y)
<1>1. PICK z : /\ z \in HandleRead(x) \/ z = x
               /\ y \in HandleWrite(z) \/ y \in HandleClose(z) \/ y = z
  BY DEF HandleEvent
<1>2. z \in HandlerType /\ Closes(z)
  BY <1>1, HandleReadKeeps, HandleReadCloses DEF Keeps
<1>3. CASE y \in HandleClose(z)
  <2>1. PICK w \in CallIfInput(z) : y = QueueRelease(w)
    BY <1>3 DEF HandleClose
  <2> QED
    BY <1>2, <2>1, CallIfInputServes, QueueReleaseCloses
<1> QED
  BY <1>1, <1>2, <1>3, HandleWriteCloses

\* Tasks put behind others are all there, and so are the others.
LEMMA ConcatPending ==
  ASSUME NEW s \in Seq(TaskType), NEW z \in Seq(TaskType)
  PROVE  /\ \A t : t \in Range(s) => t \in Range(s \o z)
         /\ \A t : t \in Range(z) => t \in Range(s \o z)
<1> DEFINE a == s \o z
<1>1. /\ DOMAIN a = 1 .. Len(s) + Len(z) /\ Len(s) \in Nat /\ Len(z) \in Nat
      /\ DOMAIN s = 1 .. Len(s) /\ DOMAIN z = 1 .. Len(z)
      /\ \A i \in DOMAIN s : a[i] = s[i]
      /\ \A i \in DOMAIN z : a[Len(s) + i] = z[i]
  OBVIOUS
<1> HIDE DEF a
<1>2. ASSUME NEW i \in DOMAIN s PROVE i \in DOMAIN a
  BY <1>1
<1>3. ASSUME NEW i \in DOMAIN z PROVE Len(s) + i \in DOMAIN a
  BY <1>1
<1>4. \A t : t \in Range(s) => t \in Range(a)
  BY <1>1, <1>2 DEF Range
<1>5. \A t : t \in Range(z) => t \in Range(a)
  BY <1>1, <1>3 DEF Range
<1> QED
  BY <1>4, <1>5 DEF a

LEMMA AppendPending ==
  ASSUME NEW s \in Seq(TaskType), NEW u \in TaskType
  PROVE  \A t : t \in Range(s) \/ t = u => t \in Range(Append(s, u))
<1> DEFINE a == Append(s, u)
<1>1. /\ DOMAIN a = 1 .. Len(s) + 1 /\ Len(s) \in Nat /\ DOMAIN s = 1 .. Len(s)
      /\ \A i \in DOMAIN s : a[i] = s[i]
      /\ a[Len(s) + 1] = u
  OBVIOUS
<1> HIDE DEF a
<1>2. Len(s) + 1 \in DOMAIN a /\ \A i \in DOMAIN s : i \in DOMAIN a
  BY <1>1
<1>3. \A t : t \in Range(s) \/ t = u => t \in Range(a)
  BY <1>1, <1>2 DEF Range
<1> QED
  BY <1>3 DEF a

\* A task of the batch is its first or is left.
LEMMA TailPending ==
  ASSUME NEW b \in Seq(TaskType), b # <<>>
  PROVE  \A t : t \in Range(b) => t = Head(b) \/ t \in Range(Tail(b))
<1> DEFINE e == Tail(b)
<1>1. /\ DOMAIN b = 1 .. Len(b) /\ Len(b) \in Nat \ {0} /\ DOMAIN e = 1 .. Len(b) - 1
      /\ \A i \in DOMAIN e : e[i] = b[i + 1]
      /\ Head(b) = b[1]
  OBVIOUS
<1> HIDE DEF e
<1>2. ASSUME NEW i \in DOMAIN b, i # 1 PROVE i - 1 \in DOMAIN e /\ e[i - 1] = b[i]
  BY <1>1, <1>2
<1>3. \A t : t \in Range(b) => t = Head(b) \/ t \in Range(e)
  BY <1>1, <1>2 DEF Range
<1> QED
  BY <1>3 DEF e

WillClose(c) ==
    conn[c].status = "DISCONNECTING" =>
        conn[c].out > 0 \/ Pending(loopOf[c], Task("release", c))

\* A step that neither begins to close the connection nor takes its output or
\* its release.
LEMMA StillCloses ==
  ASSUME NEW c \in Conn, WillClose(c),
         \/ conn'[c].status # "DISCONNECTING"
         \/ /\ conn'[c].status = conn[c].status /\ conn'[c].out = conn[c].out
            /\ loopOf'[c] = loopOf[c]
            /\ Pending(loopOf[c], Task("release", c)) => Pending(loopOf[c], Task("release", c))'
  PROVE  WillClose(c)'
<1> QED
  BY DEF WillClose, Pending

\* A task that joins a queue takes none away.
LEMMA AppendKeepsPending ==
  ASSUME TypeOK, UNCHANGED batch, NEW k \in Loop, NEW u \in TaskType,
         queue' = queue \/ queue' = [queue EXCEPT ![k] = Append(@, u)],
         NEW l \in Loop, NEW t, Pending(l, t)
  PROVE  Pending(l, t)'
<1>1. queue \in [Loop -> Seq(TaskType)] /\ queue[l] \in Seq(TaskType)
  BY DEF TypeOK
<1>2. queue'[l] = queue[l] \/ queue'[l] = Append(queue[l], u)
  BY <1>1
<1>3. t \in Range(queue[l]) => t \in Range(queue'[l])
  BY <1>1, <1>2, AppendPending
<1> QED
  BY <1>3 DEF Pending

-----------------------------------------------------------------------------
(* The steps.                                                              *)

\* An event: the handlers leave output or queue a release.
LEMMA HandleConnCloses ==
  ASSUME TypeOK, NEW l \in Loop, NEW c \in Conn, HandleConn(l, c),
         NEW d \in Conn, WillClose(d)
  PROVE  WillClose(d)'
<1> DEFINE w == [c |-> conn[c], errno |-> errno[l], rel |-> 0, signal |-> FALSE]
<1>1. PICK x \in HandleEvent(w) :
         /\ conn' = [conn EXCEPT ![c] = [x.c EXCEPT !.rev = {}]]
         /\ queue' = [queue EXCEPT ![l] = @ \o Releases(x.rel, c)]
  BY DEF HandleConn, Releases
<1>2. /\ conn \in [Conn -> ConnType] /\ queue \in [Loop -> Seq(TaskType)]
      /\ loopOf[d] \in Loop /\ loopOf[c] = l /\ queue[l] \in Seq(TaskType)
      /\ UNCHANGED <<loopOf, batch>>
  BY DEF TypeOK, HandleConn, On, serverVars
<1>3. x.rel \in Nat /\ x.c \in ConnType
  BY HandleConnType DEF HandlerType
<1>4. PICK z \in Seq(TaskType) : /\ z = Releases(x.rel, c) /\ Len(z) = x.rel
                                 /\ \A i \in 1 .. x.rel : z[i] = Task("release", c)
  BY <1>3, ReleasesSeq
<1>5. queue'[l] = queue[l] \o z /\ \A k \in Loop : k # l => queue'[k] = queue[k]
  BY <1>1, <1>2, <1>4
<1>6. \A t : Pending(loopOf[d], t) => Pending(loopOf[d], t)'
  <2>1. \A t : t \in Range(queue[loopOf[d]]) => t \in Range(queue'[loopOf[d]])
    BY <1>2, <1>5, ConcatPending
  <2> QED
    BY <1>2, <2>1 DEF Pending
<1>7. CASE d # c
  BY <1>1, <1>2, <1>6, <1>7, StillCloses
<1>8. CASE d = c
  <2>1. conn'[c].status = x.c.status /\ conn'[c].out = x.c.out
    BY <1>1, <1>2, <1>3 DEF ConnType
  <2>2. CASE Pending(l, Task("release", c))
    BY <1>2, <1>6, <1>8, <2>2 DEF WillClose, Pending
  <2>3. CASE ~Pending(l, Task("release", c))
    <3>1. w \in HandlerType /\ Closes(w)
      BY <1>2, <1>8, <2>3 DEF WillClose, Closes, HandlerType, TypeOK
    <3> HIDE DEF w
    <3>2. Closes(x)
      BY <1>1, <3>1, HandleEventCloses
    <3>3. x.rel > 0 => Task("release", c) \in Range(z)
      <4>1. x.rel > 0 => 1 \in DOMAIN z /\ z[1] = Task("release", c)
        BY <1>3, <1>4
      <4> QED
        BY <4>1 DEF Range
    <3>4. x.rel > 0 => Task("release", c) \in Range(queue'[l])
      BY <1>2, <1>5, <3>3, ConcatPending
    <3> QED
      BY <1>2, <1>8, <2>1, <3>2, <3>4 DEF WillClose, Closes, Pending
  <2> QED
    BY <2>2, <2>3
<1> QED
  BY <1>7, <1>8

\* The return of epoll_wait, a timer, a client.
LEMMA QuietCloses ==
  ASSUME TypeOK, NEW l \in Loop, NEW c \in Conn, Poll(l) \/ FireTimer(l, c) \/ Client(c),
         NEW d \in Conn, WillClose(d)
  PROVE  WillClose(d)'
<1>1. /\ conn \in [Conn -> ConnType] /\ conn[d] \in ConnType /\ loopOf[d] \in Loop
      /\ Task("release", c) \in TaskType
  BY TaskIsType DEF TypeOK, Ops
<1>2. conn'[d].status = conn[d].status /\ conn'[d].out = conn[d].out
  <2>1. CASE Poll(l)
    BY <1>1, <2>1 DEF Poll, ConnType
  <2>2. CASE FireTimer(l, c)
    BY <1>1, <2>2 DEF FireTimer, ConnType
  <2>3. CASE Client(c)
    BY <2>3, ClientKeepsServer DEF SameServer
  <2> QED
    BY <2>1, <2>2, <2>3
<1>3. /\ UNCHANGED <<loopOf, batch>>
      /\ queue' = queue \/ queue' = [queue EXCEPT ![l] = Append(@, Task("release", c))]
  BY DEF Poll, FireTimer, Client, ClientSends, ClientReads, ClientCloses, ConnectionReset,
         ClientStep, serverVars, loopVars
<1>4. \A t : Pending(loopOf[d], t) => Pending(loopOf[d], t)'
  BY <1>1, <1>3, AppendKeepsPending
<1> QED
  BY <1>2, <1>3, <1>4, StillCloses

\* The tasks of a loop become its batch, which was empty.
LEMMA SwapTasksCloses ==
  ASSUME TypeOK, Life, NEW l \in Loop, SwapTasks(l), NEW d \in Conn, WillClose(d)
  PROVE  WillClose(d)'
<1>1. UNCHANGED <<conn, loopOf>> /\ loopOf[d] \in Loop /\ batch[l] = <<>>
  BY DEF SwapTasks, serverVars, TypeOK, Life, LoopOK, Handling
<1>2. \A k \in Loop : IF k = l THEN batch'[k] = queue[k]
                               ELSE batch'[k] = batch[k] /\ queue'[k] = queue[k]
  BY DEF SwapTasks, TypeOK
<1>3. Range(<<>>) = {}
  BY DEF Range
<1>4. \A t : Pending(loopOf[d], t) => Pending(loopOf[d], t)'
  BY <1>1, <1>2, <1>3 DEF Pending
<1> QED
  BY <1>1, <1>4, StillCloses

\* EstablishInLoop closes nothing.
LEMMA EstablishCloses ==
  ASSUME conn \in [Conn -> ConnType], NEW c \in Conn, Establish(c), NEW d \in Conn
  PROVE  \/ conn'[d].status # "DISCONNECTING"
         \/ conn'[d].status = conn[d].status /\ conn'[d].out = conn[d].out
<1> DEFINE r == [conn[c] EXCEPT !.status = "CONNECTED", !.reg = TRUE]
<1>1. conn' = conn \/ conn' = [conn EXCEPT ![c] = r]
  BY DEF Establish
<1>2. r.status = "CONNECTED"
  BY DEF ConnType
<1> HIDE DEF r
<1> QED
  BY <1>1, <1>2

\* A task: the release ends the connection, and no other task begins to close it
\* or takes its release away.
LEMMA RunTaskCloses ==
  ASSUME TypeOK, NEW l \in Loop, RunTask(l), NEW d \in Conn, WillClose(d)
  PROVE  WillClose(d)'
<1> PICK t \in TaskType : t = Head(batch[l])
  BY HeadTask
<1>1. /\ t.c \in Conn /\ Base \in Loop /\ loopOf[d] \in Loop
      /\ conn \in [Conn -> ConnType] /\ conn[d] \in ConnType
      /\ UNCHANGED loopOf
      /\ \A k \in Loop : batch[k] \in Seq(TaskType) /\ queue[k] \in Seq(TaskType)
  <2>1. Base \in Loop
    BY ThreadNumAssumption DEF Base, Loop
  <2> QED
    BY <2>1, HeadTask DEF TypeOK, RunTask
<1>2. /\ batch[l] # <<>> /\ batch'[l] = Tail(batch[l])
      /\ \A k \in Loop : k # l => batch'[k] = batch[k]
  BY DEF RunTask, TypeOK
<1>3. queue' = queue \/ queue' = [queue EXCEPT ![Base] = Append(@, Task("remove", t.c))]
  BY DEF RunTask, ReleaseInLoop, RemoveConnection
<1>4. \A k \in Loop : \A u : u \in Range(queue[k]) => u \in Range(queue'[k])
  <2>1. Task("remove", t.c) \in TaskType
    BY <1>1, TaskIsType DEF Ops
  <2>2. ASSUME NEW k \in Loop
        PROVE  queue'[k] = queue[k] \/ queue'[k] = Append(queue[k], Task("remove", t.c))
    BY <1>3 DEF TypeOK
  <2> QED
    BY <1>1, <2>1, <2>2, AppendPending
<1>5. \A k \in Loop : \A u : u \in Range(batch[k]) => u \in Range(batch'[k]) \/ u = t
  BY <1>1, <1>2, TailPending
<1>6. CASE t = Task("release", d)
  <2>1. ReleaseInLoop(l, d)
    BY <1>6 DEF RunTask, Task
  <2>2. conn'[d].status = "DISCONNECTED"
    BY <1>1, <2>1 DEF ReleaseInLoop, Released, ConnType
  <2> QED
    BY <2>2, StillCloses
<1>7. CASE t # Task("release", d)
  <2>1. \/ conn'[d].status # "DISCONNECTING"
        \/ conn'[d].status = conn[d].status /\ conn'[d].out = conn[d].out
    <3>1. CASE UNCHANGED conn
      BY <3>1
    <3>2. CASE EnableInactiveRelease(t.c)
      BY <1>1, <3>2 DEF EnableInactiveRelease, ConnType
    <3>3. CASE Establish(t.c)
      BY <1>1, <3>3, EstablishCloses
    <3>4. CASE ReleaseInLoop(l, t.c)
      BY <1>1, <3>4 DEF ReleaseInLoop, Released, ConnType
    <3> QED
      BY <3>1, <3>2, <3>3, <3>4 DEF RunTask, RemoveConnection
  <2>2. Pending(loopOf[d], Task("release", d)) => Pending(loopOf[d], Task("release", d))'
    BY <1>1, <1>4, <1>5, <1>7 DEF Pending
  <2> QED
    BY <1>1, <2>1, <2>2, StillCloses
<1> QED
  BY <1>6, <1>7

\* Accepting: the loop is given to a connection that nothing has touched; later it
\* is told of the timer and of the establishment.
LEMMA AcceptingCloses ==
  ASSUME TypeOK, Life, NEW d \in Conn, WillClose(d),
         Accept \/ NewConnectionEnable \/ NewConnectionEstablish
  PROVE  WillClose(d)'
<1>1. conn \in [Conn -> ConnType] /\ conn[d] \in ConnType /\ loopOf[d] \in Loop
  BY DEF TypeOK
<1>2. CASE Accept
  <2>1. UNCHANGED <<conn, queue, batch>>
    BY <1>2 DEF Accept
  <2>2. CASE d = connId + 1
    <3>1. connId < d /\ ConnOK(d)
      BY <2>2 DEF TypeOK, Life
    <3>2. conn[d].status = "CONNECTING"
      BY <3>1 DEF ConnOK, Untouched
    <3> QED
      BY <2>1, <3>2, StillCloses
  <2>3. CASE d # connId + 1
    <3>1. loopOf'[d] = loopOf[d]
      BY <1>2, <2>3 DEF Accept, TypeOK
    <3> QED
      BY <2>1, <3>1, StillCloses DEF Pending
  <2> QED
    BY <2>2, <2>3
<1>3. CASE NewConnectionEnable \/ NewConnectionEstablish
  <2> PICK c \in Conn : c = accepting
    BY <1>3 DEF TypeOK, NewConnectionEnable, NewConnectionEstablish
  <2>1. UNCHANGED <<loopOf, batch>> /\ loopOf[c] \in Loop
    BY <1>3 DEF NewConnectionEnable, NewConnectionEstablish, TypeOK
  <2> PICK u \in TaskType : queue' = queue \/ queue' = [queue EXCEPT ![loopOf[c]] = Append(@, u)]
    <3>1. Task("enable", c) \in TaskType /\ Task("establish", c) \in TaskType
      BY TaskIsType DEF Ops
    <3> QED
      BY <1>3, <3>1 DEF NewConnectionEnable, NewConnectionEstablish, RunFromBase
  <2>2. \A t : Pending(loopOf[d], t) => Pending(loopOf[d], t)'
    BY <1>1, <2>1, AppendKeepsPending
  <2>3. \/ conn'[d].status # "DISCONNECTING"
        \/ conn'[d].status = conn[d].status /\ conn'[d].out = conn[d].out
    <3>1. CASE UNCHANGED conn
      BY <3>1
    <3>2. CASE EnableInactiveRelease(c)
      BY <1>1, <3>2 DEF EnableInactiveRelease, ConnType
    <3>3. CASE Establish(c)
      BY <1>1, <3>3, EstablishCloses
    <3> QED
      BY <1>3, <3>1, <3>2, <3>3 DEF NewConnectionEnable, NewConnectionEstablish, RunFromBase
  <2> QED
    BY <2>1, <2>2, <2>3, StillCloses
<1> QED
  BY <1>2, <1>3

-----------------------------------------------------------------------------
(* The theorem.                                                            *)

\* A connection that is closing has output to flush or its release queued on its own
\* loop, for any numbers, faults and interleaving: no early return of the handlers
\* forgets it.
THEOREM ClosingAlwaysProgresses == Safe => []ClosingProgresses
<1> DEFINE W == proc = "up" => \A c \in Conn : WillClose(c)
<1>1. Init => W
  BY DEF Init, NewConn, WillClose
<1>2. TypeOK /\ LifeInv /\ W /\ [Next]_vars => W'
  <2> SUFFICES ASSUME TypeOK, LifeInv, W, [Next]_vars, proc' = "up", NEW d \in Conn
               PROVE  WillClose(d)'
    OBVIOUS
  <2>1. CASE UNCHANGED vars
    BY <2>1 DEF WillClose, Pending, vars, serverVars, loopVars
  <2>2. CASE Next
    <3>1. Life /\ WillClose(d)
      BY <2>2 DEF LifeInv, Next, LoopStep, Client
    <3>2. ASSUME \/ AcceptFails \/ NewConnectionInsert \/ Connect
                 \/ \E l \in Loop : EndOntime(l) \/ EndBatch(l) \/ PollInterrupted(l)
          PROVE  WillClose(d)'
      <4>1. UNCHANGED <<conn, loopOf, queue, batch>>
        BY <3>2 DEF AcceptFails, NewConnectionInsert, Connect, EndOntime, EndBatch,
                    PollInterrupted, serverVars, loopVars
      <4> QED
        BY <3>1, <4>1, StillCloses DEF Pending
    <3>3. Base \in Loop
      BY ThreadNumAssumption DEF Base, Loop
    <3> HIDE DEF W
    <3> QED
      BY <2>2, <3>1, <3>2, <3>3, HandleConnCloses, QuietCloses, SwapTasksCloses,
         RunTaskCloses, AcceptingCloses DEF Next, LoopStep
  <2> QED
    BY <2>1, <2>2
<1>3. W => ClosingProgresses
  BY DEF WillClose, ClosingProgresses
<1> QED
  BY <1>1, <1>2, <1>3, TypeCorrect, LifeInvariant, PTL DEF Safe

-----------------------------------------------------------------------------
(* ClosedOnce: what the handlers do when no connection is reset.           *)

\* EPOLLOUT is asked for only with output to send, and no SIGPIPE came.
Sound(x) ==
    /\ ~Reset(x.c)
    /\ x.c.want => x.c.out > 0
    /\ ~x.signal

LEMMA CallIfInputSound ==
  ASSUME NEW x \in HandlerType, Sound(x), NEW y \in CallIfInput(x)
  PROVE  Sound(y)
<1> DEFINE P == {q \in (0 .. x.c.in) \X (0 .. x.c.in) : q[2] <= q[1]}
           F(q) == [x EXCEPT !.c.in = @ - q[1], !.c.out = @ + q[2],
                             !.c.want = @ \/ q[2] > 0]
           G(z) == [z EXCEPT !.c.status = "DISCONNECTING"]
<1>1. x.c \in ConnType
  BY DEF HandlerType
<1>2. ASSUME NEW q \in P
      PROVE  /\ F(q).c.peer = x.c.peer /\ F(q).signal = x.signal
             /\ F(q).c.out = x.c.out + q[2] /\ q[2] \in Nat
             /\ F(q).c.want => x.c.want \/ q[2] > 0
             /\ G(F(q)).c.peer = x.c.peer /\ G(F(q)).signal = x.signal
             /\ G(F(q)).c.out = F(q).c.out /\ G(F(q)).c.want = F(q).c.want
  <2>1. q[2] \in Nat
    BY <1>1 DEF ConnType
  <2> QED
    BY <1>1, <2>1 DEF HandlerType, ConnType
<1> HIDE DEF F, G, P
<1>3. ASSUME NEW q \in P PROVE Sound(F(q)) /\ Sound(G(F(q)))
  <2>1. x.c.out \in Nat
    BY <1>1 DEF ConnType
  <2>2. F(q).c.want => F(q).c.out > 0
    BY <1>2, <2>1 DEF Sound
  <2> QED
    BY <1>2, <2>2 DEF Sound, Reset
<1>4. \/ y \in {F(q) : q \in P}
      \/ y \in {G(z) : z \in {z \in {F(q) : q \in P} : z.c.out > x.c.out}}
      \/ y = x
  BY DEF CallIfInput, MessageCallback, F, G, P
<1> QED
  BY <1>3, <1>4

LEMMA ShutdownInLoopSound ==
  ASSUME NEW x \in HandlerType, Sound(x), NEW y \in ShutdownInLoop(x)
  PROVE  Sound(y)
<1> DEFINE d == [x EXCEPT !.c.status = "DISCONNECTING"]
<1>1. d \in HandlerType
  BY DisconnectingKeeps DEF Keeps
<1>2. Sound(d)
  BY DEF Sound, Reset, HandlerType, ConnType
<1> HIDE DEF d
<1>3. PICK z \in CallIfInput(d) :
        y = IF z.c.out > 0 THEN [z EXCEPT !.c.want = TRUE] ELSE QueueRelease(z)
  BY DEF ShutdownInLoop, d
<1>4. Sound(z) /\ z \in HandlerType
  BY <1>1, <1>2, <1>3, CallIfInputSound, CallIfInputServes
<1>5. CASE z.c.out > 0
  <2>1. y.c.peer = z.c.peer /\ y.c.out = z.c.out /\ y.signal = z.signal
    BY <1>3, <1>4, <1>5 DEF HandlerType, ConnType
  <2> QED
    BY <1>4, <1>5, <2>1 DEF Sound, Reset
<1>6. CASE ~(z.c.out > 0)
  BY <1>3, <1>4, <1>6 DEF Sound, QueueRelease, HandlerType
<1> QED
  BY <1>5, <1>6

\* A read leaves the output that was there; it queues a release only when there is
\* none.
LEMMA HandleReadSound ==
  ASSUME NEW x \in HandlerType, Sound(x), NEW y \in HandleRead(x)
  PROVE  Sound(y) /\ y.c.out >= x.c.out /\ (y.rel = x.rel \/ (y.rel = x.rel + 1 /\ y.c.out = 0))
<1> DEFINE a == [x EXCEPT !.c.in = @ + x.c.rcv, !.c.rcv = 0]
           r == [x.c EXCEPT !.in = x.c.in + x.c.rcv, !.rcv = 0]
<1>1. x.c \in ConnType /\ x.c.in + x.c.rcv \in Nat
  BY DEF HandlerType, ConnType
<1>2. KeepsConn(x.c, r)
  BY <1>1, ReceiveKeeps
<1>3. a = [x EXCEPT !.c = r]
  BY <1>1 DEF HandlerType, ConnType
<1>4. a \in HandlerType
  BY <1>2, <1>3, KeepsUpdate DEF Keeps
<1>5. Sound(a) /\ a.c.out = x.c.out /\ a.rel = x.rel
  BY <1>1 DEF Sound, Reset, HandlerType, ConnType
<1>6. y \in CallIfInput(a) \cup CallIfInput(x) \cup ShutdownInLoop(x)
  <2>1. x.c.rcv > 0 \/ x.c.rcv = 0
    BY <1>1 DEF ConnType
  <2>2. x.c.peer # "rst"
    BY DEF Sound, Reset
  <2> QED
    BY <2>1, <2>2 DEF HandleRead
<1> HIDE DEF a
<1>7. CASE y \in CallIfInput(a)
  BY <1>4, <1>5, <1>7, CallIfInputSound, CallIfInputServes DEF Serves
<1>8. CASE y \in CallIfInput(x)
  BY <1>8, CallIfInputSound, CallIfInputServes DEF Serves
<1>9. CASE y \in ShutdownInLoop(x)
  <2>1. y.c.out \in Nat
    BY <1>9, ShutdownInLoopKeeps DEF Keeps, HandlerType, ConnType
  <2> QED
    BY <1>9, <2>1, ShutdownInLoopSound, ShutdownInLoopShuts DEF Shuts
<1> QED
  BY <1>6, <1>7, <1>8, <1>9

\* The end of HandleWrite: a release only once the output is gone.
LEMMA AfterSendSound ==
  ASSUME NEW x \in HandlerType, ~Reset(x.c), ~x.signal
  PROVE  Sound(AfterSend(x)) /\ AfterSend(x).rel \in {x.rel, x.rel + 1}
<1>1. CASE x.c.out > 0
  BY <1>1 DEF AfterSend, Sound
<1>2. CASE ~(x.c.out > 0)
  BY <1>2 DEF AfterSend, QueueRelease, Sound, Reset, HandlerType, ConnType
<1> QED
  BY <1>1, <1>2

LEMMA HandleWriteSound ==
  ASSUME NEW x \in HandlerType, Sound(x), NEW y \in HandleWrite(x)
  PROVE  Sound(y) /\ y.rel \in {x.rel, x.rel + 1}
<1>1. x.c \in ConnType
  BY DEF HandlerType
<1>2. PICK z \in {x} \cup Sent(x) : y = AfterSend(z)
  <2>1. x.c.out > 0 \/ x.c.out = 0
    BY <1>1 DEF ConnType
  <2> QED
    BY <2>1 DEF HandleWrite, Sound
<1>3. z \in HandlerType
  BY <1>2, SentKeeps DEF Keeps
<1>4. z.rel = x.rel /\ z.signal = x.signal /\ z.c.peer = x.c.peer
  <2>1. CASE z = x
    BY <2>1
  <2>2. CASE z = [x EXCEPT !.errno = "again"]
    BY <2>2 DEF HandlerType
  <2>3. ASSUME NEW k \in 1 .. x.c.out, NEW f \in BOOLEAN,
               z = [x EXCEPT !.c.out = @ - k, !.c.full = f]
        PROVE  z.rel = x.rel /\ z.signal = x.signal /\ z.c.peer = x.c.peer
    BY <1>1, <2>3 DEF HandlerType, ConnType
  <2>4. \/ z = x \/ z = [x EXCEPT !.errno = "again"]
        \/ \E k \in 1 .. x.c.out : z = [x EXCEPT !.c.out = @ - k, !.c.full = k < x.c.out]
    BY <1>2 DEF Sent
  <2>5. \A k \in 1 .. x.c.out : (k < x.c.out) \in BOOLEAN
    OBVIOUS
  <2> QED
    BY <2>1, <2>2, <2>3, <2>4, <2>5
<1> QED
  BY <1>2, <1>3, <1>4, AfterSendSound DEF Sound, Reset

\* One event releases at most once: when the output event is reported there is
\* output, and a read that leaves output releases nothing.
LEMMA HandleEventSound ==
  ASSUME NEW x \in HandlerType, Sound(x), x.rel = 0,
         "hup" \notin x.c.rev, "out" \in x.c.rev => x.c.out > 0,
         NEW y \in HandleEvent(x)
  PROVE  Sound(y) /\ y.rel \in 0 .. 1
<1>1. PICK z : /\ z \in HandleRead(x) \/ z = x
               /\ (y \in HandleWrite(z) /\ "out" \in x.c.rev) \/ y = z
  BY DEF HandleEvent
<1>2. z \in HandlerType
  BY <1>1, HandleReadKeeps DEF Keeps
<1>3. /\ Sound(z) /\ z.c.out >= x.c.out
      /\ z.rel = 0 \/ (z.rel = 1 /\ z.c.out = 0)
  <2>1. x.c.out >= x.c.out
    BY DEF HandlerType, ConnType
  <2> QED
    BY <1>1, <2>1, HandleReadSound
<1>4. x.c.out \in Nat /\ z.c.out \in Nat
  BY <1>2 DEF HandlerType, ConnType
<1>5. CASE y = z
  BY <1>3, <1>5
<1>6. CASE y \in HandleWrite(z) /\ "out" \in x.c.rev
  <2>1. z.rel = 0
    BY <1>3, <1>4, <1>6
  <2> QED
    BY <1>2, <1>3, <1>6, <2>1, HandleWriteSound
<1> QED
  BY <1>1, <1>5, <1>6

-----------------------------------------------------------------------------
(* ClosedOnce: the inductive invariant.                                    *)

\* Without resets and timers the close callback was called when the connection
\* became DISCONNECTED, and the output event finds output.
Orderly(r) ==
    /\ ~r.timer /\ ~Reset(r)
    /\ "hup" \notin r.rev /\ ("out" \in r.rev => r.out > 0)
    /\ r.want => r.out > 0
    /\ r.closes = IF r.status = "DISCONNECTED" THEN 1 ELSE 0

\* A connection is established once, released while in the poller, and not known
\* to its loop before NewConnection hands it over.
TaskOnce(t) ==
    /\ t.op # "enable"
    /\ t.op = "establish" => conn[t.c].status = "CONNECTING"
    /\ t.op = "release" => conn[t.c].reg
    /\ ~(stage = "establish" /\ t.c = accepting)

TasksOnce(s) == \A i \in DOMAIN s : TaskOnce(s[i])

\* No task but a removal is twice in a queue, or in a batch and the queue behind it.
Single(s) == \A i, j \in DOMAIN s : s[i] = s[j] /\ s[i].op # "remove" => i = j

Apart(b, s) == \A i \in DOMAIN b, j \in DOMAIN s : b[i] = s[j] => b[i].op = "remove"

SingleApart(b, s) == Single(b) /\ Single(s) /\ Apart(b, s)

\* A release waits in the queue only while its loop handles events, those of the
\* connection being done.
LateRelease(l) ==
    \A i \in DOMAIN queue[l] :
        queue[l][i].op = "release" => pc[l] = "handle" /\ conn[queue[l][i].c].rev = {}

LoopOnce(l) ==
    /\ SingleApart(batch[l], queue[l])
    /\ TasksOnce(batch[l]) /\ TasksOnce(queue[l])
    /\ LateRelease(l)

AcceptOnce == stage # "enable" /\ (stage = "establish" => Untouched(conn[accepting]))

OnceInv ==
    /\ proc = "up"
    /\ AcceptOnce
    /\ \A c \in Conn : Orderly(conn[c])
    /\ \A l \in Loop : LoopOnce(l)

\* A new task, or another removal, put behind the others.
AfterAppend(b, s, t) ==
    LET a == Append(s, t)
    IN  /\ SingleApart(b, a)
        /\ \A i \in DOMAIN a : a[i] = t \/ \E j \in DOMAIN s : a[i] = s[j]

LEMMA AppendOnce ==
  ASSUME NEW b \in Seq(TaskType), NEW s \in Seq(TaskType), NEW t \in TaskType,
         SingleApart(b, s),
         \/ t.op = "remove"
         \/ (\A i \in DOMAIN b : b[i] # t) /\ (\A i \in DOMAIN s : s[i] # t)
  PROVE  AfterAppend(b, s, t)
<1> DEFINE a == Append(s, t)
<1>1. /\ DOMAIN a = 1 .. Len(s) + 1 /\ DOMAIN s = 1 .. Len(s) /\ Len(s) \in Nat
      /\ \A i \in DOMAIN s : a[i] = s[i]
      /\ a[Len(s) + 1] = t
  OBVIOUS
<1> HIDE DEF a
<1>2. \A i \in DOMAIN a : i \in DOMAIN s \/ i = Len(s) + 1
  BY <1>1
<1>3. Single(a)
  BY <1>1, <1>2 DEF Single, SingleApart
<1>4. Apart(b, a)
  BY <1>1, <1>2 DEF Apart, SingleApart
<1> QED
  BY <1>1, <1>2, <1>3, <1>4 DEF AfterAppend, SingleApart, a

\* The first task taken off a batch: it is not met again, unless it is a removal.
AfterTake(b, s) ==
    LET t == Head(b)
        r == Tail(b)
    IN  /\ SingleApart(r, s)
        /\ \A i \in DOMAIN r : \E j \in DOMAIN b : r[i] = b[j]
        /\ t.op # "remove" => /\ \A i \in DOMAIN r : r[i] # t
                              /\ \A i \in DOMAIN s : s[i] # t

LEMMA TakeOnce ==
  ASSUME NEW b \in Seq(TaskType), NEW s \in Seq(TaskType), b # <<>>, SingleApart(b, s)
  PROVE  AfterTake(b, s)
<1> DEFINE t == Head(b)  r == Tail(b)
<1>1. /\ Len(b) \in Nat \ {0} /\ DOMAIN b = 1 .. Len(b) /\ DOMAIN r = 1 .. Len(b) - 1
      /\ \A i \in DOMAIN r : i + 1 \in DOMAIN b /\ r[i] = b[i + 1]
      /\ t = b[1] /\ 1 \in DOMAIN b
  OBVIOUS
<1> HIDE DEF t, r
<1>2. Single(r)
  <2> SUFFICES ASSUME NEW i \in DOMAIN r, NEW j \in DOMAIN r, r[i] = r[j], r[i].op # "remove"
               PROVE  i = j
    BY DEF Single
  <2>1. i + 1 = j + 1
    BY <1>1 DEF Single, SingleApart
  <2> QED
    BY <1>1, <2>1
<1>3. Apart(r, s)
  BY <1>1 DEF Apart, SingleApart
<1>4. ASSUME t.op # "remove", NEW i \in DOMAIN r, r[i] = t PROVE FALSE
  <2>1. i + 1 = 1
    BY <1>1, <1>4 DEF Single, SingleApart
  <2> QED
    BY <1>1, <2>1
<1>5. t.op # "remove" => \A i \in DOMAIN s : s[i] # t
  BY <1>1 DEF Apart, SingleApart
<1> QED
  BY <1>1, <1>2, <1>3, <1>4, <1>5 DEF AfterTake, SingleApart, t, r

-----------------------------------------------------------------------------
(* ClosedOnce: the steps.                                                  *)

\* A step that moves no task, and of a connection changes only what has arrived
\* and what is reported of it.
LEMMA QuietOnce ==
  ASSUME TypeOK, OnceInv, UNCHANGED <<queue, batch, proc>>,
         stage' # "enable", stage' = "establish" => UNCHANGED <<stage, accepting>>,
         \A c \in Conn : SameLife(conn[c], conn'[c]) /\ Orderly(conn'[c]),
         \A l \in Loop : LateRelease(l)'
  PROVE  OnceInv'
<1>1. AcceptOnce'
  <2>1. stage' = "establish" => accepting \in Conn
    BY DEF TypeOK
  <2> QED
    BY <2>1 DEF OnceInv, AcceptOnce, Untouched, SameLife
<1>2. ASSUME NEW l \in Loop PROVE LoopOnce(l)'
  <2>1. batch[l] \in Seq(TaskType) /\ queue[l] \in Seq(TaskType) /\ LoopOnce(l)
    BY DEF TypeOK, OnceInv
  <2>2. ASSUME NEW s \in Seq(TaskType), TasksOnce(s) PROVE TasksOnce(s)'
    <3>1. \A i \in DOMAIN s : s[i].c \in Conn
      BY TasksHaveType
    <3> QED
      BY <2>2, <3>1 DEF TasksOnce, TaskOnce, SameLife
  <2>3. TasksOnce(batch[l])' /\ TasksOnce(queue[l])'
    BY <2>1, <2>2 DEF LoopOnce
  <2> QED
    BY <2>1, <2>3 DEF LoopOnce
<1> QED
  BY <1>1, <1>2 DEF OnceInv

\* epoll_wait returns: the loop that polls has no release waiting, and the events
\* reported are those of an orderly connection.
LEMMA PollOnce ==
  ASSUME TypeOK, Life, OnceInv, NEW l \in Loop, Poll(l)
  PROVE  OnceInv'
<1>1. /\ conn \in [Conn -> ConnType] /\ pc \in [Loop -> {"poll", "handle", "run"}]
      /\ UNCHANGED <<queue, batch, proc, stage, accepting>>
      /\ pc[l] = "poll" /\ pc' = [pc EXCEPT ![l] = "handle"]
  BY DEF TypeOK, Poll, serverVars
<1>2. ASSUME NEW c \in Conn
      PROVE  /\ SameLife(conn[c], conn'[c]) /\ Orderly(conn'[c])
             /\ loopOf[c] # l => conn'[c] = conn[c]
  <2>1. conn[c] \in ConnType /\ Orderly(conn[c])
    BY <1>1 DEF OnceInv
  <2>2. CASE c \in On(l)
    <3>1. conn'[c] = [conn[c] EXCEPT !.rev = Revents(conn[c])] /\ loopOf[c] = l
      BY <2>2 DEF Poll, On
    <3>2. "hup" \notin Revents(conn[c]) /\ ("out" \in Revents(conn[c]) => conn[c].want)
      BY <2>1 DEF Revents, Orderly
    <3> QED
      BY <2>1, <3>1, <3>2 DEF SameLife, Orderly, Reset, ConnType
  <2>3. CASE c \notin On(l)
    BY <2>1, <2>3 DEF Poll, SameLife
  <2> QED
    BY <2>2, <2>3
<1>3. ASSUME NEW k \in Loop PROVE LateRelease(k)'
  <2>1. LateRelease(k) /\ TasksOK(k, queue[k]) /\ queue[k] \in Seq(TaskType)
    BY DEF OnceInv, LoopOnce, Life, LoopOK, TypeOK
  <2>2. ASSUME NEW i \in DOMAIN queue[k], queue[k][i].op = "release"
        PROVE  queue[k][i].c \in Conn /\ loopOf[queue[k][i].c] = k /\ k # l
    BY <1>1, <2>1, <2>2, TasksHaveType DEF TasksOK, TaskOK, LateRelease
  <2>3. k # l => pc'[k] = pc[k]
    BY <1>1
  <2> QED
    BY <1>1, <1>2, <2>1, <2>2, <2>3 DEF LateRelease
<1>4. stage # "enable"
  BY DEF OnceInv, AcceptOnce
<1> QED
  BY <1>1, <1>2, <1>3, <1>4, QuietOnce

\* A step that changes no connection, and no loop but one that ends its batch or
\* whose epoll_wait is interrupted.
LEMMA IdleOnce ==
  ASSUME TypeOK, OnceInv,
         \/ AcceptFails \/ NewConnectionInsert \/ Connect
         \/ \E l \in Loop : EndOntime(l) \/ EndBatch(l) \/ PollInterrupted(l)
  PROVE  OnceInv'
<1>1. /\ UNCHANGED <<queue, batch, proc, conn>>
      /\ stage' = "idle" \/ UNCHANGED <<stage, accepting>>
  BY DEF AcceptFails, NewConnectionInsert, Connect, EndOntime, EndBatch, PollInterrupted,
         serverVars, loopVars
<1>2. ASSUME NEW l \in Loop PROVE pc'[l] = pc[l] \/ pc[l] \in {"run", "poll"}
  BY DEF AcceptFails, NewConnectionInsert, Connect, EndOntime, EndBatch, PollInterrupted,
         serverVars, loopVars, TypeOK
<1>3. \A l \in Loop : LateRelease(l)'
  BY <1>1, <1>2 DEF OnceInv, LoopOnce, LateRelease
<1>4. \A c \in Conn : SameLife(conn[c], conn'[c]) /\ Orderly(conn'[c])
  BY <1>1 DEF SameLife, OnceInv
<1> QED
  BY <1>1, <1>3, <1>4, QuietOnce DEF OnceInv, AcceptOnce

\* A client that does not reset.
LEMMA ClientOnce ==
  ASSUME TypeOK, OnceInv, "reset" \notin Faults, NEW c \in Conn, Client(c)
  PROVE  OnceInv'
<1>1. UNCHANGED <<queue, batch, proc, stage, accepting, pc>> /\ conn \in [Conn -> ConnType]
  BY DEF Client, ClientSends, ClientReads, ClientCloses, ConnectionReset, ClientStep,
         serverVars, loopVars, TypeOK
<1>2. ASSUME NEW d \in Conn
      PROVE  SameLife(conn[d], conn'[d]) /\ conn'[d].rev = conn[d].rev /\ Orderly(conn'[d])
  <2>1. SameServer(conn[d], conn'[d]) /\ Orderly(conn[d])
    BY ClientKeepsServer DEF OnceInv
  <2>2. conn'[d].peer \in {conn[d].peer, "fin"}
    <3>1. conn[c] \in ConnType
      BY <1>1
    <3>2. PICK r : conn' = [conn EXCEPT ![c] = r] /\ r.peer \in {conn[c].peer, "fin"}
      BY <3>1 DEF Client, ClientSends, ClientReads, ClientCloses, ConnectionReset, ClientStep, ConnType
    <3> QED
      BY <1>1, <3>2
  <2> QED
    BY <2>1, <2>2 DEF SameServer, SameLife, Orderly, Reset
<1>3. ASSUME NEW l \in Loop PROVE LateRelease(l)'
  <2>1. LateRelease(l) /\ queue[l] \in Seq(TaskType)
    BY DEF OnceInv, LoopOnce, TypeOK
  <2>2. \A i \in DOMAIN queue[l] : queue[l][i].c \in Conn
    BY <2>1, TasksHaveType
  <2> QED
    BY <1>1, <1>2, <2>1, <2>2 DEF LateRelease
<1> QED
  BY <1>1, <1>2, <1>3, QuietOnce DEF OnceInv, AcceptOnce

\* The tasks of a loop become its batch, which was empty.
LEMMA SwapTasksOnce ==
  ASSUME TypeOK, Life, OnceInv, NEW l \in Loop, SwapTasks(l)
  PROVE  OnceInv'
<1>1. /\ UNCHANGED <<conn, stage, accepting, proc>> /\ batch[l] = <<>>
      /\ \A k \in Loop : k # l => /\ batch'[k] = batch[k] /\ queue'[k] = queue[k]
                                  /\ pc'[k] = pc[k]
      /\ batch'[l] = queue[l] /\ queue'[l] = <<>>
  BY DEF SwapTasks, serverVars, TypeOK, Life, LoopOK, Handling
<1>2. ASSUME NEW k \in Loop PROVE LoopOnce(k)'
  <2>1. LoopOnce(k)
    BY DEF OnceInv
  <2>2. CASE k = l
    <3>1. SingleApart(queue[l], <<>>) /\ TasksOnce(<<>>)
      BY <2>1, <2>2 DEF LoopOnce, SingleApart, Single, Apart, TasksOnce
    <3>2. TasksOnce(queue[l])'
      BY <1>1, <2>1, <2>2, <3>1 DEF LoopOnce, TasksOnce, TaskOnce
    <3>3. TasksOnce(batch[l])' /\ LateRelease(l)'
      BY <1>1, <2>1, <2>2 DEF LoopOnce, TasksOnce, TaskOnce, LateRelease
    <3> QED
      BY <1>1, <2>2, <3>1, <3>2, <3>3 DEF LoopOnce
  <2>3. CASE k # l
    BY <1>1, <2>1, <2>3 DEF LoopOnce, TasksOnce, TaskOnce, LateRelease
  <2> QED
    BY <2>2, <2>3
<1> QED
  BY <1>1, <1>2 DEF OnceInv, AcceptOnce

\* A connection is accepted: no loop knows it yet.
LEMMA AcceptingOnce ==
  ASSUME TypeOK, Life, OnceInv, ~IdleTimeout, Accept
  PROVE  OnceInv'
<1>1. /\ UNCHANGED <<conn, queue, batch, pc, proc>>
      /\ stage' = "establish" /\ accepting' = connId + 1
  BY DEF Accept
<1>2. connId + 1 \in Conn /\ connId \in Nat
  BY MaxConnAssumption DEF Accept, TypeOK, Conn
<1>3. Untouched(conn[connId + 1])
  BY <1>2 DEF Life, ConnOK
<1>4. ASSUME NEW l \in Loop PROVE LoopOnce(l)'
  <2>1. /\ LoopOnce(l) /\ TasksOK(l, batch[l]) /\ TasksOK(l, queue[l])
        /\ batch[l] \in Seq(TaskType) /\ queue[l] \in Seq(TaskType)
    BY DEF OnceInv, Life, LoopOK, TypeOK
  <2>2. ASSUME NEW s \in Seq(TaskType), TasksOnce(s), TasksOK(l, s) PROVE TasksOnce(s)'
    <3>1. ASSUME NEW i \in DOMAIN s PROVE TaskOnce(s[i])'
      <4>1. s[i].c <= connId /\ s[i].c \in Conn
        BY <2>2, TasksHaveType DEF TasksOK, TaskOK
      <4>2. s[i].c # connId + 1
        BY <1>2, <4>1 DEF Conn
      <4> QED
        BY <1>1, <2>2, <4>2 DEF TasksOnce, TaskOnce
    <3> QED
      BY <3>1 DEF TasksOnce
  <2>3. TasksOnce(batch[l])' /\ TasksOnce(queue[l])'
    BY <1>1, <2>1, <2>2 DEF LoopOnce
  <2> QED
    BY <1>1, <2>1, <2>3 DEF LoopOnce, LateRelease
<1> QED
  BY <1>1, <1>3, <1>4 DEF OnceInv, AcceptOnce

\* The events of a connection queue at most one release, and it is the first.
LEMMA HandleConnOnce ==
  ASSUME TypeOK, Life, OnceInv, NEW l \in Loop, NEW c \in Conn, HandleConn(l, c)
  PROVE  OnceInv'
<1> DEFINE w == [c |-> conn[c], errno |-> errno[l], rel |-> 0, signal |-> FALSE]
           t == Task("release", c)
<1>1. PICK x \in HandleEvent(w) :
         /\ conn' = [conn EXCEPT ![c] = [x.c EXCEPT !.rev = {}]]
         /\ queue' = [queue EXCEPT ![l] = @ \o Releases(x.rel, c)]
         /\ proc' = IF ~Alive(c) THEN "undefined" ELSE IF x.signal THEN "sigpipe" ELSE proc
  BY DEF HandleConn, Releases
<1>2. /\ conn \in [Conn -> ConnType] /\ queue \in [Loop -> Seq(TaskType)]
      /\ batch \in [Loop -> Seq(TaskType)] /\ conn[c] \in ConnType
      /\ UNCHANGED <<batch, pc, stage, accepting>>
      /\ t \in TaskType /\ t.op = "release" /\ t.c = c
  BY TaskIsType DEF TypeOK, HandleConn, serverVars, Ops, Task
<1>3. /\ conn[c].rev # {} /\ conn[c].reg /\ conn[c].status \in {"CONNECTED", "DISCONNECTING"}
      /\ pc[l] = "handle" /\ batch[l] = <<>> /\ loopOf[c] = l /\ c <= connId
      /\ c \in conns \/ c = accepting
      /\ Orderly(conn[c])
  BY DEF HandleConn, Handling, On, Life, ConnOK, LoopOK, OnceInv
<1>4. x \in HandlerType /\ KeepsConn(conn[c], x.c) /\ [x.c EXCEPT !.rev = {}] \in ConnType
  BY HandleConnType
<1>5. Sound(x) /\ x.rel \in 0 .. 1
  <2>1. w \in HandlerType
    BY <1>2 DEF HandlerType, TypeOK
  <2>2. /\ Sound(w) /\ w.rel = 0
        /\ "hup" \notin w.c.rev /\ ("out" \in w.c.rev => w.c.out > 0)
    BY <1>3 DEF Sound, Orderly
  <2> HIDE DEF w
  <2> QED
    BY <1>1, <2>1, <2>2, HandleEventSound
<1> HIDE DEF w, t
<1>6. proc' = "up"
  BY <1>1, <1>3, <1>5 DEF Alive, Sound, OnceInv
<1>7. /\ conn'[c].rev = {} /\ conn'[c].reg = conn[c].reg
      /\ conn'[c].status \in {"CONNECTED", "DISCONNECTING"}
      /\ Orderly(conn'[c])
      /\ \A d \in Conn : d # c => conn'[d] = conn[d]
  <2> DEFINE r == [x.c EXCEPT !.rev = {}]
  <2>1. x.c \in ConnType
    BY <1>4 DEF KeepsConn
  <2>2. /\ r.rev = {} /\ r.reg = x.c.reg /\ r.status = x.c.status /\ r.timer = x.c.timer
        /\ r.peer = x.c.peer /\ r.want = x.c.want /\ r.out = x.c.out /\ r.closes = x.c.closes
    BY <2>1 DEF ConnType
  <2> HIDE DEF r
  <2>3. conn'[c] = r
    BY <1>1, <1>2 DEF r
  <2>4. Orderly(r)
    BY <1>3, <1>4, <1>5, <2>2 DEF KeepsConn, Sound, Orderly, Reset
  <2> QED
    BY <1>1, <1>2, <1>3, <1>4, <2>2, <2>3, <2>4 DEF KeepsConn
<1>8. /\ queue'[l] = queue[l] \/ queue'[l] = Append(queue[l], t)
      /\ \A k \in Loop : k # l => queue'[k] = queue[k]
  <2>1. queue'[l] = queue[l] \o Releases(x.rel, c) /\ queue[l] \in Seq(TaskType)
    BY <1>1, <1>2
  <2>2. CASE x.rel = 0
    <3>1. Releases(0, c) \in Seq(TaskType) /\ Len(Releases(0, c)) = 0
      BY ReleasesSeq
    <3>2. Releases(0, c) = <<>>
      BY <3>1, EmptySeq
    <3> QED
      BY <1>1, <1>2, <2>1, <2>2, <3>2, ConcatEmptySeq
  <2>3. CASE x.rel = 1
    BY <1>1, <1>2, <2>1, <2>3, AppendRelease DEF t
  <2> QED
    BY <1>5, <2>2, <2>3
<1>9. ASSUME NEW u, u.c \in Conn, TaskOnce(u) \/ u = t PROVE TaskOnce(u)'
  <2>1. ~(stage = "establish" /\ c = accepting)
    BY <1>3 DEF OnceInv, AcceptOnce, Untouched
  <2> QED
    BY <1>2, <1>3, <1>7, <1>9, <2>1 DEF TaskOnce
<1>10. ASSUME NEW k \in Loop PROVE LoopOnce(k)'
  <2>1. LoopOnce(k) /\ batch[k] \in Seq(TaskType) /\ queue[k] \in Seq(TaskType)
    BY <1>2 DEF OnceInv
  <2>2. /\ SingleApart(batch[k], queue'[k])
        /\ \A i \in DOMAIN queue'[k] : queue'[k][i] = t \/ \E j \in DOMAIN queue[k] : queue'[k][i] = queue[k][j]
        /\ k # l => queue'[k] = queue[k]
    <3>1. CASE queue'[k] = queue[k]
      BY <2>1, <3>1 DEF LoopOnce
    <3>2. CASE k = l /\ queue'[k] = Append(queue[k], t)
      <4>1. \A i \in DOMAIN queue[k] : queue[k][i] # t
        BY <1>2, <1>3, <2>1 DEF LoopOnce, LateRelease
      <4>2. \A i \in DOMAIN batch[k] : FALSE
        BY <1>3, <3>2
      <4>3. AfterAppend(batch[k], queue[k], t)
        BY <1>2, <2>1, <4>1, <4>2, AppendOnce DEF LoopOnce
      <4> QED
        BY <3>2, <4>3 DEF AfterAppend
    <3> QED
      BY <1>8, <3>1, <3>2
  <2>3. TasksOnce(batch[k])'
    BY <1>2, <1>9, <2>1, TasksHaveType DEF LoopOnce, TasksOnce
  <2>4. TasksOnce(queue[k])'
    <3>1. \A i \in DOMAIN queue[k] : queue[k][i].c \in Conn /\ TaskOnce(queue[k][i])
      BY <2>1, TasksHaveType DEF LoopOnce, TasksOnce
    <3> QED
      BY <1>2, <1>9, <2>2, <3>1 DEF TasksOnce
  <2>5. LateRelease(k)'
    <3>1. \A i \in DOMAIN queue[k] : queue[k][i].c \in Conn
      BY <2>1, TasksHaveType
    <3>2. LateRelease(k)
      BY <2>1 DEF LoopOnce
    <3>3. ASSUME NEW i \in DOMAIN queue'[k], queue'[k][i].op = "release"
          PROVE  pc[k] = "handle" /\ conn'[queue'[k][i].c].rev = {}
      <4>1. CASE \E j \in DOMAIN queue[k] : queue'[k][i] = queue[k][j]
        BY <1>7, <3>1, <3>2, <3>3, <4>1 DEF LateRelease
      <4>2. CASE queue'[k][i] = t /\ k = l
        BY <1>2, <1>3, <1>7, <4>2
      <4> QED
        BY <2>2, <4>1, <4>2
    <3> QED
      BY <1>2, <3>3 DEF LateRelease
  <2> QED
    BY <1>2, <2>2, <2>3, <2>4, <2>5 DEF LoopOnce
<1>11. AcceptOnce'
  <2>1. stage = "establish" => accepting \in Conn /\ accepting # c
    BY <1>3 DEF TypeOK, OnceInv, AcceptOnce, Untouched
  <2> QED
    BY <1>2, <1>7, <2>1 DEF OnceInv, AcceptOnce
<1>12. \A d \in Conn : Orderly(conn'[d])
  BY <1>7 DEF OnceInv
<1> QED
  BY <1>6, <1>10, <1>11, <1>12 DEF OnceInv

\* EstablishInLoop of a live connection that is still CONNECTING.
LEMMA EstablishOnce ==
  ASSUME TypeOK, OnceInv, NEW c \in Conn, Establish(c), Alive(c), conn[c].status = "CONNECTING"
  PROVE  /\ proc' = "up"
         /\ conn'[c].status = "CONNECTED" /\ conn'[c].reg
         /\ \A d \in Conn : d # c => conn'[d] = conn[d]
         /\ \A d \in Conn : Orderly(conn'[d]) /\ conn'[d].rev = conn[d].rev
<1> DEFINE r == [conn[c] EXCEPT !.status = "CONNECTED", !.reg = TRUE]
<1>1. conn \in [Conn -> ConnType] /\ conn[c] \in ConnType /\ Orderly(conn[c])
  BY DEF TypeOK, OnceInv
<1>2. proc' = "up" /\ conn' = [conn EXCEPT ![c] = r]
  BY DEF Establish, OnceInv
<1>3. Orderly(r) /\ r.status = "CONNECTED" /\ r.reg /\ r.rev = conn[c].rev
  BY <1>1 DEF Orderly, Reset, ConnType
<1> HIDE DEF r
<1>4. conn'[c] = r /\ \A d \in Conn : d # c => conn'[d] = conn[d]
  BY <1>1, <1>2
<1> QED
  BY <1>2, <1>3, <1>4 DEF OnceInv

\* NewConnection hands the connection to its loop, which has no task about it.
LEMMA NewConnectionEstablishOnce ==
  ASSUME TypeOK, OnceInv, NewConnectionEstablish
  PROVE  OnceInv'
<1> PICK c \in Conn : c = accepting
  BY DEF TypeOK, NewConnectionEstablish
<1> DEFINE t == Task("establish", c)
<1>1. /\ UNCHANGED <<batch, pc>> /\ stage = "establish" /\ stage' = "insert"
      /\ conn \in [Conn -> ConnType] /\ queue \in [Loop -> Seq(TaskType)]
      /\ batch \in [Loop -> Seq(TaskType)] /\ conn[c].status = "CONNECTING"
      /\ t \in TaskType /\ t.op = "establish" /\ t.c = c
      /\ RunFromBase("establish", c, Establish(c))
  BY TaskIsType DEF NewConnectionEstablish, TypeOK, OnceInv, AcceptOnce, Untouched, Task, Ops
<1>2. /\ proc' = "up" /\ \A d \in Conn : d # c => conn'[d] = conn[d]
      /\ \A d \in Conn : Orderly(conn'[d]) /\ conn'[d].rev = conn[d].rev
      /\ UNCHANGED queue \/ (UNCHANGED conn /\ queue' = [queue EXCEPT ![loopOf[c]] = Append(@, t)])
  <2>1. CASE loopOf[c] = Base
    BY <1>1, <2>1, EstablishOnce DEF RunFromBase, Alive
  <2>2. CASE loopOf[c] # Base
    BY <1>1, <2>2 DEF RunFromBase, OnceInv
  <2> QED
    BY <2>1, <2>2
<1> HIDE DEF t
<1>3. ASSUME NEW u, u.c \in Conn, TaskOnce(u) \/ (u = t /\ UNCHANGED conn)
      PROVE  TaskOnce(u)'
  BY <1>1, <1>2, <1>3 DEF TaskOnce
<1>4. ASSUME NEW k \in Loop PROVE LoopOnce(k)'
  <2>1. LoopOnce(k) /\ batch[k] \in Seq(TaskType) /\ queue[k] \in Seq(TaskType)
    BY <1>1 DEF OnceInv
  <2>2. \/ queue'[k] = queue[k]
        \/ queue'[k] = Append(queue[k], t) /\ UNCHANGED conn
    BY <1>1, <1>2
  <2>3. /\ SingleApart(batch[k], queue'[k])
        /\ \A i \in DOMAIN queue'[k] : \/ \E j \in DOMAIN queue[k] : queue'[k][i] = queue[k][j]
                                       \/ queue'[k][i] = t /\ UNCHANGED conn
    <3>1. CASE queue'[k] = queue[k]
      BY <2>1, <3>1 DEF LoopOnce
    <3>2. CASE queue'[k] = Append(queue[k], t) /\ UNCHANGED conn
      <4>1. (\A i \in DOMAIN batch[k] : batch[k][i] # t) /\ (\A i \in DOMAIN queue[k] : queue[k][i] # t)
        BY <1>1, <2>1 DEF LoopOnce, TasksOnce, TaskOnce
      <4>2. AfterAppend(batch[k], queue[k], t)
        BY <1>1, <2>1, <4>1, AppendOnce DEF LoopOnce
      <4> QED
        BY <3>2, <4>2 DEF AfterAppend
    <3> QED
      BY <2>2, <3>1, <3>2
  <2>4. TasksOnce(batch[k])'
    BY <1>1, <1>3, <2>1, TasksHaveType DEF LoopOnce, TasksOnce
  <2>5. \A i \in DOMAIN queue[k] : queue[k][i].c \in Conn /\ TaskOnce(queue[k][i])
    BY <2>1, TasksHaveType DEF LoopOnce, TasksOnce
  <2>6. TasksOnce(queue[k])'
    BY <1>1, <1>3, <2>3, <2>5 DEF TasksOnce
  <2>7. LateRelease(k)'
    <3>1. LateRelease(k)
      BY <2>1 DEF LoopOnce
    <3>2. ASSUME NEW i \in DOMAIN queue'[k], queue'[k][i].op = "release"
          PROVE  pc[k] = "handle" /\ conn'[queue'[k][i].c].rev = {}
      <4>1. PICK j \in DOMAIN queue[k] : queue'[k][i] = queue[k][j]
        BY <1>1, <2>3, <3>2
      <4> QED
        BY <1>2, <2>5, <3>1, <3>2, <4>1 DEF LateRelease
    <3> QED
      BY <1>1, <3>2 DEF LateRelease
  <2> QED
    BY <1>1, <2>3, <2>4, <2>6, <2>7 DEF LoopOnce
<1> QED
  BY <1>1, <1>2, <1>4 DEF OnceInv, AcceptOnce

\* A task: what establishes or releases a connection is met once.
LEMMA RunTaskOnce ==
  ASSUME TypeOK, Life, OnceInv, NEW l \in Loop, RunTask(l)
  PROVE  OnceInv'
<1> PICK t \in TaskType : t = Head(batch[l])
  BY HeadTask
<1> DEFINE m == Task("remove", t.c)
<1>1. /\ t.c \in Conn /\ t.op \in Ops
      /\ m \in TaskType /\ m.op = "remove" /\ m.c = t.c
      /\ conn \in [Conn -> ConnType] /\ queue \in [Loop -> Seq(TaskType)]
      /\ batch \in [Loop -> Seq(TaskType)]
      /\ UNCHANGED <<pc, stage, accepting>> /\ batch[l] # <<>>
      /\ batch' = [batch EXCEPT ![l] = Tail(@)]
      /\ queue' = queue \/ (l # Base /\ queue' = [queue EXCEPT ![Base] = Append(@, m)])
  BY HeadTask, TaskIsType DEF TypeOK, RunTask, TaskType, Task, Ops, ReleaseInLoop, RemoveConnection
<1>2. /\ TaskOnce(t) /\ TaskOK(l, t) /\ ConnOK(t.c) /\ Orderly(conn[t.c])
      /\ conn[t.c] \in ConnType
  <2>1. 1 \in DOMAIN batch[l] /\ t = batch[l][1]
    BY <1>1
  <2> QED
    BY <1>1, <2>1 DEF OnceInv, LoopOnce, TasksOnce, Life, LoopOK, TasksOK
<1>3. \/ t.op = "establish" /\ Establish(t.c)
      \/ t.op = "release" /\ ReleaseInLoop(l, t.c)
      \/ t.op = "remove" /\ RemoveConnection(t.c)
  BY <1>2 DEF RunTask, TaskOnce
<1> HIDE DEF m
<1>4. t.op # "remove" => Alive(t.c)
  BY <1>1, <1>2 DEF TaskOnce, TaskOK, ConnOK, Alive, Ops
<1>5. /\ proc' = "up" /\ \A d \in Conn : Orderly(conn'[d]) /\ conn'[d].rev = conn[d].rev
      /\ \A d \in Conn : d # t.c => conn'[d] = conn[d]
      /\ t.op = "establish" => conn'[t.c].reg
      /\ t.op = "remove" => UNCHANGED conn
  <2>1. CASE t.op = "establish" /\ Establish(t.c)
    BY <1>1, <1>2, <1>4, <2>1, EstablishOnce DEF TaskOnce
  <2>2. CASE t.op = "release" /\ ReleaseInLoop(l, t.c)
    <3> DEFINE r == Released(conn[t.c])
    <3>1. conn[t.c].closes = 0 /\ conn[t.c].status # "DISCONNECTED"
      BY <1>2, <2>2 DEF TaskOnce, ConnOK, Orderly
    <3>2. r = [conn[t.c] EXCEPT !.status = "DISCONNECTED", !.reg = FALSE, !.timer = FALSE, !.closes = 1]
      BY <1>2, <3>1 DEF Released
    <3>3. Orderly(r) /\ r.rev = conn[t.c].rev
      BY <1>2, <3>1, <3>2 DEF Orderly, Reset, ConnType
    <3>4. proc' = "up" /\ conn' = [conn EXCEPT ![t.c] = r]
      BY <1>4, <2>2 DEF ReleaseInLoop, OnceInv
    <3> HIDE DEF r
    <3> QED
      BY <1>1, <2>2, <3>3, <3>4 DEF OnceInv
  <2>3. CASE t.op = "remove" /\ RemoveConnection(t.c)
    BY <2>3 DEF RemoveConnection, OnceInv
  <2> QED
    BY <1>3, <2>1, <2>2, <2>3
<1>6. ASSUME NEW k \in Loop, NEW u \in TaskType, u.c \in Conn, TaskOnce(u), TaskOK(k, u),
             k = l /\ t.op # "remove" => u # t
      PROVE  TaskOnce(u)'
  <2>1. u.c = t.c /\ u.op = t.op => u = t
    BY DEF TaskType
  <2>2. CASE u.c # t.c \/ t.op = "remove"
    BY <1>1, <1>5, <1>6, <2>2 DEF TaskOnce
  <2>3. CASE u.c = t.c /\ t.op # "remove"
    <3>1. u.op # "remove" => k = l
      BY <1>2, <1>6, <2>3 DEF TaskOK
    <3>2. u.op # "remove" => u.op # t.op
      BY <1>6, <2>1, <2>3, <3>1
    <3>3. ~(u.op = "establish" /\ t.op = "release")
      BY <1>2, <1>6, <2>3 DEF TaskOnce, ConnOK
    <3> QED
      BY <1>1, <1>3, <1>5, <1>6, <2>3, <3>2, <3>3 DEF TaskOnce
  <2> QED
    BY <2>2, <2>3
<1>7. ~(stage = "establish" /\ t.c = accepting)
  BY <1>2 DEF TaskOnce
<1>8. TaskOnce(m)'
  BY <1>1, <1>7 DEF TaskOnce
<1>9. ASSUME NEW k \in Loop PROVE LoopOnce(k)'
  <2>1. /\ LoopOnce(k) /\ batch[k] \in Seq(TaskType) /\ queue[k] \in Seq(TaskType)
        /\ TasksOK(k, batch[k]) /\ TasksOK(k, queue[k])
    BY <1>1 DEF OnceInv, Life, LoopOK
  <2>2. /\ SingleApart(batch'[k], queue'[k])
        /\ \A i \in DOMAIN batch'[k] : \E j \in DOMAIN batch[k] : batch'[k][i] = batch[k][j]
        /\ \A i \in DOMAIN queue'[k] : queue'[k][i] = m \/ \E j \in DOMAIN queue[k] : queue'[k][i] = queue[k][j]
        /\ k = l /\ t.op # "remove" => /\ \A i \in DOMAIN batch'[k] : batch'[k][i] # t
                                       /\ \A i \in DOMAIN queue'[k] : queue'[k][i] # t
    <3>1. CASE k = l
      <4>1. AfterTake(batch[k], queue[k])
        BY <1>1, <2>1, <3>1, TakeOnce DEF LoopOnce
      <4>2. batch'[k] = Tail(batch[k]) /\ queue'[k] = queue[k]
        BY <1>1, <3>1
      <4> QED
        BY <3>1, <4>1, <4>2 DEF AfterTake
    <3>2. CASE k # l /\ queue'[k] = Append(queue[k], m)
      <4>1. AfterAppend(batch[k], queue[k], m)
        BY <1>1, <2>1, AppendOnce DEF LoopOnce
      <4>2. batch'[k] = batch[k]
        BY <1>1, <3>2
      <4> QED
        BY <3>2, <4>1, <4>2 DEF AfterAppend
    <3>3. CASE k # l /\ queue'[k] = queue[k]
      BY <1>1, <2>1, <3>3 DEF LoopOnce
    <3> QED
      BY <1>1, <3>1, <3>2, <3>3
  <2>3. /\ \A i \in DOMAIN batch[k] : /\ batch[k][i] \in TaskType /\ batch[k][i].c \in Conn
                                      /\ TaskOnce(batch[k][i]) /\ TaskOK(k, batch[k][i])
        /\ \A i \in DOMAIN queue[k] : /\ queue[k][i] \in TaskType /\ queue[k][i].c \in Conn
                                      /\ TaskOnce(queue[k][i]) /\ TaskOK(k, queue[k][i])
    BY <2>1, TasksHaveType DEF LoopOnce, TasksOnce, TasksOK
  <2>4. TasksOnce(batch[k])'
    <3> PICK b : b = batch'[k]
      OBVIOUS
    <3>1. ASSUME NEW i \in DOMAIN b PROVE TaskOnce(b[i])'
      <4> PICK j \in DOMAIN batch[k] : b[i] = batch[k][j]
        BY <2>2
      <4>1. b[i] \in TaskType /\ b[i].c \in Conn /\ TaskOnce(b[i]) /\ TaskOK(k, b[i])
        BY <2>3
      <4>2. k = l /\ t.op # "remove" => b[i] # t
        BY <2>2
      <4> QED
        BY <1>6, <4>1, <4>2
    <3> QED
      BY <3>1 DEF TasksOnce
  <2>5. TasksOnce(queue[k])'
    <3> PICK q : q = queue'[k]
      OBVIOUS
    <3>1. ASSUME NEW i \in DOMAIN q, NEW j \in DOMAIN queue[k], q[i] = queue[k][j]
          PROVE  TaskOnce(q[i])'
      <4>1. q[i] \in TaskType /\ q[i].c \in Conn /\ TaskOnce(q[i]) /\ TaskOK(k, q[i])
        BY <2>3, <3>1
      <4>2. k = l /\ t.op # "remove" => q[i] # t
        BY <2>2
      <4> QED
        BY <1>6, <4>1, <4>2
    <3>2. \A i \in DOMAIN q : q[i] = m \/ \E j \in DOMAIN queue[k] : q[i] = queue[k][j]
      BY <2>2
    <3>3. \A i \in DOMAIN q : TaskOnce(q[i])'
      BY <1>8, <3>1, <3>2
    <3> QED
      BY <3>3 DEF TasksOnce
  <2>6. LateRelease(k)'
    <3>1. LateRelease(k)
      BY <2>1 DEF LoopOnce
    <3>2. ASSUME NEW i \in DOMAIN queue'[k], queue'[k][i].op = "release"
          PROVE  pc[k] = "handle" /\ conn'[queue'[k][i].c].rev = {}
      <4>1. PICK j \in DOMAIN queue[k] : queue'[k][i] = queue[k][j]
        BY <1>1, <2>2, <3>2
      <4> QED
        BY <1>5, <2>3, <3>1, <3>2, <4>1 DEF LateRelease
    <3> QED
      BY <1>1, <3>2 DEF LateRelease
  <2> QED
    BY <2>2, <2>4, <2>5, <2>6 DEF LoopOnce
<1>10. AcceptOnce'
  <2>1. stage = "establish" => accepting \in Conn /\ accepting # t.c
    BY <1>7 DEF TypeOK
  <2> QED
    BY <1>1, <1>5, <2>1 DEF OnceInv, AcceptOnce
<1> QED
  BY <1>5, <1>9, <1>10 DEF OnceInv

\* Without resets and the idle timer, a connection is released once and nothing
\* reaches a destroyed one, the assertion of EstablishInLoop holds and no SIGPIPE
\* comes, for any numbers and interleaving and whatever calls are interrupted.
THEOREM OrderlyClosedOnce ==
  ASSUME "reset" \notin Faults, ~IdleTimeout
  PROVE  Safe => [](ClosedOnce /\ EstablishAssertion /\ SendFailureHandled)
<1>1. Init => OnceInv
  BY DEF Init, NewConn, OnceInv, AcceptOnce, Orderly, Reset, LoopOnce, SingleApart, Single,
         Apart, TasksOnce, LateRelease
<1>2. TypeOK /\ LifeInv /\ OnceInv /\ [Next]_vars => OnceInv'
  <2> SUFFICES ASSUME TypeOK, LifeInv, OnceInv, [Next]_vars
               PROVE  OnceInv'
    OBVIOUS
  <2>1. CASE UNCHANGED vars
    BY <2>1 DEF vars, serverVars, loopVars, OnceInv, AcceptOnce, LoopOnce, TasksOnce, TaskOnce,
                LateRelease
  <2>2. CASE Next
    <3>1. Life
      BY DEF LifeInv, OnceInv
    <3>2. ASSUME NEW l \in Loop, NEW c \in Conn, FireTimer(l, c) PROVE FALSE
      BY <3>2 DEF FireTimer, OnceInv, Orderly
    <3>3. ASSUME NewConnectionEnable PROVE FALSE
      BY <3>3 DEF NewConnectionEnable, OnceInv, AcceptOnce
    <3> QED
      BY <2>2, <3>1, <3>2, <3>3, PollOnce, HandleConnOnce, IdleOnce, ClientOnce,
         SwapTasksOnce, AcceptingOnce, NewConnectionEstablishOnce, RunTaskOnce
      DEF Next, LoopStep
  <2> QED
    BY <2>1, <2>2
<1>3. OnceInv => ClosedOnce /\ EstablishAssertion /\ SendFailureHandled
  BY DEF OnceInv, Orderly, ClosedOnce, EstablishAssertion, SendFailureHandled
<1> QED
  BY <1>1, <1>2, <1>3, TypeCorrect, LifeInvariant, PTL DEF Safe
=============================================================================
