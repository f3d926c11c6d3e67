------------------------------ MODULE EventLoop ------------------------------
(***************************************************************************)
(* One EventLoop of server.hpp: the task pool _tasks, the eventfd that     *)
(* wakes a blocked epoll_wait, and the loop thread's cycle                 *)
(*     Poll  ->  HandleEvent of every active channel  ->  RunAllTask.      *)
(* Any thread may hand the loop a closure with QueueInLoop, which pushes   *)
(* under the mutex and then, outside it, writes the eventfd: the two are   *)
(* separate steps here.  The write may return interrupted, with nothing    *)
(* written, and is not repeated.  The sockets and the timerfd of the loop  *)
(* are one further source of events, "sockets", ready at any time.         *)
(***************************************************************************)
EXTENDS Naturals, Sequences, Functions

CONSTANTS Thread,       \* the threads other than the loop's own
          LoopThread,   \* the thread that runs Start (_thread_id)
          Task          \* the closures, each handed to the loop at most once

ASSUME ThreadAssumption == LoopThread \notin Thread

Caller == Thread \cup {LoopThread}

VARIABLES
    tasks,          \* _tasks: the pool, guarded by _mutex
    batch,          \* RunAllTask's local vector, not yet executed
    eventfd,        \* the counter of _event_fd
    socketReady,    \* some other descriptor of this poller is ready
    actives,        \* the channels Poll returned and Start has not handled yet
    pc,             \* where Start is: "poll", "handle", "run" or "task"
    caller,         \* caller[x]: the closure x pushed and has not announced yet
    missed,         \* history: closures of the pool whose write was interrupted
    submitted,      \* history: closures pushed to the pool, in order
    done,           \* history: closures of the pool executed, in order
    inlined         \* history: closures RunInLoop executed on the spot

vars == <<tasks, batch, eventfd, socketReady, actives, pc, caller, missed,
          submitted, done, inlined>>

Init ==
    /\ tasks = <<>> /\ batch = <<>>
    /\ eventfd = 0 /\ socketReady = FALSE
    /\ actives = {} /\ pc = "poll"
    /\ caller = [x \in Caller |-> {}] /\ missed = {}
    /\ submitted = <<>> /\ done = <<>> /\ inlined = {}

-----------------------------------------------------------------------------
(* The callers.                                                            *)

\* A thread other than the loop's is free to call at any time; the loop's own
\* thread calls from a socket's handler or from a task it is executing.
CanCall(x) ==
    /\ caller[x] = {}
    /\ x = LoopThread => \/ pc = "task"
                         \/ pc = "handle" /\ "sockets" \in actives

Fresh(t) == t \notin Range(submitted) \cup inlined

\* The critical section of QueueInLoop: push_back under _mutex.
QueueInLoop(x, t) ==
    /\ CanCall(x) /\ Fresh(t)
    /\ tasks' = Append(tasks, t)
    /\ submitted' = Append(submitted, t)
    /\ caller' = [caller EXCEPT ![x] = {t}]
    /\ UNCHANGED <<batch, eventfd, socketReady, actives, pc, missed, done, inlined>>

\* Mutant: the loop's own thread does not write the eventfd.
WriteEventFdFromOutside(x) ==
    /\ caller[x] # {}
    /\ eventfd' = IF x = LoopThread THEN eventfd ELSE eventfd + 1
    /\ caller' = [caller EXCEPT ![x] = {}]
    /\ UNCHANGED <<tasks, batch, socketReady, actives, pc, missed,
                   submitted, done, inlined>>

\* The rest of QueueInLoop: wake the poller.  A write that fails with EINTR
\* returns as if it had succeeded: what x pushed is announced to nobody, if the
\* loop has not taken it meanwhile.  (Linux interrupts no write to a
\* non-blocking eventfd; the code has the path.  It aborts on EAGAIN, which
\* takes 2^64 - 2 unread writes.)
WriteEventFd(x) ==
    /\ caller[x] # {}
    /\ \/ eventfd' = eventfd + 1 /\ UNCHANGED missed
       \/ missed' = missed \cup (caller[x] \cap Range(tasks)) /\ UNCHANGED eventfd
    /\ caller' = [caller EXCEPT ![x] = {}]
    /\ UNCHANGED <<tasks, batch, socketReady, actives, pc,
                   submitted, done, inlined>>

\* RunInLoop on the loop's own thread executes the closure at once; on any
\* other thread it is QueueInLoop.
RunInLoop(x, t) ==
    IF x = LoopThread
    THEN /\ CanCall(x) /\ Fresh(t)
         /\ inlined' = inlined \cup {t}
         /\ UNCHANGED <<tasks, batch, eventfd, socketReady, actives, pc,
                        caller, missed, submitted, done>>
    ELSE QueueInLoop(x, t)

-----------------------------------------------------------------------------
(* The loop thread.  It is inside QueueInLoop until it has written the     *)
(* eventfd, and takes no other step before.                                *)

At(p) == pc = p /\ caller[LoopThread] = {}

Ready == {s \in {"eventfd", "sockets"} :
             IF s = "eventfd" THEN eventfd > 0 ELSE socketReady}

\* epoll_wait blocks until something is ready; MAX_EPOLLEVENTS bounds what it
\* returns, so one call may leave a ready descriptor out.
Poll ==
    /\ At("poll")
    /\ \E a \in (SUBSET Ready) \ {{}} : actives' = a
    /\ pc' = "handle"
    /\ UNCHANGED <<tasks, batch, eventfd, socketReady, caller, missed,
                   submitted, done, inlined>>

\* A signal interrupts epoll_wait: Poll returns EINTR's empty list, and Start
\* goes on to RunAllTask.
PollInterrupted ==
    /\ At("poll")
    /\ pc' = "handle"
    /\ UNCHANGED <<tasks, batch, eventfd, socketReady, actives, caller, missed,
                   submitted, done, inlined>>

\* HandleEvent of the eventfd's channel: the read resets the counter, or fails
\* with EINTR or EAGAIN and returns.
ReadEventfd ==
    /\ At("handle") /\ "eventfd" \in actives
    /\ eventfd' \in {0, eventfd}
    /\ actives' = actives \ {"eventfd"}
    /\ UNCHANGED <<tasks, batch, socketReady, pc, caller, missed,
                   submitted, done, inlined>>

\* HandleEvent of the other active channels.
HandleSockets ==
    /\ At("handle") /\ "sockets" \in actives
    /\ socketReady' = FALSE
    /\ actives' = actives \ {"sockets"}
    /\ UNCHANGED <<tasks, batch, eventfd, pc, caller, missed,
                   submitted, done, inlined>>

\* Mutant: the pool is copied instead of swapped.
CopyTasks ==
    /\ At("handle") /\ actives = {}
    /\ batch' = tasks
    /\ pc' = "run"
    /\ UNCHANGED <<tasks, eventfd, socketReady, actives, caller, missed,
                   submitted, done, inlined>>

\* RunAllTask's critical section: _tasks.swap(tasks).
SwapTasks ==
    /\ At("handle") /\ actives = {}
    /\ batch' = tasks
    /\ tasks' = <<>> /\ missed' = {}
    /\ pc' = "run"
    /\ UNCHANGED <<eventfd, socketReady, actives, caller,
                   submitted, done, inlined>>

\* Mutants: the loop runs once more than there are closures; it takes the
\* closures from the back.
StartTaskUnguarded ==
    /\ At("run")
    /\ pc' = "task"
    /\ UNCHANGED <<tasks, batch, eventfd, socketReady, actives, caller, missed,
                   submitted, done, inlined>>

EndTaskFromBack ==
    /\ At("task")
    /\ done' = Append(done, batch[Len(batch)])
    /\ batch' = SubSeq(batch, 1, Len(batch) - 1)
    /\ pc' = "run"
    /\ UNCHANGED <<tasks, eventfd, socketReady, actives, caller, missed,
                   submitted, inlined>>

\* f() of RunAllTask's loop, from its call to its return.
StartTask ==
    /\ At("run") /\ batch # <<>>
    /\ pc' = "task"
    /\ UNCHANGED <<tasks, batch, eventfd, socketReady, actives, caller, missed,
                   submitted, done, inlined>>

EndTask ==
    /\ At("task")
    /\ done' = Append(done, Head(batch))
    /\ batch' = Tail(batch)
    /\ pc' = "run"
    /\ UNCHANGED <<tasks, eventfd, socketReady, actives, caller, missed,
                   submitted, inlined>>

EndBatch ==
    /\ At("run") /\ batch = <<>>
    /\ pc' = "poll"
    /\ UNCHANGED <<tasks, batch, eventfd, socketReady, actives, caller, missed,
                   submitted, done, inlined>>

LoopStep == \/ Poll \/ ReadEventfd \/ HandleSockets
            \/ SwapTasks \/ StartTask \/ EndTask \/ EndBatch

\* The kernel: a socket or the timerfd becomes ready.
SocketBecomesReady ==
    /\ socketReady' = TRUE
    /\ UNCHANGED <<tasks, batch, eventfd, actives, pc, caller, missed,
                   submitted, done, inlined>>

\* The timerfd expires every second; only a closure whose write of the eventfd
\* was interrupted depends on it.
TimerExpires == missed # {} /\ SocketBecomesReady

Next ==
    \/ \E x \in Caller, t \in Task : QueueInLoop(x, t) \/ RunInLoop(x, t)
    \/ \E x \in Caller : WriteEventFd(x)
    \/ LoopStep
    \/ PollInterrupted
    \/ SocketBecomesReady

Safe == Init /\ [][Next]_vars

\* Start never returns and its steps do not block except in Poll; a thread
\* that pushed goes on to write the eventfd.  No socket need ever be ready, and
\* the timerfd only after an interrupted write of the eventfd.
Fairness == /\ WF_vars(LoopStep)
            /\ \A x \in Caller : WF_vars(WriteEventFd(x))
            /\ WF_vars(TimerExpires)

Spec == Safe /\ Fairness

-----------------------------------------------------------------------------
(* Properties.                                                             *)

\* The types of the variables, and where the local vector of RunAllTask is
\* live: it is empty outside RunAllTask and holds the closure being executed.
TypeOK ==
    /\ tasks \in Seq(Task) /\ batch \in Seq(Task)
    /\ submitted \in Seq(Task) /\ done \in Seq(Task)
    /\ inlined \in SUBSET Task
    /\ eventfd \in Nat /\ socketReady \in BOOLEAN
    /\ actives \in SUBSET {"eventfd", "sockets"}
    /\ pc \in {"poll", "handle", "run", "task"}
    /\ caller \in [Caller -> SUBSET Task] /\ missed \in SUBSET Task
    /\ pc \in {"poll", "handle"} => batch = <<>>
    /\ pc = "task" => batch # <<>>

\* No lost wakeup (QueueInLoop, ReadEventfd, RunAllTask): while a closure is in
\* the pool, the eventfd is readable, or the thread that pushed it is about to
\* write it, or the loop is on its way to the swap and cannot block before it;
\* only a closure whose own write was interrupted waits unannounced.
NoLostWakeup ==
    \A t \in Range(tasks) \ missed :
        \/ eventfd > 0
        \/ \E x \in Caller : t \in caller[x]
        \/ pc = "handle"

\* Every closure ever pushed is in exactly one place, in order of pushing:
\* executed, in the batch being executed, or in the pool (RunAllTask's swap
\* loses, repeats and reorders nothing).
Accounting == submitted = done \o batch \o tasks

\* A closure pushed to the pool is eventually executed, though no socket event
\* ever wakes the loop; one whose write of the eventfd was interrupted, after the
\* timerfd has expired.
TaskRuns == \A t \in Task : t \in Range(submitted) ~> t \in Range(done)

\* The loop implements the abstract queue.
TQ == INSTANCE TaskQueue WITH pending <- batch \o tasks
ImplementsTaskQueue == TQ!Spec
=============================================================================
