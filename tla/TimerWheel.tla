----------------------------- MODULE TimerWheel -----------------------------
(***************************************************************************)
(* The timer wheel of server.hpp.  A TimerTask is held by shared pointers  *)
(* in the slots of _timerwheel; TimerRefresh puts one more pointer in a    *)
(* later slot; TickOnce clears the slot under the hand, and the destructor *)
(* of a task whose last pointer goes runs its callback, unless cancelled,  *)
(* and erases it from _timer_tasks.                                        *)
(*                                                                         *)
(* The timerfd counts the seconds; Ontime reads the count and ticks that   *)
(* often, so a loop that was busy ticks several times in a row.            *)
(***************************************************************************)
EXTENDS Integers, FiniteSetsExt

CONSTANTS Id,           \* the timers' ids
          Size,         \* _size, the slots of the wheel
          Delays,       \* the delays that callers ask for
          MaxLag        \* bound: unread expirations of the timerfd

ASSUME SizeAssumption == Size \in Nat \ {0}
ASSUME DelaysAssumption == Delays \subseteq Nat \ {0}
ASSUME MaxLagAssumption == MaxLag \in Nat \ {0}

VARIABLES
    tick,           \* _tick
    wheel,          \* _timerwheel[s]: the tasks the pointers of slot s hold
    timer_tasks,    \* the keys of _timer_tasks
    delay,          \* TimerTask::_timeout
    canceled,       \* TimerTask::_canceled
    expired,        \* the counter of _timerfd
    times,          \* the ticks Ontime still has to make
    fired,          \* history: the tasks whose callback the latest step ran
    due             \* history: the expirations still missing to the full delay

vars == <<tick, wheel, timer_tasks, delay, canceled, expired, times, fired, due>>

Slot == 0 .. Size - 1

Init ==
    /\ tick = 0
    /\ wheel = [s \in Slot |-> {}]
    /\ timer_tasks = {}
    /\ delay \in [Id -> Delays]
    /\ canceled = [id \in Id |-> FALSE]
    /\ expired = 0 /\ times = 0
    /\ fired = {}
    /\ due = [id \in Id |-> 0]

HasTimer(id) == id \in timer_tasks

\* The expirations that a delay of d has to wait for when n are still to be ticked
\* for: these count against it.
Missing(d, n) == IF d > n THEN d - n ELSE 0

\* One more pointer to the task, in the slot `d' ticks ahead of hand t.
PushBack(w, t, id, d) == [w EXCEPT ![(t + d) % Size] = @ \cup {id}]

-----------------------------------------------------------------------------
(* The loop thread outside Ontime.                                         *)

\* Ids come from one counter (TcpServer::_conn_id), so a new one has no timer.
TimerAddInLoop(id, d) ==
    /\ times = 0 /\ ~HasTimer(id)
    /\ wheel' = PushBack(wheel, tick, id, d)
    /\ timer_tasks' = timer_tasks \cup {id}
    /\ delay' = [delay EXCEPT ![id] = d]
    /\ canceled' = [canceled EXCEPT ![id] = FALSE]
    /\ due' = [due EXCEPT ![id] = Missing(d, expired)]
    /\ fired' = {}
    /\ UNCHANGED <<tick, expired, times>>

\* Mutant: the refresh adds no pointer.
RefreshWithoutPush(id) ==
    /\ times = 0 /\ HasTimer(id)
    /\ due' = [due EXCEPT ![id] = Missing(delay[id], expired)]
    /\ fired' = {}
    /\ UNCHANGED <<tick, wheel, timer_tasks, delay, canceled, expired, times>>

TimerRefreshInLoop(id) ==
    /\ times = 0 /\ HasTimer(id)
    /\ wheel' = PushBack(wheel, tick, id, delay[id])
    /\ due' = [due EXCEPT ![id] = Missing(delay[id], expired)]
    /\ fired' = {}
    /\ UNCHANGED <<tick, timer_tasks, delay, canceled, expired, times>>

TimerCancelInLoop(id) ==
    /\ times = 0 /\ HasTimer(id)
    /\ canceled' = [canceled EXCEPT ![id] = TRUE]
    /\ fired' = {}
    /\ UNCHANGED <<tick, wheel, timer_tasks, delay, expired, times, due>>

-----------------------------------------------------------------------------
(* The clock and Ontime.                                                   *)

\* A second passes: the kernel adds one to the timerfd's counter.
Expire ==
    /\ expired < MaxLag
    /\ expired' = expired + 1
    /\ due' = [id \in Id |-> Missing(due[id], 1)]
    /\ fired' = {}
    /\ UNCHANGED <<tick, wheel, timer_tasks, delay, canceled, times>>

\* Mutant: Ontime's loop counts one tick too many.
ReadOneTooMany ==
    /\ times = 0 /\ expired > 0
    /\ times' = expired + 1
    /\ expired' = 0
    /\ fired' = {}
    /\ UNCHANGED <<tick, wheel, timer_tasks, delay, canceled, due>>

\* Ontime begins: the read returns the counter and resets it.
ReadTimerfd ==
    /\ times = 0 /\ expired > 0
    /\ times' = expired
    /\ expired' = 0
    /\ fired' = {}
    /\ UNCHANGED <<tick, wheel, timer_tasks, delay, canceled, due>>

NextSlot == (tick + 1) % Size

\* Mutant: clearing a slot destroys every task in it.
AnyPointer == wheel[NextSlot]

\* The tasks whose last pointer is in the slot about to be cleared.
LastPointer ==
    {id \in wheel[NextSlot] : \A s \in Slot \ {NextSlot} : id \notin wheel[s]}

Cleared == [wheel EXCEPT ![NextSlot] = {}]

\* Mutant: the destructor of a cancelled task does not call _release.
TickOnceLeaking ==
    /\ times > 0
    /\ times' = times - 1
    /\ tick' = NextSlot
    /\ wheel' = Cleared
    /\ fired' = {id \in LastPointer : ~canceled[id]}
    /\ timer_tasks' = timer_tasks \ fired'
    /\ UNCHANGED <<delay, canceled, expired, due>>

TickOnce ==
    /\ times > 0
    /\ times' = times - 1
    /\ tick' = NextSlot
    /\ wheel' = Cleared
    /\ timer_tasks' = timer_tasks \ LastPointer
    /\ fired' = {id \in LastPointer : ~canceled[id]}
    /\ UNCHANGED <<delay, canceled, expired, due>>

\* TickOnce when a callback it runs adds a timer (a function given to RunAfter
\* that calls RunAfter).  The callback's slot is not the one being cleared.
TickOnceAndAdd(id, d) ==
    /\ times > 0 /\ ~HasTimer(id)
    /\ \E x \in LastPointer : ~canceled[x]
    /\ d % Size # 0
    /\ times' = times - 1
    /\ tick' = NextSlot
    /\ wheel' = PushBack(Cleared, NextSlot, id, d)
    /\ timer_tasks' = (timer_tasks \ LastPointer) \cup {id}
    /\ fired' = {x \in LastPointer : ~canceled[x]}
    /\ delay' = [delay EXCEPT ![id] = d]
    /\ canceled' = [canceled EXCEPT ![id] = FALSE]
    /\ due' = [due EXCEPT ![id] = Missing(d, times - 1 + expired)]
    /\ UNCHANGED expired

Next ==
    \/ \E id \in Id, d \in Delays : TimerAddInLoop(id, d) \/ TickOnceAndAdd(id, d)
    \/ \E id \in Id : TimerRefreshInLoop(id) \/ TimerCancelInLoop(id)
    \/ Expire
    \/ ReadTimerfd
    \/ TickOnce

Safe == Init /\ [][Next]_vars

Ontime == ReadTimerfd \/ TickOnce \/ \E id \in Id, d \in Delays : TickOnceAndAdd(id, d)

\* The clock never stops, the loop polls the timerfd, and Ontime's loop ends.
Spec == Safe /\ WF_vars(Expire) /\ WF_vars(Ontime)

-----------------------------------------------------------------------------
(* Properties.                                                             *)

TypeOK ==
    /\ tick \in Slot
    /\ wheel \in [Slot -> SUBSET Id]
    /\ timer_tasks \in SUBSET Id
    /\ delay \in [Id -> Delays]
    /\ canceled \in [Id -> BOOLEAN]
    /\ expired \in 0 .. MaxLag /\ times \in 0 .. MaxLag
    /\ fired \in SUBSET Id
    /\ due \in [Id -> Nat]

\* The tasks that some slot of w holds a pointer to.
Held(w) == {id \in Id : \E s \in Slot : id \in w[s]}

\* _timer_tasks never holds an expired weak pointer: TimerRefreshInLoop
\* dereferences lock() without a test.
LockNeverNull == timer_tasks = Held(wheel)

\* The ticks until slot s is cleared, when the hand is at t.
Dist(t, s) == IF s > t THEN s - t ELSE s - t + Size

Dists(w, t, id) == {Dist(t, s) : s \in {r \in Slot : id \in w[r]}}

\* The ticks until the last pointer to each task goes.
LeftIn(w, t) == [id \in Id |-> IF id \in Held(w) THEN Max(Dists(w, t, id)) ELSE 0]

\* Counted in ticks, the wheel is the abstract timer: a callback runs exactly
\* `delay' ticks after the last refresh (TimerRefreshInLoop: "restart the
\* count"), a cancelled timer never runs one.  Stale pointers of earlier
\* refreshes change nothing.
IT == INSTANCE IdleTimer WITH left <- LeftIn(wheel, tick)
ImplementsIdleTimer == IT!Safe

\* Counted in expirations of the timerfd (one a second): a callback runs no
\* earlier than the delay after the last refresh (TimerRefreshInLoop, Ontime),
\* except that expirations which a busy loop had not yet read then count as well.
FiresAfterDelay == [][\A id \in fired' : due[id] = 0]_vars

\* A timer that is refreshed only finitely often goes away.
Expires ==
    \A id \in Id : \/ []<>(~HasTimer(id))
                   \/ []<><<TimerRefreshInLoop(id)>>_vars
=============================================================================
