------------------------------ MODULE IdleTimer ------------------------------
(***************************************************************************)
(* What the timer wheel promises: a timer runs its callback exactly when   *)
(* `delay' ticks have passed since it was added or last refreshed, unless  *)
(* it was cancelled, and then it is gone.  TimerWheel implements it.       *)
(***************************************************************************)
EXTENDS Integers

CONSTANTS Id, Delays

VARIABLES left,         \* ticks until the callback; 0 when there is no timer
          delay,        \* the delay the timer was added with
          canceled,     \* the timer will expire without a callback
          fired         \* the timers whose callback the latest step ran

tvars == <<left, delay, canceled, fired>>

Live == {id \in Id : left[id] > 0}

Init ==
    /\ left = [id \in Id |-> 0]
    /\ delay \in [Id -> Delays]
    /\ canceled = [id \in Id |-> FALSE]
    /\ fired = {}

Add(id, d) ==
    /\ id \notin Live
    /\ left' = [left EXCEPT ![id] = d]
    /\ delay' = [delay EXCEPT ![id] = d]
    /\ canceled' = [canceled EXCEPT ![id] = FALSE]
    /\ fired' = {}

Refresh(id) ==
    /\ id \in Live
    /\ left' = [left EXCEPT ![id] = delay[id]]
    /\ fired' = {}
    /\ UNCHANGED <<delay, canceled>>

Cancel(id) ==
    /\ id \in Live
    /\ canceled' = [canceled EXCEPT ![id] = TRUE]
    /\ fired' = {}
    /\ UNCHANGED <<left, delay>>

Expiring == {id \in Id : left[id] = 1}

OneLess == [id \in Id |-> IF id \in Live THEN left[id] - 1 ELSE 0]

Tick ==
    /\ left' = OneLess
    /\ fired' = {id \in Expiring : ~canceled[id]}
    /\ UNCHANGED <<delay, canceled>>

\* A callback that the tick runs adds a timer.
TickAndAdd(id, d) ==
    /\ id \notin Live
    /\ \E x \in Expiring : ~canceled[x]
    /\ left' = [OneLess EXCEPT ![id] = d]
    /\ fired' = {x \in Expiring : ~canceled[x]}
    /\ delay' = [delay EXCEPT ![id] = d]
    /\ canceled' = [canceled EXCEPT ![id] = FALSE]

\* A step that runs no callback and leaves the timers alone.
Quiet == fired' = {} /\ UNCHANGED <<left, delay, canceled>>

Next ==
    \/ \E id \in Id, d \in Delays : Add(id, d) \/ TickAndAdd(id, d)
    \/ \E id \in Id : Refresh(id) \/ Cancel(id)
    \/ Tick
    \/ Quiet

Safe == Init /\ [][Next]_tvars
=============================================================================
