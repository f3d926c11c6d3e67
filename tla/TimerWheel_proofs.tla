-------------------------- MODULE TimerWheel_proofs --------------------------
(***************************************************************************)
(* Proofs about TimerWheel, for every size of the wheel: the type          *)
(* invariant, that no weak pointer of _timer_tasks is expired, and that    *)
(* with delays of at most Size the wheel implements IdleTimer and fires no *)
(* callback early.                                                         *)
(***************************************************************************)
EXTENDS TimerWheel, TLAPS

\* The positions that TimerAddInLoop and TickOnce compute are slots.
LEMMA ModSlot == \A x \in Nat : x % Size \in Slot
BY SizeAssumption DEF Slot

\* push_back leaves a wheel a wheel.
LEMMA PushBackType ==
  ASSUME NEW w \in [Slot -> SUBSET Id], NEW t \in Slot, NEW id \in Id, NEW d \in Nat
  PROVE  /\ (t + d) % Size \in Slot
         /\ PushBack(w, t, id, d) \in [Slot -> SUBSET Id]
         /\ \A s \in Slot : PushBack(w, t, id, d)[s] =
                IF s = (t + d) % Size THEN w[s] \cup {id} ELSE w[s]
<1>1. (t + d) % Size \in Slot
  <2>1. t + d \in Nat
    BY SizeAssumption DEF Slot
  <2> QED
    BY <2>1, ModSlot
<1> QED
  BY <1>1 DEF PushBack

\* What is missing is a number.
LEMMA MissingType ==
  ASSUME NEW d \in Nat, NEW n \in Nat
  PROVE  Missing(d, n) \in Nat
BY DEF Missing

\* The type invariant holds of every reachable state.
THEOREM TypeCorrect == Safe => []TypeOK
<1> USE SizeAssumption, DelaysAssumption, MaxLagAssumption
<1>1. Init => TypeOK
  BY DEF Init, TypeOK, Slot
<1>2. TypeOK /\ [Next]_vars => TypeOK'
  <2> SUFFICES ASSUME TypeOK, [Next]_vars PROVE TypeOK'
    OBVIOUS
  <2> USE DEF TypeOK
  <2>n. NextSlot \in Slot /\ Cleared \in [Slot -> SUBSET Id]
    <3>1. tick + 1 \in Nat
      BY DEF Slot
    <3> QED
      BY <3>1, ModSlot DEF NextSlot, Cleared
  <2>m. /\ expired \in Nat
        /\ \A d \in Delays : Missing(d, expired) \in Nat
    <3>1. expired \in Nat /\ \A d \in Delays : d \in Nat
      OBVIOUS
    <3> QED
      BY <3>1, MissingType
  <2>1. ASSUME NEW id \in Id, NEW d \in Delays, TimerAddInLoop(id, d)
        PROVE  TypeOK'
    <3>1. wheel' \in [Slot -> SUBSET Id]
      BY <2>1, PushBackType DEF TimerAddInLoop
    <3> QED
      BY <2>1, <2>m, <3>1 DEF TimerAddInLoop
  <2>2. ASSUME NEW id \in Id, NEW d \in Delays, TickOnceAndAdd(id, d)
        PROVE  TypeOK'
    <3>1. wheel' \in [Slot -> SUBSET Id]
      BY <2>2, <2>n, PushBackType DEF TickOnceAndAdd
    <3>2. Missing(d, times - 1 + expired) \in Nat
      BY <2>2, MissingType DEF TickOnceAndAdd
    <3> QED
      BY <2>2, <2>n, <3>1, <3>2 DEF TickOnceAndAdd, LastPointer
  <2>3. ASSUME NEW id \in Id, TimerRefreshInLoop(id) PROVE TypeOK'
    <3>1. wheel' \in [Slot -> SUBSET Id]
      BY <2>3, PushBackType DEF TimerRefreshInLoop
    <3>2. delay[id] \in Delays /\ Missing(delay[id], expired) \in Nat
      BY <2>m
    <3> QED
      BY <2>3, <3>1, <3>2 DEF TimerRefreshInLoop
  <2>4. ASSUME NEW id \in Id, TimerCancelInLoop(id) PROVE TypeOK'
    BY <2>4 DEF TimerCancelInLoop
  <2>5. CASE Expire
    <3>1. \A id \in Id : Missing(due[id], 1) \in Nat
      BY MissingType
    <3> QED
      BY <2>5, <3>1 DEF Expire
  <2>6. CASE ReadTimerfd
    BY <2>6 DEF ReadTimerfd
  <2>7. CASE TickOnce
    BY <2>7, <2>n DEF TickOnce, LastPointer
  <2>8. CASE UNCHANGED vars
    BY <2>8 DEF vars
  <2> QED
    BY <2>1, <2>2, <2>3, <2>4, <2>5, <2>6, <2>7, <2>8 DEF Next
<1> QED
  BY <1>1, <1>2, PTL DEF Safe

-----------------------------------------------------------------------------
\* What push_back and clear do to the set of tasks the wheel holds.
LEMMA HeldAfterPush ==
  ASSUME NEW w \in [Slot -> SUBSET Id], NEW t \in Slot, NEW id \in Id, NEW d \in Nat
  PROVE  Held(PushBack(w, t, id, d)) = Held(w) \cup {id}
<1>1. PICK p \in Slot :
        \A s \in Slot : PushBack(w, t, id, d)[s] = IF s = p THEN w[s] \cup {id} ELSE w[s]
  <2>1. (t + d) % Size \in Slot
    BY PushBackType
  <2> QED
    BY <2>1 DEF PushBack
<1> QED
  BY <1>1 DEF Held

\* The slot that TickOnce clears is a slot, and the rest stays a wheel.
LEMMA NextSlotType ==
  ASSUME TypeOK
  PROVE  NextSlot \in Slot /\ Cleared \in [Slot -> SUBSET Id]
<1>1. tick + 1 \in Nat
  BY SizeAssumption DEF TypeOK, Slot
<1> QED
  BY <1>1, ModSlot DEF NextSlot, Cleared, TypeOK

\* Clearing the slot loses the tasks that no other slot holds, and only those.
LEMMA HeldAfterClear ==
  ASSUME TypeOK
  PROVE  Held(Cleared) = Held(wheel) \ LastPointer
BY NextSlotType DEF Held, Cleared, LastPointer, TypeOK

\* TimerRefreshInLoop never dereferences a null pointer: for every size of the
\* wheel, every set of delays and every lag of the loop, _timer_tasks holds
\* exactly the tasks that are alive.
THEOREM WeakPointersLive == Safe => []LockNeverNull
<1> USE SizeAssumption, DelaysAssumption
<1>1. Init => LockNeverNull
  BY DEF Init, LockNeverNull, Held
<1>2. TypeOK /\ LockNeverNull /\ [Next]_vars => LockNeverNull'
  <2> SUFFICES ASSUME TypeOK, LockNeverNull, [Next]_vars PROVE LockNeverNull'
    OBVIOUS
  <2>t. /\ wheel \in [Slot -> SUBSET Id] /\ tick \in Slot
        /\ delay \in [Id -> Nat] /\ Delays \subseteq Nat
    BY DEF TypeOK
  <2> USE DEF LockNeverNull
  <2>1. ASSUME NEW id \in Id, NEW d \in Delays, TimerAddInLoop(id, d)
        PROVE  LockNeverNull'
    <3>1. Held(PushBack(wheel, tick, id, d)) = Held(wheel) \cup {id}
      BY <2>t, HeldAfterPush
    <3>2. Held(wheel') = Held(wheel) \cup {id}
      BY <2>1, <3>1 DEF TimerAddInLoop
    <3> QED
      BY <2>1, <3>2 DEF TimerAddInLoop, Held
  <2>2. ASSUME NEW id \in Id, NEW d \in Delays, TickOnceAndAdd(id, d)
        PROVE  LockNeverNull'
    <3>1. Held(PushBack(Cleared, NextSlot, id, d)) = Held(Cleared) \cup {id}
      BY <2>t, NextSlotType, HeldAfterPush
    <3>2. Held(wheel') = (Held(wheel) \ LastPointer) \cup {id}
      BY <2>2, <3>1, HeldAfterClear DEF TickOnceAndAdd
    <3> QED
      BY <2>2, <3>2 DEF TickOnceAndAdd, Held
  <2>3. ASSUME NEW id \in Id, TimerRefreshInLoop(id) PROVE LockNeverNull'
    <3>1. Held(PushBack(wheel, tick, id, delay[id])) = Held(wheel) \cup {id}
      BY <2>t, HeldAfterPush
    <3>2. Held(wheel') = Held(wheel)
      BY <2>3, <3>1 DEF TimerRefreshInLoop, HasTimer
    <3> QED
      BY <2>3, <3>2 DEF TimerRefreshInLoop, Held
  <2>4. CASE TickOnce
    <3>1. Held(wheel') = Held(wheel) \ LastPointer
      BY <2>4, HeldAfterClear DEF TickOnce
    <3> QED
      BY <2>4, <3>1 DEF TickOnce, Held
  <2>5. ASSUME UNCHANGED <<wheel, timer_tasks>> PROVE LockNeverNull'
    BY <2>5 DEF Held
  <2> QED
    BY <2>1, <2>2, <2>3, <2>4, <2>5
    DEF Next, TimerCancelInLoop, Expire, ReadTimerfd, vars
<1> QED
  BY <1>1, <1>2, TypeCorrect, PTL DEF Safe

-----------------------------------------------------------------------------
(* Distances on the wheel.                                                 *)

\* x % Size for the values the code computes.
LEMMA ModValue ==
  /\ \A x \in 0 .. Size - 1 : x % Size = x
  /\ \A x \in Size .. 2 * Size - 1 : x % Size = x - Size
BY SizeAssumption

\* A delay of at most Size is the distance to the slot it selects.
LEMMA SlotAhead ==
  ASSUME NEW t \in Slot, NEW d \in 1 .. Size
  PROVE  (t + d) % Size \in Slot /\ Dist(t, (t + d) % Size) = d
<1> USE SizeAssumption DEF Slot, Dist
<1>1. CASE t + d < Size
  <2>1. (t + d) % Size = t + d
    <3>1. t + d \in 0 .. Size - 1
      BY <1>1
    <3> QED
      BY <3>1, ModValue
  <2> QED
    BY <1>1, <2>1
<1>2. CASE t + d >= Size
  <2>1. (t + d) % Size = t + d - Size
    <3>1. t + d \in Size .. 2 * Size - 1
      BY <1>2
    <3> QED
      BY <3>1, ModValue
  <2> QED
    BY <1>2, <2>1
<1> QED
  BY <1>1, <1>2

\* A tick brings every other slot one step nearer.
LEMMA DistAfterTick ==
  ASSUME NEW t \in Slot, NEW n \in Slot, n = (t + 1) % Size
  PROVE  /\ Dist(t, n) = 1
         /\ \A s \in Slot : s # n => Dist(t, s) > 1 /\ Dist(n, s) = Dist(t, s) - 1
<1> USE SizeAssumption DEF Slot, Dist
<1>1. CASE t + 1 < Size
  <2>1. n = t + 1
    <3>1. t + 1 \in 0 .. Size - 1
      BY <1>1
    <3> QED
      BY <3>1, ModValue
  <2> QED
    BY <1>1, <2>1
<1>2. CASE t + 1 = Size
  <2>1. n = 0
    <3>1. t + 1 \in Size .. 2 * Size - 1
      BY <1>2
    <3> QED
      BY <1>2, <3>1, ModValue
  <2> QED
    BY <1>2, <2>1
<1> QED
  BY <1>1, <1>2

\* A slot is at most one turn ahead of the hand.
LEMMA DistType == \A t, s \in Slot : Dist(t, s) \in 1 .. Size
BY SizeAssumption DEF Slot, Dist

-----------------------------------------------------------------------------
(* The pointer that goes last.                                             *)

\* In wheel w with the hand at t, the last pointer to id goes in m ticks.
IsLeft(w, t, id, m) ==
    /\ \E s \in Slot : id \in w[s] /\ Dist(t, s) = m
    /\ \A s \in Slot : id \in w[s] => Dist(t, s) <= m

\* The refinement mapping's maximum is that distance.
LEMMA LeftIs ==
  ASSUME NEW w, NEW t \in Slot, NEW id \in Id, NEW m \in Int, IsLeft(w, t, id, m)
  PROVE  id \in Held(w) /\ LeftIn(w, t)[id] = m
<1>1. id \in Held(w)
  BY DEF IsLeft, Held
<1>2. m \in Dists(w, t, id) /\ \A y \in Dists(w, t, id) : y \in Int /\ m >= y
  BY DistType DEF IsLeft, Dists
<1>3. \A x \in Dists(w, t, id) : (\A y \in Dists(w, t, id) : x >= y) => x = m
  BY <1>2
<1>4. Max(Dists(w, t, id)) = m
  BY <1>2, <1>3 DEF Max
<1> QED
  BY <1>1, <1>4 DEF LeftIn

\* A pointer pushed d ticks ahead is the last if no other is further.
LEMMA PushOwn ==
  ASSUME NEW w \in [Slot -> SUBSET Id], NEW t \in Slot, NEW id \in Id,
         NEW d \in 1 .. Size,
         \A s \in Slot : id \in w[s] => Dist(t, s) <= d
  PROVE  IsLeft(PushBack(w, t, id, d), t, id, d)
<1>1. (t + d) % Size \in Slot /\ Dist(t, (t + d) % Size) = d
  BY SlotAhead
<1> QED
  BY <1>1 DEF IsLeft, PushBack

\* It changes nothing for the other tasks.
LEMMA PushOther ==
  ASSUME NEW w \in [Slot -> SUBSET Id], NEW t \in Slot, NEW id \in Id,
         NEW d \in 1 .. Size, NEW x \in Id \ {id}
  PROVE  /\ \A m \in Int : IsLeft(w, t, x, m) => IsLeft(PushBack(w, t, id, d), t, x, m)
         /\ x \in Held(PushBack(w, t, id, d)) <=> x \in Held(w)
<1>1. (t + d) % Size \in Slot
  BY SlotAhead
<1>2. \A s \in Slot : x \in PushBack(w, t, id, d)[s] <=> x \in w[s]
  BY <1>1 DEF PushBack
<1> QED
  BY <1>2 DEF IsLeft, Held

\* A tick brings the last pointer one step nearer,
LEMMA ClearOne ==
  ASSUME NEW w \in [Slot -> SUBSET Id], NEW t \in Slot, NEW n \in Slot,
         n = (t + 1) % Size, NEW id \in Id, NEW m \in 1 .. Size,
         IsLeft(w, t, id, m), m > 1
  PROVE  IsLeft([w EXCEPT ![n] = {}], n, id, m - 1)
<1>1. /\ Dist(t, n) = 1
      /\ \A s \in Slot : s # n => Dist(t, s) > 1 /\ Dist(n, s) = Dist(t, s) - 1
  BY DistAfterTick
<1>2. \A s \in Slot : Dist(t, s) \in 1 .. Size /\ Dist(n, s) \in 1 .. Size
  BY DistType
<1> QED
  BY <1>1, <1>2, SizeAssumption DEF IsLeft

\* or destroys the task, when it is in the slot being cleared and nowhere else.
LEMMA ClearLast ==
  ASSUME NEW w \in [Slot -> SUBSET Id], NEW t \in Slot, NEW n \in Slot,
         n = (t + 1) % Size, NEW id \in Id, NEW m \in 1 .. Size, IsLeft(w, t, id, m)
  PROVE  m = 1 <=> id \in w[n] /\ \A s \in Slot \ {n} : id \notin w[s]
<1>1. /\ Dist(t, n) = 1
      /\ \A s \in Slot : s # n => Dist(t, s) > 1
  BY DistAfterTick
<1>2. \A s \in Slot : Dist(t, s) \in 1 .. Size
  BY DistType
<1> QED
  BY <1>1, <1>2, SizeAssumption DEF IsLeft

-----------------------------------------------------------------------------
(* The inductive invariant, and how the mapping changes.                   *)

\* The last pointer to a task goes within its delay dl[id].
WithinDelay(w, t, dl) ==
    \A id \in Held(w) : \E m \in 1 .. Size : m <= dl[id] /\ IsLeft(w, t, id, m)

\* The mapping of a wheel, task by task.
LEMMA LeftOfWheel ==
  ASSUME NEW w, NEW t \in Slot, NEW dl, WithinDelay(w, t, dl), NEW id \in Id
  PROVE  \/ /\ id \in Held(w)
            /\ \E m \in 1 .. Size : /\ m <= dl[id] /\ IsLeft(w, t, id, m)
                                    /\ LeftIn(w, t)[id] = m
         \/ id \notin Held(w) /\ LeftIn(w, t)[id] = 0
<1>1. CASE id \in Held(w)
  <2>1. PICK m \in 1 .. Size : m <= dl[id] /\ IsLeft(w, t, id, m)
    BY <1>1 DEF WithinDelay
  <2>2. m \in Int
    OBVIOUS
  <2>3. LeftIn(w, t)[id] = m
    BY <2>1, <2>2, LeftIs
  <2> QED
    BY <1>1, <2>1, <2>3
<1>2. CASE id \notin Held(w)
  BY <1>2 DEF LeftIn
<1> QED
  BY <1>1, <1>2

\* The abstract timers are the tasks the wheel holds.
LEMMA LiveIsHeld ==
  ASSUME NEW w, NEW t \in Slot, NEW dl, WithinDelay(w, t, dl)
  PROVE  {id \in Id : LeftIn(w, t)[id] > 0} = Held(w)
<1>1. \A id \in Id : LeftIn(w, t)[id] > 0 <=> id \in Held(w)
  <2> TAKE id \in Id
  <2> QED
    BY LeftOfWheel
<1> QED
  BY <1>1 DEF Held

\* A push of d ticks sets what is left of its task to d and leaves the others.
LEMMA PushLeft ==
  ASSUME NEW w \in [Slot -> SUBSET Id], NEW t \in Slot, NEW id \in Id,
         NEW d \in 1 .. Size, NEW dl, WithinDelay(w, t, dl),
         \A s \in Slot : id \in w[s] => Dist(t, s) <= d,
         NEW dl2, dl2[id] = d, \A x \in Id \ {id} : dl2[x] = dl[x]
  PROVE  /\ WithinDelay(PushBack(w, t, id, d), t, dl2)
         /\ LeftIn(PushBack(w, t, id, d), t) = [LeftIn(w, t) EXCEPT ![id] = d]
<1> DEFINE w2 == PushBack(w, t, id, d)
<1>1. IsLeft(w2, t, id, d)
  BY PushOwn
<1>2. \A x \in Id : x # id => (x \in Held(w2) <=> x \in Held(w))
  BY PushOther
<1>3. \A x \in Id, m \in Int : x # id /\ IsLeft(w, t, x, m) => IsLeft(w2, t, x, m)
  BY PushOther
<1> HIDE DEF w2
<1>4. WithinDelay(w2, t, dl2)
  <2> SUFFICES ASSUME NEW x \in Held(w2)
               PROVE  \E m \in 1 .. Size : m <= dl2[x] /\ IsLeft(w2, t, x, m)
    BY DEF WithinDelay
  <2>1. CASE x = id
    BY <2>1, <1>1
  <2>2. CASE x # id
    <3>0. x \in Id
      BY DEF Held
    <3>1. x \in Held(w)
      BY <2>2, <3>0, <1>2
    <3>2. PICK m \in 1 .. Size : m <= dl[x] /\ IsLeft(w, t, x, m)
      BY <3>1 DEF WithinDelay
    <3>3. m \in Int
      OBVIOUS
    <3>4. dl2[x] = dl[x]
      BY <2>2, <3>0
    <3> QED
      BY <2>2, <3>0, <3>2, <3>3, <3>4, <1>3
  <2> QED
    BY <2>1, <2>2
<1>5. LeftIn(w2, t) = [LeftIn(w, t) EXCEPT ![id] = d]
  <2>1. LeftIn(w2, t)[id] = d
    <3>1. d \in Int
      OBVIOUS
    <3> QED
      BY <1>1, <3>1, LeftIs
  <2>2. ASSUME NEW x \in Id \ {id} PROVE LeftIn(w2, t)[x] = LeftIn(w, t)[x]
    <3>1. CASE x \in Held(w)
      <4>1. PICK m \in 1 .. Size : IsLeft(w, t, x, m) /\ LeftIn(w, t)[x] = m
        BY <3>1, LeftOfWheel
      <4>2. m \in Int /\ IsLeft(w2, t, x, m)
        <5>1. m \in Int
          OBVIOUS
        <5> QED
          BY <4>1, <5>1, <1>3
      <4>3. LeftIn(w2, t)[x] = m
        BY <4>2, LeftIs
      <4> QED
        BY <4>1, <4>3
    <3>2. CASE x \notin Held(w)
      <4>1. x \notin Held(w2)
        BY <3>2, <1>2
      <4> QED
        BY <3>2, <4>1 DEF LeftIn
    <3> QED
      BY <3>1, <3>2
  <2> QED
    BY <2>1, <2>2 DEF LeftIn
<1> QED
  BY <1>4, <1>5 DEF w2

\* What a tick must do to the distance of a task.
Decrement(f) == [id \in Id |-> IF f[id] > 0 THEN f[id] - 1 ELSE 0]

NearerByOne(w, t, n, c, dl, id) ==
    /\ LeftIn(c, n)[id] = IF LeftIn(w, t)[id] > 0 THEN LeftIn(w, t)[id] - 1 ELSE 0
    /\ LeftIn(w, t)[id] = 1 <=> id \in w[n] /\ \A s \in Slot \ {n} : id \notin w[s]
    /\ id \in Held(c) => \E k \in 1 .. Size : k <= dl[id] /\ IsLeft(c, n, id, k)

AllNearer(w, t, n, c, dl) ==
    /\ WithinDelay(c, n, dl)
    /\ LeftIn(c, n) = Decrement(LeftIn(w, t))
    /\ {id \in w[n] : \A s \in Slot \ {n} : id \notin w[s]} =
          {id \in Id : LeftIn(w, t)[id] = 1}

\* A tick is the abstract tick: every task one less, the last ones gone.
LEMMA ClearLeft ==
  ASSUME NEW w \in [Slot -> SUBSET Id], NEW t \in Slot, NEW n \in Slot,
         n = (t + 1) % Size, NEW dl, WithinDelay(w, t, dl), dl \in [Id -> Nat],
         NEW c, c = [w EXCEPT ![n] = {}]
  PROVE  AllNearer(w, t, n, c, dl)
<1>1. \A id \in Id, m \in 1 .. Size :
        IsLeft(w, t, id, m) /\ m > 1 => IsLeft(c, n, id, m - 1)
  BY ClearOne
<1>2. Held(c) \subseteq Held(w)
  BY DEF Held
<1>3. \A id \in Id : NearerByOne(w, t, n, c, dl, id)
  <2> TAKE id \in Id
  <2>1. CASE id \in Held(w)
    <3>1. PICK m \in 1 .. Size : /\ m <= dl[id] /\ IsLeft(w, t, id, m)
                                /\ LeftIn(w, t)[id] = m
      BY <2>1, LeftOfWheel
    <3>2. m = 1 <=> id \in w[n] /\ \A s \in Slot \ {n} : id \notin w[s]
      BY <3>1, ClearLast
    <3>3. CASE m = 1
      <4>1. id \notin Held(c)
        BY <3>2, <3>3 DEF Held
      <4>2. LeftIn(c, n)[id] = 0
        BY <4>1 DEF LeftIn
      <4> QED
        BY <3>1, <3>2, <3>3, <4>1, <4>2 DEF NearerByOne
    <3>4. CASE m > 1
      <4>1. m - 1 \in 1 .. Size /\ m - 1 \in Int /\ m - 1 <= dl[id] /\ m # 1
        BY <3>1, <3>4, SizeAssumption
      <4>2. IsLeft(c, n, id, m - 1)
        BY <3>1, <3>4, <1>1
      <4>3. LeftIn(c, n)[id] = m - 1
        BY <4>1, <4>2, LeftIs
      <4>4. LeftIn(c, n)[id] = IF LeftIn(w, t)[id] > 0 THEN LeftIn(w, t)[id] - 1 ELSE 0
        BY <3>1, <3>4, <4>3
      <4>5. LeftIn(w, t)[id] = 1 <=> id \in w[n] /\ \A s \in Slot \ {n} : id \notin w[s]
        BY <3>1, <3>2
      <4> QED
        BY <4>1, <4>2, <4>4, <4>5 DEF NearerByOne
    <3>5. m = 1 \/ m > 1
      OBVIOUS
    <3> QED
      BY <3>3, <3>4, <3>5
  <2>2. CASE id \notin Held(w)
    <3>1. LeftIn(w, t)[id] = 0 /\ LeftIn(c, n)[id] = 0 /\ id \notin w[n] /\ id \notin Held(c)
      BY <2>2, <1>2 DEF LeftIn, Held
    <3> QED
      BY <3>1 DEF NearerByOne
  <2> QED
    BY <2>1, <2>2
<1>4. WithinDelay(c, n, dl)
  BY <1>3 DEF WithinDelay, NearerByOne, Held
<1>5. LeftIn(c, n) = Decrement(LeftIn(w, t))
  BY <1>3 DEF LeftIn, NearerByOne, Decrement
<1>6. {id \in w[n] : \A s \in Slot \ {n} : id \notin w[s]} =
        {id \in Id : LeftIn(w, t)[id] = 1}
  BY <1>3 DEF NearerByOne
<1> QED
  BY <1>4, <1>5, <1>6 DEF AllNearer

-----------------------------------------------------------------------------
\* No pointer is further ahead than its task's delay.
Inv == WithinDelay(wheel, tick, delay)

\* With delays of at most Size the wheel implements the abstract timer, for
\* every size: a callback runs exactly `delay' ticks after the last refresh
\* and a cancelled timer runs none (TimerAddInLoop, TimerRefreshInLoop,
\* TimerCancelInLoop, TickOnce).
THEOREM WheelKeepsTime ==
  ASSUME Delays \subseteq 1 .. Size
  PROVE  Safe => IT!Safe
<1>1. Init => IT!Init /\ Inv
  BY SizeAssumption DEF Init, IT!Init, Inv, WithinDelay, Held, LeftIn, Slot
<1>2. TypeOK /\ LockNeverNull /\ Inv /\ [Next]_vars => [IT!Next]_(IT!tvars) /\ Inv'
  <2> SUFFICES ASSUME TypeOK, LockNeverNull, Inv, [Next]_vars
               PROVE  (IT!Next \/ UNCHANGED <<LeftIn(wheel, tick), delay, canceled, fired>>) /\ Inv'
    BY DEF IT!tvars
  <2>t. /\ wheel \in [Slot -> SUBSET Id] /\ tick \in Slot
        /\ NextSlot \in Slot /\ Cleared \in [Slot -> SUBSET Id]
        /\ delay \in [Id -> Delays] /\ delay \in [Id -> Nat]
        /\ WithinDelay(wheel, tick, delay)
        /\ timer_tasks = Held(wheel)
    BY NextSlotType, DelaysAssumption DEF TypeOK, Inv, LockNeverNull
  <2>l. IT!Live = Held(wheel)
    BY <2>t, LiveIsHeld DEF IT!Live
  <2>d. \A id \in Id : \A s \in Slot : id \in wheel[s] => Dist(tick, s) <= delay[id]
    <3> SUFFICES ASSUME NEW id \in Id, NEW s \in Slot, id \in wheel[s]
                 PROVE  Dist(tick, s) <= delay[id]
      OBVIOUS
    <3>1. id \in Held(wheel)
      BY DEF Held
    <3>2. PICK m \in 1 .. Size : m <= delay[id] /\ IsLeft(wheel, tick, id, m)
      BY <2>t, <3>1 DEF WithinDelay
    <3>3. Dist(tick, s) \in Int /\ delay[id] \in Int
      BY <2>t, DistType
    <3> QED
      BY <3>2, <3>3 DEF IsLeft
  <2>c. /\ WithinDelay(Cleared, NextSlot, delay)
        /\ LeftIn(Cleared, NextSlot) = IT!OneLess
        /\ LastPointer = IT!Expiring
    <3>1. NextSlot = (tick + 1) % Size /\ Cleared = [wheel EXCEPT ![NextSlot] = {}]
      BY DEF NextSlot, Cleared
    <3>2. AllNearer(wheel, tick, NextSlot, Cleared, delay)
      BY <2>t, <3>1, ClearLeft
    <3>3. IT!OneLess = Decrement(LeftIn(wheel, tick))
      BY DEF IT!OneLess, IT!Live, Decrement
    <3> QED
      BY <3>2, <3>3 DEF AllNearer, LastPointer, IT!Expiring
  <2>1. ASSUME NEW id \in Id, NEW d \in Delays, TimerAddInLoop(id, d)
        PROVE  IT!Add(id, d) /\ Inv'
    <3>1. id \notin Held(wheel) /\ \A s \in Slot : id \notin wheel[s]
      BY <2>1, <2>t DEF TimerAddInLoop, HasTimer, Held
    <3>2. delay'[id] = d /\ \A x \in Id \ {id} : delay'[x] = delay[x]
      BY <2>1, <2>t DEF TimerAddInLoop
    <3>3. d \in 1 .. Size
      OBVIOUS
    <3>4. /\ WithinDelay(PushBack(wheel, tick, id, d), tick, delay')
          /\ LeftIn(PushBack(wheel, tick, id, d), tick) = [LeftIn(wheel, tick) EXCEPT ![id] = d]
      BY <2>t, <3>1, <3>2, <3>3, PushLeft
    <3>5. wheel' = PushBack(wheel, tick, id, d) /\ tick' = tick
      BY <2>1 DEF TimerAddInLoop
    <3> QED
      BY <2>1, <2>l, <3>1, <3>4, <3>5 DEF TimerAddInLoop, IT!Add, Inv
  <2>2. ASSUME NEW id \in Id, TimerRefreshInLoop(id)
        PROVE  IT!Refresh(id) /\ Inv'
    <3>1. delay[id] \in 1 .. Size
      BY <2>t
    <3>2. /\ WithinDelay(PushBack(wheel, tick, id, delay[id]), tick, delay)
          /\ LeftIn(PushBack(wheel, tick, id, delay[id]), tick) =
                [LeftIn(wheel, tick) EXCEPT ![id] = delay[id]]
      BY <2>t, <2>d, <3>1, PushLeft
    <3>3. wheel' = PushBack(wheel, tick, id, delay[id]) /\ tick' = tick /\ delay' = delay
      BY <2>2 DEF TimerRefreshInLoop
    <3> QED
      BY <2>2, <2>t, <2>l, <3>2, <3>3 DEF TimerRefreshInLoop, HasTimer, IT!Refresh, Inv
  <2>3. ASSUME NEW id \in Id, TimerCancelInLoop(id)
        PROVE  IT!Cancel(id) /\ Inv'
    BY <2>3, <2>t, <2>l DEF TimerCancelInLoop, HasTimer, IT!Cancel, Inv
  <2>4. CASE TickOnce
    <3>1. wheel' = Cleared /\ tick' = NextSlot /\ delay' = delay
      BY <2>4 DEF TickOnce
    <3>2. IT!Tick
      BY <2>4, <2>c, <3>1 DEF TickOnce, IT!Tick
    <3> QED
      BY <2>c, <3>1, <3>2 DEF IT!Next, Inv
  <2>5. ASSUME NEW id \in Id, NEW d \in Delays, TickOnceAndAdd(id, d)
        PROVE  IT!TickAndAdd(id, d) /\ Inv'
    <3>1. id \notin Held(wheel) /\ \A s \in Slot : id \notin Cleared[s]
      BY <2>5, <2>t DEF TickOnceAndAdd, HasTimer, Held, Cleared
    <3>2. delay'[id] = d /\ \A x \in Id \ {id} : delay'[x] = delay[x]
      BY <2>5, <2>t DEF TickOnceAndAdd
    <3>3. d \in 1 .. Size
      OBVIOUS
    <3>4. /\ WithinDelay(PushBack(Cleared, NextSlot, id, d), NextSlot, delay')
          /\ LeftIn(PushBack(Cleared, NextSlot, id, d), NextSlot) =
                [LeftIn(Cleared, NextSlot) EXCEPT ![id] = d]
      BY <2>t, <2>c, <3>1, <3>2, <3>3, PushLeft
    <3>5. wheel' = PushBack(Cleared, NextSlot, id, d) /\ tick' = NextSlot
      BY <2>5 DEF TickOnceAndAdd
    <3> QED
      BY <2>5, <2>l, <2>c, <3>1, <3>4, <3>5 DEF TickOnceAndAdd, IT!TickAndAdd, Inv
  <2>6. ASSUME Expire \/ ReadTimerfd PROVE IT!Quiet /\ Inv'
    <3>1. UNCHANGED <<wheel, tick, delay, canceled>> /\ fired' = {}
      BY <2>6 DEF Expire, ReadTimerfd
    <3> QED
      BY <2>t, <3>1 DEF IT!Quiet, Inv
  <2>7. CASE UNCHANGED vars
    BY <2>7, <2>t DEF vars, Inv
  <2> QED
    BY <2>1, <2>2, <2>3, <2>4, <2>5, <2>6, <2>7 DEF Next, IT!Next
<1> QED
  BY <1>1, <1>2, TypeCorrect, WeakPointersLive, PTL DEF Safe, IT!Safe

-----------------------------------------------------------------------------
(* The clock.                                                              *)

\* Some pointer of id is as far ahead as the expirations still missing, and the
\* ticks owed for those that count already.
FarEnough(w, t, n, id, m) == \E s \in Slot : id \in w[s] /\ Dist(t, s) >= m + n

Ahead(w, t, n, dl) ==
    \A id \in Held(w) : dl[id] > 0 => FarEnough(w, t, n, id, dl[id])

AheadInv == Ahead(wheel, tick, times + expired, due)

\* A pointer pushed d ticks ahead is as far as what is missing of d, when n
\* expirations count against it.
LEMMA PushFar ==
  ASSUME NEW w \in [Slot -> SUBSET Id], NEW t \in Slot, NEW id \in Id,
         NEW d \in 1 .. Size, NEW n \in Nat, Missing(d, n) > 0
  PROVE  FarEnough(PushBack(w, t, id, d), t, n, id, Missing(d, n))
<1>1. (t + d) % Size \in Slot /\ Dist(t, (t + d) % Size) = d
  BY SlotAhead
<1>2. d \in Nat /\ d >= Missing(d, n) + n
  BY DEF Missing
<1>3. id \in PushBack(w, t, id, d)[(t + d) % Size]
  BY <1>1 DEF PushBack
<1> QED
  BY <1>1, <1>2, <1>3 DEF FarEnough

\* It takes no other task's pointers away.
LEMMA PushAhead ==
  ASSUME NEW w \in [Slot -> SUBSET Id], NEW t \in Slot, NEW id \in Id,
         NEW d \in 1 .. Size, NEW n \in Nat, NEW dl, Ahead(w, t, n, dl),
         NEW dl2, dl2[id] = Missing(d, n), \A x \in Id \ {id} : dl2[x] = dl[x]
  PROVE  Ahead(PushBack(w, t, id, d), t, n, dl2)
<1> DEFINE w2 == PushBack(w, t, id, d)
<1>1. \A x \in Id : x # id => (x \in Held(w2) <=> x \in Held(w))
  BY PushOther
<1>2. \A x \in Id, s \in Slot : x \in w[s] => x \in w2[s]
  BY DEF PushBack
<1>3. dl2[id] > 0 => FarEnough(w2, t, n, id, dl2[id])
  BY PushFar
<1> HIDE DEF w2
<1>4. ASSUME NEW x \in Held(w2), dl2[x] > 0
      PROVE  FarEnough(w2, t, n, x, dl2[x])
  <2>1. CASE x = id
    BY <1>3, <1>4, <2>1
  <2>2. CASE x # id
    <3>1. x \in Id /\ x \in Held(w) /\ dl2[x] = dl[x]
      BY <1>1, <2>2 DEF Held
    <3>2. PICK s \in Slot : x \in w[s] /\ Dist(t, s) >= dl[x] + n
      BY <1>4, <3>1 DEF Ahead, FarEnough
    <3> QED
      BY <1>2, <3>1, <3>2 DEF FarEnough
  <2> QED
    BY <2>1, <2>2
<1> QED
  BY <1>4 DEF Ahead, w2

\* A task of the wheel with expirations missing outlives the next tick.
LEMMA TickKeepsFar ==
  ASSUME TypeOK, AheadInv, times > 0, NEW id \in Held(wheel), due[id] > 0
  PROVE  id \in Held(Cleared) /\ id \notin LastPointer
         /\ FarEnough(Cleared, NextSlot, times - 1 + expired, id, due[id])
<1>1. /\ NextSlot \in Slot /\ Cleared \in [Slot -> SUBSET Id] /\ tick \in Slot
      /\ id \in Id /\ due[id] \in Nat /\ times \in Nat /\ expired \in Nat
      /\ wheel \in [Slot -> SUBSET Id]
  BY NextSlotType DEF TypeOK, Held
<1>2. PICK s \in Slot : id \in wheel[s] /\ Dist(tick, s) >= due[id] + (times + expired)
  BY DEF AheadInv, Ahead, FarEnough
<1>3. /\ Dist(tick, NextSlot) = 1
      /\ \A r \in Slot : r # NextSlot =>
            Dist(tick, r) > 1 /\ Dist(NextSlot, r) = Dist(tick, r) - 1
  BY <1>1, DistAfterTick DEF NextSlot
<1>4. Dist(tick, s) \in Int /\ Dist(tick, s) > 1
  BY <1>1, <1>2, DistType
<1>5. s # NextSlot
  BY <1>3, <1>4
<1>6. Dist(NextSlot, s) >= due[id] + (times - 1 + expired)
  BY <1>1, <1>2, <1>3, <1>4, <1>5
<1>7. id \in Cleared[s]
  BY <1>1, <1>2, <1>5 DEF Cleared
<1> QED
  BY <1>1, <1>2, <1>5, <1>6, <1>7 DEF Held, LastPointer, FarEnough

\* What a tick leaves behind.
LEMMA TickAhead ==
  ASSUME TypeOK, AheadInv, times > 0
  PROVE  /\ Ahead(Cleared, NextSlot, times - 1 + expired, due)
         /\ \A id \in LastPointer : due[id] = 0
<1>1. Held(Cleared) \subseteq Held(wheel) /\ LastPointer \subseteq Held(wheel)
  BY NextSlotType DEF Held, Cleared, LastPointer, TypeOK
<1>2. \A id \in Held(wheel) : due[id] \in Nat
  BY DEF TypeOK, Held
<1>3. \A id \in Held(wheel) : due[id] > 0 =>
        /\ id \notin LastPointer
        /\ FarEnough(Cleared, NextSlot, times - 1 + expired, id, due[id])
  BY TickKeepsFar
<1> QED
  BY <1>1, <1>2, <1>3 DEF Ahead

\* With delays of at most Size no callback runs before the timerfd has counted the
\* whole delay since the last refresh, the expirations a busy loop had not read
\* then included: for every size of the wheel and every lag (TimerAddInLoop,
\* TimerRefreshInLoop, Ontime, TickOnce).
THEOREM FiresNoEarlier ==
  ASSUME Delays \subseteq 1 .. Size
  PROVE  Safe => FiresAfterDelay
<1>1. Init => AheadInv
  BY DEF Init, AheadInv, Ahead, Held
<1>2. TypeOK /\ AheadInv /\ [Next]_vars =>
        AheadInv' /\ [\A id \in fired' : due[id] = 0]_vars
  <2> SUFFICES ASSUME TypeOK, AheadInv, [Next]_vars
               PROVE  AheadInv' /\ ((\A id \in fired' : due[id] = 0) \/ UNCHANGED vars)
    OBVIOUS
  <2>t. /\ wheel \in [Slot -> SUBSET Id] /\ tick \in Slot
        /\ NextSlot \in Slot /\ Cleared \in [Slot -> SUBSET Id]
        /\ delay \in [Id -> Delays] /\ due \in [Id -> Nat]
        /\ times \in Nat /\ expired \in Nat
        /\ Ahead(wheel, tick, times + expired, due)
    BY NextSlotType DEF TypeOK, AheadInv
  <2>1. ASSUME NEW id \in Id, NEW d \in Delays, TimerAddInLoop(id, d)
        PROVE  AheadInv' /\ fired' = {}
    <3>1. /\ wheel' = PushBack(wheel, tick, id, d) /\ tick' = tick
          /\ times = 0 /\ times' = times /\ expired' = expired /\ fired' = {}
          /\ due' = [due EXCEPT ![id] = Missing(d, expired)]
      BY <2>1 DEF TimerAddInLoop
    <3>2. d \in 1 .. Size /\ times + expired = expired
      BY <2>t, <3>1
    <3>3. due'[id] = Missing(d, expired) /\ \A x \in Id \ {id} : due'[x] = due[x]
      BY <2>t, <3>1
    <3>4. Ahead(PushBack(wheel, tick, id, d), tick, expired, due')
      BY <2>t, <3>2, <3>3, PushAhead
    <3> QED
      BY <3>1, <3>2, <3>4 DEF AheadInv
  <2>2. ASSUME NEW id \in Id, TimerRefreshInLoop(id)
        PROVE  AheadInv' /\ fired' = {}
    <3>1. /\ wheel' = PushBack(wheel, tick, id, delay[id]) /\ tick' = tick
          /\ times = 0 /\ times' = times /\ expired' = expired /\ fired' = {}
          /\ due' = [due EXCEPT ![id] = Missing(delay[id], expired)]
      BY <2>2 DEF TimerRefreshInLoop
    <3>2. delay[id] \in Delays /\ delay[id] \in 1 .. Size /\ times + expired = expired
      <4>1. delay[id] \in Delays
        BY <2>t
      <4>2. delay[id] \in 1 .. Size
        BY <4>1
      <4>3. times + expired = expired
        BY <2>t, <3>1
      <4> QED
        BY <4>1, <4>2, <4>3
    <3>3. due'[id] = Missing(delay[id], expired) /\ \A x \in Id \ {id} : due'[x] = due[x]
      BY <2>t, <3>1
    <3>4. Ahead(PushBack(wheel, tick, id, delay[id]), tick, expired, due')
      BY <2>t, <3>2, <3>3, PushAhead
    <3> QED
      BY <3>1, <3>2, <3>4 DEF AheadInv
  <2>3. ASSUME NEW id \in Id, TimerCancelInLoop(id)
        PROVE  AheadInv' /\ fired' = {}
    BY <2>3, <2>t DEF TimerCancelInLoop, AheadInv
  <2>4. CASE Expire
    <3>1. /\ wheel' = wheel /\ tick' = tick /\ times' = times
          /\ expired' = expired + 1 /\ fired' = {}
          /\ due' = [id \in Id |-> Missing(due[id], 1)]
      BY <2>4 DEF Expire
    <3>2. ASSUME NEW id \in Held(wheel), due'[id] > 0
          PROVE  FarEnough(wheel, tick, times + (expired + 1), id, due'[id])
      <4>1. id \in Id /\ due[id] \in Nat /\ due'[id] = Missing(due[id], 1)
        BY <2>t, <3>1 DEF Held
      <4>2. due[id] > 0 /\ due'[id] = due[id] - 1
        BY <3>2, <4>1 DEF Missing
      <4>3. PICK s \in Slot : id \in wheel[s] /\ Dist(tick, s) >= due[id] + (times + expired)
        BY <2>t, <4>2 DEF Ahead, FarEnough
      <4>4. Dist(tick, s) >= due'[id] + (times + (expired + 1))
        BY <2>t, <4>1, <4>2, <4>3, DistType
      <4> QED
        BY <4>3, <4>4 DEF FarEnough
    <3> QED
      BY <3>1, <3>2 DEF AheadInv, Ahead
  <2>5. CASE ReadTimerfd
    <3>1. /\ wheel' = wheel /\ tick' = tick /\ due' = due /\ fired' = {}
          /\ times' + expired' = times + expired
      BY <2>5, <2>t DEF ReadTimerfd
    <3> QED
      BY <2>t, <3>1 DEF AheadInv
  <2>6. CASE TickOnce
    <3>1. /\ wheel' = Cleared /\ tick' = NextSlot /\ due' = due /\ times > 0
          /\ times' + expired' = times - 1 + expired /\ fired' \subseteq LastPointer
      BY <2>6, <2>t DEF TickOnce
    <3>2. /\ Ahead(Cleared, NextSlot, times - 1 + expired, due)
          /\ \A id \in LastPointer : due[id] = 0
      BY <3>1, TickAhead
    <3> QED
      BY <3>1, <3>2 DEF AheadInv
  <2>7. ASSUME NEW id \in Id, NEW d \in Delays, TickOnceAndAdd(id, d)
        PROVE  AheadInv' /\ \A x \in fired' : due[x] = 0
    <3>1. /\ wheel' = PushBack(Cleared, NextSlot, id, d) /\ tick' = NextSlot /\ times > 0
          /\ times' + expired' = times - 1 + expired /\ fired' \subseteq LastPointer
          /\ due' = [due EXCEPT ![id] = Missing(d, times - 1 + expired)]
      BY <2>7, <2>t DEF TickOnceAndAdd
    <3>2. /\ Ahead(Cleared, NextSlot, times - 1 + expired, due)
          /\ \A x \in LastPointer : due[x] = 0
      BY <3>1, TickAhead
    <3>3. d \in 1 .. Size /\ times - 1 + expired \in Nat
      BY <2>t, <3>1
    <3>4. /\ due'[id] = Missing(d, times - 1 + expired)
          /\ \A x \in Id \ {id} : due'[x] = due[x]
      BY <2>t, <3>1
    <3>5. Ahead(PushBack(Cleared, NextSlot, id, d), NextSlot, times - 1 + expired, due')
      BY <2>t, <3>2, <3>3, <3>4, PushAhead
    <3> QED
      BY <3>1, <3>2, <3>5 DEF AheadInv
  <2>8. CASE UNCHANGED vars
    BY <2>8, <2>t DEF vars, AheadInv
  <2> QED
    BY <2>1, <2>2, <2>3, <2>4, <2>5, <2>6, <2>7, <2>8 DEF Next
<1> QED
  BY <1>1, <1>2, TypeCorrect, PTL DEF Safe, FiresAfterDelay
=============================================================================
