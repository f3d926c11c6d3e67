-------------------------- MODULE EventLoop_proofs --------------------------
(***************************************************************************)
(* Proofs about EventLoop: its type invariant, the absence of lost wakeups,*)
(* the accounting of closures, and that its steps implement those of       *)
(* TaskQueue; and about LoopThreadStart: a loop that a LoopThread starts   *)
(* behaves like an EventLoop from its first step on, so that all this      *)
(* carries over, and GetLoop hands out a constructed loop, raced or not.   *)
(***************************************************************************)
EXTENDS LoopThreadStart, SequenceTheorems, TLAPS

\* The type invariant holds of every reachable state of the loop.
THEOREM TypeCorrect == Safe => []TypeOK
<1>1. Init => TypeOK
  <2>1. <<>> \in Seq(Task)
    BY EmptySeq
  <2>2. Init => socketReady \in BOOLEAN
    BY DEF Init
  <2> QED
    BY <2>1, <2>2 DEF Init, TypeOK
<1>2. TypeOK /\ [Next]_vars => TypeOK'
  <2> SUFFICES ASSUME TypeOK, [Next]_vars PROVE TypeOK'
    OBVIOUS
  <2> USE DEF TypeOK
  <2>1. ASSUME NEW x \in Caller, NEW t \in Task, QueueInLoop(x, t)
        PROVE  TypeOK'
    BY <2>1 DEF QueueInLoop
  <2>2. ASSUME NEW x \in Caller, NEW t \in Task, RunInLoop(x, t)
        PROVE  TypeOK'
    <3>1. CASE x = LoopThread
      BY <2>2, <3>1 DEF RunInLoop
    <3>2. CASE x # LoopThread
      BY <2>1, <2>2, <3>2 DEF RunInLoop
    <3> QED
      BY <3>1, <3>2
  <2>3. ASSUME NEW x \in Caller, WriteEventFd(x) PROVE TypeOK'
    BY <2>3 DEF WriteEventFd
  <2>4. CASE Poll
    BY <2>4 DEF Poll, Ready, At
  <2>5. CASE PollInterrupted
    BY <2>5 DEF PollInterrupted, At
  <2>6. CASE ReadEventfd
    BY <2>6 DEF ReadEventfd, At
  <2>7. CASE HandleSockets
    BY <2>7 DEF HandleSockets, At
  <2>8. CASE SwapTasks
    BY <2>8, EmptySeq DEF SwapTasks, At
  <2>9. CASE StartTask
    BY <2>9 DEF StartTask, At
  <2>10. CASE EndTask
    <3>1. Head(batch) \in Task /\ Tail(batch) \in Seq(Task)
      BY <2>10, HeadTailProperties DEF EndTask, At
    <3> QED
      BY <2>10, <3>1 DEF EndTask
  <2>11. CASE EndBatch
    BY <2>11 DEF EndBatch, At
  <2>12. CASE SocketBecomesReady
    BY <2>12 DEF SocketBecomesReady
  <2>13. CASE UNCHANGED vars
    BY <2>13 DEF vars
  <2> QED
    BY <2>1, <2>2, <2>3, <2>4, <2>5, <2>6, <2>7, <2>8, <2>9, <2>10, <2>11,
       <2>12, <2>13 DEF Next, LoopStep
<1> QED
  BY <1>1, <1>2, PTL DEF Safe

-----------------------------------------------------------------------------
\* The range of the pool after a push.
LEMMA RangeOfAppend ==
  ASSUME NEW S, NEW q \in Seq(S), NEW t \in S
  PROVE  Range(Append(q, t)) = Range(q) \cup {t}
<1>1. /\ DOMAIN q = 1 .. Len(q) /\ Len(q) \in Nat
      /\ DOMAIN Append(q, t) = 1 .. Len(q) + 1
      /\ \A i \in 1 .. Len(q) : Append(q, t)[i] = q[i]
      /\ Append(q, t)[Len(q) + 1] = t
  BY AppendProperties, LenProperties
<1>2. 1 .. Len(q) + 1 = (1 .. Len(q)) \cup {Len(q) + 1}
  BY <1>1
<1> QED
  BY <1>1, <1>2, Zenon DEF Range

\* No lost wakeup, for any number of threads and closures (QueueInLoop pushes
\* before it writes the eventfd, and ReadEventfd is always followed by the
\* swap): a closure that is in the pool is announced, or about to be, or its own
\* write was interrupted.  The invariant is inductive relative to the type
\* invariant.
THEOREM WakeupNotLost == Safe => []NoLostWakeup
<1>1. Init => NoLostWakeup
  BY DEF Init, NoLostWakeup, Range
<1>2. TypeOK /\ NoLostWakeup /\ [Next]_vars => NoLostWakeup'
  <2> SUFFICES ASSUME TypeOK, NoLostWakeup, [Next]_vars PROVE NoLostWakeup'
    OBVIOUS
  <2>t. tasks \in Seq(Task) /\ eventfd \in Nat /\ caller \in [Caller -> SUBSET Task]
    BY DEF TypeOK
  <2>1. ASSUME NEW x \in Caller, NEW t \in Task, QueueInLoop(x, t)
        PROVE  NoLostWakeup'
    <3>1. Range(Append(tasks, t)) = Range(tasks) \cup {t}
      BY <2>t, RangeOfAppend
    <3>2. CanCall(x) /\ tasks' = Append(tasks, t) /\ missed' = missed
      BY <2>1 DEF QueueInLoop
    <3>3. ASSUME NEW y \in Caller, y # x PROVE caller'[y] = caller[y]
      <4>1. caller' = [caller EXCEPT ![x] = {t}]
        BY <2>1 DEF QueueInLoop
      <4> QED
        BY <2>t, <3>3, <4>1
    <3>4. caller[x] = {} /\ caller'[x] = {t} /\ eventfd' = eventfd /\ pc' = pc
      BY <2>1, <2>t DEF QueueInLoop, CanCall
    <3> QED
      BY <3>1, <3>2, <3>3, <3>4 DEF NoLostWakeup
  <2>2. ASSUME NEW x \in Caller, NEW t \in Task, RunInLoop(x, t)
        PROVE  NoLostWakeup'
    <3>1. CASE x = LoopThread
      BY <2>2, <3>1 DEF RunInLoop, NoLostWakeup
    <3>2. CASE x # LoopThread
      BY <2>1, <2>2, <3>2 DEF RunInLoop
    <3> QED
      BY <3>1, <3>2
  <2>3. ASSUME NEW x \in Caller, WriteEventFd(x) PROVE NoLostWakeup'
    <3>1. CASE eventfd' = eventfd + 1
      <4>1. eventfd' > 0
        BY <2>t, <3>1
      <4> QED
        BY <4>1 DEF NoLostWakeup
    <3>2. CASE /\ missed' = missed \cup (caller[x] \cap Range(tasks))
               /\ UNCHANGED eventfd
      <4>1. tasks' = tasks /\ pc' = pc
        BY <2>3 DEF WriteEventFd
      <4>2. ASSUME NEW y \in Caller, y # x PROVE caller'[y] = caller[y]
        <5>1. caller' = [caller EXCEPT ![x] = {}]
          BY <2>3 DEF WriteEventFd
        <5> QED
          BY <2>t, <4>2, <5>1
      <4> QED
        BY <3>2, <4>1, <4>2 DEF NoLostWakeup
    <3> QED
      BY <2>3, <3>1, <3>2 DEF WriteEventFd
  <2>4. CASE ReadEventfd
    <3>1. pc' = "handle"
      BY <2>4 DEF ReadEventfd, At
    <3> QED
      BY <3>1 DEF NoLostWakeup
  <2>5. CASE SwapTasks
    BY <2>5 DEF SwapTasks, NoLostWakeup, Range
  <2>6. ASSUME UNCHANGED <<tasks, eventfd, caller, missed>>, pc' = "handle" \/ pc # "handle"
        PROVE  NoLostWakeup'
    BY <2>6 DEF NoLostWakeup
  <2>7. CASE LoopStep \/ PollInterrupted
    BY <2>4, <2>5, <2>6, <2>7
    DEF LoopStep, Poll, PollInterrupted, HandleSockets, StartTask, EndTask, EndBatch, At
  <2>8. ASSUME UNCHANGED <<tasks, eventfd, caller, missed, pc>> PROVE NoLostWakeup'
    BY <2>8 DEF NoLostWakeup
  <2> QED
    BY <2>1, <2>2, <2>3, <2>7, <2>8 DEF Next, SocketBecomesReady, vars
<1> QED
  BY <1>1, <1>2, TypeCorrect, PTL DEF Safe

-----------------------------------------------------------------------------
\* The sequence the abstract queue sees, and how a push and an execution
\* change it.
LEMMA AppendToPool ==
  ASSUME NEW S, NEW d \in Seq(S), NEW b \in Seq(S), NEW q \in Seq(S), NEW t \in S
  PROVE  /\ b \o Append(q, t) = Append(b \o q, t)
         /\ d \o b \o Append(q, t) = Append(d \o b \o q, t)
<1>1. Append(q, t) = q \o <<t>> /\ <<t>> \in Seq(S)
  BY AppendIsConcat
<1>2. b \o q \in Seq(S) /\ d \o b \in Seq(S) /\ d \o b \o q \in Seq(S)
  BY ConcatProperties
<1>3. Append(b \o q, t) = (b \o q) \o <<t>>
  BY <1>2, AppendIsConcat
<1>4. Append(d \o b \o q, t) = (d \o b \o q) \o <<t>>
  BY <1>2, AppendIsConcat
<1>5. b \o (q \o <<t>>) = (b \o q) \o <<t>>
  BY <1>1, ConcatAssociative
<1>6. (d \o b) \o (q \o <<t>>) = ((d \o b) \o q) \o <<t>>
  BY <1>1, <1>2, ConcatAssociative
<1> QED
  BY <1>1, <1>3, <1>4, <1>5, <1>6

\* Moving the head of the batch to the end of the executed closures.
LEMMA ExecuteHead ==
  ASSUME NEW S, NEW d \in Seq(S), NEW b \in Seq(S), NEW q \in Seq(S), b # <<>>
  PROVE  /\ Append(d, Head(b)) \o Tail(b) \o q = d \o b \o q
         /\ b \o q # <<>>
         /\ Head(b \o q) = Head(b)
         /\ Tail(b \o q) = Tail(b) \o q
<1>1. /\ Head(b) \in S /\ Tail(b) \in Seq(S) /\ <<Head(b)>> \in Seq(S)
      /\ <<Head(b)>> # <<>>
  BY HeadTailProperties
<1>2. b = <<Head(b)>> \o Tail(b)
  <2>1. <<Head(b)>> \o Tail(b) \in Seq(S)
    BY <1>1, ConcatProperties
  <2>2. Len(<<Head(b)>> \o Tail(b)) = Len(b)
    BY <1>1, ConcatProperties, HeadTailProperties, LenProperties
  <2>3. \A i \in 1 .. Len(b) : (<<Head(b)>> \o Tail(b))[i] = b[i]
    BY <1>1, ConcatProperties, HeadTailProperties, LenProperties
  <2> QED
    BY <2>1, <2>2, <2>3, SeqEqual
<1>3. Append(d, Head(b)) = d \o <<Head(b)>>
  BY <1>1, AppendIsConcat
<1>4. (d \o <<Head(b)>>) \o Tail(b) = d \o b
  BY <1>1, <1>2, ConcatAssociative
<1>5. b \o q # <<>>
  BY ConcatEqualIffEmpty
<1>6. Head(b \o q) = Head(b)
  BY <1>5, ConcatProperties, EmptySeq, LenProperties
<1>7. Tail(b \o q) = Tail(b) \o q
  <2>1. /\ b \o q \in Seq(S)
        /\ Tail(b \o q) \in Seq(S) /\ Tail(b) \o q \in Seq(S)
    BY <1>1, <1>5, ConcatProperties, HeadTailProperties
  <2>2. Len(Tail(b \o q)) = Len(Tail(b) \o q)
    BY <1>1, <1>5, <2>1, ConcatProperties, HeadTailProperties, LenProperties
  <2>3. ASSUME NEW i \in 1 .. Len(Tail(b \o q))
        PROVE  Tail(b \o q)[i] = (Tail(b) \o q)[i]
    BY <1>1, <1>5, <2>1, ConcatProperties, HeadTailProperties, LenProperties
  <2> QED
    BY <2>1, <2>2, <2>3, SeqEqual
<1> QED
  BY <1>3, <1>4, <1>5, <1>6, <1>7

-----------------------------------------------------------------------------
\* Every closure pushed to the pool is executed, or in the batch, or in the
\* pool, in the order of pushing (QueueInLoop's push_back, RunAllTask's swap
\* and loop), for any number of threads and closures.
THEOREM TasksAccounted == Safe => []Accounting
<1>1. Init => Accounting
  <2>1. <<>> \in Seq(Task)
    BY EmptySeq
  <2>2. <<>> \o <<>> \o <<>> = <<>>
    BY <2>1, ConcatEmptySeq
  <2> QED
    BY <2>2 DEF Init, Accounting
<1>2. TypeOK /\ Accounting /\ [Next]_vars => Accounting'
  <2> SUFFICES ASSUME TypeOK, Accounting, [Next]_vars PROVE Accounting'
    OBVIOUS
  <2>t. /\ tasks \in Seq(Task) /\ batch \in Seq(Task) /\ done \in Seq(Task)
        /\ <<>> \in Seq(Task)
    BY EmptySeq DEF TypeOK
  <2> USE DEF Accounting
  <2>1. ASSUME NEW x \in Caller, NEW t \in Task, QueueInLoop(x, t)
        PROVE  Accounting'
    <3>1. done \o batch \o Append(tasks, t) = Append(done \o batch \o tasks, t)
      BY <2>t, AppendToPool
    <3> QED
      BY <2>1, <3>1 DEF QueueInLoop
  <2>2. ASSUME NEW x \in Caller, NEW t \in Task, RunInLoop(x, t)
        PROVE  Accounting'
    <3>1. CASE x = LoopThread
      BY <2>2, <3>1 DEF RunInLoop
    <3>2. CASE x # LoopThread
      BY <2>1, <2>2, <3>2 DEF RunInLoop
    <3> QED
      BY <3>1, <3>2
  <2>3. CASE SwapTasks
    <3>1. batch = <<>>
      BY <2>3 DEF SwapTasks, At, TypeOK
    <3>2. done \o <<>> = done /\ done \o tasks \in Seq(Task)
      BY <2>t, ConcatEmptySeq, ConcatProperties
    <3>3. (done \o tasks) \o <<>> = done \o tasks
      BY <3>2, ConcatEmptySeq
    <3> QED
      BY <2>3, <3>1, <3>2, <3>3 DEF SwapTasks
  <2>4. CASE EndTask
    <3>1. batch # <<>>
      BY <2>4 DEF EndTask, At, TypeOK
    <3>2. Append(done, Head(batch)) \o Tail(batch) \o tasks = done \o batch \o tasks
      BY <2>t, <3>1, ExecuteHead
    <3> QED
      BY <2>4, <3>2 DEF EndTask
  <2>5. ASSUME UNCHANGED <<submitted, done, batch, tasks>> PROVE Accounting'
    BY <2>5
  <2> QED
    BY <2>1, <2>2, <2>3, <2>4, <2>5
    DEF Next, LoopStep, WriteEventFd, Poll, PollInterrupted, ReadEventfd,
        HandleSockets, StartTask, EndBatch, SocketBecomesReady, vars
<1> QED
  BY <1>1, <1>2, TypeCorrect, PTL DEF Safe

-----------------------------------------------------------------------------
\* The steps of the loop implement those of the abstract queue: a push is a
\* Queue, the return of a closure in RunAllTask is an Execute of the oldest,
\* and everything else stutters.
THEOREM StepsImplementTaskQueue == Safe => TQ!Safe
<1>1. Init => TQ!Init
  <2>1. <<>> \in Seq(Task)
    BY EmptySeq
  <2>2. <<>> \o <<>> = <<>>
    BY <2>1, ConcatEmptySeq
  <2> QED
    BY <2>2 DEF Init, TQ!Init
<1>2. TypeOK /\ Accounting /\ [Next]_vars => [TQ!Next]_(TQ!qvars)
  <2> SUFFICES ASSUME TypeOK, Accounting, [Next]_vars
               PROVE  TQ!Next \/ UNCHANGED <<batch \o tasks, done>>
    BY DEF TQ!qvars
  <2>t. /\ tasks \in Seq(Task) /\ batch \in Seq(Task) /\ done \in Seq(Task)
        /\ <<>> \in Seq(Task)
    BY EmptySeq DEF TypeOK
  <2>1. ASSUME NEW x \in Caller, NEW t \in Task, QueueInLoop(x, t)
        PROVE  TQ!Queue(t)
    <3>1. t \notin Range(batch \o tasks) \cup Range(done)
      <4>1. batch \o tasks \in Seq(Task)
        BY <2>t, ConcatProperties
      <4>2. submitted = done \o (batch \o tasks)
        BY <2>t, ConcatAssociative DEF Accounting
      <4>3. Range(done \o (batch \o tasks)) = Range(done) \cup Range(batch \o tasks)
        <5>1. \A d, p \in Seq(Task) : Range(d \o p) = Range(d) \cup Range(p)
          BY RangeConcatenation
        <5> QED
          BY <2>t, <4>1, <5>1
      <4> QED
        BY <2>1, <4>2, <4>3 DEF QueueInLoop, Fresh
    <3>2. batch \o Append(tasks, t) = Append(batch \o tasks, t)
      BY <2>t, AppendToPool
    <3> QED
      BY <2>1, <3>1, <3>2 DEF QueueInLoop, TQ!Queue, TQ!Range, Range
  <2>2. ASSUME NEW x \in Caller, NEW t \in Task, RunInLoop(x, t)
        PROVE  TQ!Queue(t) \/ UNCHANGED <<batch \o tasks, done>>
    <3>1. CASE x = LoopThread
      BY <2>2, <3>1 DEF RunInLoop
    <3>2. CASE x # LoopThread
      BY <2>1, <2>2, <3>2 DEF RunInLoop
    <3> QED
      BY <3>1, <3>2
  <2>3. CASE SwapTasks
    <3>1. batch = <<>>
      BY <2>3 DEF SwapTasks, At, TypeOK
    <3>2. <<>> \o tasks = tasks /\ tasks \o <<>> = tasks
      BY <2>t, ConcatEmptySeq
    <3> QED
      BY <2>3, <3>1, <3>2 DEF SwapTasks
  <2>4. CASE EndTask
    <3>1. batch # <<>>
      BY <2>4 DEF EndTask, At, TypeOK
    <3>2. /\ batch \o tasks # <<>>
          /\ Head(batch \o tasks) = Head(batch)
          /\ Tail(batch \o tasks) = Tail(batch) \o tasks
      BY <2>t, <3>1, ExecuteHead
    <3>3. TQ!Execute
      BY <2>4, <3>2 DEF EndTask, TQ!Execute
    <3> QED
      BY <3>3 DEF TQ!Next
  <2>5. ASSUME UNCHANGED <<done, batch, tasks>>
        PROVE  UNCHANGED <<batch \o tasks, done>>
    BY <2>5
  <2> QED
    BY <2>1, <2>2, <2>3, <2>4, <2>5
    DEF Next, LoopStep, WriteEventFd, Poll, PollInterrupted, ReadEventfd,
        HandleSockets, StartTask, EndBatch, SocketBecomesReady, vars, TQ!Next
<1> QED
  BY <1>1, <1>2, TypeCorrect, TasksAccounted, PTL DEF Safe, TQ!Safe

-----------------------------------------------------------------------------
(* The start-up of the loop.                                               *)

\* The composed behaviour is a behaviour of EventLoop: the start-up takes no
\* step of the loop, and only delays those of its callers.
THEOREM StartImplementsEventLoop == StartSafe => Safe
<1>1. StartInit => Init
  BY DEF StartInit
<1>2. [StartNext]_<<vars, startVars>> => [Next]_vars
  BY DEF StartNext, LoopNext, Next, Caller
<1> QED
  BY <1>1, <1>2, PTL DEF StartSafe, Safe

\* Hence no wakeup is lost while the loop starts and after: a closure pushed
\* before Start is called finds the eventfd readable at the first poll, unless
\* its own write was interrupted.
THEOREM StartedLoopLosesNothing == StartSafe => [](TypeOK /\ NoLostWakeup /\ Accounting)
BY StartImplementsEventLoop, TypeCorrect, WakeupNotLost, TasksAccounted, PTL

-----------------------------------------------------------------------------
\* The mutex is raw until the members are constructed, and stays so unless the
\* new thread has raced; a thread that is stuck has raced.
RawInv ==
    /\ base \in {"thread", "members"} /\ ~raced => mutex = "raw"
    /\ base \notin {"thread", "members"} => mutex # "raw"
    /\ base = "thread" <=> entry = "unborn"
    /\ entry = "stuck" => raced

LEMMA StartInductive ==
  /\ StartInit => StartTypeOK /\ RawInv
  /\ StartTypeOK /\ RawInv /\ [StartNext]_<<vars, startVars>> => (StartTypeOK /\ RawInv)'
<1> USE DEF StartTypeOK, RawInv
<1>1. StartInit => StartTypeOK /\ RawInv
  BY DEF StartInit
<1>2. ASSUME StartTypeOK, RawInv, [StartNext]_<<vars, startVars>>
      PROVE  (StartTypeOK /\ RawInv)'
  <2>1. CASE StartThread
    BY <1>2, <2>1 DEF StartThread
  <2>2. CASE ConstructMembers
    BY <1>2, <2>2 DEF ConstructMembers
  <2>3. CASE GetLoopLock
    BY <1>2, <2>3 DEF GetLoopLock
  <2>4. CASE GetLoopTest
    BY <1>2, <2>4 DEF GetLoopTest
  <2>5. CASE GetLoopWait
    BY <1>2, <2>5 DEF GetLoopWait
  <2>6. CASE SpuriousWakeup
    BY <1>2, <2>6 DEF SpuriousWakeup
  <2>7. CASE ConstructLoop
    BY <1>2, <2>7 DEF ConstructLoop
  <2>8. CASE EntryLock
    BY <1>2, <2>8 DEF EntryLock
  <2>9. CASE SetLoop
    BY <1>2, <2>9 DEF SetLoop
  <2>10. CASE Notify
    BY <1>2, <2>10 DEF Notify
  <2>11. CASE EntryUnlock
    BY <1>2, <2>11 DEF EntryUnlock
  <2>12. CASE UNCHANGED startVars
    BY <1>2, <2>12 DEF startVars
  <2> QED
    BY <1>2, <2>1, <2>2, <2>3, <2>4, <2>5, <2>6, <2>7, <2>8, <2>9, <2>10, <2>11, <2>12
    DEF StartNext, BaseStep, EntryStep, LoopNext
<1> QED
  BY <1>1, <1>2

\* Mutual exclusion of GetLoop and ThreadIntry, as long as the mutex was
\* constructed when it was first locked.
THEOREM StartTypeCorrect == StartSafe => []StartTypeOK
BY StartInductive, PTL DEF StartSafe

-----------------------------------------------------------------------------
\* A loop that is published is constructed, and only a published loop is
\* returned.
Published ==
    /\ loop = "loop" => entry \in {"notify", "unlock", "start"}
    /\ base = "got" => loop = "loop" /\ got = "loop"

\* GetLoop hands out a constructed loop, never the null pointer, even when the
\* new thread raced with the construction of the mutex.
THEOREM LoopIsConstructed == StartSafe => []GotLoopIsConstructed
<1> USE DEF Published
<1>1. StartInit => Published
  BY DEF StartInit
<1>2. ASSUME StartTypeOK, RawInv, Published, [StartNext]_<<vars, startVars>>
      PROVE  Published'
  <2> USE <1>2 DEF StartTypeOK
  <2>1. CASE StartThread
    BY <2>1 DEF StartThread, RawInv
  <2>2. CASE ConstructMembers
    BY <2>2 DEF ConstructMembers
  <2>3. CASE GetLoopLock
    BY <2>3 DEF GetLoopLock
  <2>4. CASE GetLoopTest
    BY <2>4 DEF GetLoopTest
  <2>5. CASE GetLoopWait
    BY <2>5 DEF GetLoopWait
  <2>6. CASE SpuriousWakeup
    BY <2>6 DEF SpuriousWakeup
  <2>7. CASE ConstructLoop
    BY <2>7 DEF ConstructLoop
  <2>8. CASE EntryLock
    BY <2>8 DEF EntryLock
  <2>9. CASE SetLoop
    BY <2>9 DEF SetLoop
  <2>10. CASE Notify
    BY <2>10 DEF Notify
  <2>11. CASE EntryUnlock
    BY <2>11 DEF EntryUnlock
  <2>12. CASE UNCHANGED startVars
    BY <2>12 DEF startVars
  <2> QED
    BY <2>1, <2>2, <2>3, <2>4, <2>5, <2>6, <2>7, <2>8, <2>9, <2>10, <2>11, <2>12
    DEF StartNext, BaseStep, EntryStep, LoopNext
<1>3. Published => GotLoopIsConstructed
  BY DEF GotLoopIsConstructed, Constructed
<1> QED
  BY <1>1, <1>2, <1>3, StartInductive, PTL DEF StartSafe
=============================================================================
