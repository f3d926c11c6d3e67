--------------------------- MODULE LoopThreadStart ---------------------------
(***************************************************************************)
(* The start-up of a LoopThread of server.hpp, composed with the EventLoop *)
(* that it creates.  The base thread constructs the LoopThread and waits   *)
(* in GetLoop for the pointer to the loop; the new thread constructs the   *)
(* loop, publishes it and calls Start.  Nobody can hand the loop a closure *)
(* before GetLoop has returned.                                            *)
(*                                                                         *)
(* _thread is declared before _mutex and _cond and starts the new thread   *)
(* as it is initialized: the thread may lock the mutex while it is still   *)
(* raw memory.  Constructing the two members writes zeros, so a raw mutex  *)
(* of zeros behaves as a free one, any other content as one held for ever. *)
(***************************************************************************)
EXTENDS EventLoop

VARIABLES
    base,       \* where the base thread is in LoopThread() and GetLoop()
    entry,      \* where the new thread is in ThreadIntry()
    loop,       \* _loop: "null" or "loop"
    got,        \* what GetLoop returned: "none" before it has
    mutex,      \* _mutex: "raw", "free", or who holds it
    heap,       \* what `new' found in memory: "zeros" or "garbage"
    raced       \* history: the new thread locked the mutex while it was raw

startVars == <<base, entry, loop, got, mutex, heap, raced>>

StartInit ==
    /\ Init
    /\ base = "thread" /\ entry = "unborn"
    /\ loop = "null" /\ got = "none"
    /\ mutex = "raw" /\ heap \in {"zeros", "garbage"}
    /\ raced = FALSE

-----------------------------------------------------------------------------
(* The base thread.                                                        *)

\* _thread(std::thread(&LoopThread::ThreadIntry, this)).
StartThread ==
    /\ base = "thread"
    /\ base' = "members" /\ entry' = "loop"
    /\ UNCHANGED <<loop, got, mutex, heap, raced>>

\* _mutex and _cond: zeros are written, whoever holds the mutex by then.
ConstructMembers ==
    /\ base = "members"
    /\ base' = "lock" /\ mutex' = "free"
    /\ UNCHANGED <<entry, loop, got, heap, raced>>

GetLoopLock ==
    /\ base = "lock" /\ mutex = "free"
    /\ base' = "test" /\ mutex' = "base"
    /\ UNCHANGED <<entry, loop, got, heap, raced>>

\* Mutant: the wait has no predicate.
TestAfterWait ==
    /\ base = "test"
    /\ \/ base' = "wait" /\ UNCHANGED <<got, mutex>>
       \/ base' = "got" /\ got' = loop /\ mutex' = "free"
    /\ UNCHANGED <<entry, loop, heap, raced>>

\* The predicate of _cond.wait, and once it holds the rest of GetLoop.
GetLoopTest ==
    /\ base = "test"
    /\ IF loop = "null"
       THEN base' = "wait" /\ UNCHANGED <<got, mutex>>
       ELSE base' = "got" /\ got' = loop /\ mutex' = "free"
    /\ UNCHANGED <<entry, loop, heap, raced>>

\* Mutant: the mutex stays locked during the wait.
WaitHoldingMutex ==
    /\ base = "wait"
    /\ base' = "blocked"
    /\ UNCHANGED <<entry, loop, got, mutex, heap, raced>>

\* _cond.wait blocks and releases the mutex in one step.
GetLoopWait ==
    /\ base = "wait"
    /\ base' = "blocked" /\ mutex' = "free"
    /\ UNCHANGED <<entry, loop, got, heap, raced>>

\* A condition variable may wake up without a notification.
SpuriousWakeup ==
    /\ base = "blocked"
    /\ base' = "lock"
    /\ UNCHANGED <<entry, loop, got, mutex, heap, raced>>

-----------------------------------------------------------------------------
(* The new thread: ThreadIntry.                                            *)

ConstructLoop ==
    /\ entry = "loop"
    /\ entry' = "lock"
    /\ UNCHANGED <<base, loop, got, mutex, heap, raced>>

\* Mutant: the loop is published without the mutex.
EnterUnlocked ==
    /\ entry = "lock"
    /\ entry' = "set"
    /\ UNCHANGED <<base, loop, got, mutex, heap, raced>>

\* Locking raw memory: zeros are a free mutex; garbage may keep the thread for
\* ever, or only until the members are constructed.
EntryLock ==
    /\ entry = "lock"
    /\ \/ /\ \/ mutex = "free"
             \/ mutex = "raw" /\ heap = "zeros"
          /\ entry' = "set" /\ mutex' = "entry"
       \/ /\ mutex = "raw" /\ heap = "garbage"
          /\ entry' = "stuck" /\ UNCHANGED mutex
    /\ raced' = (raced \/ mutex = "raw")
    /\ UNCHANGED <<base, loop, got, heap>>

SetLoop ==
    /\ entry = "set"
    /\ entry' = "notify" /\ loop' = "loop"
    /\ UNCHANGED <<base, got, mutex, heap, raced>>

\* notify_all reaches a thread that is blocked, and no other.
Notify ==
    /\ entry = "notify"
    /\ entry' = "unlock"
    /\ base' = IF base = "blocked" THEN "lock" ELSE base
    /\ UNCHANGED <<loop, got, mutex, heap, raced>>

\* The end of the scope; then loop.Start().
EntryUnlock ==
    /\ entry = "unlock"
    /\ entry' = "start" /\ mutex' = "free"
    /\ UNCHANGED <<base, loop, got, heap, raced>>

BaseStep == \/ StartThread \/ ConstructMembers \/ GetLoopLock
            \/ GetLoopTest \/ GetLoopWait

EntryStep == ConstructLoop \/ EntryLock \/ SetLoop \/ Notify \/ EntryUnlock

-----------------------------------------------------------------------------
(* The composition.                                                        *)

\* The loop runs once Start is called, others call it once they have the
\* pointer, and its descriptors are in the poller once it is constructed.
Constructed == entry \notin {"unborn", "loop"}

LoopNext ==
    /\ \/ base = "got" /\ \E x \in Thread, t \in Task : QueueInLoop(x, t) \/ RunInLoop(x, t)
       \/ entry = "start" /\ \E t \in Task : QueueInLoop(LoopThread, t) \/ RunInLoop(LoopThread, t)
       \/ \E x \in Caller : WriteEventFd(x)
       \/ entry = "start" /\ (LoopStep \/ PollInterrupted)
       \/ Constructed /\ SocketBecomesReady
    /\ UNCHANGED startVars

StartNext ==
    \/ (BaseStep \/ SpuriousWakeup \/ EntryStep) /\ UNCHANGED vars
    \/ LoopNext

StartSafe == StartInit /\ [][StartNext]_<<vars, startVars>>

\* Both threads run; nothing promises a spurious wakeup, and those that come do
\* not keep the new thread from the mutex for ever.
StartFairness ==
    /\ WF_startVars(BaseStep) /\ WF_startVars(EntryStep) /\ SF_startVars(EntryLock)
    /\ WF_vars(entry = "start" /\ LoopStep)
    /\ \A x \in Caller : WF_vars(WriteEventFd(x))
    /\ WF_vars(Constructed /\ TimerExpires)

StartSpec == StartSafe /\ StartFairness

-----------------------------------------------------------------------------
(* Properties.                                                             *)

\* The types of the variables; while nobody has raced, who is in a critical
\* section holds the mutex.
StartTypeOK ==
    /\ base \in {"thread", "members", "lock", "test", "wait", "blocked", "got"}
    /\ entry \in {"unborn", "loop", "lock", "set", "notify", "unlock", "start", "stuck"}
    /\ loop \in {"null", "loop"} /\ got \in {"none", "null", "loop"}
    /\ mutex \in {"raw", "free", "base", "entry"}
    /\ heap \in {"zeros", "garbage"} /\ raced \in BOOLEAN
    /\ ~raced => /\ base \in {"test", "wait"} <=> mutex = "base"
                 /\ entry \in {"set", "notify", "unlock"} <=> mutex = "entry"

\* GetLoop hands out a loop that is constructed, never the null pointer and
\* never before it has waited for the new thread, raced or not.
GotLoopIsConstructed ==
    base = "got" => got = "loop" /\ Constructed

\* GetLoop returns, unless the new thread locked the mutex before it was
\* constructed.
GetLoopReturns == <>(base = "got" \/ raced)
=============================================================================
