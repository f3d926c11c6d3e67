------------------------------ MODULE TaskQueue ------------------------------
(***************************************************************************)
(* What EventLoop::QueueInLoop promises its callers: a queued closure is   *)
(* executed by the loop's thread, exactly once, in the order of queueing,  *)
(* and eventually.  The abstract specification that EventLoop implements.  *)
(***************************************************************************)
EXTENDS Sequences, Functions

CONSTANT Task           \* the closures, each queued at most once

VARIABLES pending,      \* queued and not yet executed, oldest first
          done          \* executed, oldest first

qvars == <<pending, done>>

Init ==
    /\ pending = <<>>
    /\ done = <<>>

Queue(t) ==
    /\ t \notin Range(pending) \cup Range(done)
    /\ pending' = Append(pending, t)
    /\ UNCHANGED done

Execute ==
    /\ pending # <<>>
    /\ done' = Append(done, Head(pending))
    /\ pending' = Tail(pending)

Next == Execute \/ \E t \in Task : Queue(t)

\* The part of Spec that constrains steps.
Safe == Init /\ [][Next]_qvars

Spec == Safe /\ WF_qvars(Execute)
=============================================================================
