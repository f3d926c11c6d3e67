-------------------------- MODULE MCTcpServerModes --------------------------
(* TcpServer for TLC with both kinds of reactor: the pool of ThreadNum loops *)
(* and the single reactor, where every RunInLoop of NewConnection and        *)
(* RemoveConnection is a call and an object dies inside its release task.    *)
EXTENDS TcpServer

VARIABLE reactor    \* "pool" or "single", for good

Single == INSTANCE TcpServer WITH ThreadNum <- 0, MaxData <- MaxData + 1

ModesInit ==
    \/ reactor = "pool" /\ Init
    \/ reactor = "single" /\ Single!Init

ModesNext ==
    /\ \/ reactor = "pool" /\ Next
       \/ reactor = "single" /\ Single!Next
    /\ UNCHANGED reactor

\* The fairness of TcpServer, of whichever reactor runs.
ModesFairness ==
    /\ \A l \in Loop : WF_vars(reactor = "pool" /\ LoopStep(l))
    /\ WF_vars(reactor = "single" /\ Single!LoopStep(Base))
    /\ \A c \in Conn : WF_vars(proc = "up" /\ ClientReads(c))

ModesSpec == ModesInit /\ [][ModesNext]_<<reactor, vars>> /\ ModesFairness
=============================================================================
