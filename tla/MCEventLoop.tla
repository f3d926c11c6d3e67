----------------------------- MODULE MCEventLoop -----------------------------
(* Instance of LoopThreadStart for TLC: a loop started by a LoopThread, two *)
(* foreign threads and three closures.  A closure is handed over once, so   *)
(* the eventfd's counter and the histories are bounded by their number.     *)
EXTENDS LoopThreadStart
=============================================================================
