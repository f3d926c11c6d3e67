---------------------------- MODULE MCTimerWheel ----------------------------
(* Instances of TimerWheel for TLC.  Size stands for TIMER_WHEEL_SIZE (60). *)
EXTENDS TimerWheel
=============================================================================
