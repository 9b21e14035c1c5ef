------------------------------ MODULE MCEventLoop ------------------------------
(* Instances of EventLoop for TLC.  A tick is 250 ms, the loop's time-out.  *)
EXTENDS EventLoop

\* 500 ms, the daemon's interval, and the same "one second later".
MCDurations == {2, -2}

\* A function that stops the iteration again and again starves the timers
\* behind it; these do not.
MCTimerReturns == {DLIST_CONT, DLIST_RM_NODE, DLIST_RM_NODE_CONT}
=============================================================================
