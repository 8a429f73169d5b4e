----------------------------- MODULE MCIdleWait -----------------------------
(***************************************************************************)
(* IdleWait with a watchdog 2.8 times as long as the slow heartbeat, as in   *)
(* the firmware (559 ms and 200 ms).                                         *)
(***************************************************************************)
EXTENDS IdleWait
=============================================================================
