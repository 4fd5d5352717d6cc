---------------------------- MODULE MCSupervisor ----------------------------
(* Supervisor for TLC.  With MaxQueue = 3 the answer of a timed-out attempt *)
(* can wait together with a loss and the answer of the next attempt.       *)
EXTENDS Supervisor
=============================================================================
