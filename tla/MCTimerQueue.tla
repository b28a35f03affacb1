---------------------------- MODULE MCTimerQueue ----------------------------
(***************************************************************************)
(* Instance of TimerQueue for TLC.                                         *)
(***************************************************************************)
EXTENDS TimerQueue
=============================================================================
