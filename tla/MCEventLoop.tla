----------------------------- MODULE MCEventLoop -----------------------------
(***************************************************************************)
(* Instance of EventLoop for TLC: two other threads and three functors, so *)
(* that two threads can race for the wakeup while the loop thread queues,  *)
(* runs inline, and quits on its own.                                      *)
(***************************************************************************)
EXTENDS EventLoop
=============================================================================
