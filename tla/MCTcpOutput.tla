----------------------------- MODULE MCTcpOutput -----------------------------
(***************************************************************************)
(* Instances of TcpOutput for TLC.  MCTcpOutput: one other thread and the  *)
(* callbacks call Send three times in all, with two bytes each, and the    *)
(* high water mark is three bytes.                                         *)
(***************************************************************************)
EXTENDS TcpOutput
=============================================================================
