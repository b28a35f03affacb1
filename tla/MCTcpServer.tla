---------------------------- MODULE MCTcpServer ----------------------------
(***************************************************************************)
(* Instances of TcpServer for TLC.  Connections are interchangeable.       *)
(***************************************************************************)
EXTENDS TcpServer, TLC

ConnSymmetry == Permutations(Conns)
=============================================================================
