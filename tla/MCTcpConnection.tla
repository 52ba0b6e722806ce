-------------------------- MODULE MCTcpConnection --------------------------
(* TLC instance of TcpConnection. *)
EXTENDS TcpConnection
=============================================================================
