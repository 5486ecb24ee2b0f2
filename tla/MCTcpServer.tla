----------------------------- MODULE MCTcpServer -----------------------------
(* TcpServer for TLC. Sessions and fd numbers are interchangeable.         *)
EXTENDS TcpServer, TLC

Symmetry == Permutations(Session) \cup Permutations(Fd)
=============================================================================
