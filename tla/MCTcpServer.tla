----------------------------- MODULE MCTcpServer -----------------------------
(* TcpServer.tla with few sockets, loops and peers.                          *)
EXTENDS TcpServer
=============================================================================
