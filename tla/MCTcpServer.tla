---------------------------- MODULE MCTcpServer ----------------------------
(* TcpServer with one caller, two workers whose sets hold one socket each, *)
(* two connections, two socket numbers and a queue of two events.          *)
EXTENDS TcpServer

CONSTANTS a1, w1, w2, c1, c2

MCApp == {a1}
MCWorkers == {w1, w2}
MCPeers == {c1, c2}
=============================================================================
