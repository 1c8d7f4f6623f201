------------------------------ MODULE MCTcpServer ------------------------------
(* TcpServer on small instances: one request on each of two connections, and   *)
(* two requests that one read may return together.                             *)
EXTENDS TcpServer

CONSTANTS c1, c2, p1, p2

OneEach == [c \in Conns |-> IF c = c1 THEN <<p1>> ELSE <<p2>>]
TwoOnOne == [c \in Conns |-> <<p1, p2>>]
===============================================================================
