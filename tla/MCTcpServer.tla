---------------------------- MODULE MCTcpServer -----------------------------
(* TcpServer with two I/O threads and two clients.                          *)
EXTENDS TcpServer

CONSTANTS c1, c2, io1, io2

MCIoThreads == <<io1, io2>>
=============================================================================
