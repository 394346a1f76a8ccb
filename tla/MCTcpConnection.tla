-------------------------- MODULE MCTcpConnection ---------------------------
(* TcpConnection with up to three messages: one is empty, one larger than   *)
(* the socket's send buffer; and what the source says of it that a run refutes.          *)
EXTENDS TcpConnection, TLC

CONSTANTS empty, short, long, t1, t2, garbage

MCSize == [m \in Messages |-> IF m = empty THEN 0 ELSE IF m = short THEN 1 ELSE 3]

\* TcpConnection.cc:91: after shutdown() nothing can be sent any more.  Nothing
\* is written behind the end of the stream.
NoWriteAfterFin == ~brokenPipe
=============================================================================
