----------------------------- MODULE ByteStream ------------------------------
(***************************************************************************)
(* What TcpConnection promises to the side that sends                      *)
(* (include/TcpConnection.h): between the two connection callbacks it      *)
(* takes messages, and hands their bytes to the network in order and       *)
(* without a gap; after shutdown() the stream ends, behind its last byte.  *)
(***************************************************************************)
EXTENDS Naturals, Sequences, SequencesExt

CONSTANT Bytes

VARIABLES phase,      \* before, between or after the connection callbacks
          taken,      \* the bytes accepted
          delivered,  \* the bytes the kernel has
          ended       \* the stream is closed behind them

Init == phase = "new" /\ taken = <<>> /\ delivered = <<>> /\ ended = FALSE

Up == phase = "new" /\ phase' = "up" /\ UNCHANGED <<taken, delivered, ended>>

\* Bytes are taken, and some of those not delivered yet are: nothing before
\* "up", nothing after "down", nothing behind the end.
Move ==
    /\ phase = "up" /\ ~ended
    /\ taken' \in Seq(Bytes) /\ IsPrefix(taken, taken')
    /\ IsPrefix(delivered, delivered') /\ IsPrefix(delivered', taken')
    /\ ended' \in BOOLEAN
    /\ ended' => delivered' = taken'
    /\ UNCHANGED phase

Down == phase = "up" /\ phase' = "down" /\ UNCHANGED <<taken, delivered, ended>>

Next == Up \/ Move \/ Down

Spec == Init /\ [][Next]_<<phase, taken, delivered, ended>>
=============================================================================
