------------------------------ MODULE ByteQueue ------------------------------
(***************************************************************************)
(* What Buffer promises (include/Buffer.h): a queue of bytes.  What is put *)
(* in comes out once, in order, whatever the sizes of the pieces.          *)
(***************************************************************************)
EXTENDS Naturals, Sequences

CONSTANT Bytes

VARIABLES queue,  \* the readable bytes, the next one to come out first
          moved   \* the bytes that went in, or were handed out, last

Init == queue = <<>> /\ moved = <<>>

Put == moved' \in Seq(Bytes) /\ queue' = queue \o moved'

\* The first n bytes are shown, and stay.
Show == \E n \in 0..Len(queue) :
            moved' = SubSeq(queue, 1, n) /\ UNCHANGED queue

\* The first n bytes go, without being looked at.
Drop == \E n \in 0..Len(queue) :
            queue' = SubSeq(queue, n + 1, Len(queue)) /\ UNCHANGED moved

Take == \E n \in 0..Len(queue) :
            /\ moved' = SubSeq(queue, 1, n)
            /\ queue' = SubSeq(queue, n + 1, Len(queue))

Next == Put \/ Show \/ Drop \/ Take

Spec == Init /\ [][Next]_<<queue, moved>>
=============================================================================
