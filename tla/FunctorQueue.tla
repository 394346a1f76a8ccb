---------------------------- MODULE FunctorQueue ----------------------------
(***************************************************************************)
(* What an EventLoop promises to the threads that hand it functors: one    *)
(* queue, served in order by one thread, nothing dropped and nothing run   *)
(* twice.  A functor runs to its end before the next one of the queue      *)
(* starts; only a functor the loop thread calls on the spot (runInLoop on  *)
(* the loop's own thread) nests inside the one that is running.            *)
(* How the promise is kept (a lock, a swap, an eventfd) is not said here:  *)
(* see EventLoop.tla, which implements this module.                        *)
(***************************************************************************)
EXTENDS Sequences

CONSTANT Functors

VARIABLES queue,   \* the functors handed over and not started, oldest first
          stack    \* the functors running on the loop thread, innermost first

vars == <<queue, stack>>

Init == queue = <<>> /\ stack = <<>>

\* Some thread hands f over.
Submit(f) == queue' = Append(queue, f) /\ UNCHANGED stack

\* The loop thread is free and takes the oldest functor.
Start ==
    /\ stack = <<>> /\ queue # <<>>
    /\ stack' = <<Head(queue)>>
    /\ queue' = Tail(queue)

\* The loop thread calls f itself, ahead of everything queued.
CallNow(f) == stack' = <<f>> \o stack /\ UNCHANGED queue

\* The innermost functor returns.
Return == stack # <<>> /\ stack' = Tail(stack) /\ UNCHANGED queue

Next ==
    \/ \E f \in Functors : Submit(f) \/ CallNow(f)
    \/ Start
    \/ Return

Spec == Init /\ [][Next]_vars
=============================================================================
