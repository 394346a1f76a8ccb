-------------------------- MODULE EventLoop_proofs --------------------------
(***************************************************************************)
(* Proofs about EventLoop, for any set of threads, functors and channels   *)
(* and any bounds: its type invariant, that neither a functor nor a quit   *)
(* is stranded in a sleeping loop, and that it implements FunctorQueue.    *)
(***************************************************************************)
EXTENDS EventLoop, SequenceTheorems, TLAPS

\* Every definition an action of Next is made of.
USE DEF vars, flagVars, queueVars, pollVars, IsInLoopThread, Threads

-----------------------------------------------------------------------------
\* Each step keeps every variable in its type and what belongs to one stretch
\* of the loop inside it.
LEMMA TypeStep == TypeOK /\ [Next]_vars => TypeOK'
<1> SUFFICES ASSUME TypeOK, [Next]_vars PROVE TypeOK'
  OBVIOUS
<1> USE DEF TypeOK, LoopPoints, Calls
<1>1. ASSUME NEW t \in Threads, NEW f \in Functors, QueueInLoop(t, f)
      PROVE  TypeOK'
  BY <1>1 DEF QueueInLoop, InUserCode
<1>2. ASSUME NEW t \in Threads, NEW f \in Functors, RunInLoop(t, f)
      PROVE  TypeOK'
  <2>1. CASE QueueInLoop(t, f)
    BY <1>1, <2>1
  <2>2. CASE ~QueueInLoop(t, f)
    <3>1. <<f>> \o stack \in Seq(Functors)
      OBVIOUS
    <3>2. stack' \in Seq(Functors)
      BY <3>1, <1>2, <2>2 DEF RunInLoop
    <3>3. t = LoopThread /\ UNCHANGED <<flagVars, queueVars, pollVars, pc, call>>
      BY <1>2, <2>2 DEF RunInLoop
    <3>4. call[t] = "none" /\ (pc \in {"outside", "handler"} \/ stack # <<>>)
      BY <1>2, <2>2 DEF RunInLoop, InUserCode
    <3>5. stack' # <<>> /\ pc \in {"outside", "handler", "run"}
      BY <3>4, <1>2, <2>2 DEF RunInLoop
    <3> QED
      BY <3>2, <3>3, <3>4, <3>5
  <2> QED
    BY <2>1, <2>2
<1>3. ASSUME NEW t \in Threads, QueueWakeup(t)
      PROVE  TypeOK'
  BY <1>3 DEF QueueWakeup, NeedsWakeup
<1>4. ASSUME NEW t \in Threads, Quit(t)
      PROVE  TypeOK'
  BY <1>4 DEF Quit, InUserCode
<1>5. ASSUME NEW t \in Threads, QuitWakeup(t)
      PROVE  TypeOK'
  BY <1>5 DEF QuitWakeup, QuitNeedsWakeup
<1>6. CASE LoopEnter
  BY <1>6 DEF LoopEnter
<1>7. CASE LoopReset
  BY <1>7 DEF LoopReset
<1>8. CASE LoopTest
  BY <1>8 DEF LoopTest, GoesOn
<1>9. CASE PollReturn
  BY <1>9 DEF PollReturn, Ready
<1>10. CASE PollTimeout
  BY <1>10 DEF PollTimeout
<1>11. CASE HandleRead
  BY <1>11 DEF HandleRead
<1>12. ASSUME NEW c \in Channels, HandleEvent(c)
       PROVE  TypeOK'
  BY <1>12 DEF HandleEvent
<1>13. CASE HandlerReturn
  BY <1>13 DEF HandlerReturn
<1>14. CASE DrainEnter
  BY <1>14 DEF DrainEnter
<1>15. CASE DrainSwap
  BY <1>15 DEF DrainSwap, SwapLeaves
<1>16. CASE RunFunctor
  BY <1>16 DEF RunFunctor
<1>17. CASE DrainDone
  BY <1>17 DEF DrainDone
<1>18. CASE Return
  BY <1>18 DEF Return
<1>19. ASSUME NEW c \in Channels, IoEvent(c)
       PROVE  TypeOK'
  BY <1>19 DEF IoEvent
<1>20. CASE UNCHANGED vars
  BY <1>20
<1> HIDE DEF TypeOK
<1> QED
  BY <1>1, <1>2, <1>3, <1>4, <1>5, <1>6, <1>7, <1>8, <1>9, <1>10, <1>11,
     <1>12, <1>13, <1>14, <1>15, <1>16, <1>17, <1>18, <1>19, <1>20
     DEF Next, Caller, Loop

LEMMA InitTyped == Init => TypeOK
<1> SUFFICES ASSUME Init PROVE TypeOK
  OBVIOUS
<1>1. call \in [Threads -> Calls] /\ call[LoopThread] = "none"
  BY DEF Init, Calls
<1>2. <<>> \in Seq(Functors)
  OBVIOUS
<1> QED
  BY <1>1, <1>2 DEF Init, TypeOK, LoopPoints

\* TypeOK holds in every state: callingPendingFunctors_ is up exactly in
\* doPendingFunctors, and no functor or active channel is left over when a
\* stretch of the loop ends.
THEOREM TypeCorrect == Spec => []TypeOK
BY InitTyped, TypeStep, PTL DEF Spec

-----------------------------------------------------------------------------
(* Neither functors nor quits are stranded.                                *)

\* The loop is on its way to the swap: it gets there before it polls again.
SwapAhead == pc \in {"dispatch", "handler", "drain"}

\* Why NoStrandedFunctor holds at every point and not only in poll: somebody
\* is responsible for whatever is pending (the wakeup written or about to be,
\* by another thread or by a functor that queues, or the coming swap).
FunctorInv ==
    pendingFunctors_ # <<>> =>
        \/ ownerQueued \/ wakeupFd_ \/ Underway("queued") \/ SwapAhead
        \/ call[LoopThread] = "queued" /\ callingPendingFunctors_

\* The same for quit_: away from poll, the while still lies ahead.
QuitInv == quit_ => wakeupFd_ \/ Underway("quitting") \/ pc # "poll"

IInv == TypeOK /\ FunctorInv /\ QuitInv

\* In poll the loop thread is in no call of its own, so FunctorInv leaves only
\* the wakeup.
LEMMA IInvSuffices == IInv => NoStrandedFunctor /\ NoStrandedQuit
BY DEF IInv, FunctorInv, QuitInv, NoStrandedFunctor, NoStrandedQuit, SwapAhead,
       TypeOK

\* Every step hands the responsibility for a pending functor on.
LEMMA FunctorStep == TypeOK /\ FunctorInv /\ [Next]_vars => FunctorInv'
<1> SUFFICES ASSUME TypeOK, FunctorInv, [Next]_vars PROVE FunctorInv'
  OBVIOUS
<1> USE ThreadsAssumption DEF FunctorInv, SwapAhead
<1>1. ASSUME NEW t \in Threads, NEW f \in Functors, QueueInLoop(t, f)
      PROVE  FunctorInv'
  <2>1. call'[t] = "queued"
    BY <1>1 DEF QueueInLoop, TypeOK
  <2>2. CASE t \in Callers
    BY <2>1, <2>2 DEF Underway
  <2>3. CASE t = LoopThread /\ pc = "outside"
    BY <1>1, <2>3 DEF QueueInLoop
  <2>4. CASE t = LoopThread /\ pc # "outside"
    <3>1. pc \in {"handler", "run"} /\ pc' = pc
      BY <1>1, <2>4 DEF QueueInLoop, InUserCode, TypeOK
    <3>2. pc = "run" => callingPendingFunctors_'
      BY <1>1 DEF QueueInLoop, TypeOK
    <3> QED
      BY <2>1, <2>4, <3>1, <3>2
  <2> QED
    BY <2>2, <2>3, <2>4
<1>2. ASSUME NEW t \in Threads, NEW f \in Functors, RunInLoop(t, f)
      PROVE  FunctorInv'
  BY <1>1, <1>2 DEF RunInLoop, Underway
<1>3. ASSUME NEW t \in Threads, QueueWakeup(t)
      PROVE  FunctorInv'
  <2>1. CASE t \in Callers
    BY <1>3, <2>1 DEF QueueWakeup, NeedsWakeup
  <2>2. CASE t = LoopThread
    <3>1. Underway("queued") => Underway("queued")'
      BY <1>3, <2>2 DEF QueueWakeup, Underway, TypeOK
    <3>2. callingPendingFunctors_ => wakeupFd_'
      BY <1>3 DEF QueueWakeup, NeedsWakeup
    <3> QED
      BY <1>3, <3>1, <3>2 DEF QueueWakeup
  <2> QED
    BY <2>1, <2>2
<1>4. ASSUME NEW t \in Threads, Quit(t)
      PROVE  FunctorInv'
  <2>1. call[t] = "none"
    BY <1>4 DEF Quit, InUserCode
  <2>2. Underway("queued") => Underway("queued")'
    BY <1>4, <2>1 DEF Quit, Underway, TypeOK
  <2>3. call[LoopThread] = "queued" => call'[LoopThread] = "queued"
    BY <1>4, <2>1 DEF Quit, TypeOK
  <2> QED
    BY <1>4, <2>2, <2>3 DEF Quit
<1>5. ASSUME NEW t \in Threads, QuitWakeup(t)
      PROVE  FunctorInv'
  <2>1. Underway("queued") => Underway("queued")'
    BY <1>5 DEF QuitWakeup, Underway, TypeOK
  <2>2. call[LoopThread] = "queued" => call'[LoopThread] = "queued"
    BY <1>5 DEF QuitWakeup, TypeOK
  <2> QED
    BY <1>5, <2>1, <2>2 DEF QuitWakeup
<1>6. CASE LoopEnter
  BY <1>6 DEF LoopEnter, Underway
<1>7. CASE LoopReset
  BY <1>7 DEF LoopReset, Underway
<1>8. CASE LoopTest
  BY <1>8 DEF LoopTest, Underway
<1>9. CASE PollReturn \/ PollTimeout
  BY <1>9 DEF PollReturn, PollTimeout
<1>10. CASE HandleRead
  BY <1>10 DEF HandleRead
<1>11. ASSUME NEW c \in Channels, HandleEvent(c)
       PROVE  FunctorInv'
  BY <1>11 DEF HandleEvent
<1>12. CASE HandlerReturn \/ DrainEnter
  BY <1>12 DEF HandlerReturn, DrainEnter
<1>13. CASE DrainSwap
  BY <1>13 DEF DrainSwap, SwapLeaves
<1>14. CASE RunFunctor
  BY <1>14 DEF RunFunctor, Underway
<1>15. CASE DrainDone
  <2>1. call[LoopThread] = "none"
    BY <1>15 DEF DrainDone, TypeOK
  <2> QED
    BY <1>15, <2>1 DEF DrainDone, Underway
<1>16. CASE Return
  BY <1>16 DEF Return, Underway
<1>17. ASSUME NEW c \in Channels, IoEvent(c)
       PROVE  FunctorInv'
  BY <1>17 DEF IoEvent, Underway
<1>18. CASE UNCHANGED vars
  BY <1>18 DEF Underway
<1> HIDE DEF FunctorInv
<1> QED
  BY <1>1, <1>2, <1>3, <1>4, <1>5, <1>6, <1>7, <1>8, <1>9, <1>10, <1>11,
     <1>12, <1>13, <1>14, <1>15, <1>16, <1>17, <1>18
     DEF Next, Caller, Loop

\* A quit that is set keeps a wakeup, written or about to be, or a while, ahead
\* of it: the loop enters poll only past a while that saw quit_ down.
LEMMA QuitStep == TypeOK /\ QuitInv /\ [Next]_vars => QuitInv'
<1> SUFFICES ASSUME TypeOK, QuitInv, [Next]_vars PROVE QuitInv'
  OBVIOUS
<1> USE ThreadsAssumption DEF QuitInv
<1>1. ASSUME NEW t \in Threads, NEW f \in Functors, QueueInLoop(t, f)
      PROVE  QuitInv'
  <2>1. Underway("quitting") => Underway("quitting")'
    BY <1>1 DEF QueueInLoop, InUserCode, Underway, TypeOK
  <2> QED
    BY <1>1, <2>1 DEF QueueInLoop
<1>2. ASSUME NEW t \in Threads, NEW f \in Functors, RunInLoop(t, f)
      PROVE  QuitInv'
  BY <1>1, <1>2 DEF RunInLoop, Underway
<1>3. ASSUME NEW t \in Threads, QueueWakeup(t)
      PROVE  QuitInv'
  <2>1. Underway("quitting") => Underway("quitting")'
    BY <1>3 DEF QueueWakeup, Underway, TypeOK
  <2> QED
    BY <1>3, <2>1 DEF QueueWakeup
<1>4. ASSUME NEW t \in Threads, Quit(t)
      PROVE  QuitInv'
  <2>1. CASE t \in Callers
    BY <1>4, <2>1 DEF Quit, Underway, TypeOK
  <2>2. CASE t = LoopThread
    BY <1>4, <2>2 DEF Quit, InUserCode, TypeOK
  <2> QED
    BY <2>1, <2>2
<1>5. ASSUME NEW t \in Threads, QuitWakeup(t)
      PROVE  QuitInv'
  <2>1. CASE t \in Callers
    BY <1>5, <2>1 DEF QuitWakeup, QuitNeedsWakeup
  <2>2. CASE t = LoopThread
    BY <1>5, <2>2 DEF QuitWakeup, Underway, TypeOK
  <2> QED
    BY <2>1, <2>2
<1>6. CASE LoopEnter \/ LoopReset
  BY <1>6 DEF LoopEnter, LoopReset
<1>7. CASE LoopTest
  BY <1>7 DEF LoopTest, GoesOn
<1>8. CASE PollReturn \/ PollTimeout
  BY <1>8 DEF PollReturn, PollTimeout
<1>9. CASE HandleRead
  BY <1>9 DEF HandleRead
<1>10. ASSUME NEW c \in Channels, HandleEvent(c)
       PROVE  QuitInv'
  BY <1>10 DEF HandleEvent
<1>11. CASE HandlerReturn \/ DrainEnter \/ DrainSwap \/ DrainDone
  BY <1>11 DEF HandlerReturn, DrainEnter, DrainSwap, DrainDone
<1>12. CASE RunFunctor
  BY <1>12 DEF RunFunctor, Underway
<1>13. CASE Return
  BY <1>13 DEF Return, Underway
<1>14. ASSUME NEW c \in Channels, IoEvent(c)
       PROVE  QuitInv'
  BY <1>14 DEF IoEvent, Underway
<1>15. CASE UNCHANGED vars
  BY <1>15 DEF Underway
<1> HIDE DEF QuitInv
<1> QED
  BY <1>1, <1>2, <1>3, <1>4, <1>5, <1>6, <1>7, <1>8, <1>9, <1>10, <1>11,
     <1>12, <1>13, <1>14, <1>15
     DEF Next, Caller, Loop

LEMMA Invariance == Spec => []IInv
<1>1. Init => FunctorInv /\ QuitInv
  BY DEF Init, FunctorInv, QuitInv
<1> QED
  BY <1>1, TypeCorrect, FunctorStep, QuitStep, PTL DEF Spec, IInv

\* A loop asleep in poll with no wakeup coming has nothing pending but what its
\* own thread queued before it called loop().
THEOREM NoFunctorIsStranded == Spec => []NoStrandedFunctor
BY Invariance, IInvSuffices, PTL

\* A loop never sleeps through a quit() that has completed.
THEOREM NoQuitIsStranded == Spec => []NoStrandedQuit
BY Invariance, IInvSuffices, PTL

-----------------------------------------------------------------------------
(* EventLoop implements FunctorQueue.                                      *)

\* What a swap, an append and a pop do to the two vectors laid end to end.
LEMMA AppendToRest ==
    ASSUME NEW s \in Seq(Functors), NEW r \in Seq(Functors), NEW f \in Functors
    PROVE  s \o Append(r, f) = Append(s \o r, f)
<1>1. Append(r, f) = r \o <<f>> /\ Append(s \o r, f) = (s \o r) \o <<f>>
  BY AppendIsConcat, ConcatProperties
<1>2. <<f>> \in Seq(Functors)
  OBVIOUS
<1> QED
  BY <1>1, <1>2, ConcatAssociative

LEMMA PopFromFront ==
    ASSUME NEW s \in Seq(Functors), NEW r \in Seq(Functors), s # <<>>
    PROVE  /\ s \o r # <<>>
           /\ Head(s \o r) = Head(s)
           /\ Tail(s \o r) = Tail(s) \o r
<1>1. s \o r \in Seq(Functors) /\ Len(s \o r) = Len(s) + Len(r) /\ Len(s) > 0
  BY ConcatProperties, LenProperties, EmptySeq
<1>2. s \o r # <<>> /\ Head(s \o r) = Head(s)
  BY <1>1, ConcatProperties, EmptySeq
<1>3. Tail(s) \in Seq(Functors) /\ Tail(s \o r) \in Seq(Functors)
  BY <1>1, <1>2, HeadTailProperties
<1>4. Len(Tail(s \o r)) = Len(Tail(s) \o r)
  BY <1>1, <1>2, <1>3, HeadTailProperties, ConcatProperties
<1>5. ASSUME NEW i \in 1 .. Len(Tail(s \o r))
      PROVE  Tail(s \o r)[i] = (Tail(s) \o r)[i]
  BY <1>1, <1>2, <1>3, <1>5, HeadTailProperties, ConcatProperties, LenProperties
<1>6. Tail(s) \o r \in Seq(Functors)
  BY <1>3, ConcatProperties
<1> QED
  BY <1>2, <1>3, <1>4, <1>5, <1>6, SeqEqual

\* Each step of the loop or of a caller is a step of the abstract queue, or
\* leaves the queue and what runs as they are.
LEMMA QueueStep == TypeOK /\ [Next]_vars => [FQ!Next]_(FQ!vars)
<1> SUFFICES ASSUME TypeOK, [Next]_vars PROVE [FQ!Next]_(FQ!vars)
  OBVIOUS
<1> USE DEF FQ!vars
<1>1. ASSUME NEW t \in Threads, NEW f \in Functors, QueueInLoop(t, f)
      PROVE  [FQ!Next]_(FQ!vars)
  <2>1. FQ!Submit(f)
    BY <1>1, AppendToRest DEF QueueInLoop, FQ!Submit, TypeOK
  <2> QED
    BY <2>1 DEF FQ!Next
<1>2. ASSUME NEW t \in Threads, NEW f \in Functors, RunInLoop(t, f)
      PROVE  [FQ!Next]_(FQ!vars)
  <2>1. CASE QueueInLoop(t, f)
    BY <1>1, <2>1
  <2>2. CASE ~QueueInLoop(t, f)
    BY <1>2, <2>2 DEF RunInLoop, FQ!Next, FQ!CallNow
  <2> QED
    BY <2>1, <2>2
<1>3. CASE DrainSwap
  <2>1. functors = <<>>
    BY <1>3 DEF DrainSwap, TypeOK
  <2>2. functors' \o pendingFunctors_' = functors \o pendingFunctors_
    BY <1>3, <2>1, ConcatEmptySeq DEF DrainSwap, SwapLeaves, TypeOK
  <2> QED
    BY <1>3, <2>2 DEF DrainSwap
<1>4. CASE RunFunctor
  <2>1. FQ!Start
    BY <1>4, PopFromFront DEF RunFunctor, FQ!Start, TypeOK
  <2> QED
    BY <2>1 DEF FQ!Next
<1>5. CASE Return
  BY <1>5 DEF Return, FQ!Next, FQ!Return
<1>6. CASE \E t \in Threads : QueueWakeup(t) \/ Quit(t) \/ QuitWakeup(t)
  BY <1>6 DEF QueueWakeup, Quit, QuitWakeup
<1>7. CASE LoopEnter \/ LoopReset \/ LoopTest
  BY <1>7 DEF LoopEnter, LoopReset, LoopTest
<1>8. CASE PollReturn \/ PollTimeout \/ HandleRead
  BY <1>8 DEF PollReturn, PollTimeout, HandleRead
<1>9. CASE \E c \in Channels : HandleEvent(c) \/ IoEvent(c)
  BY <1>9 DEF HandleEvent, IoEvent
<1>10. CASE HandlerReturn \/ DrainEnter \/ DrainDone
  BY <1>10 DEF HandlerReturn, DrainEnter, DrainDone
<1>11. CASE UNCHANGED vars
  BY <1>11
<1> HIDE DEF FQ!vars
<1> QED
  BY <1>1, <1>2, <1>3, <1>4, <1>5, <1>6, <1>7, <1>8, <1>9, <1>10, <1>11
     DEF Next, Caller, Loop

\* The loop keeps its promise to the threads that queue: functors run one at a
\* time on the loop's thread, in the order they were queued, each once, however
\* queueInLoop interleaves with the swap of doPendingFunctors.
THEOREM ImplementsFunctorQueue == Spec => FunctorQueueSpec
<1>1. Init => FQ!Init
  BY ConcatEmptySeq DEF Init, FQ!Init
<1> QED
  BY <1>1, TypeCorrect, QueueStep, PTL DEF Spec, FunctorQueueSpec, FQ!Spec
=============================================================================
