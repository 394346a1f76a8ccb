----------------------- MODULE EventLoopThread_proofs ------------------------
(***************************************************************************)
(* Proofs about EventLoopThread, with or without a program that quits the  *)
(* loop itself: it drives its EventLoop as EventLoop allows, so that what  *)
(* EventLoop_proofs shows holds of it, too; its types; that startLoop's    *)
(* loop is alive; and that the thread ends before the object it runs on.   *)
(***************************************************************************)
EXTENDS EventLoopThread, EventLoop_proofs

USE DEF vars, flagVars, queueVars, pollVars, allVars, threadVars,
        OwnerStep, ThreadStep, OwnerPoints, ThreadPoints

-----------------------------------------------------------------------------
(* What the thread and its owner do to the EventLoop.                      *)

LEMMA LoopStepIsNext == [ThreadNext]_allVars => [Next]_vars
<1> SUFFICES ASSUME [ThreadNext]_allVars PROVE [Next]_vars
  OBVIOUS
<1>1. CASE UNCHANGED vars
  BY <1>1
<1>2. CASE EnterLoop
  BY <1>2 DEF EnterLoop, Next, Loop
<1>3. CASE DestroyQuit
  BY <1>3, OwnerAssumption DEF DestroyQuit, Next, Caller, Threads
<1>4. CASE ProgramCall
  BY <1>4 DEF ProgramCall, Next, Caller
<1>5. CASE CallCompletes
  BY <1>5 DEF CallCompletes, Next, Caller
<1>6. CASE LoopRuns
  BY <1>6 DEF LoopRuns, Next, Loop
<1>7. CASE IoHappens
  BY <1>7 DEF IoHappens, Next
<1>8. CASE Start \/ SemWait \/ AwaitLoop \/ SpuriousWakeup \/ Destroy \/ Detach
           \/ DestroyCrash \/ Join
  BY <1>1, <1>8 DEF Start, SemWait, AwaitLoop, SpuriousWakeup, Destroy, Detach,
                    DestroyCrash, Join
<1>9. CASE SetTid \/ ConstructLoop \/ Publish \/ LoopReturned \/ Clear \/ Unlock
           \/ DestroyLoop
  BY <1>1, <1>9 DEF SetTid, ConstructLoop, Publish, LoopReturned, Clear, Unlock,
                    DestroyLoop
<1>10. CASE UNCHANGED allVars
  BY <1>1, <1>10
<1> QED
  BY <1>2, <1>3, <1>4, <1>5, <1>6, <1>7, <1>8, <1>9, <1>10 DEF ThreadNext

\* The EventLoop on the thread's stack is used as EventLoop says: one thread
\* loops, the owner and the program call it, and what EventLoop_proofs has
\* about functors and quits holds here.
THEOREM ThreadDrivesLoop == ThreadSpec => Spec
<1>1. ThreadInit => Init
  BY DEF ThreadInit
<1> QED
  BY <1>1, LoopStepIsNext, PTL DEF ThreadSpec, Spec

\* While it is in loop(), the loop leaves only past a while that saw quit_, and
\* no step of its own raises quit_.
LEMMA LoopLeavesOnQuit ==
    ASSUME pc # "outside", Loop \/ Return
    PROVE  (pc' = "outside" => quit_) /\ (quit_' => quit_)
<1>1. CASE LoopEnter \/ LoopReset \/ LoopTest
  BY <1>1 DEF LoopEnter, LoopReset, LoopTest, GoesOn
<1>2. CASE PollReturn \/ PollTimeout \/ HandleRead \/ HandlerReturn
  BY <1>2 DEF PollReturn, PollTimeout, HandleRead, HandlerReturn
<1>3. CASE \E c \in Channels : HandleEvent(c)
  BY <1>3 DEF HandleEvent
<1>4. CASE DrainEnter \/ DrainSwap \/ RunFunctor \/ DrainDone \/ Return
  BY <1>4 DEF DrainEnter, DrainSwap, RunFunctor, DrainDone, Return
<1> QED
  BY <1>1, <1>2, <1>3, <1>4 DEF Loop

-----------------------------------------------------------------------------
(* The invariant.                                                          *)

\* The semaphore is posted once, for the one owner that waits for it.
Handshake ==
    /\ thread = "spawned" => owner = "starting"
    /\ sem => thread # "spawned"

\* Somebody has called quit(): the program, or the destructor.
QuitCalled == userQuit \/ owner \in {"joining", "gone", "crashed"}

\* Without it, the loop neither sees quit_ nor ends.
EndsOnQuit ==
    /\ quit_ => QuitCalled
    /\ thread = "looping" /\ pc = "outside" => QuitCalled
    /\ thread \in {"exited", "cleared", "unlocked", "done"} => QuitCalled

\* The handshake, who ends the loop, and the two properties, which need both.
ThreadInv ==
    ThreadTypeOK /\ Handshake /\ EndsOnQuit /\ StartedLoopIsAlive /\ ThreadEndsFirst

\* The steps in which only the owner or the thread moves.
LEMMA OwnerSteps ==
    ASSUME ThreadInv, TypeOK',
           Start \/ SemWait \/ AwaitLoop \/ SpuriousWakeup \/ Destroy \/ Detach
           \/ DestroyCrash \/ Join
    PROVE  ThreadInv'
<1> USE DEF ThreadInv, ThreadTypeOK, Handshake, EndsOnQuit, QuitCalled,
            StartedLoopIsAlive, ThreadEndsFirst
<1>1. CASE Start
  BY <1>1 DEF Start
<1>2. CASE SemWait
  BY <1>2 DEF SemWait
<1>3. CASE AwaitLoop
  BY <1>3 DEF AwaitLoop
<1>4. CASE SpuriousWakeup
  BY <1>4 DEF SpuriousWakeup
<1>5. CASE Destroy
  BY <1>5 DEF Destroy, Destroying
<1>6. CASE Detach
  BY <1>6 DEF Detach, Destroying
<1>7. CASE DestroyCrash
  BY <1>7 DEF DestroyCrash
<1>8. CASE Join
  BY <1>8 DEF Join
<1> QED
  BY <1>1, <1>2, <1>3, <1>4, <1>5, <1>6, <1>7, <1>8

LEMMA ThreadSteps ==
    ASSUME ThreadInv, TypeOK',
           SetTid \/ ConstructLoop \/ Publish \/ LoopReturned \/ Clear \/ Unlock
           \/ DestroyLoop
    PROVE  ThreadInv'
<1> USE DEF ThreadInv, ThreadTypeOK, Handshake, EndsOnQuit, QuitCalled,
            StartedLoopIsAlive, ThreadEndsFirst
<1>1. CASE SetTid
  BY <1>1 DEF SetTid
<1>2. CASE ConstructLoop
  BY <1>2 DEF ConstructLoop
<1>3. CASE Publish
  BY <1>3 DEF Publish, NotifyOne
<1>4. CASE LoopReturned
  BY <1>4 DEF LoopReturned
<1>5. CASE Clear
  BY <1>5 DEF Clear
<1>6. CASE Unlock
  BY <1>6 DEF Unlock
<1>7. CASE DestroyLoop
  BY <1>7 DEF DestroyLoop
<1> QED
  BY <1>1, <1>2, <1>3, <1>4, <1>5, <1>6, <1>7

\* The steps of the loop and of those that call it.
LEMMA LoopSteps ==
    ASSUME ThreadInv, TypeOK',
           EnterLoop \/ DestroyQuit \/ ProgramCall \/ CallCompletes \/ LoopRuns
           \/ IoHappens
    PROVE  ThreadInv'
<1> USE DEF ThreadInv, ThreadTypeOK, Handshake, EndsOnQuit, QuitCalled,
            StartedLoopIsAlive, ThreadEndsFirst
<1>1. CASE EnterLoop
  BY <1>1 DEF EnterLoop, LoopEnter
<1>2. CASE DestroyQuit
  BY <1>2 DEF DestroyQuit, Quit
<1>3. CASE ProgramCall
  <2>1. /\ UNCHANGED <<loop_, sem, owner, thread, alive, pc>>
        /\ userQuit' \in BOOLEAN /\ (userQuit => userQuit')
        /\ quit_' => quit_ \/ userQuit'
    <3>1. ASSUME NEW t \in Threads, NEW f \in Functors,
                 QueueInLoop(t, f) \/ RunInLoop(t, f)
          PROVE  UNCHANGED <<pc, quit_>>
      BY <3>1 DEF QueueInLoop, RunInLoop
    <3>2. ASSUME NEW t \in Threads, Quit(t)
          PROVE  UNCHANGED pc
      BY <3>2 DEF Quit
    <3>3. UNCHANGED <<loop_, sem, owner, thread, alive>>
      BY <1>3 DEF ProgramCall
    <3>4. PICK t \in Threads :
              \/ /\ \E f \in Functors : QueueInLoop(t, f) \/ RunInLoop(t, f)
                 /\ UNCHANGED userQuit
              \/ Quit(t) /\ userQuit' = TRUE
      BY <1>3 DEF ProgramCall
    <3> QED
      BY <3>1, <3>2, <3>3, <3>4
  <2> QED
    BY <2>1
<1>4. CASE CallCompletes
  BY <1>4 DEF CallCompletes, QueueWakeup, QuitWakeup
<1>5. CASE LoopRuns
  <2>1. CASE Return
    BY <1>5, <2>1 DEF LoopRuns, Return
  <2>2. CASE pc # "outside" /\ Loop
    BY <1>5, <2>2, LoopLeavesOnQuit DEF LoopRuns
  <2> QED
    BY <1>5, <2>1, <2>2 DEF LoopRuns
<1>6. CASE IoHappens
  BY <1>6 DEF IoHappens, IoEvent
<1> QED
  BY <1>1, <1>2, <1>3, <1>4, <1>5, <1>6

LEMMA ThreadInvStep == ThreadInv /\ [ThreadNext]_allVars => ThreadInv'
<1> SUFFICES ASSUME ThreadInv, [ThreadNext]_allVars PROVE ThreadInv'
  OBVIOUS
<1>1. TypeOK'
  BY LoopStepIsNext, TypeStep DEF ThreadInv, ThreadTypeOK
<1>2. CASE UNCHANGED allVars
  BY <1>1, <1>2 DEF ThreadInv, ThreadTypeOK, Handshake, EndsOnQuit, QuitCalled,
                    StartedLoopIsAlive, ThreadEndsFirst
<1> QED
  BY <1>1, <1>2, OwnerSteps, ThreadSteps, LoopSteps DEF ThreadNext

LEMMA ThreadInvariance == ThreadSpec => []ThreadInv
<1>1. Init => TypeOK
  BY InitTyped
<1>2. ThreadInit => ThreadInv
  <2> SUFFICES ASSUME ThreadInit PROVE ThreadInv
    OBVIOUS
  <2>1. TypeOK
    BY <1>1 DEF ThreadInit
  <2> QED
    BY <2>1 DEF ThreadInit, Init, ThreadInv, ThreadTypeOK, Handshake, EndsOnQuit,
                QuitCalled, StartedLoopIsAlive, ThreadEndsFirst
<1> QED
  BY <1>2, ThreadInvStep, PTL DEF ThreadSpec

\* The points of the two threads that exclude each other do: the semaphore is up
\* only for an owner that waits for it, loop_ is set only while the thread is
\* between its publication and its end.
THEOREM ThreadTypeCorrect == ThreadSpec => []ThreadTypeOK
<1>1. ThreadInv => ThreadTypeOK
  BY DEF ThreadInv
<1> QED
  BY <1>1, ThreadInvariance, PTL

\* startLoop returns a loop that exists, and it does as long as neither the
\* program nor the destructor quits it: the destructor's reads of loop_ find it.
THEOREM StartLoopGivesLiveLoop == ThreadSpec => []StartedLoopIsAlive
<1>1. ThreadInv => StartedLoopIsAlive
  BY DEF ThreadInv
<1> QED
  BY <1>1, ThreadInvariance, PTL

\* threadFunc never runs on an EventLoopThread that its destructor has left,
\* unless the program quit the loop behind the destructor's back.
THEOREM ThreadEndsBeforeObject == ThreadSpec => []ThreadEndsFirst
<1>1. ThreadInv => ThreadEndsFirst
  BY DEF ThreadInv
<1> QED
  BY <1>1, ThreadInvariance, PTL

\* The handshake and the destructor strand neither a functor nor a quit in a
\* sleeping loop.
THEOREM ThreadStrandsNothing == ThreadSpec => [](NoStrandedFunctor /\ NoStrandedQuit)
BY ThreadDrivesLoop, NoFunctorIsStranded, NoQuitIsStranded, PTL
=============================================================================
