----------------------------- MODULE EventLoop ------------------------------
(***************************************************************************)
(* EventLoop (include/EventLoop.h, src/EventLoop.cc): the loop thread,     *)
(* which polls, dispatches events and runs pending functors, and the other *)
(* threads that hand it functors (queueInLoop, runInLoop) or stop it       *)
(* (quit).  An action is what a thread does between two points where       *)
(* another thread can interfere: a critical section of mutex_ is one step, *)
(* and each load or store of an atomic and each system call is its own.    *)
(*                                                                         *)
(* The eventfd counter is abstracted to "is it readable": write() adds to  *)
(* it, read() empties it, and nothing looks at the amount.  A callback     *)
(* (an event handler, a functor, the code around loop()) is a thread that  *)
(* may make any of the calls below any number of times before it returns.  *)
(***************************************************************************)
EXTENDS Naturals, Sequences

CONSTANTS LoopThread,      \* the thread threadId_ names
          Callers,         \* the other threads that hold the EventLoop*
          Functors,        \* what they queue
          Channels,        \* channels registered with the poller, but for ...
          wakeupChannel_,  \* ... the one that wraps wakeupFd_
          MaxPending,      \* bound on the length of pendingFunctors_
          MaxDepth         \* bound on the nesting of direct calls

ASSUME ThreadsAssumption == LoopThread \notin Callers
ASSUME ChannelsAssumption == wakeupChannel_ \notin Channels
ASSUME BoundsAssumption == MaxPending \in Nat /\ MaxDepth \in Nat

VARIABLES
    looping_, quit_, callingPendingFunctors_,
    pendingFunctors_,  \* guarded by mutex_
    functors,          \* the local vector of doPendingFunctors
    stack,             \* functors running on the loop thread, innermost first
    wakeupFd_,         \* is the eventfd readable?
    activeChannels_,   \* what poll reported and is not dispatched yet
    readable,          \* the other channels whose fd has something to read
    pc,                \* where the loop thread is
    call,              \* thread -> the call it is in the middle of
    ownerQueued        \* history: since the last swap, the loop thread queued
                       \* a functor from outside loop()

flagVars == <<looping_, quit_, callingPendingFunctors_>>
queueVars == <<pendingFunctors_, functors, ownerQueued>>
pollVars == <<wakeupFd_, activeChannels_, readable>>
vars == <<flagVars, queueVars, pollVars, stack, pc, call>>

Threads == Callers \cup {LoopThread}

(***************************************************************************)
(* "outside"  not in loop(): before the first one, or after one returned   *)
(* "starting" in loop(), before quit_ = false                              *)
(* "while"    at while(!quit_)                                             *)
(* "poll"     in poller_->poll                                             *)
(* "dispatch" in the for over activeChannels_                              *)
(* "handler"  in the callback of one of them                               *)
(* "drain"    in doPendingFunctors, before the swap                        *)
(* "run"      in the for over the swapped-out functors                     *)
(***************************************************************************)
LoopPoints == {"outside", "starting", "while", "poll", "dispatch", "handler",
               "drain", "run"}
Calls == {"none", "queued", "quitting"}

Init ==
    /\ looping_ = FALSE /\ quit_ = FALSE /\ callingPendingFunctors_ = FALSE
    /\ pendingFunctors_ = <<>> /\ functors = <<>> /\ ownerQueued = FALSE
    /\ wakeupFd_ = FALSE /\ activeChannels_ = {} /\ readable = {}
    /\ stack = <<>> /\ pc = "outside"
    /\ call = [t \in Threads |-> "none"]

IsInLoopThread(t) == t = LoopThread

-----------------------------------------------------------------------------
(* Calls that any thread may make while its own code is running.           *)

\* The loop thread runs code of the program's only in a callback, in a functor
\* or outside loop(); the other threads run it whenever no call is under way.
InUserCode(t) ==
    /\ call[t] = "none"
    /\ IsInLoopThread(t) => pc \in {"outside", "handler"} \/ stack # <<>>

\* queueInLoop up to the end of its critical section.
QueueInLoop(t, f) ==
    /\ InUserCode(t)
    /\ Len(pendingFunctors_) < MaxPending
    /\ pendingFunctors_' = Append(pendingFunctors_, f)
    /\ call' = [call EXCEPT ![t] = "queued"]
    /\ ownerQueued' = (ownerQueued \/ (IsInLoopThread(t) /\ pc = "outside"))
    /\ UNCHANGED <<flagVars, functors, pollVars, stack, pc>>

\* Slips: "the loop thread is awake anyway"; nobody is woken.
WakesOtherThreadsOnly(t) == ~IsInLoopThread(t)
WakesNobody(t) == FALSE

\* The loop thread needs no waking, unless it is running functors: it will
\* not look at pendingFunctors_ again before it polls.
NeedsWakeup(t) == ~IsInLoopThread(t) \/ callingPendingFunctors_

\* The rest of queueInLoop.
QueueWakeup(t) ==
    /\ call[t] = "queued"
    /\ wakeupFd_' = (wakeupFd_ \/ NeedsWakeup(t))
    /\ call' = [call EXCEPT ![t] = "none"]
    /\ UNCHANGED <<flagVars, queueVars, activeChannels_, readable, stack, pc>>

\* runInLoop: called on the loop thread it runs cb on the spot, ahead of
\* whatever is pending; called elsewhere it is queueInLoop.
RunInLoop(t, f) ==
    \/ /\ IsInLoopThread(t) /\ InUserCode(t)
       /\ Len(stack) < MaxDepth
       /\ stack' = <<f>> \o stack
       /\ UNCHANGED <<flagVars, queueVars, pollVars, pc, call>>
    \/ ~IsInLoopThread(t) /\ QueueInLoop(t, f)

\* quit: the store ...
Quit(t) ==
    /\ InUserCode(t)
    /\ quit_' = TRUE
    /\ call' = [call EXCEPT ![t] = "quitting"]
    /\ UNCHANGED <<looping_, callingPendingFunctors_, queueVars, pollVars,
                   stack, pc>>

\* A slip: the condition inverted.
QuitNeedsNoWakeup(t) == IsInLoopThread(t)

QuitNeedsWakeup(t) == ~IsInLoopThread(t)

\* ... then the wakeup.
QuitWakeup(t) ==
    /\ call[t] = "quitting"
    /\ wakeupFd_' = (wakeupFd_ \/ QuitNeedsWakeup(t))
    /\ call' = [call EXCEPT ![t] = "none"]
    /\ UNCHANGED <<flagVars, queueVars, activeChannels_, readable, stack, pc>>

-----------------------------------------------------------------------------
(* loop(), on the loop thread.                                             *)

\* The program enters loop(), for the first time or again.
LoopEnter ==
    /\ pc = "outside" /\ stack = <<>> /\ call[LoopThread] = "none"
    /\ looping_' = TRUE /\ pc' = "starting"
    /\ UNCHANGED <<quit_, callingPendingFunctors_, queueVars, pollVars, stack,
                   call>>

LoopReset ==
    /\ pc = "starting"
    /\ quit_' = FALSE /\ pc' = "while"
    /\ UNCHANGED <<looping_, callingPendingFunctors_, queueVars, pollVars,
                   stack, call>>

\* A slip: the loop tests looping_, which only loop() itself clears.
GoesOnWhileLooping == looping_

GoesOn == ~quit_

\* while(!quit_): one more round (activeChannels_ is empty already, its
\* clear() changes nothing), or out of the loop.
LoopTest ==
    /\ pc = "while"
    /\ \/ GoesOn /\ pc' = "poll" /\ UNCHANGED looping_
       \/ ~GoesOn /\ pc' = "outside" /\ looping_' = FALSE
    /\ UNCHANGED <<quit_, callingPendingFunctors_, queueVars, pollVars, stack,
                   call>>

\* What epoll_wait would report now.
Ready == readable \cup {c \in {wakeupChannel_} : wakeupFd_}

\* poll returns with events, or (kPollTimeMs passed, a signal came) without.
PollReturn ==
    /\ pc = "poll" /\ Ready # {}
    /\ activeChannels_' = Ready /\ pc' = "dispatch"
    /\ UNCHANGED <<flagVars, queueVars, wakeupFd_, readable, stack, call>>

PollTimeout ==
    /\ pc = "poll" /\ Ready = {}
    /\ pc' = "dispatch"
    /\ UNCHANGED <<flagVars, queueVars, pollVars, stack, call>>

\* The wakeup channel's callback: read() empties the eventfd.
HandleRead ==
    /\ pc = "dispatch" /\ wakeupChannel_ \in activeChannels_
    /\ wakeupFd_' = FALSE
    /\ activeChannels_' = activeChannels_ \ {wakeupChannel_}
    /\ UNCHANGED <<flagVars, queueVars, readable, stack, pc, call>>

\* Another channel's callback starts (and takes what its fd had) ...
HandleEvent(c) ==
    /\ pc = "dispatch" /\ c \in activeChannels_
    /\ activeChannels_' = activeChannels_ \ {c}
    /\ readable' = readable \ {c}
    /\ pc' = "handler"
    /\ UNCHANGED <<flagVars, queueVars, wakeupFd_, stack, call>>

\* ... and returns.
HandlerReturn ==
    /\ pc = "handler" /\ stack = <<>> /\ call[LoopThread] = "none"
    /\ pc' = "dispatch"
    /\ UNCHANGED <<flagVars, queueVars, pollVars, stack, call>>

\* The for is over; doPendingFunctors raises its flag ...
DrainEnter ==
    /\ pc = "dispatch" /\ activeChannels_ = {}
    /\ callingPendingFunctors_' = TRUE /\ pc' = "drain"
    /\ UNCHANGED <<looping_, quit_, queueVars, pollVars, stack, call>>

\* A slip: the vector is copied, not swapped.
CopyLeaves == pendingFunctors_

SwapLeaves == <<>>

\* ... takes the whole batch under the lock ...
DrainSwap ==
    /\ pc = "drain"
    /\ functors' = pendingFunctors_ /\ pendingFunctors_' = SwapLeaves
    /\ ownerQueued' = FALSE
    /\ pc' = "run"
    /\ UNCHANGED <<flagVars, pollVars, stack, call>>

\* ... calls each functor of it ...
RunFunctor ==
    /\ pc = "run" /\ stack = <<>> /\ functors # <<>>
    /\ stack' = <<Head(functors)>> /\ functors' = Tail(functors)
    /\ UNCHANGED <<flagVars, pendingFunctors_, ownerQueued, pollVars, pc, call>>

\* Slips: the flag stays up; doPendingFunctors drains until nothing is pending.
DrainDoneFlagUp ==
    /\ pc = "run" /\ stack = <<>> /\ functors = <<>>
    /\ pc' = "while"
    /\ UNCHANGED <<flagVars, queueVars, pollVars, stack, call>>

DrainUntilEmpty ==
    /\ pc = "run" /\ stack = <<>> /\ functors = <<>>
    /\ callingPendingFunctors_' = (pendingFunctors_ # <<>>)
    /\ pc' = IF pendingFunctors_ = <<>> THEN "while" ELSE "drain"
    /\ UNCHANGED <<looping_, quit_, queueVars, pollVars, stack, call>>

\* ... and lowers the flag.
DrainDone ==
    /\ pc = "run" /\ stack = <<>> /\ functors = <<>>
    /\ callingPendingFunctors_' = FALSE /\ pc' = "while"
    /\ UNCHANGED <<looping_, quit_, queueVars, pollVars, stack, call>>

\* The innermost functor, queued or called on the spot, returns.
Return ==
    /\ stack # <<>> /\ call[LoopThread] = "none"
    /\ stack' = Tail(stack)
    /\ UNCHANGED <<flagVars, queueVars, pollVars, pc, call>>

-----------------------------------------------------------------------------
\* The kernel finds c's fd readable.
IoEvent(c) ==
    /\ c \notin readable
    /\ readable' = readable \cup {c}
    /\ UNCHANGED <<flagVars, queueVars, wakeupFd_, activeChannels_, stack, pc,
                   call>>

Caller(t) ==
    \/ \E f \in Functors : QueueInLoop(t, f) \/ RunInLoop(t, f)
    \/ QueueWakeup(t)
    \/ Quit(t)
    \/ QuitWakeup(t)

Loop ==
    \/ LoopEnter \/ LoopReset \/ LoopTest
    \/ PollReturn \/ PollTimeout
    \/ HandleRead
    \/ \E c \in Channels : HandleEvent(c)
    \/ HandlerReturn
    \/ DrainEnter \/ DrainSwap \/ RunFunctor \/ DrainDone
    \/ Return

Next ==
    \/ \E t \in Threads : Caller(t)
    \/ Loop
    \/ \E c \in Channels : IoEvent(c)

(***************************************************************************)
(* The operating system runs every thread, so a call that is under way     *)
(* completes and the loop goes from step to step; callbacks return, at     *)
(* every level of nesting, though they may make calls first (hence SF).    *)
(* Nobody is bound to call loop(), to queue or to quit, and the poll       *)
(* timeout is not relied on.                                               *)
(***************************************************************************)
Fairness ==
    /\ \A t \in Threads : WF_vars(QueueWakeup(t)) /\ WF_vars(QuitWakeup(t))
    /\ WF_vars(LoopReset) /\ WF_vars(LoopTest) /\ WF_vars(PollReturn)
    /\ WF_vars(HandleRead) /\ WF_vars(\E c \in Channels : HandleEvent(c))
    /\ SF_vars(HandlerReturn)
    /\ \A d \in 1..MaxDepth : SF_vars(Len(stack) = d /\ Return)
    /\ WF_vars(DrainEnter) /\ WF_vars(DrainSwap)
    /\ WF_vars(RunFunctor) /\ WF_vars(DrainDone)

Spec == Init /\ [][Next]_vars
FairSpec == Spec /\ Fairness

-----------------------------------------------------------------------------
(* What must hold.                                                         *)

\* Every variable has its type, and what lives in one stretch of the loop is
\* gone outside it: the flag callingPendingFunctors_ is up in
\* doPendingFunctors and only there, the local vector functors is empty but
\* for the loop over it, no channel is left active but during the dispatch.
TypeOK ==
    /\ looping_ \in BOOLEAN /\ quit_ \in BOOLEAN /\ wakeupFd_ \in BOOLEAN
    /\ callingPendingFunctors_ \in BOOLEAN /\ ownerQueued \in BOOLEAN
    /\ pendingFunctors_ \in Seq(Functors) /\ functors \in Seq(Functors)
    /\ stack \in Seq(Functors)
    /\ readable \subseteq Channels
    /\ activeChannels_ \subseteq Channels \cup {wakeupChannel_}
    /\ pc \in LoopPoints
    /\ call \in [Threads -> Calls]
    /\ looping_ <=> pc # "outside"
    /\ callingPendingFunctors_ <=> pc \in {"drain", "run"}
    /\ functors # <<>> => pc = "run"
    /\ activeChannels_ # {} => pc \in {"dispatch", "handler"}
    /\ stack # <<>> => pc \in {"outside", "handler", "run"}
    /\ call[LoopThread] # "none" =>
           pc \in {"outside", "handler"} \/ stack # <<>>

\* Another thread is between its store (of a functor, of quit_) and the
\* wakeup that follows it.
Underway(kind) == \E t \in Callers : call[t] = kind

\* No functor is stranded: while the loop sleeps in poll with nothing to wake
\* it, nothing is pending, whoever queued it (another thread, an event
\* handler, a functor) and whatever the interleaving with the swap.  The one
\* exception is what the loop's own thread queued before it entered loop():
\* queueInLoop does not wake the loop for it.
NoStrandedFunctor ==
    pc = "poll" /\ ~wakeupFd_ /\ ~Underway("queued") /\ pendingFunctors_ # <<>>
        => ownerQueued

\* No quit is stranded: the loop never sleeps in poll through a quit() that
\* another thread completed.
NoStrandedQuit ==
    pc = "poll" /\ quit_ => wakeupFd_ \/ Underway("quitting")

\* The functors a loop holds, in the order they will run, and the ones that
\* run are those of the abstract queue: every interleaving of queueInLoop with
\* the swap, the flag and the wakeups keeps the order of submission, and
\* drops or repeats nothing.
FQ == INSTANCE FunctorQueue WITH queue <- functors \o pendingFunctors_

FunctorQueueSpec == FQ!Spec

InQueue(f) == \E i \in DOMAIN pendingFunctors_ : pendingFunctors_[i] = f

\* doPendingFunctors is calling f (what f calls on the spot is above it).
RunsFromQueue(f) == pc = "run" /\ stack # <<>> /\ stack[Len(stack)] = f

\* A queued functor runs, promptly: without the poll timeout ever firing, in a
\* loop that is running and not told to quit, and even if every functor and
\* handler queues more.  (For what the owner queued before loop(), see
\* NoStrandedFunctor.)
QueuedFunctorRuns ==
    \A f \in Functors :
        InQueue(f) ~> RunsFromQueue(f) \/ quit_ \/ pc = "outside" \/ ownerQueued

\* quit() ends a loop that is running, again without the timeout's help: from
\* any thread and at any point after loop() has cleared quit_.
QuitEndsLoop == quit_ /\ pc \notin {"outside", "starting"} ~> pc = "outside"

\* Functors do not starve the file descriptors: an event is handled though
\* each functor that runs may queue another one.
IoNotStarved ==
    \A c \in Channels :
        c \in readable ~> c \notin readable \/ quit_ \/ pc = "outside"
=============================================================================
