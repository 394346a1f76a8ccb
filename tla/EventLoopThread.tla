-------------------------- MODULE EventLoopThread ---------------------------
(***************************************************************************)
(* EventLoopThread (src/EventLoopThread.cc) with the Thread it starts      *)
(* (src/Thread.cc) and the EventLoop that lives on the new thread's stack  *)
(* (EventLoop.tla): the start handshake (semaphore, mutex_, cond_), the    *)
(* publication of loop_, and the destructor that quits and joins.          *)
(*                                                                         *)
(* mutex_ is held across steps only at the end of threadFunc ("cleared");  *)
(* the other critical sections are one step each.  A call through a null   *)
(* pointer, or on a loop that is gone, is undefined: it has no effect that *)
(* anyone sees, or the owner gets no further ("crashed").                  *)
(***************************************************************************)
EXTENDS EventLoop

CONSTANTS Owner,     \* the thread that creates, starts and destroys it
          UserQuits  \* may the program itself call quit() on the loop?

ASSUME OwnerAssumption == Callers = {Owner} /\ UserQuits \in BOOLEAN

VARIABLES
    loop_,   \* is the pointer set?
    sem,     \* the semaphore of Thread::start
    owner,   \* where the owner is
    thread,  \* where the new thread is
    alive,   \* does the EventLoop exist?
    userQuit \* history: the program itself called quit()

threadVars == <<loop_, sem, owner, thread, alive, userQuit>>
allVars == <<vars, threadVars>>

(***************************************************************************)
(* The owner: "idle" (constructed), in startLoop "starting" (waits for     *)
(* sem), "waiting" (wants mutex_) or "sleeping" (in cond_.wait), "started",*)
(* in the destructor "quitting" (it saw loop_ set) or "joining", "gone";   *)
(* "crashed" (in a call on a loop that is not there: nothing is promised   *)
(* from here on, and the other thread may or may not get further).         *)
(* The thread: "none", "spawned", "constructing", "constructed" (in the    *)
(* init callback), "published", "looping", "exited" (loop() returned),     *)
(* "cleared" (holds mutex_), "unlocked", "done".                           *)
(***************************************************************************)
OwnerPoints == {"idle", "starting", "waiting", "sleeping", "started",
                "quitting", "joining", "gone", "crashed"}
ThreadPoints == {"none", "spawned", "constructing", "constructed", "published",
                 "looping", "exited", "cleared", "unlocked", "done"}

ThreadInit ==
    /\ Init
    /\ loop_ = FALSE /\ sem = FALSE /\ alive = FALSE
    /\ userQuit = FALSE /\ owner = "idle" /\ thread = "none"

OwnerStep(from, to) == owner = from /\ owner' = to
ThreadStep(from, to) == thread = from /\ thread' = to

-----------------------------------------------------------------------------
(* startLoop, on the owner's thread.                                       *)

\* thread_.start() creates the thread ...
Start ==
    /\ OwnerStep("idle", "starting") /\ ThreadStep("none", "spawned")
    /\ UNCHANGED <<vars, loop_, sem, alive, userQuit>>

\* ... and waits until it has a tid.
SemWait ==
    /\ sem /\ sem' = FALSE
    /\ OwnerStep("starting", "waiting")
    /\ UNCHANGED <<vars, loop_, thread, alive, userQuit>>

\* A slip: wait once, then take loop_ whatever it is.
AwaitLoopOnce ==
    /\ thread # "cleared"
    /\ OwnerStep("waiting", "started")
    /\ UNCHANGED <<vars, loop_, sem, thread, alive, userQuit>>

\* Under mutex_: return the loop, or sleep until it is there.
AwaitLoop ==
    /\ thread # "cleared"
    /\ \/ loop_ /\ OwnerStep("waiting", "started")
       \/ ~loop_ /\ OwnerStep("waiting", "sleeping")
    /\ UNCHANGED <<vars, loop_, sem, thread, alive, userQuit>>

SpuriousWakeup ==
    /\ OwnerStep("sleeping", "waiting")
    /\ UNCHANGED <<vars, loop_, sem, thread, alive, userQuit>>

-----------------------------------------------------------------------------
(* threadFunc and the lambda that calls it, on the new thread.             *)

SetTid ==
    /\ ThreadStep("spawned", "constructing")
    /\ sem' = TRUE
    /\ UNCHANGED <<vars, loop_, owner, alive, userQuit>>

\* EventLoop loop; the init callback runs from here to Publish.
ConstructLoop ==
    /\ ThreadStep("constructing", "constructed")
    /\ alive' = TRUE
    /\ UNCHANGED <<vars, loop_, sem, owner, userQuit>>

CallbackReturned == pc = "outside" /\ stack = <<>> /\ call[LoopThread] = "none"

\* A slip: nobody is notified.
NotifyNobody == owner

NotifyOne == IF owner = "sleeping" THEN "waiting" ELSE owner

\* loop_ = &loop; cond_.notify_one();
Publish ==
    /\ CallbackReturned
    /\ ThreadStep("constructed", "published")
    /\ loop_' = TRUE /\ owner' = NotifyOne
    /\ UNCHANGED <<vars, sem, alive, userQuit>>

EnterLoop ==
    /\ LoopEnter
    /\ ThreadStep("published", "looping")
    /\ UNCHANGED <<loop_, sem, owner, alive, userQuit>>

LoopReturned ==
    /\ pc = "outside"
    /\ ThreadStep("looping", "exited")
    /\ UNCHANGED <<vars, loop_, sem, owner, alive, userQuit>>

\* A slip: loop_ is left dangling.
ClearNothing ==
    /\ ThreadStep("exited", "cleared")
    /\ UNCHANGED <<vars, loop_, sem, owner, alive, userQuit>>

\* Lock mutex_, forget the loop ...
Clear ==
    /\ ThreadStep("exited", "cleared")
    /\ loop_' = FALSE
    /\ UNCHANGED <<vars, sem, owner, alive, userQuit>>

\* ... and leave: first lock, then loop is destroyed.
Unlock ==
    /\ ThreadStep("cleared", "unlocked")
    /\ UNCHANGED <<vars, loop_, sem, owner, alive, userQuit>>

DestroyLoop ==
    /\ ThreadStep("unlocked", "done")
    /\ alive' = FALSE
    /\ UNCHANGED <<vars, loop_, sem, owner, userQuit>>

-----------------------------------------------------------------------------
(* ~EventLoopThread, on the owner's thread.                                *)

\* What the owner does between startLoop and the destructor is over.
Destroying == owner \in {"idle", "started"} /\ call[Owner] = "none"

\* loop_ is read without mutex_, and is set ...
Destroy ==
    /\ Destroying /\ loop_
    /\ owner' = "quitting"
    /\ UNCHANGED <<vars, loop_, sem, thread, alive, userQuit>>

\* ... or null: ~Thread detaches what is not joined, and the members are gone.
Detach ==
    /\ Destroying /\ ~loop_
    /\ owner' = "gone"
    /\ UNCHANGED <<vars, loop_, sem, thread, alive, userQuit>>

\* loop_->quit(), which goes on with QuitWakeup.  The pointer is read again, or
\* kept from the test: a data race leaves it to the build.
DestroyQuit ==
    /\ Quit(Owner)
    /\ OwnerStep("quitting", "joining")
    /\ UNCHANGED <<loop_, sem, thread, alive, userQuit>>

\* Somebody else's quit has brought the thread to its end since the test: the
\* pointer is null when it is read again, or dangles when it is not.
DestroyCrash ==
    /\ ~loop_
    /\ OwnerStep("quitting", "crashed")
    /\ UNCHANGED <<vars, loop_, sem, thread, alive, userQuit>>

\* A slip: the thread is not joined.
JoinNothing ==
    /\ call[Owner] = "none"
    /\ OwnerStep("joining", "gone")
    /\ UNCHANGED <<vars, loop_, sem, thread, alive, userQuit>>

Join ==
    /\ call[Owner] = "none" /\ thread = "done"
    /\ OwnerStep("joining", "gone")
    /\ UNCHANGED <<vars, loop_, sem, thread, alive, userQuit>>

-----------------------------------------------------------------------------
\* The program calls the loop while it is there: the owner between startLoop and
\* the destructor, the new thread from its callbacks.
ProgramCall ==
    /\ \E t \in Threads :
        /\ t = Owner => owner = "started" /\ alive
        /\ t = LoopThread =>
               thread = "constructed" \/ (thread = "looping" /\ pc # "outside")
        /\ \/ /\ \E f \in Functors : QueueInLoop(t, f) \/ RunInLoop(t, f)
              /\ UNCHANGED userQuit
           \/ UserQuits /\ Quit(t) /\ userQuit' = TRUE
    /\ UNCHANGED <<loop_, sem, owner, thread, alive>>

\* The loop may have gone under the owner's call meanwhile.
CallCompletes ==
    /\ \E t \in Threads : QueueWakeup(t) \/ QuitWakeup(t)
    /\ \/ UNCHANGED owner
       \/ ~alive /\ owner \in {"started", "joining"} /\ owner' = "crashed"
    /\ UNCHANGED <<loop_, sem, thread, alive, userQuit>>

\* The steps of loop() itself, and the return of what the init callback called.
LoopRuns ==
    /\ (pc # "outside" /\ Loop) \/ Return
    /\ UNCHANGED threadVars

IoHappens == (\E c \in Channels : IoEvent(c)) /\ UNCHANGED threadVars

\* The destructor is done and whatever thread there was has ended.
Over == owner = "gone" /\ thread \in {"none", "done"}

ThreadNext ==
    \/ Start \/ SemWait \/ AwaitLoop \/ SpuriousWakeup
    \/ SetTid \/ ConstructLoop \/ Publish \/ EnterLoop \/ LoopReturned
    \/ Clear \/ Unlock \/ DestroyLoop
    \/ Destroy \/ Detach \/ DestroyQuit \/ DestroyCrash \/ Join
    \/ ProgramCall \/ CallCompletes \/ LoopRuns
    \/ ~Over /\ IoHappens

(***************************************************************************)
(* Both threads are scheduled and callbacks return (see Fairness in        *)
(* EventLoop).  Nobody is bound to call startLoop or the destructor, and   *)
(* neither a spurious wakeup nor the poll timeout is counted on.           *)
(***************************************************************************)
ThreadFairness ==
    /\ Fairness
    /\ WF_allVars(SemWait) /\ WF_allVars(AwaitLoop) /\ WF_allVars(SetTid)
    /\ WF_allVars(ConstructLoop) /\ SF_allVars(Publish)
    /\ WF_allVars(EnterLoop) /\ WF_allVars(LoopReturned) /\ WF_allVars(Clear)
    /\ WF_allVars(Unlock) /\ WF_allVars(DestroyLoop)
    /\ WF_allVars(DestroyQuit \/ DestroyCrash) /\ WF_allVars(Join)

ThreadSpec == ThreadInit /\ [][ThreadNext]_allVars
FairThreadSpec == ThreadSpec /\ ThreadFairness

-----------------------------------------------------------------------------
(* What must hold.                                                         *)

\* Types, and the points of the two threads that exclude each other: there is
\* no thread before startLoop, and the loop lives from its construction on the
\* thread to the thread's end.
ThreadTypeOK ==
    /\ TypeOK
    /\ loop_ \in BOOLEAN /\ sem \in BOOLEAN
    /\ alive \in BOOLEAN /\ userQuit \in BOOLEAN
    /\ owner \in OwnerPoints /\ thread \in ThreadPoints
    /\ owner = "idle" => thread = "none"
    /\ sem => owner = "starting"
    /\ loop_ => thread \in {"published", "looping", "exited"}
    /\ alive <=> thread \in {"constructed", "published", "looping", "exited",
                             "cleared", "unlocked"}

\* startLoop hands out a loop that exists and is fully set up, and it stays so
\* as long as nobody but the destructor quits it: both of the destructor's reads
\* of loop_, made without mutex_, find it.
StartedLoopIsAlive ==
    owner \in {"started", "quitting"} /\ ~userQuit => loop_ /\ alive

\* No thread runs threadFunc on a destroyed EventLoopThread (whose mutex_ and
\* loop_ it uses to the end) unless the program quits the loop itself.
ThreadEndsFirst ==
    owner = "gone" /\ ~userQuit => thread \in {"none", "unlocked", "done"}

\* startLoop returns: the semaphore is posted and the notification is not
\* missed, whether loop_ is set before or after the owner takes mutex_.  (A
\* program that quits the loop from one of its callbacks meanwhile may have
\* loop_ cleared before the owner looks.)
StartLoopReturns == owner = "starting" ~> owner = "started" \/ userQuit

\* The destructor does not wait for ever for a loop that it finds looping,
\* whoever else quits that loop before, meanwhile or after: it returns, unless
\* the loop goes under its call.  (The loop may: a quit() of the program between
\* the two reads of loop_ is enough, and so is the destructor's own quit().)
DestructorDoesNotHang ==
    owner = "quitting" /\ pc \notin {"outside", "starting"}
        ~> owner \in {"gone", "crashed"}
=============================================================================
