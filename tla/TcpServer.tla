----------------------------- MODULE TcpServer ------------------------------
(***************************************************************************)
(* A TcpServer (src/TcpServer.cc) with its Acceptor and its                *)
(* EventLoopThreadPool: the base loop accepts, each connection belongs to  *)
(* the I/O loop getNextLoop chose (the base loop when there are no         *)
(* threads), and is taken down by two loops sending each other functors.   *)
(* At stake is the lifetime of the TcpConnection: shared_ptrs in           *)
(* connections_, in functors that bind it and in users' hands keep it,     *)
(* raw pointers in active lists, pollers and other functors use it.        *)
(*                                                                         *)
(* The model starts from a constructed server and a base loop that main()  *)
(* has yet to enter; main() then destroys the server and the loop, in that *)
(* order, as src/example/testserver.cc does.  A loop is its rounds: poll,  *)
(* dispatch, swap the pending functors, run them, test quit_.  EventLoop   *)
(* and EPollPoller show how a wakeup ends a poll and what is reported;     *)
(* here a poll reports all there is, and one that only times out is a      *)
(* stutter.  The data a connection carries is in TcpConnection.            *)
(***************************************************************************)
EXTENDS Naturals, Sequences, SequencesExt, FiniteSets

CONSTANTS Clients,     \* each connects at most once; names its connection, too
          Talkers,     \* those that send anything
          Kept,        \* those whose TcpConnectionPtr a user may keep
          Base,        \* the base loop
          IoThreads,   \* a sequence: the loops the pool's threads would have
          ThreadNums,  \* what the user may give to setThreadNum
          Limits,      \* how many descriptors there may be for connections
          Acceptor,    \* acceptChannel_
          None

IoLoops == Range(IoThreads)
Loops == IoLoops \cup {Base}
ASSUME LoopAssumption ==
    IoThreads \in Seq(IoLoops) /\ IsInjective(IoThreads) /\ None \notin Loops /\ Base \notin IoLoops
ASSUME ThreadAssumption == ThreadNums \subseteq 0..Len(IoThreads)
ASSUME LimitAssumption == Limits \subseteq Nat
ASSUME ClientAssumption == Talkers \cup Kept \subseteq Clients /\ Acceptor \notin Clients

VARIABLES
    server,       \* the TcpServer: made, started, ending, gone
    loops_,       \* EventLoopThreadPool: the I/O loops ...
    next_,        \* ... and the one getNextLoop returns next
    joining,      \* how many of its threads ~EventLoopThread has told to quit
    connections_, \* the connections in the server's map
    listenning_,  \* acceptChannel_ is registered
    limit,        \* a member of Limits
    pc,           \* loop -> where its thread is
    quit_,        \* loop -> EventLoop::quit_
    pending,      \* loop -> pendingFunctors_
    functors,     \* loop -> the vector doPendingFunctors took
    at,           \* loop -> the next of them to run
    active,       \* loop -> activeChannels_ not handled yet
    loopOf,       \* client -> its connection's loop_
    state_,       \* TcpConnection::state_
    index_,       \* Channel::index_ of its channel
    reports,      \* what connectionCallback_ saw of it
    destroys,     \* how often connectDestroyed ran for it
    backlog,      \* the kernel's: connected, not accepted
    data,         \* clients whose data is unread
    left,         \* clients that are gone
    queued,       \* those a callback of whose sends is in pendingFunctors_ ...
    taken,        \* ... and in the vector that its loop runs
    held,         \* clients whose TcpConnectionPtr a user thread has
    sending       \* and is in send(), past the test of state_

poolVars == <<loops_, next_, joining>>
roundVars == <<pc, quit_, functors, at, active>>
connVars == <<loopOf, state_, index_, reports, destroys>>
netVars == <<backlog, data, left>>
callVars == <<queued, taken>>
userVars == <<held, sending>>
serverVars == <<server, poolVars, listenning_, limit>>
vars == <<serverVars, connections_, roundVars, pending, connVars, netVars, callVars,
          userVars>>

\* A functor and the connection it is for.  All but sendInLoop bind a
\* TcpConnectionPtr; that one binds `this`.  The functors of a connection's
\* writeCompleteCallback_ and highWaterMarkCallback_ matter only for the pointer
\* they bind, which one keeps as well as several: queued and taken stand for them.
Doings == {"connectEstablished", "connectDestroyed", "removeConnectionInLoop",
           "sendInLoop"}
Functor(f, c) == [do |-> f, conn |-> c]
Functors == [do : Doings, conn : Clients]

\* A slip: connectDestroyed is bound to conn.get().
BindsLess(f) == f.do \notin {"sendInLoop", "connectDestroyed"}

Binds(f) == f.do # "sendInLoop"

Created(c) == loopOf[c] # None

\* Somebody has a TcpConnectionPtr.  A loop's vector keeps its functors until
\* all have run.
Alive(c) ==
    \/ c \in connections_ \cup held \cup queued \cup taken
    \/ \E l \in Loops : \E f \in Range(pending[l]) \cup Range(functors[l]) :
           f.conn = c /\ Binds(f)

Init ==
    /\ server = "made" /\ loops_ = <<>> /\ next_ = 0 /\ joining = 0
    /\ connections_ = {} /\ listenning_ = FALSE /\ limit \in Limits
    /\ pc = [l \in Loops |-> IF l = Base THEN "entering" ELSE "none"]
    /\ quit_ = [l \in Loops |-> FALSE]
    /\ pending = [l \in Loops |-> <<>>]
    /\ functors = [l \in Loops |-> <<>>] /\ at = [l \in Loops |-> 1]
    /\ active = [l \in Loops |-> {}]
    /\ loopOf = [c \in Clients |-> None]
    /\ state_ = [c \in Clients |-> "kConnecting"]
    /\ index_ = [c \in Clients |-> "kNew"]
    /\ reports = [c \in Clients |-> <<>>]
    /\ destroys = [c \in Clients |-> 0]
    /\ backlog = <<>> /\ data = {} /\ left = {}
    /\ held = {} /\ sending = {} /\ queued = {} /\ taken = {}

-----------------------------------------------------------------------------
(* main(): setThreadNum, start, loop.                                      *)

\* TcpServer::start: each I/O thread has published its loop_ when startLoop
\* returns and is about to call loop().  (A second start does nothing.)
Start(n) ==
    /\ server = "made" /\ server' = "started"
    /\ loops_' = SubSeq(IoThreads, 1, n)
    /\ pc' = [l \in Loops |-> IF l \in Range(loops_') THEN "entering" ELSE pc[l]]
    /\ listenning_' = TRUE
    /\ UNCHANGED <<next_, joining, limit, connections_, quit_, pending, functors,
                   at, active, connVars, netVars, callVars, userVars>>

\* EventLoop::loop up to its first test of quit_, which is made where a round
\* ends: with nothing to run, this is one.
EnterLoop(l) ==
    /\ pc[l] = "entering" /\ server # "made"
    /\ pc' = [pc EXCEPT ![l] = "functors"]
    /\ quit_' = [quit_ EXCEPT ![l] = FALSE]
    /\ UNCHANGED <<serverVars, connections_, functors, at, active, pending,
                   connVars, netVars, callVars, userVars>>

\* Somebody calls loop.quit() on the base loop while it runs.
QuitBase ==
    /\ pc[Base] \notin {"entering", "returned", "gone"} /\ ~quit_[Base]
    /\ quit_' = [quit_ EXCEPT ![Base] = TRUE]
    /\ UNCHANGED <<serverVars, connections_, pc, functors, at, active, pending,
                   connVars, netVars, callVars, userVars>>

-----------------------------------------------------------------------------
(* TcpConnection: the state the server's protocol is about.                *)

\* connectEstablished: the callback may hand its pointer to a user thread.
ConnectEstablished(c) ==
    /\ state_' = [state_ EXCEPT ![c] = "kConnected"]
    /\ index_' = [index_ EXCEPT ![c] = "kAdded"]
    /\ reports' = [reports EXCEPT ![c] = Append(@, "up")]
    /\ \/ UNCHANGED held
       \/ c \in Kept /\ held' = held \cup {c}
    /\ UNCHANGED destroys

\* A slip: it reports whatever state_ is.
DestroyedReports(c) ==
    /\ state_' = [state_ EXCEPT ![c] = "kDisconnected"]
    /\ reports' = [reports EXCEPT ![c] = Append(@, "down")]
    /\ index_' = [index_ EXCEPT ![c] = "kNew"]
    /\ destroys' = [destroys EXCEPT ![c] = @ + 1]

\* connectDestroyed: nothing but remove() unless kConnected.
ConnectDestroyed(c) ==
    /\ IF state_[c] = "kConnected"
       THEN /\ state_' = [state_ EXCEPT ![c] = "kDisconnected"]
            /\ reports' = [reports EXCEPT ![c] = Append(@, "down")]
       ELSE UNCHANGED <<state_, reports>>
    /\ index_' = [index_ EXCEPT ![c] = "kNew"]
    /\ destroys' = [destroys EXCEPT ![c] = @ + 1]

-----------------------------------------------------------------------------
(* The base loop accepts.                                                  *)

\* A slip: the first loop gets them all.
FirstLoop == 0

\* A slip: next_ may reach the size.
NextIndexTooFar == IF next_ + 1 > Len(loops_) THEN 0 ELSE next_ + 1

\* getNextLoop
NextIndex == IF next_ + 1 >= Len(loops_) THEN 0 ELSE next_ + 1

\* newConnection
NewConnection(c) ==
    /\ connections_' = connections_ \cup {c}
    /\ IF loops_ = <<>>
       THEN /\ loopOf' = [loopOf EXCEPT ![c] = Base]
            /\ ConnectEstablished(c)
            /\ UNCHANGED <<next_, pending>>
       ELSE LET ioLoop == loops_[next_ + 1] IN
            /\ next_' = NextIndex
            /\ loopOf' = [loopOf EXCEPT ![c] = ioLoop]
            /\ pending' = [pending EXCEPT
                   ![ioLoop] = Append(@, Functor("connectEstablished", c))]
            /\ UNCHANGED <<state_, index_, reports, destroys, held>>

\* A connection's Socket has its descriptor as long as it lives.
FreeFd == Cardinality({c \in Clients : Alive(c)}) < limit

\* A slip: out of descriptors, the Acceptor stops listening.
GiveUp == listenning_' = FALSE

\* Out of descriptors (EMFILE) it logs and leaves the client in the backlog.
Refuse == UNCHANGED listenning_

\* Acceptor::handleRead
HandleAccept ==
    /\ pc[Base] = "dispatch" /\ Acceptor \in active[Base]
    /\ active' = [active EXCEPT ![Base] = @ \ {Acceptor}]
    /\ \/ /\ FreeFd
          /\ backlog' = Tail(backlog)
          /\ NewConnection(Head(backlog))
          /\ UNCHANGED listenning_
       \/ /\ ~FreeFd /\ Refuse
          /\ UNCHANGED <<backlog, next_, connections_, pending, connVars, held>>
    /\ UNCHANGED <<server, loops_, joining, limit, pc, quit_, functors, at,
                   data, left, callVars, sending>>

-----------------------------------------------------------------------------
(* A loop's round.                                                         *)

Ready(l) ==
    {c \in data \cup left : loopOf[c] = l /\ index_[c] = "kAdded"}
    \cup IF l = Base /\ listenning_ /\ backlog # <<>> THEN {Acceptor} ELSE {}

Own(l) == {c \in Clients : loopOf[c] = l}

\* A slip: quit() does not wake the loop.
HasWork(l) == Ready(l) # {} \/ pending[l] # <<>> \/ queued \cap Own(l) # {}

\* What ends a poll: an event, queueInLoop's wakeup or quit's.
Woken(l) == Ready(l) # {} \/ pending[l] # <<>> \/ queued \cap Own(l) # {} \/ quit_[l]

Poll(l) ==
    /\ pc[l] = "poll" /\ Woken(l)
    /\ pc' = [pc EXCEPT ![l] = "dispatch"]
    /\ active' = [active EXCEPT ![l] = Ready(l)]
    /\ UNCHANGED <<serverVars, connections_, quit_, functors, at, pending,
                   connVars, netVars, callVars, userVars>>

\* What a loop sends is written, or waits above the mark: the callback for it is
\* queued in that loop.
MayQueueCallback(c) == queued' \in {queued, queued \cup {c}}

\* TcpConnection::handleRead with data: messageCallback_ may answer, if the
\* connection is up, and call shutdown().
HandleRead(l, c) ==
    /\ pc[l] = "dispatch" /\ c \in active[l] \cap data
    /\ active' = [active EXCEPT ![l] = @ \ {c}]
    /\ data' = data \ {c}
    /\ \/ UNCHANGED <<state_, queued>>
       \/ /\ state_[c] = "kConnected" /\ MayQueueCallback(c)
          /\ state_' \in {state_, [state_ EXCEPT ![c] = "kDisconnecting"]}
    /\ UNCHANGED <<serverVars, connections_, pc, quit_, functors, at, pending, loopOf,
                   index_, reports, destroys, backlog, left, taken, userVars>>

\* TcpServer::removeConnection, called by c's loop; in the base loop
\* removeConnectionInLoop runs at once.
RemoveConnection(c) ==
    IF loopOf[c] = Base
    THEN /\ connections_' = connections_ \ {c}
         /\ pending' = [pending EXCEPT ![Base] = Append(@, Functor("connectDestroyed", c))]
    ELSE /\ pending' = [pending EXCEPT
                ![Base] = Append(@, Functor("removeConnectionInLoop", c))]
         /\ UNCHANGED connections_

\* handleClose: the client's end was read, or it hung up.
HandleClose(l, c) ==
    /\ pc[l] = "dispatch" /\ c \in active[l] \ (data \cup {Acceptor})
    /\ active' = [active EXCEPT ![l] = @ \ {c}]
    /\ state_' = [state_ EXCEPT ![c] = "kDisconnected"]
    /\ index_' = [index_ EXCEPT ![c] = "kDeleted"]
    /\ reports' = [reports EXCEPT ![c] = Append(@, "down")]
    /\ RemoveConnection(c)
    /\ UNCHANGED <<serverVars, pc, quit_, functors, at, loopOf, destroys, netVars,
                   callVars, userVars>>

\* doPendingFunctors takes what there is ...
Swap(l) ==
    /\ pc[l] = "dispatch" /\ active[l] = {}
    /\ pc' = [pc EXCEPT ![l] = "functors"]
    /\ functors' = [functors EXCEPT ![l] = pending[l]]
    /\ pending' = [pending EXCEPT ![l] = <<>>]
    /\ at' = [at EXCEPT ![l] = 1]
    /\ queued' = queued \ Own(l) /\ taken' = taken \cup (queued \cap Own(l))
    /\ UNCHANGED <<serverVars, connections_, quit_, active, connVars, netVars, userVars>>

\* A slip: the map keeps the connection.
KeepInMap(c) ==
    pending' = [pending EXCEPT ![loopOf[c]] = Append(@, Functor("connectDestroyed", c))]
    /\ UNCHANGED connections_

\* A slip: connectDestroyed is left to the destructor.
OnlyErase(c) == connections_' = connections_ \ {c} /\ UNCHANGED pending

RemoveConnectionInLoop(c) ==
    /\ connections_' = connections_ \ {c}
    /\ pending' = [pending EXCEPT ![loopOf[c]] = Append(@, Functor("connectDestroyed", c))]

\* sendInLoop: in a connection that is up it may ask for EPOLLOUT, and
\* registers the channel if it is not.
SendInLoop(c) ==
    \/ UNCHANGED <<index_, queued>>
    \/ /\ state_[c] # "kDisconnected" /\ MayQueueCallback(c)
       /\ index_' \in {index_, [index_ EXCEPT ![c] = "kAdded"]}

\* ... and runs it.
RunFunctor(l) ==
    /\ pc[l] = "functors" /\ at[l] <= Len(functors[l])
    /\ at' = [at EXCEPT ![l] = @ + 1]
    /\ LET f == functors[l][at[l]] IN
       \/ /\ f.do = "connectEstablished" /\ ConnectEstablished(f.conn)
          /\ UNCHANGED <<connections_, pending, queued>>
       \/ /\ f.do = "connectDestroyed" /\ ConnectDestroyed(f.conn)
          /\ UNCHANGED <<connections_, pending, queued, held>>
       \/ /\ f.do = "removeConnectionInLoop" /\ RemoveConnectionInLoop(f.conn)
          /\ UNCHANGED <<state_, index_, reports, destroys, queued, held>>
       \/ /\ f.do = "sendInLoop" /\ SendInLoop(f.conn)
          /\ UNCHANGED <<connections_, pending, state_, reports, destroys, held>>
    /\ UNCHANGED <<serverVars, pc, quit_, functors, active, loopOf, netVars, taken, sending>>

\* The vector goes, then quit_ is tested.  An I/O thread's EventLoop is a local
\* variable of threadFunc: what is still pending goes with it.
EndRound(l) ==
    /\ pc[l] = "functors" /\ at[l] > Len(functors[l])
    /\ functors' = [functors EXCEPT ![l] = <<>>]
    /\ at' = [at EXCEPT ![l] = 1]
    /\ taken' = taken \ Own(l)
    /\ \/ /\ ~quit_[l] /\ pc' = [pc EXCEPT ![l] = "poll"]
          /\ UNCHANGED <<pending, queued>>
       \/ /\ quit_[l] /\ l = Base /\ pc' = [pc EXCEPT ![l] = "returned"]
          /\ UNCHANGED <<pending, queued>>
       \/ /\ quit_[l] /\ l # Base /\ pc' = [pc EXCEPT ![l] = "gone"]
          /\ pending' = [pending EXCEPT ![l] = <<>>]
          /\ queued' = queued \ Own(l)
    /\ UNCHANGED <<serverVars, connections_, quit_, active, connVars, netVars, userVars>>

LoopStep(l) ==
    \/ EnterLoop(l) \/ Poll(l) \/ Swap(l) \/ RunFunctor(l) \/ EndRound(l)
    \/ \E c \in Clients : HandleRead(l, c) \/ HandleClose(l, c)
    \/ l = Base /\ HandleAccept

-----------------------------------------------------------------------------
(* main() again: ~TcpServer, then ~EventLoop of the base loop.             *)

\* No user thread is in a call on a connection any more.
BeginEnd ==
    /\ server = "started" /\ pc[Base] = "returned" /\ sending = {}
    /\ server' = "ending"
    /\ UNCHANGED <<poolVars, listenning_, limit, connections_, roundVars, pending,
                   connVars, netVars, callVars, userVars>>

\* ~TcpServer, for one entry of connections_.
DestroyConnection(c) ==
    /\ server = "ending" /\ c \in connections_
    /\ connections_' = connections_ \ {c}
    /\ IF loopOf[c] = Base
       THEN ConnectDestroyed(c) /\ UNCHANGED pending
       ELSE /\ pending' = [pending EXCEPT
                    ![loopOf[c]] = Append(@, Functor("connectDestroyed", c))]
            /\ UNCHANGED <<state_, index_, reports, destroys>>
    /\ UNCHANGED <<serverVars, roundVars, loopOf, netVars, callVars, userVars>>

\* The threads quit and joined so far are over.
Joined == joining > 0 => pc[loops_[joining]] = "gone"

\* ~EventLoopThread: quit() the next thread's loop, then join it.
QuitThread ==
    /\ server = "ending" /\ connections_ = {}
    /\ Joined /\ joining < Len(loops_)
    /\ joining' = joining + 1
    /\ quit_' = [quit_ EXCEPT ![loops_[joining']] = TRUE]
    /\ UNCHANGED <<server, loops_, next_, listenning_, limit, connections_, pc, functors,
                   at, active, pending, connVars, netVars, callVars, userVars>>

AllJoined == Joined /\ joining = Len(loops_)

\* ~Acceptor, and the server is gone.
EndServer ==
    /\ server = "ending" /\ connections_ = {} /\ AllJoined
    /\ server' = "gone" /\ listenning_' = FALSE
    /\ UNCHANGED <<poolVars, limit, connections_, roundVars, pending, connVars,
                   netVars, callVars, userVars>>

EndBase ==
    /\ server = "gone" /\ pc[Base] = "returned"
    /\ pc' = [pc EXCEPT ![Base] = "gone"]
    /\ pending' = [pending EXCEPT ![Base] = <<>>] /\ queued' = queued \ Own(Base)
    /\ UNCHANGED <<serverVars, connections_, quit_, functors, at, active,
                   connVars, netVars, taken, userVars>>

Ending ==
    \/ BeginEnd \/ QuitThread \/ EndServer \/ EndBase
    \/ \E c \in Clients : DestroyConnection(c)

-----------------------------------------------------------------------------
(* Clients and users.                                                      *)

Present(c) == Created(c) \/ c \in Range(backlog)

Connect(c) ==
    /\ listenning_ /\ ~Present(c)
    /\ backlog' = Append(backlog, c)
    /\ UNCHANGED <<serverVars, connections_, roundVars, pending, connVars, data, left,
                   callVars, userVars>>

ClientSends(c) ==
    /\ c \in Talkers /\ Present(c) /\ c \notin left
    /\ data' = data \cup {c}
    /\ UNCHANGED <<serverVars, connections_, roundVars, pending, connVars, backlog, left,
                   callVars, userVars>>

Leave(c) ==
    /\ Present(c) /\ c \notin left
    /\ left' = left \cup {c}
    /\ UNCHANGED <<serverVars, connections_, roundVars, pending, connVars, backlog, data,
                   callVars, userVars>>

\* TcpConnection::send in a user's thread tests state_ ...
UserTests(c) ==
    /\ server = "started" /\ c \in held \ sending
    /\ state_[c] = "kConnected"
    /\ sending' = sending \cup {c}
    /\ UNCHANGED <<serverVars, connections_, roundVars, pending, connVars, netVars,
                   callVars, held>>

SendPending(c) ==
    \E l \in Loops : \E f \in Range(pending[l] \o functors[l]) :
        f = Functor("sendInLoop", c)

\* ... and queues `this`.  Bound: one such functor for a connection.
UserQueues(c) ==
    /\ c \in sending /\ ~SendPending(c)
    /\ sending' = sending \ {c}
    /\ pending' = [pending EXCEPT ![loopOf[c]] = Append(@, Functor("sendInLoop", c))]
    /\ UNCHANGED <<serverVars, connections_, roundVars, connVars, netVars, callVars, held>>

\* What send() leaves to its user: nothing else keeps the connection until the
\* functor has run.
MayRelease(c) == c \notin sending /\ ~SendPending(c)

UserReleases(c) ==
    /\ c \in held /\ MayRelease(c)
    /\ held' = held \ {c}
    /\ UNCHANGED <<serverVars, connections_, roundVars, pending, connVars, netVars,
                   callVars, sending>>

Outside(c) ==
    \/ Connect(c) \/ ClientSends(c) \/ Leave(c)
    \/ UserTests(c) \/ UserQueues(c) \/ UserReleases(c)

Next ==
    \/ \E n \in ThreadNums : Start(n)
    \/ QuitBase \/ Ending
    \/ \E l \in Loops : LoopStep(l)
    \/ \E c \in Clients : Outside(c)

\* Threads run: the I/O threads, main's in the base loop and in the destructors,
\* a user's in send().  Nobody has to connect, send, leave, quit the base loop
\* or let go of a pointer.
Fairness ==
    /\ \A l \in IoLoops : WF_vars(LoopStep(l))
    /\ WF_vars(LoopStep(Base) \/ Ending)
    /\ \A c \in Kept : WF_vars(UserQueues(c))

Spec == Init /\ [][Next]_vars
FairSpec == Spec /\ Fairness

-----------------------------------------------------------------------------
(* What must hold.                                                         *)

Running(l) == pc[l] \notin {"none", "gone"}

ServerTypes ==
    /\ server \in {"made", "started", "ending", "gone"}
    /\ loops_ \in Seq(IoLoops) /\ next_ \in Nat /\ joining \in 0..Len(loops_)
    /\ loops_ # <<>> => next_ < Len(loops_)
    /\ listenning_ \in BOOLEAN /\ limit \in Limits

LoopTypes ==
    /\ pc \in [Loops -> {"none", "entering", "poll", "dispatch", "functors",
                         "returned", "gone"}]
    /\ quit_ \in [Loops -> BOOLEAN]
    /\ functors \in [Loops -> Seq(Functors)] /\ at \in [Loops -> Nat \ {0}]
    /\ active \in [Loops -> SUBSET (Clients \cup {Acceptor})]

QueueTypes == pending \in [Loops -> Seq(Functors)]

ConnTypes ==
    /\ loopOf \in [Clients -> Loops \cup {None}]
    /\ state_ \in [Clients -> {"kConnecting", "kConnected", "kDisconnecting",
                               "kDisconnected"}]
    /\ index_ \in [Clients -> {"kNew", "kAdded", "kDeleted"}]
    /\ reports \in [Clients -> Seq({"up", "down"})] /\ destroys \in [Clients -> Nat]

ClientTypes ==
    /\ backlog \in Seq(Clients) /\ data \cup left \subseteq Clients
    /\ connections_ \cup held \subseteq Clients /\ sending \subseteq held
    /\ queued \cup taken \subseteq Clients

Types == ServerTypes /\ LoopTypes /\ QueueTypes /\ ConnTypes /\ ClientTypes

\* Types; the connections that hold descriptors are no more than there are.
TypeOK == Types /\ Cardinality({c \in Clients : Alive(c)}) <= limit

\* Functors of l that are still to run, in the order they will.
ToRun(l) == SubSeq(functors[l], at[l], Len(functors[l])) \o pending[l]

\* No pointer outlives what it points to: while a loop runs, the connections
\* in its active list, those its poller knows and those its functors are for
\* exist, raw `this` or not; and while a channel may call back or a functor
\* for it may run in a loop, the TcpServer they are bound to exists.
NoDanglingThis ==
    \A l \in Loops : Running(l) =>
        /\ \A c \in active[l] \ {Acceptor} : Alive(c)
        /\ \A c \in Clients : loopOf[c] = l /\ index_[c] # "kNew" => Alive(c)
        /\ \A f \in Range(ToRun(l)) : Alive(f.conn)
        /\ server = "gone" => l = Base /\ pc[l] = "returned"

\* Once a connection is out of the map, and not before, its loop is to run
\* connectDestroyed for it, exactly once, whoever took it out.
DestroyedOnce ==
    \A c \in Clients : Created(c) /\ Running(loopOf[c]) =>
        destroys[c] + Cardinality({i \in DOMAIN ToRun(loopOf[c]) :
                                       ToRun(loopOf[c])[i] = Functor("connectDestroyed", c)})
            = IF c \in connections_ THEN 0 ELSE 1

\* Round robin: no loop of the pool has two connections more than another.
Balanced ==
    LET assigned(l) == Cardinality({c \in Clients : loopOf[c] = l}) IN
    \A l, m \in Range(loops_) : assigned(l) <= assigned(m) + 1

\* The connections live as ConnectionLife says.
Place == [c \in Clients |->
             IF ~Created(c) THEN "none" ELSE IF Alive(c) THEN "alive" ELSE "freed"]

Life == INSTANCE ConnectionLife
        WITH Conns <- Clients, place <- Place, ending <- server \in {"ending", "gone"}

LifeSpec == Life!Spec

Serving == server = "started" /\ ~quit_[Base] /\ pc[Base] \notin {"returned", "gone"}

\* Nothing leaks while the server runs: again and again there is a moment when
\* every connection whose client left is freed, descriptor and all, or is one that
\* a user keeps.  (No connection comes back, so each of them is freed for good.)
GoneIsFreed ==
    []<>(\/ ~Serving
         \/ \A c \in Clients : Created(c) /\ c \in left => ~Alive(c) \/ c \in held)

\* No client is lost to EMFILE: the server does not stay for ever with clients in
\* the backlog and a descriptor for the first of them, however often it was
\* refused.  (The first keeps its place, and the descriptor is for it: so it is
\* accepted.)
HeadIsAccepted == []<>(~Serving \/ backlog = <<>> \/ ~FreeFd)

\* ~TcpServer and ~EventLoop come to an end and free every connection that no
\* user keeps, whatever is in flight when they begin, provided each I/O thread
\* was in its loop by then (a quit() before loop() is lost: EventLoopThread).
EndFreesAll ==
    /\ server = "ending" /\ joining = 0
    /\ \A l \in IoLoops : pc[l] # "entering"
    ~>
    /\ pc[Base] = "gone"
    /\ \A c \in Clients : Alive(c) => c \in held
=============================================================================
