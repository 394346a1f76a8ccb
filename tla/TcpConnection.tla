--------------------------- MODULE TcpConnection ----------------------------
(***************************************************************************)
(* One TcpConnection (src/TcpConnection.cc) in its I/O loop, from the      *)
(* connectEstablished that TcpServer::newConnection hands to the loop to   *)
(* the connectDestroyed that ends it, with                                 *)
(*   - the loop's thread: an event dispatch, then the pending functors,    *)
(*     then epoll_wait; user callbacks run inside, and may send and        *)
(*     shut down;                                                          *)
(*   - other threads that call send() and shutdown();                      *)
(*   - the TcpServer in the base loop, which takes connections out of its  *)
(*     map, or stops;                                                      *)
(*   - the kernel and the peer.                                            *)
(* Buffers are the byte queues that Buffer implements, the queue of        *)
(* functors is the one EventLoop implements, and the poller reports what   *)
(* events_ asks for (EPollPoller).  A handler touches what it shares with  *)
(* other threads (state_) once, and is one step; connectDestroyed, which   *)
(* reads it and then writes it, is two.  SIGPIPE is taken to be ignored.   *)
(***************************************************************************)
EXTENDS Naturals, Sequences

CONSTANTS Threads,        \* threads other than the loop's that use the connection
          ThreadOps,      \* what they call: a subset of {"send", "shutdown"}
          Messages,       \* the strings sent, each once
          Size,           \* and their sizes
          Garbage,        \* bytes that are no message's
          StringsKept,    \* a sender keeps its string until the loop has read it
          ServerMayStop,  \* TcpServer may be destroyed under the connection
          HighWaterMark,
          SendBuffer      \* bound on what the kernel holds unread by the peer

ASSUME MessagesAssumption ==
    Size \in [Messages -> Nat] /\ Garbage \notin Messages
ASSUME OpsAssumption ==
    /\ ThreadOps \subseteq {"send", "shutdown"}
    /\ StringsKept \in BOOLEAN /\ ServerMayStop \in BOOLEAN
ASSUME MarkAssumption == HighWaterMark \in Nat \ {0} /\ SendBuffer \in Nat \ {0}

VARIABLES
    state_,           \* atomic
    events_,          \* the channel's
    watched,          \* the channel is in epoll
    outputBuffer_,
    pendingFunctors_, \* the loop's queue
    functors,         \* the part of it that doPendingFunctors took
    pc,               \* where the loop's thread is
    after,            \* and where it goes on when the user's callback returns
    revents,          \* of the events reported, those not dispatched yet
    call,             \* thread -> where it is in send() or shutdown()
    owner,            \* the TcpServer's hold on the connection
    removed,          \* connectDestroyed has run
    unsent,           \* messages nobody has sent yet
    \* the kernel and the peer
    input,            \* bytes of the peer wait to be read
    peer,             \* "open", "fin", "reset" (unread error) or "dead"
    room,             \* free space of the socket's send buffer
    shutWr,           \* shutdown(SHUT_WR) was called
    wire,             \* all bytes written
    \* history
    accepted,         \* the bytes that sendInLoop wrote or buffered
    ups, downs,       \* connection callbacks made
    warnings,         \* high water callbacks since the output was last below
    brokenPipe        \* something was written after SHUT_WR

conn == <<state_, events_, watched, outputBuffer_, removed>>
queues == <<pendingFunctors_, functors>>
loop == <<pc, after, revents>>
users == <<call, unsent>>
kernel == <<input, peer, room, shutWr, wire>>
history == <<accepted, ups, downs, warnings, brokenPipe>>
vars == <<conn, queues, loop, users, owner, kernel, history>>

Bytes == Messages \cup {Garbage}
CallStates == {<<>>, <<"set">>, <<"shutdown">>} \cup ({"send"} \X Messages)
Functors == {<<"connectEstablished">>, <<"connectDestroyed">>, <<"shutdown">>,
             <<"writeComplete">>, <<"highWaterMark">>} \cup ({"send"} \X Messages)

Init ==
    /\ state_ = "kConnecting" /\ events_ = {} /\ watched = FALSE
    /\ outputBuffer_ = <<>> /\ removed = FALSE
    /\ pendingFunctors_ = << <<"connectEstablished">> >> /\ functors = <<>>
    /\ pc = "poll" /\ after = "poll" /\ revents = {}
    /\ call = [t \in Threads |-> <<>>] /\ unsent = Messages
    /\ owner = "server"
    /\ input = FALSE /\ peer = "open" /\ room = SendBuffer /\ shutWr = FALSE
    /\ wire = <<>> /\ accepted = <<>>
    /\ ups = 0 /\ downs = 0 /\ warnings = 0 /\ brokenPipe = FALSE

IsWriting == "write" \in events_
QueueInLoop(fs) == pendingFunctors_' = pendingFunctors_ \o fs
First(s, n) == SubSeq(s, 1, n)
Rest(s, n) == SubSeq(s, n + 1, Len(s))

\* enableReading and the like, update(): a channel without interest leaves epoll.
Update(events) == events_' = events /\ watched' = (events # {})

\* Into the user's code, and on to next when it returns.
CallUser(next) == pc' = "user" /\ after' = next

-----------------------------------------------------------------------------
(* write(2) on the nonblocking socket: EPIPE or ECONNRESET, or as much as   *)
(* fits (0 stands for EWOULDBLOCK, unless there is nothing to write).       *)

WriteFails == shutWr \/ peer \in {"reset", "dead"}

FailedWrite ==
    /\ peer' = IF peer = "reset" THEN "dead" ELSE peer
    /\ brokenPipe' = (brokenPipe \/ shutWr)
    /\ UNCHANGED <<input, room, shutWr, wire>>

\* A slip: what write(2) returns is not looked at.
TakesAll(n) == {n}

Takes(n) == {k \in 0..n : k <= room /\ (k = 0 <=> room = 0 \/ n = 0)}

Write(data, n) ==
    /\ wire' = wire \o First(data, n)
    /\ room' = room - n
    /\ UNCHANGED <<input, peer, shutWr, brokenPipe>>

-----------------------------------------------------------------------------
(* send.                                                                   *)

\* A slip: write(2) is tried whatever waits in the buffer.
WritesFirst == TRUE

\* Nothing of this message goes past what is buffered.
WritesDirectly == ~IsWriting /\ outputBuffer_ = <<>>

\* A slip: every send above the mark warns.
WarnsAlways(old, new) == new >= HighWaterMark

CrossesMark(old, new) == new >= HighWaterMark /\ old < HighWaterMark

\* A slip: nobody asks for EPOLLOUT.
NobodyAsks == UNCHANGED <<events_, watched>>

EnableWriting == Update(events_ \cup {"write"})

\* What write(2) did not take is buffered, and EPOLLOUT asked for, once.
BufferRest(data) ==
    LET old == Len(outputBuffer_)
        new == old + Len(data) IN
    /\ outputBuffer_' = outputBuffer_ \o data
    /\ \/ ~IsWriting /\ EnableWriting
       \/ IsWriting /\ UNCHANGED <<events_, watched>>
    /\ IF CrossesMark(old, new)
       THEN QueueInLoop(<< <<"highWaterMark">> >>) /\ warnings' = warnings + 1
       ELSE UNCHANGED <<pendingFunctors_, warnings>>

\* sendInLoop of the string m, whose memory holds data by now.
SendInLoop(m, data) ==
    /\ UNCHANGED <<state_, removed, ups, downs>>
    /\ \/ /\ state_ = "kDisconnected"
          /\ UNCHANGED <<events_, watched, outputBuffer_, pendingFunctors_, kernel, accepted,
                         warnings, brokenPipe>>
       \/ /\ state_ # "kDisconnected" /\ WritesDirectly /\ WriteFails
          /\ FailedWrite
          /\ UNCHANGED <<events_, watched, outputBuffer_, pendingFunctors_, accepted, warnings>>
       \/ /\ state_ # "kDisconnected" /\ ~(WritesDirectly /\ WriteFails)
          /\ \E n \in IF WritesDirectly THEN Takes(Len(data)) ELSE {0} :
              /\ Write(data, n)
              /\ \/ /\ n = Len(data)
                    /\ IF WritesDirectly THEN QueueInLoop(<< <<"writeComplete">> >>)
                       ELSE UNCHANGED pendingFunctors_
                    /\ UNCHANGED <<events_, watched, outputBuffer_, warnings>>
                 \/ n < Len(data) /\ BufferRest(Rest(data, n))
          /\ accepted' = accepted \o [i \in 1..Size[m] |-> m]

\* The memory of a string its sender no longer keeps holds anything.
Memory(m) ==
    {[i \in 1..Size[m] |-> x] : x \in {m} \cup IF StringsKept THEN {} ELSE {Garbage}}

\* send() in the loop's thread, from a callback.
UserSend(m) ==
    /\ pc = "user" /\ m \in unsent /\ state_ = "kConnected"
    /\ unsent' = unsent \ {m}
    /\ SendInLoop(m, [i \in 1..Size[m] |-> m])
    /\ UNCHANGED <<functors, loop, call, owner>>

-----------------------------------------------------------------------------
(* shutdown.                                                               *)

\* A slip: the stream is closed whatever is buffered.
ShutdownAtOnce == shutWr' = TRUE

ShutdownInLoop == shutWr' = (shutWr \/ ~IsWriting)

MayShutdown == state_ = "kConnected"

\* shutdown() in the loop's thread.
UserShutdown ==
    /\ pc = "user" /\ MayShutdown
    /\ state_' = "kDisconnecting"
    /\ ShutdownInLoop
    /\ UNCHANGED <<events_, watched, outputBuffer_, removed, queues, loop, users, owner,
                   input, peer, room, wire, history>>

-----------------------------------------------------------------------------
(* Other threads: state_ is read, and what follows from it done later.      *)

Goes(t, from, to) == call[t] = from /\ call' = [call EXCEPT ![t] = to]

SendCheck(t, m) ==
    /\ "send" \in ThreadOps /\ ups > 0 /\ m \in unsent /\ state_ = "kConnected"
    /\ Goes(t, <<>>, <<"send", m>>)
    /\ unsent' = unsent \ {m}
    /\ UNCHANGED <<conn, queues, loop, owner, kernel, history>>

ShutdownCheck(t) ==
    /\ "shutdown" \in ThreadOps /\ ups > 0 /\ MayShutdown
    /\ Goes(t, <<>>, <<"set">>)
    /\ UNCHANGED <<conn, queues, loop, unsent, owner, kernel, history>>

ShutdownSet(t) ==
    /\ Goes(t, <<"set">>, <<"shutdown">>)
    /\ state_' = "kDisconnecting"
    /\ UNCHANGED <<events_, watched, outputBuffer_, removed, queues, loop, unsent, owner,
                   kernel, history>>

\* runInLoop: sendInLoop or shutdownInLoop is queued.
RunInLoop(t) ==
    /\ call[t] \notin {<<>>, <<"set">>}
    /\ Goes(t, call[t], <<>>)
    /\ QueueInLoop(<<call[t]>>)
    /\ UNCHANGED <<conn, functors, loop, unsent, owner, kernel, history>>

-----------------------------------------------------------------------------
(* The loop: epoll_wait and the dispatch of what it reports.                *)

Hup == peer \in {"reset", "dead"} \/ (peer = "fin" /\ shutWr)

\* A hangup with EPOLLIN counts as EPOLLIN only.
Ready ==
    {e \in {"hup", "error", "read", "write"} :
        /\ watched
        /\ e = "hup" => Hup /\ "read" \notin events_
        /\ e = "error" => peer = "reset"
        /\ e = "read" => e \in events_ /\ (input \/ peer # "open")
        /\ e = "write" => e \in events_ /\ (room > 0 \/ WriteFails)}

\* Something is ready, or queueInLoop has woken the loop up.
Poll ==
    /\ pc = "poll" /\ (Ready # {} \/ pendingFunctors_ # <<>>)
    /\ pc' = "dispatch" /\ revents' = Ready
    /\ UNCHANGED <<conn, queues, after, users, owner, kernel, history>>

\* handleEventWithGuard goes through its four cases in this order.
Dispatch(e) ==
    /\ pc = "dispatch" /\ e \in revents
    /\ e = "error" => "hup" \notin revents
    /\ e = "read" => revents \cap {"hup", "error"} = {}
    /\ e = "write" => revents = {"write"}
    /\ revents' = revents \ {e}

\* A slip: the interests stay.
KeepAll == UNCHANGED <<events_, watched>>

DisableAll == Update({})

\* handleClose, up to the user's callback.
HandleClose ==
    /\ state_' = "kDisconnected" /\ DisableAll
    /\ downs' = downs + 1
    /\ CallUser("closing")
    /\ UNCHANGED <<outputBuffer_, removed, queues, users, owner>>
    /\ UNCHANGED <<accepted, ups, warnings, brokenPipe>>

\* A slip: the TcpServer did not set a closeCallback_.
NotTold == owner

\* Once ~TcpServer has begun, the base loop is over, and what removeConnection
\* queues there does not run (TcpServer).
Told == IF owner = "stopped" THEN owner ELSE "removing"

\* ... and from it on: closeCallback_ is TcpServer::removeConnection.
CloseCallback ==
    /\ pc = "closing" /\ pc' = "dispatch"
    /\ owner' = Told
    /\ UNCHANGED <<conn, queues, after, revents, users, kernel, history>>

DispatchHup == Dispatch("hup") /\ HandleClose /\ UNCHANGED kernel

\* handleError only looks at SO_ERROR, which clears it.
DispatchError ==
    /\ Dispatch("error")
    /\ peer' = IF peer = "reset" THEN "dead" ELSE peer
    /\ UNCHANGED <<conn, queues, pc, after, users, owner, input, room, shutWr, wire,
                   history>>

\* handleRead: bytes for the message callback; an error, which handleError
\* clears and logs; or the end.
DispatchRead ==
    /\ Dispatch("read")
    /\ UNCHANGED <<room, shutWr, wire>>
    /\ \/ /\ peer = "reset" /\ ~input /\ peer' = "dead"
          /\ UNCHANGED <<conn, queues, pc, after, users, owner, input, history>>
       \/ /\ input /\ input' = FALSE
          /\ CallUser("dispatch")
          /\ UNCHANGED <<conn, queues, users, owner, peer, history>>
       \/ /\ peer \in {"fin", "dead"} /\ ~input
          /\ HandleClose
          /\ UNCHANGED <<input, peer>>

\* A slip: the interest in writing stays when all is written.
KeepWriting == UNCHANGED <<events_, watched>>

DisableWriting == Update(events_ \ {"write"})

\* A slip: a shutdown that waited for the output is forgotten.
ForgetShutdown == UNCHANGED shutWr

\* A shutdown() may have waited for the output.
ShutdownAfterOutput == shutWr' = (shutWr \/ state_ = "kDisconnecting")

\* handleWrite when all is written.
Drained ==
    /\ DisableWriting
    /\ QueueInLoop(<< <<"writeComplete">> >>)
    /\ ShutdownAfterOutput

\* A slip: what was written stays in the buffer.
WrittenStays(n) == Rest(outputBuffer_, n - 1)

Retrieved(n) == Rest(outputBuffer_, n)

\* handleWrite.
DispatchWrite ==
    /\ Dispatch("write")
    /\ UNCHANGED <<state_, removed, functors, pc, after, users, owner, accepted, ups,
                   downs>>
    /\ \/ /\ ~IsWriting
          /\ UNCHANGED <<events_, watched, outputBuffer_, pendingFunctors_, kernel, warnings,
                         brokenPipe>>
       \/ /\ IsWriting /\ WriteFails /\ FailedWrite
          /\ UNCHANGED <<events_, watched, outputBuffer_, pendingFunctors_, warnings>>
       \/ /\ IsWriting /\ ~WriteFails /\ room > 0
          /\ \E n \in Takes(Len(outputBuffer_)) :
              /\ outputBuffer_' = Retrieved(n)
              /\ wire' = wire \o First(outputBuffer_, n)
              /\ room' = room - n
              /\ warnings' = IF Len(outputBuffer_) - n < HighWaterMark THEN 0
                             ELSE warnings
              /\ \/ n = Len(outputBuffer_) /\ Drained
                 \/ /\ n < Len(outputBuffer_)
                    /\ UNCHANGED <<events_, watched, pendingFunctors_, shutWr>>
          /\ UNCHANGED <<input, peer, brokenPipe>>

-----------------------------------------------------------------------------
(* The loop: pending functors.                                             *)

DoPendingFunctors ==
    /\ pc = "dispatch" /\ revents = {} /\ pc' = "functors"
    /\ functors' = pendingFunctors_ /\ pendingFunctors_' = <<>>
    /\ UNCHANGED <<conn, after, revents, users, owner, kernel, history>>

Runs(op) ==
    /\ pc = "functors" /\ functors # <<>> /\ Head(functors)[1] = op
    /\ functors' = Tail(functors)
    /\ UNCHANGED <<revents, users, owner>>

RunEstablished ==
    /\ Runs("connectEstablished")
    /\ state_' = "kConnected" /\ Update(events_ \cup {"read"})
    /\ ups' = ups + 1 /\ CallUser("functors")
    /\ UNCHANGED <<outputBuffer_, removed, pendingFunctors_, kernel, accepted, downs,
                   warnings, brokenPipe>>

RunSend ==
    /\ Runs("send")
    /\ \E data \in Memory(Head(functors)[2]) : SendInLoop(Head(functors)[2], data)
    /\ UNCHANGED <<pc, after>>

RunShutdown ==
    /\ Runs("shutdown") /\ ShutdownInLoop
    /\ UNCHANGED <<conn, pendingFunctors_, pc, after, input, peer, room, wire, history>>

\* writeCompleteCallback_ or highWaterMarkCallback_.
RunCallback ==
    /\ Runs("writeComplete") \/ Runs("highWaterMark")
    /\ CallUser("functors")
    /\ UNCHANGED <<conn, pendingFunctors_, kernel, history>>

\* A slip: connectDestroyed does not look at state_.
ClosesAlways == TRUE

StillConnected == state_ = "kConnected"

\* connectDestroyed looks at state_ ...
RunDestroyed ==
    /\ Runs("connectDestroyed")
    /\ pc' = IF StillConnected THEN "destroying" ELSE "removing"
    /\ UNCHANGED <<conn, pendingFunctors_, after, kernel, history>>

\* ... closes the connection if the server stopped under it ...
Destroying ==
    /\ pc = "destroying"
    /\ state_' = "kDisconnected" /\ DisableAll /\ downs' = downs + 1
    /\ CallUser("removing")
    /\ UNCHANGED <<outputBuffer_, removed, queues, revents, users, owner, kernel,
                   accepted, ups, warnings, brokenPipe>>

\* ... and takes the channel out of the poller.
Removing ==
    /\ pc = "removing" /\ pc' = "functors"
    /\ removed' = TRUE /\ watched' = FALSE
    /\ UNCHANGED <<state_, events_, outputBuffer_, queues, after, revents, users, owner, kernel,
                   history>>

PollAgain ==
    /\ pc = "functors" /\ functors = <<>> /\ pc' = "poll"
    /\ UNCHANGED <<conn, queues, after, revents, users, owner, kernel, history>>

UserReturns ==
    /\ pc = "user" /\ pc' = after
    /\ UNCHANGED <<conn, queues, after, revents, users, owner, kernel, history>>

-----------------------------------------------------------------------------
(* The base loop, the kernel and the peer.                                 *)

\* TcpServer::removeConnectionInLoop.
ServerRemoves ==
    /\ owner = "removing" /\ owner' = "removed"
    /\ QueueInLoop(<< <<"connectDestroyed">> >>)
    /\ UNCHANGED <<conn, functors, loop, users, kernel, history>>

\* TcpServer::~TcpServer, with the connection in its map.
ServerStops ==
    /\ ServerMayStop /\ owner = "server" /\ owner' = "stopped"
    /\ QueueInLoop(<< <<"connectDestroyed">> >>)
    /\ UNCHANGED <<conn, functors, loop, users, kernel, history>>

PeerSends ==
    /\ peer = "open" /\ ~input /\ input' = TRUE
    /\ UNCHANGED <<conn, queues, loop, users, owner, peer, room, shutWr, wire, history>>

PeerReads ==
    /\ peer \in {"open", "fin"} /\ room < SendBuffer /\ room' = room + 1
    /\ UNCHANGED <<conn, queues, loop, users, owner, input, peer, shutWr, wire, history>>

PeerLeaves ==
    /\ \/ peer = "open" /\ peer' = "fin"
       \/ peer \in {"open", "fin"} /\ peer' = "reset"
    /\ input' = input \/ (peer' = "reset" /\ input' = FALSE)
    /\ UNCHANGED <<conn, queues, loop, users, owner, room, shutWr, wire, history>>

LoopStep ==
    \/ Poll \/ DispatchHup \/ DispatchError \/ DispatchRead \/ DispatchWrite
    \/ CloseCallback \/ DoPendingFunctors \/ RunEstablished \/ RunSend
    \/ RunShutdown \/ RunCallback \/ RunDestroyed \/ Destroying \/ Removing
    \/ PollAgain \/ UserReturns

UserStep == UserShutdown \/ \E m \in Messages : UserSend(m)

ThreadStep(t) ==
    \/ ShutdownCheck(t) \/ ShutdownSet(t) \/ RunInLoop(t)
    \/ \E m \in Messages : SendCheck(t, m)

Next ==
    \/ LoopStep \/ UserStep \/ \E t \in Threads : ThreadStep(t)
    \/ ServerRemoves \/ ServerStops \/ PeerSends \/ PeerReads \/ PeerLeaves

\* The loops run, callbacks return, a thread inside a call goes on, and a peer
\* that keeps its side open reads.
Fairness ==
    /\ WF_vars(LoopStep) /\ WF_vars(ServerRemoves) /\ WF_vars(PeerReads)
    /\ \A t \in Threads : WF_vars(ShutdownSet(t) \/ RunInLoop(t))

Spec == Init /\ [][Next]_vars
FairSpec == Spec /\ Fairness
-----------------------------------------------------------------------------
(* What must hold, whoever calls.                                          *)

\* Types; a write never takes more than the socket has room for.
TypeOK ==
    /\ state_ \in {"kDisconnected", "kConnecting", "kConnected", "kDisconnecting"}
    /\ events_ \subseteq {"read", "write"} /\ watched \in BOOLEAN
    /\ outputBuffer_ \in Seq(Bytes) /\ removed \in BOOLEAN
    /\ pendingFunctors_ \in Seq(Functors) /\ functors \in Seq(Functors)
    /\ pc \in {"poll", "dispatch", "functors", "user", "closing", "destroying",
               "removing"}
    /\ after \in {"poll", "dispatch", "functors", "closing", "removing"}
    /\ revents \subseteq {"hup", "error", "read", "write"}
    /\ call \in [Threads -> CallStates] /\ unsent \subseteq Messages
    /\ owner \in {"server", "removing", "removed", "stopped"}
    /\ input \in BOOLEAN /\ peer \in {"open", "fin", "reset", "dead"}
    /\ room \in 0..SendBuffer /\ shutWr \in BOOLEAN /\ wire \in Seq(Bytes)
    /\ accepted \in Seq(Bytes) /\ ups \in Nat /\ downs \in Nat /\ warnings \in Nat
    /\ brokenPipe \in BOOLEAN

\* What sendInLoop took is on the wire and behind it in the buffer: the direct
\* write, the buffered rest and handleWrite lose, repeat and reorder nothing.
StreamInOrder == accepted = wire \o outputBuffer_

\* Between the connection callbacks the channel asks for EPOLLOUT exactly when
\* bytes wait: more would spin the loop, less would leave them there.
WriteInterest ==
    ups > downs => ("write" \in events_ <=> outputBuffer_ # <<>>)

\* One high water callback when the output crosses the mark, and none while it
\* stays above.
HighWaterOnce ==
    warnings = IF Len(outputBuffer_) >= HighWaterMark THEN 1 ELSE 0

-----------------------------------------------------------------------------
(* What must hold when only the loop's thread calls shutdown().             *)

\* The stream is closed after its last byte.
FinIsLast == shutWr => outputBuffer_ = <<>>

\* A closed connection is out of epoll for good: none of the sends that are
\* still on their way to the loop registers it again.  (It takes a server that
\* stops while the connection is shutting down to undo this.)
StaysOutOfPoller ==
    state_ = "kDisconnected" \/ (removed /\ owner # "stopped") => ~watched

\* connectionCallback_ tells of the connection once, and once of its end, when
\* it can no longer be used; a destroyed connection has told, unless the server
\* stopped while it was shutting down.
CallbacksOnce ==
    /\ ups <= 1 /\ downs <= ups
    /\ downs > 0 <=> state_ = "kDisconnected"
    /\ removed => downs = 1 \/ (state_ = "kDisconnecting" /\ owner = "stopped")

\* The connection is the byte stream that its user takes it for.
Stream ==
    INSTANCE ByteStream WITH
        taken <- accepted, delivered <- wire, ended <- shutWr,
        phase <- IF ups = 0 THEN "new" ELSE IF downs = 0 THEN "up" ELSE "down"
StreamSpec == Stream!Spec

-----------------------------------------------------------------------------
(* What must happen while the server runs.                                 *)

\* Bytes taken are delivered to a peer that reads, or the connection ends.
AllDelivered ==
    wire # accepted ~> wire = accepted \/ downs > 0 \/ owner = "stopped"

\* shutdown() closes the stream, also when output had to wait, or the
\* connection ends.
ShutdownEnds ==
    state_ = "kDisconnecting" ~> shutWr \/ downs > 0 \/ owner = "stopped"

\* When the peer goes, by FIN or RST, the connection is told of, destroyed and
\* out of the poller in the end.
PeerGoneIsNoticed ==
    peer # "open" ~> removed /\ (downs > 0 \/ owner = "stopped")
=============================================================================
