---------------------- MODULE TcpConnectionLife_proofs ----------------------
(***************************************************************************)
(* The life of a connection, for any number of threads and messages.       *)
(*                                                                         *)
(* Whoever calls, nothing happens before connectEstablished has run: it is *)
(* the first functor of the loop, and until then there are no interest, no *)
(* output and no call (BeginInv).  From then on EPOLLOUT is asked for      *)
(* exactly while bytes wait.                                               *)
(*                                                                         *)
(* If only the loop's thread calls shutdown(), state_ never leaves         *)
(* "kDisconnected" (CloseInv).  Everything else follows from it: the       *)
(* callbacks come once, the channel stays out of epoll, the end of the     *)
(* stream is behind its last byte, and the connection is a ByteStream.     *)
(***************************************************************************)
EXTENDS TcpConnection_proofs

Established == <<"connectEstablished">>
Destroyed == <<"connectDestroyed">>

Holds(q, f) == \E i \in DOMAIN q : q[i] = f

\* The functor is still to run, or running's vector holds it.
Waits(f) == Holds(functors, f) \/ Holds(pendingFunctors_, f)

\* From the place on, q holds nothing but connectDestroyed.
OnlyDestroyed(q, from) == \A i \in from..Len(q) : q[i] = Destroyed

-----------------------------------------------------------------------------
(* The queue of functors.                                                  *)

LEMMA Appended ==
  ASSUME NEW q \in Seq(Functors), NEW g \in Functors
  PROVE  /\ Len(q \o <<g>>) = Len(q) + 1
         /\ \A i \in 1..Len(q) : (q \o <<g>>)[i] = q[i]
         /\ (q \o <<g>>)[Len(q) + 1] = g
  OBVIOUS

LEMMA HoldsAppended ==
  ASSUME NEW q \in Seq(Functors), NEW g \in Functors, NEW f, Holds(q \o <<g>>, f)
  PROVE  Holds(q, f) \/ f = g
  <1> DEFINE r == q \o <<g>>
  <1>1. /\ DOMAIN r = 1..(Len(q) + 1) /\ r[Len(q) + 1] = g
        /\ \A i \in 1..Len(q) : r[i] = q[i]
    BY Appended
  <1> HIDE DEF r
  <1>2. PICK i \in 1..(Len(q) + 1) : r[i] = f
    BY <1>1 DEF Holds, r
  <1>3. CASE i \in 1..Len(q)
    BY <1>1, <1>2, <1>3 DEF Holds
  <1>4. CASE i = Len(q) + 1
    BY <1>1, <1>2, <1>4
  <1>5. i \in 1..Len(q) \/ i = Len(q) + 1
    OBVIOUS
  <1> QED  BY <1>3, <1>4, <1>5

LEMMA OnlyAppended ==
  ASSUME NEW q \in Seq(Functors), NEW from \in Nat \ {0}, OnlyDestroyed(q, from)
  PROVE  OnlyDestroyed(q \o <<Destroyed>>, from)
  <1> DEFINE r == q \o <<Destroyed>>
  <1>1. Destroyed \in Functors
    BY DEF Destroyed, Functors
  <1>2. /\ Len(r) = Len(q) + 1 /\ r[Len(q) + 1] = Destroyed
        /\ \A i \in 1..Len(q) : r[i] = q[i]
    BY <1>1, Appended
  <1> HIDE DEF r
  <1>3. ASSUME NEW i \in from..Len(r) PROVE r[i] = Destroyed
    <2>1. CASE i \in 1..Len(q)
      BY <1>2, <2>1 DEF OnlyDestroyed
    <2>2. CASE i = Len(q) + 1
      BY <1>2, <2>2
    <2>3. i \in 1..Len(q) \/ i = Len(q) + 1
      BY <1>2
    <2> QED  BY <2>1, <2>2, <2>3
  <1> QED  BY <1>3 DEF OnlyDestroyed, r

LEMMA HoldsTail ==
  ASSUME NEW q \in Seq(Functors), q # <<>>, NEW f, Holds(Tail(q), f)
  PROVE  \E i \in 2..Len(q) : q[i] = f
  <1>1. /\ Len(Tail(q)) = Len(q) - 1 /\ DOMAIN Tail(q) = 1..(Len(q) - 1)
        /\ \A i \in 1..(Len(q) - 1) : Tail(q)[i] = q[i + 1]
    OBVIOUS
  <1>2. PICK i \in 1..(Len(q) - 1) : Tail(q)[i] = f
    BY <1>1 DEF Holds
  <1>3. i + 1 \in 2..Len(q) /\ q[i + 1] = f
    BY <1>1, <1>2
  <1> QED  BY <1>3

LEMMA HeadHeld ==
  ASSUME NEW q \in Seq(Functors), q # <<>>
  PROVE  Holds(q, Head(q))
  BY DEF Holds


\* Who queues what.  Nobody queues connectEstablished: newConnection did.
Queuer(f) ==
    \/ f \in {<<"writeComplete">>, <<"highWaterMark">>}
    \/ f = Destroyed /\ (ServerRemoves \/ ServerStops)
    \/ \E t \in Threads : RunInLoop(t) /\ f = call[t]

LEMMA SendQueues ==
  ASSUME NEW m, NEW data, SendInLoop(m, data)
  PROVE  \/ UNCHANGED pendingFunctors_
         \/ QueueInLoop(<< <<"writeComplete">> >>)
         \/ QueueInLoop(<< <<"highWaterMark">> >>)
  BY DEF SendInLoop, BufferRest

\* What waits after a step has waited before it, or was queued by it.
LEMMA WaitsBefore ==
  ASSUME StreamTypeOK, [Next]_vars, NEW f, Waits(f)'
  PROVE  Waits(f) \/ Queuer(f)
  <1>0. functors \in Seq(Functors) /\ pendingFunctors_ \in Seq(Functors)
    BY DEF StreamTypeOK
  <1>1. \/ UNCHANGED pendingFunctors_
        \/ \E g \in Functors : Queuer(g) /\ QueueInLoop(<<g>>)
        \/ DoPendingFunctors
    <2>1. \A g : g \in {<<"writeComplete">>, <<"highWaterMark">>} =>
                     g \in Functors /\ Queuer(g)
      BY DEF Functors, Queuer
    <2>2. CASE Sends
      BY <2>1, <2>2, SendQueues DEF Sends, RunSend, UserSend
    <2>3. CASE DispatchWrite
      BY <2>1, <2>3 DEF DispatchWrite, Drained
    <2>4. CASE Queues
      <3>1. CASE ServerRemoves \/ ServerStops
        <4>1. Destroyed \in Functors /\ Queuer(Destroyed)
          BY <3>1 DEF Functors, Destroyed, Queuer
        <4>2. QueueInLoop(<<Destroyed>>)
          BY <3>1 DEF ServerRemoves, ServerStops, Destroyed
        <4> QED  BY <4>1, <4>2
      <3>2. CASE \E t \in Threads : RunInLoop(t)
        <4>1. PICK t \in Threads : RunInLoop(t)
          BY <3>2
        <4>2. call[t] \in Functors
          BY <4>1 DEF RunInLoop, StreamTypeOK, CallStates, Functors
        <4>3. Queuer(call[t]) /\ QueueInLoop(<<call[t]>>)
          BY <4>1 DEF Queuer, RunInLoop
        <4> QED  BY <4>2, <4>3
      <3>3. CASE \/ \E t \in Threads : ShutdownCheck(t) \/ ShutdownSet(t)
                 \/ \E t \in Threads, m \in Messages : SendCheck(t, m)
        BY <3>3 DEF ShutdownCheck, ShutdownSet, SendCheck, queues
      <3> QED  BY <2>4, <3>1, <3>2, <3>3 DEF Queues
    <2>5. CASE Others
      BY <2>5 DEF Others, Poll, DispatchHup, DispatchError, DispatchRead,
             CloseCallback, RunEstablished, RunShutdown, RunCallback,
             RunDestroyed, Destroying, Removing, PollAgain, UserReturns,
             UserShutdown, PeerSends, PeerReads, PeerLeaves, HandleClose,
             vars, queues
    <2> QED  BY <2>2, <2>3, <2>4, <2>5, StepKinds
  <1>2. \/ UNCHANGED functors
        \/ functors # <<>> /\ functors' = Tail(functors)
        \/ DoPendingFunctors
    <2>1. CASE Sends \/ DispatchWrite
      BY <2>1 DEF Sends, RunSend, UserSend, Runs, DispatchWrite
    <2>2. CASE Queues
      BY <2>2 DEF Queues, ServerRemoves, ServerStops, RunInLoop, ShutdownCheck,
                  ShutdownSet, SendCheck, queues
    <2>3. CASE Others
      BY <2>3 DEF Others, Poll, DispatchHup, DispatchError, DispatchRead,
             CloseCallback, RunEstablished, RunShutdown, RunCallback,
             RunDestroyed, Destroying, Removing, PollAgain, UserReturns,
             UserShutdown, PeerSends, PeerReads, PeerLeaves, HandleClose, Runs,
             vars, queues
    <2> QED  BY <2>1, <2>2, <2>3, StepKinds
  <1>3. CASE DoPendingFunctors
    <2>1. functors' = pendingFunctors_ /\ pendingFunctors_' = <<>>
      BY <1>3 DEF DoPendingFunctors
    <2>2. Holds(pendingFunctors_, f) \/ Holds(<<>>, f)
      BY <2>1 DEF Waits, Holds
    <2>3. ~Holds(<<>>, f)
      BY DEF Holds
    <2> QED  BY <2>2, <2>3 DEF Waits
  <1>4. ASSUME Holds(pendingFunctors_', f), ~DoPendingFunctors
        PROVE  Waits(f) \/ Queuer(f)
    <2>1. CASE UNCHANGED pendingFunctors_
      BY <1>4, <2>1 DEF Waits
    <2>2. CASE \E g \in Functors : Queuer(g) /\ QueueInLoop(<<g>>)
      <3>1. PICK g \in Functors : Queuer(g) /\ QueueInLoop(<<g>>)
        BY <2>2
      <3>2. Holds(pendingFunctors_ \o <<g>>, f)
        BY <1>4, <3>1 DEF QueueInLoop
      <3>3. Holds(pendingFunctors_, f) \/ f = g
        BY <3>2, <1>0, HoldsAppended
      <3> QED  BY <3>1, <3>3 DEF Waits
    <2> QED  BY <1>1, <1>4, <2>1, <2>2
  <1>5. ASSUME Holds(functors', f), ~DoPendingFunctors
        PROVE  Waits(f)
    <2>1. CASE UNCHANGED functors
      BY <1>5, <2>1 DEF Waits
    <2>2. CASE functors # <<>> /\ functors' = Tail(functors)
      <3>1. Holds(Tail(functors), f)
        BY <1>5, <2>2
      <3>2. PICK i \in 2..Len(functors) : functors[i] = f
        BY <2>2, <3>1, <1>0, HoldsTail
      <3> QED  BY <3>2, <1>0 DEF Waits, Holds
    <2> QED  BY <1>2, <1>5, <2>1, <2>2
  <1>6. Holds(functors', f) \/ Holds(pendingFunctors_', f)
    BY DEF Waits, Holds
  <1> QED  BY <1>3, <1>4, <1>5, <1>6


-----------------------------------------------------------------------------
(* What sendInLoop and handleWrite do to the connection.                   *)

\* A string leaves the output alone, or waits behind it and asks for EPOLLOUT.
\* Behind the end of the stream, or in a closed connection, it does nothing.
LEMMA SendDoes ==
  ASSUME StreamTypeOK, ControlTypeOK, NEW m \in Messages, NEW data \in Seq(Bytes),
         SendInLoop(m, data)
  PROVE  /\ UNCHANGED <<state_, removed, ups, downs, shutWr>>
         /\ \/ UNCHANGED <<events_, watched, outputBuffer_>>
            \/ outputBuffer_' # <<>> /\ events_' = events_ \cup {"write"}
         /\ state_ = "kDisconnected" \/ (shutWr /\ WritesDirectly) =>
                UNCHANGED <<events_, watched, outputBuffer_, wire, accepted>>
  <1>0. UNCHANGED <<state_, removed, ups, downs>>
    BY DEF SendInLoop
  <1>1. CASE state_ = "kDisconnected"
    BY <1>0, <1>1 DEF SendInLoop, kernel
  <1>2. CASE state_ # "kDisconnected" /\ WritesDirectly /\ WriteFails
    BY <1>0, <1>2 DEF SendInLoop, FailedWrite
  <1>3. CASE state_ # "kDisconnected" /\ ~(WritesDirectly /\ WriteFails)
    <2>1. PICK n \in Nat :
              /\ n \in IF WritesDirectly THEN Takes(Len(data)) ELSE {0}
              /\ Write(data, n)
              /\ \/ UNCHANGED <<events_, watched, outputBuffer_>>
                 \/ n < Len(data) /\ BufferRest(Rest(data, n))
      BY <1>3 DEF SendInLoop, Takes
    <2>2. UNCHANGED shutWr /\ ~(shutWr /\ WritesDirectly)
      BY <1>3, <2>1 DEF Write, WriteFails
    <2>3. CASE n < Len(data) /\ BufferRest(Rest(data, n))
      <3>1. n \in 0..Len(data)
        BY <2>3
      <3>2. Rest(data, n) \in Seq(Bytes) /\ Len(Rest(data, n)) = Len(data) - n
        BY <3>1, CutAndJoin
      <3> DEFINE r == Rest(data, n)
      <3>3. r \in Seq(Bytes) /\ Len(r) > 0
        BY <2>3, <3>2
      <3>4. /\ outputBuffer_' = outputBuffer_ \o r
            /\ EnableWriting \/ (IsWriting /\ UNCHANGED events_)
        BY <2>3 DEF BufferRest
      <3> HIDE DEF r
      <3>5. outputBuffer_' # <<>>
        <4>1. outputBuffer_ \in Seq(Bytes)
          BY DEF StreamTypeOK
        <4>2. Len(outputBuffer_ \o r) = Len(outputBuffer_) + Len(r)
          BY <3>3, <4>1, ConcatProperties
        <4>3. Len(outputBuffer_') > 0
          BY <3>3, <3>4, <4>1, <4>2
        <4> QED  BY <4>3
      <3>6. events_' = events_ \cup {"write"}
        BY <3>4 DEF EnableWriting, Update, IsWriting
      <3> QED  BY <1>0, <1>3, <2>2, <3>5, <3>6
    <2> QED  BY <1>0, <1>3, <2>1, <2>2, <2>3
  <1> QED  BY <1>1, <1>2, <1>3

\* Both ways to sendInLoop.
LEMMA SendsDo ==
  ASSUME StreamTypeOK, ControlTypeOK, Sends
  PROVE  /\ UNCHANGED <<state_, removed, ups, downs, shutWr>>
         /\ UNCHANGED <<pc, after, revents, owner, call>>
         /\ \/ UNCHANGED <<events_, watched, outputBuffer_>>
            \/ outputBuffer_' # <<>> /\ events_' = events_ \cup {"write"}
         /\ state_ = "kDisconnected" \/ (shutWr /\ WritesDirectly) =>
                UNCHANGED <<events_, watched, outputBuffer_, wire, accepted>>
  <1>1. PICK m \in Messages, data \in Seq(Bytes) : SendInLoop(m, data)
    <2>1. CASE RunSend
      <3>1. Head(functors)[2] \in Messages
        BY <2>1, SendsMessage DEF RunSend
      <3>2. PICK data \in Memory(Head(functors)[2]) :
                 SendInLoop(Head(functors)[2], data)
        BY <2>1 DEF RunSend
      <3>3. data \in Seq(Bytes)
        BY <3>1, <3>2, MemoryTyped
      <3> QED  BY <3>1, <3>2, <3>3
    <2>2. CASE \E m \in Messages : UserSend(m)
      <3>1. PICK m \in Messages : UserSend(m)
        BY <2>2
      <3>2. [i \in 1..Size[m] |-> m] \in Seq(Bytes)
        BY MessagesAssumption DEF Bytes
      <3> QED  BY <3>1, <3>2 DEF UserSend
    <2> QED  BY <2>1, <2>2 DEF Sends
  <1>2. UNCHANGED <<pc, after, revents, owner, call>>
    BY DEF Sends, RunSend, UserSend, Runs, loop, users
  <1> QED  BY <1>1, <1>2, SendDoes

\* handleWrite works only while there is interest in writing and the stream is
\* open; it lets go of both when all is written.
LEMMA WriteDoes ==
  ASSUME StreamTypeOK, ControlTypeOK, DispatchWrite
  PROVE  /\ UNCHANGED <<state_, removed, functors, pc, after, owner, call, accepted,
                        ups, downs>>
         /\ pc = "dispatch" /\ revents' \subseteq revents
         /\ \/ UNCHANGED <<events_, watched, outputBuffer_, wire, shutWr>>
            \/ /\ IsWriting /\ ~shutWr
               /\ outputBuffer_' # <<>> /\ UNCHANGED <<events_, watched, shutWr>>
            \/ /\ IsWriting /\ ~shutWr
               /\ outputBuffer_' = <<>> /\ events_' = events_ \ {"write"}
  <1>1. /\ UNCHANGED <<state_, removed, functors, pc, after, owner, call, accepted,
                       ups, downs>>
        /\ pc = "dispatch" /\ revents' \subseteq revents
    BY DEF DispatchWrite, Dispatch, users
  <1>2. CASE ~IsWriting \/ WriteFails
    <2>1. UNCHANGED <<events_, watched, outputBuffer_, wire, shutWr>>
      BY <1>2 DEF DispatchWrite, FailedWrite, kernel
    <2> QED  BY <1>1, <2>1
  <1>3. CASE IsWriting /\ ~WriteFails
    <2>0. outputBuffer_ \in Seq(Bytes) /\ Len(outputBuffer_) \in Nat /\ ~shutWr
      BY <1>3 DEF StreamTypeOK, WriteFails
    <2>1. PICK n \in Takes(Len(outputBuffer_)) :
              /\ outputBuffer_' = Rest(outputBuffer_, n)
              /\ \/ n = Len(outputBuffer_) /\ DisableWriting
                 \/ /\ n < Len(outputBuffer_)
                    /\ UNCHANGED <<events_, watched, shutWr>>
      BY <1>3 DEF DispatchWrite, Drained, Retrieved
    <2>2. n \in 0..Len(outputBuffer_)
      BY <2>0, <2>1 DEF Takes
    <2>3. /\ outputBuffer_' \in Seq(Bytes)
          /\ Len(outputBuffer_') = Len(outputBuffer_) - n
      BY <2>0, <2>1, <2>2, CutAndJoin
    <2>4. CASE n = Len(outputBuffer_) /\ DisableWriting
      <3>1. outputBuffer_' = <<>>
        BY <2>0, <2>3, <2>4
      <3>2. events_' = events_ \ {"write"}
        BY <2>4 DEF DisableWriting, Update
      <3> QED  BY <1>1, <1>3, <2>0, <3>1, <3>2
    <2>5. CASE n < Len(outputBuffer_) /\ UNCHANGED <<events_, watched, shutWr>>
      <3>1. outputBuffer_' # <<>>
        BY <2>0, <2>2, <2>3, <2>5
      <3> QED  BY <1>1, <1>3, <2>0, <2>5, <3>1
    <2> QED  BY <2>1, <2>4, <2>5
  <1> QED  BY <1>2, <1>3


-----------------------------------------------------------------------------
(* Before connectEstablished.                                              *)

\* Nothing has happened: connectEstablished comes first, and only a server that
\* has stopped already has queued something behind it.
Fresh ==
    /\ state_ = "kConnecting" /\ events_ = {} /\ ~watched /\ outputBuffer_ = <<>>
    /\ ~removed /\ revents = {} /\ downs = 0
    /\ wire = <<>> /\ accepted = <<>> /\ ~shutWr
    /\ \A t \in Threads : call[t] = <<>>
    /\ owner \in {"server", "stopped"}
    /\ \/ /\ pc \in {"poll", "dispatch", "functors"} /\ functors = <<>>
          /\ pendingFunctors_ # <<>> /\ Head(pendingFunctors_) = Established
          /\ OnlyDestroyed(pendingFunctors_, 2)
       \/ /\ pc = "functors" /\ functors # <<>> /\ Head(functors) = Established
          /\ OnlyDestroyed(functors, 2) /\ OnlyDestroyed(pendingFunctors_, 1)

BeginInv ==
    /\ ups \in {0, 1}
    /\ ups = 0 => Fresh
    /\ ups = 1 => state_ # "kConnecting" /\ ~Waits(Established)

LEMMA FreshHead ==
  ASSUME StreamTypeOK, Fresh, NEW op, Runs(op)
  PROVE  /\ op = "connectEstablished" /\ OnlyDestroyed(functors, 2)
         /\ OnlyDestroyed(pendingFunctors_, 1)
  BY DEF Fresh, Runs, Established

\* All that may happen.
LEMMA FreshSteps ==
  ASSUME StreamTypeOK, Fresh, ups = 0, [Next]_vars
  PROVE  \/ Poll \/ DoPendingFunctors \/ RunEstablished \/ PollAgain \/ ServerStops
         \/ PeerSends \/ PeerReads \/ PeerLeaves \/ UNCHANGED vars
  <1>1. CASE Sends \/ DispatchWrite
    <2>1. ~Runs("send")
      BY FreshHead
    <2> QED  BY <1>1, <2>1 DEF Sends, RunSend, UserSend, DispatchWrite, Dispatch, Fresh
  <1>2. CASE Queues
    <2>1. ~ServerRemoves
      BY DEF ServerRemoves, Fresh
    <2>2. ASSUME NEW t \in Threads
          PROVE  /\ ~RunInLoop(t) /\ ~ShutdownCheck(t) /\ ~ShutdownSet(t)
                 /\ \A m \in Messages : ~SendCheck(t, m)
      BY DEF RunInLoop, ShutdownCheck, ShutdownSet, SendCheck, Goes, Fresh
    <2> QED  BY <1>2, <2>1, <2>2 DEF Queues
  <1>3. CASE Others
    <2>1. ~DispatchHup /\ ~DispatchError /\ ~DispatchRead
      BY DEF DispatchHup, DispatchError, DispatchRead, Dispatch, Fresh
    <2>2. /\ ~CloseCallback /\ ~Destroying /\ ~Removing /\ ~UserReturns
          /\ ~UserShutdown
      BY DEF CloseCallback, Destroying, Removing, UserReturns, UserShutdown, Fresh
    <2>3. ~RunShutdown /\ ~RunCallback /\ ~RunDestroyed
      BY FreshHead DEF RunShutdown, RunCallback, RunDestroyed
    <2> QED  BY <1>3, <2>1, <2>2, <2>3 DEF Others
  <1> QED  BY <1>1, <1>2, <1>3, StepKinds

\* The first thing that happens is connectEstablished.
LEMMA FreshKept ==
  ASSUME StreamTypeOK, Fresh, ups = 0, [Next]_vars
  PROVE  \/ ups' = 0 /\ Fresh'
         \/ /\ RunEstablished /\ ups' = 1 /\ state_' = "kConnected"
            /\ ~Waits(Established)'
  <1>0. functors \in Seq(Functors) /\ pendingFunctors_ \in Seq(Functors)
    BY DEF StreamTypeOK
  <1>1. CASE Poll \/ PollAgain
    <2>1. Ready = {}
      BY DEF Ready, Fresh
    <2>2. /\ UNCHANGED <<state_, events_, watched, outputBuffer_, removed, downs, ups,
                        wire, accepted, shutWr, call, owner, functors,
                        pendingFunctors_>>
          /\ revents' = {} /\ pc' \in {"dispatch", "poll"} /\ functors = <<>>
      BY <1>1, <2>1 DEF Poll, PollAgain, Fresh, conn, queues, users, kernel, history
    <2> QED  BY <2>2 DEF Fresh, OnlyDestroyed
  <1>2. CASE DoPendingFunctors
    <2>1. /\ UNCHANGED <<state_, events_, watched, outputBuffer_, removed, downs, ups,
                        wire, accepted, shutWr, call, owner, revents>>
          /\ pc' = "functors" /\ pc = "dispatch"
          /\ functors' = pendingFunctors_ /\ pendingFunctors_' = <<>>
      BY <1>2 DEF DoPendingFunctors, conn, users, kernel, history
    <2>2. /\ pendingFunctors_ # <<>> /\ Head(pendingFunctors_) = Established
          /\ OnlyDestroyed(pendingFunctors_, 2)
      BY <2>1 DEF Fresh
    <2>3. OnlyDestroyed(functors', 2)
      BY <2>1, <2>2
    <2>4. OnlyDestroyed(pendingFunctors_', 1)
      BY <2>1 DEF OnlyDestroyed
    <2>5. /\ OnlyDestroyed(functors, 2)' /\ OnlyDestroyed(pendingFunctors_, 1)'
      BY <2>3, <2>4 DEF OnlyDestroyed
    <2> QED  BY <2>1, <2>2, <2>5 DEF Fresh
  <1>3. CASE RunEstablished
    <2>1. /\ ups' = 1 /\ state_' = "kConnected" /\ functors' = Tail(functors)
          /\ pendingFunctors_' = pendingFunctors_ /\ functors # <<>>
          /\ Runs("connectEstablished")
      BY <1>3 DEF RunEstablished, Runs
    <2>2. OnlyDestroyed(functors, 2) /\ OnlyDestroyed(pendingFunctors_, 1)
      BY <2>1, FreshHead
    <2>3. Established # Destroyed
      BY DEF Established, Destroyed
    <2>4. ~Holds(Tail(functors), Established)
      BY <1>0, <2>1, <2>2, <2>3, HoldsTail DEF OnlyDestroyed
    <2>5. ~Holds(pendingFunctors_, Established)
      BY <1>0, <2>2, <2>3 DEF OnlyDestroyed, Holds
    <2>6. ~Waits(Established)'
      BY <2>1, <2>4, <2>5 DEF Waits, Holds
    <2> QED  BY <1>3, <2>1, <2>6
  <1>4. CASE ServerStops
    <2>1. /\ UNCHANGED <<state_, events_, watched, outputBuffer_, removed, downs, ups,
                        wire, accepted, shutWr, call, pc, revents, functors>>
          /\ owner' = "stopped"
          /\ pendingFunctors_' = pendingFunctors_ \o <<Destroyed>>
      BY <1>4 DEF ServerStops, QueueInLoop, Destroyed, conn, users, kernel, history,
                  loop
    <2>2. Destroyed \in Functors
      BY DEF Destroyed, Functors
    <2>3. ASSUME NEW from \in {1, 2}, OnlyDestroyed(pendingFunctors_, from)
          PROVE  OnlyDestroyed(pendingFunctors_, from)'
      <3>1. OnlyDestroyed(pendingFunctors_ \o <<Destroyed>>, from)
        BY <1>0, <2>3, OnlyAppended
      <3> QED  BY <2>1, <3>1 DEF OnlyDestroyed
    <2>4. pendingFunctors_ # <<>> =>
              pendingFunctors_' # <<>> /\ Head(pendingFunctors_') = Head(pendingFunctors_)
      BY <1>0, <2>1, <2>2
    <2>5. OnlyDestroyed(functors, 2) => OnlyDestroyed(functors, 2)'
      BY <2>1 DEF OnlyDestroyed
    <2> QED  BY <2>1, <2>3, <2>4, <2>5 DEF Fresh
  <1>5. CASE PeerSends \/ PeerReads \/ PeerLeaves \/ UNCHANGED vars
    <2>1. UNCHANGED <<state_, events_, watched, outputBuffer_, removed, downs, ups,
                     wire, accepted, shutWr, call, owner, pc, revents, functors,
                     pendingFunctors_>>
      BY <1>5 DEF PeerSends, PeerReads, PeerLeaves, vars, conn, queues, users, kernel,
                  history, loop
    <2> QED  BY <2>1 DEF Fresh, OnlyDestroyed
  <1> QED  BY <1>1, <1>2, <1>3, <1>4, <1>5, FreshSteps


LEMMA BeginInitial == Init => BeginInv /\ WriteInterest
  <1> SUFFICES ASSUME Init PROVE BeginInv /\ WriteInterest
    OBVIOUS
  <1>1. /\ functors = <<>> /\ pendingFunctors_ = <<Established>>
        /\ pc = "poll" /\ owner = "server" /\ \A t \in Threads : call[t] = <<>>
    BY DEF Init, Established
  <1>2. Fresh /\ ups = 0
    BY <1>1 DEF Init, Fresh, OnlyDestroyed
  <1>3. downs = 0
    BY DEF Init
  <1> QED  BY <1>2, <1>3 DEF BeginInv, WriteInterest

\* No functor but connectEstablished calls connectEstablished.
LEMMA RunsEstablished ==
  ASSUME StreamTypeOK, RunEstablished
  PROVE  Waits(Established)
  <1>1. functors # <<>> /\ Head(functors) \in Functors
          /\ Head(functors)[1] = "connectEstablished"
    BY RunsTyped DEF RunEstablished, Runs
  <1>2. Head(functors) = Established
    BY <1>1 DEF Functors, Established
  <1>3. functors \in Seq(Functors)
    BY DEF StreamTypeOK
  <1> QED  BY <1>1, <1>2, <1>3, HeadHeld DEF Waits

LEMMA QueuesDo ==
  ASSUME Queues
  PROVE  /\ UNCHANGED <<events_, watched, outputBuffer_, removed, functors, pc, after,
                        revents, ups, downs, wire, accepted, shutWr>>
         /\ state_' \in {state_, "kDisconnecting"}
  BY DEF Queues, ServerRemoves, ServerStops, RunInLoop, ShutdownCheck, ShutdownSet,
         SendCheck, conn, queues, loop, kernel, history

LEMMA BeginKept ==
  ASSUME StreamTypeOK, ControlTypeOK, BeginInv, [Next]_vars
  PROVE  BeginInv'
  <1>1. CASE ups = 0
    <2>1. \/ ups' = 0 /\ Fresh'
          \/ ups' = 1 /\ state_' = "kConnected" /\ ~Waits(Established)'
      BY <1>1, FreshKept DEF BeginInv
    <2> QED  BY <2>1 DEF BeginInv
  <1>2. CASE ups = 1
    <2>0. state_ # "kConnecting" /\ ~Waits(Established) /\ ~RunEstablished
      BY <1>2, RunsEstablished DEF BeginInv
    <2>1. ~Queuer(Established)
      <3>1. ASSUME NEW t \in Threads, RunInLoop(t) PROVE call[t] # Established
        BY <3>1 DEF RunInLoop, StreamTypeOK, CallStates, Established
      <3> QED  BY <3>1 DEF Queuer, Established, Destroyed
    <2>2. ~Waits(Established)'
      BY <2>0, <2>1, WaitsBefore
    <2>3. ups' = ups /\ state_' # "kConnecting"
      <3>1. CASE Sends
        BY <3>1, <2>0, SendsDo
      <3>2. CASE DispatchWrite \/ Queues
        BY <3>2, <2>0, WriteDoes, QueuesDo
      <3>3. CASE Others
        BY <3>3, <2>0 DEF Others, Poll, DispatchHup, DispatchError, DispatchRead,
             CloseCallback, DoPendingFunctors, RunShutdown, RunCallback,
             RunDestroyed, Destroying, Removing, PollAgain, UserReturns,
             UserShutdown, PeerSends, PeerReads, PeerLeaves, HandleClose,
             vars, conn, history
      <3> QED  BY <3>1, <3>2, <3>3, StepKinds
    <2> QED  BY <1>2, <2>2, <2>3 DEF BeginInv
  <1> QED  BY <1>1, <1>2 DEF BeginInv

-----------------------------------------------------------------------------
(* The interest in writing.                                                *)

\* The steps that touch neither the output nor the end of the connection.
LEMMA OthersDo ==
  ASSUME Others, ~RunEstablished
  PROVE  /\ UNCHANGED <<outputBuffer_, wire, accepted, ups>>
         /\ \/ UNCHANGED <<events_, downs>>
            \/ downs' = downs + 1
  BY DEF Others, Poll, DispatchHup, DispatchError, DispatchRead, CloseCallback,
         DoPendingFunctors, RunShutdown, RunCallback, RunDestroyed, Destroying,
         Removing, PollAgain, UserReturns, UserShutdown, PeerSends, PeerReads,
         PeerLeaves, HandleClose, vars, conn, kernel, history

LEMMA InterestKept ==
  ASSUME StreamTypeOK, ControlTypeOK, BeginInv, WriteInterest, [Next]_vars
  PROVE  WriteInterest'
  <1>1. CASE Sends
    BY <1>1, SendsDo DEF WriteInterest
  <1>2. CASE DispatchWrite
    BY <1>2, WriteDoes DEF WriteInterest, IsWriting
  <1>3. CASE Queues
    BY <1>3, QueuesDo DEF WriteInterest
  <1>4. CASE RunEstablished
    <2>1. ups = 0 /\ events_ = {} /\ outputBuffer_ = <<>>
      BY <1>4, RunsEstablished DEF BeginInv, Fresh
    <2>2. events_' = {"read"} /\ outputBuffer_' = <<>>
      BY <1>4, <2>1 DEF RunEstablished, Update
    <2> QED  BY <2>2 DEF WriteInterest
  <1>5. CASE Others /\ ~RunEstablished
    <2>1. CASE downs' = downs + 1
      <3>1. ups' \in {0, 1} /\ downs' \in Nat \ {0}
        BY <1>5, <2>1, OthersDo DEF BeginInv, ControlTypeOK
      <3> QED  BY <3>1 DEF WriteInterest
    <2>2. CASE UNCHANGED <<events_, downs>>
      BY <1>5, <2>2, OthersDo DEF WriteInterest
    <2> QED  BY <1>5, <2>1, <2>2, OthersDo
  <1> QED  BY <1>1, <1>2, <1>3, <1>4, <1>5, StepKinds

LEMMA Begins == Spec => [](StreamTypeOK /\ ControlTypeOK /\ BeginInv)
  <1>1. StreamTypeOK /\ ControlTypeOK /\ BeginInv /\ [Next]_vars =>
            ControlTypeOK' /\ BeginInv'
    BY ControlKept, BeginKept
  <1> QED  BY <1>1, ControlInitial, BeginInitial, StreamTypes, PTL DEF Spec

(* sendInLoop asks for EPOLLOUT when it leaves bytes, and handleWrite keeps  *)
(* asking until there are none: between the two connection callbacks the    *)
(* channel's interest in writing says whether the output buffer is empty,   *)
(* whoever sends and shuts down.                                            *)
THEOREM WritesWhileNeeded == Spec => []WriteInterest
  <1>1. /\ StreamTypeOK /\ ControlTypeOK /\ BeginInv /\ WriteInterest /\ [Next]_vars
        => WriteInterest'
    BY InterestKept
  <1> QED  BY <1>1, BeginInitial, Begins, PTL DEF Spec


-----------------------------------------------------------------------------
(* The end of the connection, when only the loop's thread calls shutdown(). *)

LoopShutsDown == "shutdown" \notin ThreadOps

At(p) == pc = p \/ (pc = "user" /\ after = p)

\* No shutdown() is under way in another thread.
NoOtherShutdown ==
    /\ \A t \in Threads : call[t] \notin {<<"set">>, <<"shutdown">>}
    /\ ~Waits(<<"shutdown">>)

\* handleClose runs once: what the poller reported before is used up, or is
\* nothing that closes.
ClosedForGood ==
    /\ downs = IF state_ = "kDisconnected" THEN 1 ELSE 0
    /\ state_ = "kDisconnected" =>
           ~watched /\ events_ = {} /\ revents \cap {"hup", "read"} = {}
    /\ "hup" \in revents => "read" \notin revents
    /\ revents # {} => At("dispatch") \/ At("closing")

\* connectDestroyed runs after the end, or because the server stopped.
Destroyable ==
    \/ state_ = "kDisconnected"
    \/ state_ = "kDisconnecting" /\ owner = "stopped"

DestroyedLast ==
    /\ At("closing") \/ owner \in {"removing", "removed"} => state_ = "kDisconnected"
    /\ pc = "destroying" => state_ = "kConnected"
    /\ At("removing") \/ removed => Destroyable
    /\ owner = "server" => ~Waits(Destroyed) /\ pc # "destroying"

CloseInv == NoOtherShutdown /\ ClosedForGood /\ DestroyedLast


LEMMA NoOtherShutdownKept ==
  ASSUME LoopShutsDown, StreamTypeOK, NoOtherShutdown, [Next]_vars
  PROVE  NoOtherShutdown'
  <1>1. ~Queuer(<<"shutdown">>)
    <2>1. ASSUME NEW t \in Threads PROVE call[t] # <<"shutdown">>
      BY DEF NoOtherShutdown
    <2> QED  BY <2>1 DEF Queuer, Destroyed
  <1>2. ~Waits(<<"shutdown">>)'
    BY <1>1, WaitsBefore DEF NoOtherShutdown
  <1>3. ASSUME NEW t \in Threads
        PROVE  call'[t] \notin {<<"set">>, <<"shutdown">>}
    <2>1. CASE UNCHANGED call
      BY <2>1 DEF NoOtherShutdown
    <2>2. CASE \E u \in Threads : RunInLoop(u)
      BY <2>2 DEF RunInLoop, Goes, NoOtherShutdown, StreamTypeOK
    <2>3. CASE \E u \in Threads, m \in Messages : SendCheck(u, m)
      BY <2>3 DEF SendCheck, Goes, NoOtherShutdown, StreamTypeOK
    <2>4. \A u \in Threads : ~ShutdownCheck(u) /\ ~ShutdownSet(u)
      BY DEF ShutdownCheck, ShutdownSet, Goes, NoOtherShutdown, LoopShutsDown
    <2>5. CASE Queues
      BY <2>1, <2>2, <2>3, <2>4, <2>5 DEF Queues, ServerRemoves, ServerStops, users
    <2>6. CASE Sends \/ DispatchWrite
      BY <2>1, <2>6 DEF Sends, RunSend, UserSend, Runs, DispatchWrite, users
    <2>7. CASE Others
      <3>1. UNCHANGED call
        BY <2>7 DEF Others, Poll, DispatchHup, DispatchError, DispatchRead,
           CloseCallback, DoPendingFunctors, RunEstablished, RunShutdown, RunCallback,
           RunDestroyed, Destroying, Removing, PollAgain, UserReturns,
           UserShutdown, PeerSends, PeerReads, PeerLeaves, HandleClose, Runs,
           vars, users
      <3> QED  BY <2>1, <3>1
    <2> QED  BY <2>5, <2>6, <2>7, StepKinds
  <1> QED  BY <1>2, <1>3 DEF NoOtherShutdown

\* Only a server that lets go of the connection queues connectDestroyed.
LEMMA DestroyedWaits ==
  ASSUME StreamTypeOK, [Next]_vars, Waits(Destroyed)'
  PROVE  Waits(Destroyed) \/ owner' # "server"
  <1>1. Waits(Destroyed) \/ Queuer(Destroyed)
    BY WaitsBefore
  <1>2. CASE Queuer(Destroyed)
    <2>1. ASSUME NEW t \in Threads, RunInLoop(t) PROVE call[t] # Destroyed
      BY <2>1 DEF RunInLoop, StreamTypeOK, CallStates, Destroyed
    <2>2. ServerRemoves \/ ServerStops
      BY <1>2, <2>1 DEF Queuer, Destroyed
    <2> QED  BY <2>2 DEF ServerRemoves, ServerStops
  <1> QED  BY <1>1, <1>2

\* What leaves the end of the connection as it is.
LEMMA EndUntouched ==
  ASSUME CloseInv, UNCHANGED <<state_, removed, downs, pc, after>>,
         revents' \subseteq revents, owner' = owner,
         state_ = "kDisconnected" => UNCHANGED <<events_, watched>>,
         Waits(Destroyed)' => Waits(Destroyed) \/ owner' # "server"
  PROVE  ClosedForGood' /\ DestroyedLast'
  BY DEF CloseInv, ClosedForGood, DestroyedLast, At, Destroyable

LEMMA HandleCloseKeeps ==
  ASSUME StreamTypeOK, ControlTypeOK, BeginInv, CloseInv, [Next]_vars,
         HandleClose, Dispatch("hup") \/ Dispatch("read")
  PROVE  ClosedForGood' /\ DestroyedLast'
  <1>1. /\ state_' = "kDisconnected" /\ events_' = {} /\ watched' = FALSE
        /\ downs' = downs + 1 /\ pc' = "user" /\ after' = "closing"
        /\ UNCHANGED <<removed, owner>>
    BY DEF HandleClose, DisableAll, Update, CallUser
  <1>2. PICK e \in {"hup", "read"} : e \in revents /\ revents' = revents \ {e}
    BY DEF Dispatch
  <1>3. downs' = 1
    BY <1>1, <1>2 DEF CloseInv, ClosedForGood
  <1>4. revents' \cap {"hup", "read"} = {}
    BY <1>2 DEF CloseInv, ClosedForGood
  <1>5. ClosedForGood'
    BY <1>1, <1>3, <1>4 DEF ClosedForGood, At
  <1>6. owner = "server" => ~Waits(Destroyed)'
    BY <1>1, DestroyedWaits DEF CloseInv, DestroyedLast
  <1> QED  BY <1>1, <1>5, <1>6 DEF DestroyedLast, At, Destroyable


\* The steps that do not close the connection, and those that lead out of it.
LEMMA LoopKeepsEnd ==
  ASSUME StreamTypeOK, ControlTypeOK, BeginInv, CloseInv, [Next]_vars, Others
  PROVE  ClosedForGood' /\ DestroyedLast'
  <1>0. Waits(Destroyed)' => Waits(Destroyed) \/ owner' # "server"
    BY DestroyedWaits
  <1>1. CASE \/ DispatchHup
             \/ DispatchRead /\ HandleClose
    <2>1. HandleClose /\ (Dispatch("hup") \/ Dispatch("read"))
      BY <1>1 DEF DispatchHup, DispatchRead
    <2> QED  BY <2>1, HandleCloseKeeps
  <1>2. CASE \/ DispatchError
             \/ DispatchRead /\ ~HandleClose
    <2>1. /\ UNCHANGED <<state_, removed, downs, owner, events_, watched>>
          /\ revents' \subseteq revents /\ pc = "dispatch"
          /\ \/ UNCHANGED <<pc, after>>
             \/ pc' = "user" /\ after' = "dispatch"
      BY <1>2 DEF DispatchError, DispatchRead, Dispatch, CallUser, conn, history
    <2> QED
      BY <1>0, <2>1 DEF CloseInv, ClosedForGood, DestroyedLast, At, Destroyable
  <1>3. CASE CloseCallback
    <2>1. /\ UNCHANGED <<state_, removed, downs, events_, watched, revents>>
          /\ pc = "closing" /\ pc' = "dispatch" /\ owner' \in {"stopped", "removing"}
          /\ owner = "stopped" => owner' = "stopped"
      BY <1>3 DEF CloseCallback, Told, conn, history
    <2> QED
      BY <2>1 DEF CloseInv, ClosedForGood, DestroyedLast, At, Destroyable
  <1>4. CASE Poll
    <2>1. /\ UNCHANGED <<state_, removed, downs, events_, watched, owner, after>>
          /\ pc' = "dispatch" /\ revents' = Ready
      BY <1>4 DEF Poll, conn, history
    <2>2. /\ ~watched => Ready = {}
          /\ "hup" \in Ready => "read" \notin Ready
      BY DEF Ready
    <2> QED
      BY <1>0, <2>1, <2>2 DEF CloseInv, ClosedForGood, DestroyedLast, At, Destroyable
  <1>5. CASE DoPendingFunctors \/ PollAgain
    <2>1. /\ UNCHANGED <<state_, removed, downs, events_, watched, owner, after, revents>>
          /\ pc \in {"dispatch", "functors"} /\ pc' \in {"functors", "poll"}
          /\ pc = "dispatch" => revents = {}
      BY <1>5 DEF DoPendingFunctors, PollAgain, conn, history, queues
    <2> QED
      BY <1>0, <2>1 DEF CloseInv, ClosedForGood, DestroyedLast, At, Destroyable
  <1>6. CASE RunEstablished
    <2>1. ups = 0 /\ Fresh
      BY <1>6, RunsEstablished DEF BeginInv
    <2>2. /\ pc = "functors" /\ pc' = "user" /\ after' = "functors"
          /\ UNCHANGED <<downs, removed, owner, revents>> /\ state_' = "kConnected"
      BY <1>6 DEF RunEstablished, Runs, CallUser
    <2> QED
      BY <1>0, <2>1, <2>2 DEF Fresh, CloseInv, ClosedForGood, DestroyedLast, At,
                              Destroyable
  <1>7. CASE RunShutdown \/ RunCallback
    <2>1. /\ UNCHANGED <<state_, removed, downs, events_, watched, owner, revents>>
          /\ pc = "functors"
          /\ \/ UNCHANGED <<pc, after>>
             \/ pc' = "user" /\ after' = "functors"
      BY <1>7 DEF RunShutdown, RunCallback, Runs, CallUser, conn, history
    <2> QED
      BY <1>0, <2>1 DEF CloseInv, ClosedForGood, DestroyedLast, At, Destroyable
  <1>8. CASE RunDestroyed
    <2>1. /\ UNCHANGED <<state_, removed, downs, events_, watched, owner, revents, after>>
          /\ pc = "functors"
          /\ pc' = IF state_ = "kConnected" THEN "destroying" ELSE "removing"
      BY <1>8 DEF RunDestroyed, Runs, StillConnected, conn, history
    <2>2. Waits(Destroyed) /\ ups = 1 /\ state_ # "kConnecting"
      <3>1. functors # <<>> /\ Head(functors) \in Functors
            /\ Head(functors)[1] = "connectDestroyed"
        BY <1>8, RunsTyped DEF RunDestroyed, Runs
      <3>2. Head(functors) = Destroyed /\ functors \in Seq(Functors)
        BY <3>1 DEF Functors, Destroyed, StreamTypeOK
      <3>3. ~Fresh
        BY <1>8, FreshHead DEF RunDestroyed
      <3> QED  BY <3>1, <3>2, <3>3, HeadHeld DEF Waits, BeginInv
    <2>3. owner \in {"removing", "removed", "stopped"}
      BY <2>2 DEF CloseInv, DestroyedLast, ControlTypeOK
    <2>4. state_ # "kConnected" => Destroyable
      BY <2>2, <2>3 DEF CloseInv, DestroyedLast, Destroyable, ControlTypeOK
    <2> QED
      BY <2>1, <2>3, <2>4 DEF CloseInv, ClosedForGood, DestroyedLast, At, Destroyable
  <1>9. CASE Destroying
    <2>1. /\ state_' = "kDisconnected" /\ events_' = {} /\ watched' = FALSE
          /\ downs' = downs + 1 /\ pc = "destroying" /\ pc' = "user"
          /\ after' = "removing" /\ UNCHANGED <<removed, owner, revents>>
      BY <1>9 DEF Destroying, DisableAll, Update, CallUser
    <2> QED
      BY <1>0, <2>1 DEF CloseInv, ClosedForGood, DestroyedLast, At, Destroyable
  <1>10. CASE Removing
    <2>1. /\ UNCHANGED <<state_, downs, events_, owner, revents, after>>
          /\ removed' = TRUE /\ watched' = FALSE
          /\ pc = "removing" /\ pc' = "functors"
      BY <1>10 DEF Removing, history
    <2> QED
      BY <1>0, <2>1 DEF CloseInv, ClosedForGood, DestroyedLast, At, Destroyable
  <1>11. CASE UserReturns
    <2>1. /\ UNCHANGED <<state_, removed, downs, events_, watched, owner, revents, after>>
          /\ pc = "user" /\ pc' = after
      BY <1>11 DEF UserReturns, conn, history
    <2>2. after \notin {"user", "destroying"}
      BY DEF ControlTypeOK
    <2> QED
      BY <1>0, <2>1, <2>2 DEF CloseInv, ClosedForGood, DestroyedLast, At, Destroyable
  <1>12. CASE UserShutdown
    <2>1. /\ UNCHANGED <<removed, downs, events_, watched, owner, revents, after, pc>>
          /\ state_ = "kConnected" /\ state_' = "kDisconnecting" /\ pc = "user"
      BY <1>12 DEF UserShutdown, MayShutdown, loop, history
    <2> QED
      BY <1>0, <2>1 DEF CloseInv, ClosedForGood, DestroyedLast, At, Destroyable
  <1>13. CASE PeerSends \/ PeerReads \/ PeerLeaves \/ UNCHANGED vars
    <2>1. UNCHANGED <<state_, removed, downs, events_, watched, owner, revents, after,
                      pc>>
      BY <1>13 DEF PeerSends, PeerReads, PeerLeaves, vars, conn, loop, history
    <2> QED  BY <1>0, <2>1, EndUntouched
  <1> QED
    BY <1>1, <1>2, <1>3, <1>4, <1>5, <1>6, <1>7, <1>8, <1>9, <1>10, <1>11, <1>12,
       <1>13 DEF Others


LEMMA CloseKept ==
  ASSUME LoopShutsDown, StreamTypeOK, ControlTypeOK, BeginInv, CloseInv, [Next]_vars
  PROVE  CloseInv'
  <1>1. NoOtherShutdown'
    BY NoOtherShutdownKept DEF CloseInv
  <1>2. Waits(Destroyed)' => Waits(Destroyed) \/ owner' # "server"
    BY DestroyedWaits
  <1>3. CASE Sends
    BY <1>1, <1>2, <1>3, SendsDo, EndUntouched DEF CloseInv
  <1>4. CASE DispatchWrite
    <2>1. /\ UNCHANGED <<state_, removed, downs, pc, after, owner>>
          /\ revents' \subseteq revents
          /\ "write" \in events_ \/ UNCHANGED <<events_, watched>>
      BY <1>4, WriteDoes DEF IsWriting
    <2>2. state_ = "kDisconnected" => UNCHANGED <<events_, watched>>
      BY <2>1 DEF CloseInv, ClosedForGood
    <2> QED  BY <1>1, <1>2, <2>1, <2>2, EndUntouched DEF CloseInv
  <1>5. CASE Queues
    <2>1. UNCHANGED <<events_, watched, removed, pc, after, revents, downs>>
      BY <1>5, QueuesDo
    <2>2. UNCHANGED state_
      <3>1. \A t \in Threads : ~ShutdownSet(t)
        BY DEF CloseInv, NoOtherShutdown, ShutdownSet, Goes
      <3> QED  BY <1>5, <3>1 DEF Queues, ServerRemoves, ServerStops, RunInLoop,
                                 ShutdownCheck, SendCheck, conn
    <2>3. \/ owner' = owner
          \/ owner = "removing" /\ owner' = "removed"
          \/ owner = "server" /\ owner' = "stopped"
      BY <1>5 DEF Queues, ServerRemoves, ServerStops, RunInLoop, ShutdownCheck,
                  ShutdownSet, SendCheck
    <2> QED
      BY <1>1, <1>2, <2>1, <2>2, <2>3
      DEF CloseInv, ClosedForGood, DestroyedLast, At, Destroyable
  <1>6. CASE Others
    BY <1>1, <1>6, LoopKeepsEnd DEF CloseInv
  <1> QED  BY <1>3, <1>4, <1>5, <1>6, StepKinds

LEMMA CloseInitial == Init => CloseInv /\ FinIsLast
  <1> SUFFICES ASSUME Init PROVE CloseInv /\ FinIsLast
    OBVIOUS
  <1>1. ~Waits(<<"shutdown">>) /\ ~Waits(Destroyed)
    BY DEF Init, Waits, Holds, Destroyed
  <1>2. NoOtherShutdown
    BY <1>1 DEF Init, NoOtherShutdown
  <1>3. /\ state_ = "kConnecting" /\ downs = 0 /\ revents = {} /\ pc = "poll"
        /\ owner = "server" /\ removed = FALSE /\ outputBuffer_ = <<>>
    BY DEF Init
  <1> QED  BY <1>1, <1>2, <1>3 DEF CloseInv, ClosedForGood, DestroyedLast, At, FinIsLast

\* Up and not down, the connection is one whose interest is right.
LEMMA OpenInterest ==
  ASSUME BeginInv, CloseInv, WriteInterest, ups = 1, state_ # "kDisconnected"
  PROVE  IsWriting <=> outputBuffer_ # <<>>
  BY DEF CloseInv, ClosedForGood, WriteInterest, IsWriting

\* No other thread's shutdown() reaches the loop.
LEMMA NoRunShutdown ==
  ASSUME StreamTypeOK, CloseInv
  PROVE  ~RunShutdown
  <1>1. SUFFICES ASSUME RunShutdown PROVE FALSE
    OBVIOUS
  <1>2. /\ functors # <<>> /\ Head(functors) \in Functors
        /\ Head(functors)[1] = "shutdown"
    BY <1>1, RunsTyped DEF RunShutdown, Runs
  <1>3. Head(functors) = <<"shutdown">> /\ functors \in Seq(Functors)
    BY <1>2 DEF Functors, StreamTypeOK
  <1> QED  BY <1>2, <1>3, HeadHeld DEF Waits, CloseInv, NoOtherShutdown

LEMMA OthersLeaveEnd ==
  ASSUME Others, ~UserShutdown, ~RunShutdown
  PROVE  UNCHANGED <<shutWr, outputBuffer_>>
  BY DEF Others, Poll, DispatchHup, DispatchError, DispatchRead, CloseCallback,
         DoPendingFunctors, RunEstablished, RunCallback, RunDestroyed, Destroying,
         Removing, PollAgain, UserReturns, PeerSends, PeerReads, PeerLeaves,
         HandleClose, vars, conn, kernel

\* The stream was closed by a step that found nothing to write.
LEMMA FinKept ==
  ASSUME StreamTypeOK, ControlTypeOK, BeginInv, CloseInv, WriteInterest, FinIsLast,
         [Next]_vars
  PROVE  FinIsLast'
  <1>1. CASE Sends
    <2>1. CASE ~shutWr
      BY <1>1, <2>1, SendsDo DEF FinIsLast
    <2>2. CASE shutWr
      <3>1. outputBuffer_ = <<>> /\ ups = 1
        BY <2>2 DEF FinIsLast, BeginInv, Fresh
      <3>2. state_ = "kDisconnected" \/ WritesDirectly
        BY <3>1, OpenInterest DEF WritesDirectly
      <3> QED  BY <1>1, <2>2, <3>1, <3>2, SendsDo DEF FinIsLast
    <2> QED  BY <2>1, <2>2
  <1>2. CASE DispatchWrite
    BY <1>2, WriteDoes DEF FinIsLast
  <1>3. CASE Queues
    BY <1>3, QueuesDo DEF FinIsLast
  <1>4. CASE UserShutdown
    <2>1. /\ state_ = "kConnected" /\ shutWr' = (shutWr \/ ~IsWriting)
          /\ outputBuffer_' = outputBuffer_
      BY <1>4 DEF UserShutdown, MayShutdown, ShutdownInLoop
    <2>2. ups = 1
      BY <2>1 DEF BeginInv, Fresh
    <2>3. ~IsWriting => outputBuffer_ = <<>>
      BY <2>1, <2>2, OpenInterest
    <2> QED  BY <2>1, <2>3 DEF FinIsLast
  <1>5. CASE Others /\ ~UserShutdown
    BY <1>5, NoRunShutdown, OthersLeaveEnd DEF FinIsLast
  <1> QED  BY <1>1, <1>2, <1>3, <1>4, <1>5, StepKinds

\* The invariant of the connection's life.
LifeInv ==
    StreamTypeOK /\ ControlTypeOK /\ BeginInv /\ WriteInterest /\ CloseInv /\ FinIsLast

LEMMA Lives == LoopShutsDown => (Spec => []LifeInv)
  <1> SUFFICES ASSUME LoopShutsDown PROVE Spec => []LifeInv
    OBVIOUS
  <1>1. /\ StreamTypeOK /\ ControlTypeOK /\ BeginInv /\ WriteInterest
        /\ CloseInv /\ FinIsLast /\ [Next]_vars
        => CloseInv' /\ FinIsLast'
    BY CloseKept, FinKept
  <1>2. LifeInv <=> /\ StreamTypeOK /\ ControlTypeOK /\ BeginInv /\ WriteInterest
                    /\ CloseInv /\ FinIsLast
    BY DEF LifeInv
  <1> QED  BY <1>1, <1>2, CloseInitial, Begins, WritesWhileNeeded, PTL DEF Spec


(* connectEstablished, handleClose and connectDestroyed: each end of the      *)
(* connection is told of once, and a destroyed connection has told, as long *)
(* as no other thread's shutdown() overwrites "kDisconnected".              *)
THEOREM CallsBackOnce == LoopShutsDown => (Spec => []CallbacksOnce)
  <1> SUFFICES ASSUME LoopShutsDown PROVE Spec => []CallbacksOnce
    OBVIOUS
  <1>1. LifeInv => CallbacksOnce
    <2>1. SUFFICES ASSUME LifeInv PROVE CallbacksOnce
      OBVIOUS
    <2>2. /\ ups \in {0, 1}
          /\ ups = 0 => downs = 0
          /\ downs = IF state_ = "kDisconnected" THEN 1 ELSE 0
          /\ removed => Destroyable
      BY <2>1 DEF LifeInv, BeginInv, Fresh, CloseInv, ClosedForGood, DestroyedLast
    <2> QED  BY <2>2 DEF CallbacksOnce, Destroyable
  <1> QED  BY <1>1, Lives, PTL

(* handleWrite, shutdownInLoop: SHUT_WR only behind the last byte taken, also *)
(* when shutdown() had to wait for the output or sends come after it.       *)
THEOREM EndsBehindLastByte == LoopShutsDown => (Spec => []FinIsLast)
  <1> SUFFICES ASSUME LoopShutsDown PROVE Spec => []FinIsLast
    OBVIOUS
  <1>1. LifeInv => FinIsLast
    BY DEF LifeInv
  <1> QED  BY <1>1, Lives, PTL

(* handleClose, connectDestroyed, sendInLoop: a send that comes too late does *)
(* not put the channel of a closed connection back into epoll.              *)
THEOREM ClosedStaysOut == LoopShutsDown => (Spec => []StaysOutOfPoller)
  <1> SUFFICES ASSUME LoopShutsDown PROVE Spec => []StaysOutOfPoller
    OBVIOUS
  <1>1. LifeInv => StaysOutOfPoller
    <2>1. SUFFICES ASSUME LifeInv PROVE StaysOutOfPoller
      OBVIOUS
    <2>2. /\ state_ = "kDisconnected" => ~watched
          /\ removed /\ owner # "stopped" => state_ = "kDisconnected"
      BY <2>1 DEF LifeInv, CloseInv, ClosedForGood, DestroyedLast, Destroyable
    <2> QED  BY <2>2 DEF StaysOutOfPoller
  <1> QED  BY <1>1, Lives, PTL

-----------------------------------------------------------------------------
(* The refinement of ByteStream.                                           *)

\* What is appended to is a prefix.
LEMMA PrefixOfJoin ==
  ASSUME NEW s \in Seq(Bytes), NEW t \in Seq(Bytes)
  PROVE  Stream!IsPrefix(s, s \o t)
  <1> DEFINE r == s \o t
  <1>1. /\ r \in Seq(Bytes) /\ Len(r) = Len(s) + Len(t)
        /\ \A i \in 1..Len(s) : r[i] = s[i]
    OBVIOUS
  <1> HIDE DEF r
  <1>2. /\ Len(s) \in Nat /\ Len(t) \in Nat /\ Len(s) <= Len(r)
    BY <1>1
  <1>3. SubSeq(s, 1, Len(s)) = s
    OBVIOUS
  <1>4. /\ SubSeq(r, 1, Len(s)) \in Seq(Bytes) /\ Len(SubSeq(r, 1, Len(s))) = Len(s)
        /\ \A i \in 1..Len(s) : SubSeq(r, 1, Len(s))[i] = r[i]
    BY <1>1, <1>2
  <1>5. SubSeq(r, 1, Len(s)) = s
    BY <1>1, <1>4, SeqEqual
  <1> QED  BY <1>2, <1>3, <1>5 DEF Stream!IsPrefix, r

LEMMA PrefixOfSelf ==
  ASSUME NEW s \in Seq(Bytes)
  PROVE  Stream!IsPrefix(s, s)
  BY DEF Stream!IsPrefix

\* The history of the stream only grows.
Grows(s) == s' = s \/ \E t \in Seq(Bytes) : s' = s \o t

LEMMA SendGrows ==
  ASSUME StreamTypeOK, ControlTypeOK, NEW m \in Messages, NEW data \in Seq(Bytes),
         SendInLoop(m, data)
  PROVE  Grows(wire) /\ Grows(accepted)
  <1>1. CASE \/ state_ = "kDisconnected"
             \/ state_ # "kDisconnected" /\ WritesDirectly /\ WriteFails
    BY <1>1 DEF SendInLoop, FailedWrite, kernel, Grows
  <1>2. CASE state_ # "kDisconnected" /\ ~(WritesDirectly /\ WriteFails)
    <2>1. PICK n \in Nat :
              n \in (IF WritesDirectly THEN Takes(Len(data)) ELSE {0}) /\ Write(data, n)
      BY <1>2 DEF SendInLoop, Takes
    <2>2. n \in 0..Len(data)
      BY <2>1 DEF Takes
    <2>3. First(data, n) \in Seq(Bytes)
      BY <2>2, CutAndJoin
    <2>4. [i \in 1..Size[m] |-> m] \in Seq(Bytes)
      BY MessagesAssumption DEF Bytes
    <2> QED  BY <1>2, <2>1, <2>3, <2>4 DEF SendInLoop, Write, Grows
  <1> QED  BY <1>1, <1>2

LEMMA SendsGrow ==
  ASSUME StreamTypeOK, ControlTypeOK, Sends
  PROVE  Grows(wire) /\ Grows(accepted)
  <1>1. CASE RunSend
    <2>1. Head(functors)[2] \in Messages
      BY <1>1, SendsMessage DEF RunSend
    <2>2. PICK data \in Memory(Head(functors)[2]) :
               SendInLoop(Head(functors)[2], data)
      BY <1>1 DEF RunSend
    <2>3. data \in Seq(Bytes)
      BY <2>1, <2>2, MemoryTyped
    <2> QED  BY <2>1, <2>2, <2>3, SendGrows
  <1>2. CASE \E m \in Messages : UserSend(m)
    <2>1. PICK m \in Messages : UserSend(m)
      BY <1>2
    <2>2. [i \in 1..Size[m] |-> m] \in Seq(Bytes)
      BY MessagesAssumption DEF Bytes
    <2> QED  BY <2>1, <2>2, SendGrows DEF UserSend
  <1> QED  BY <1>1, <1>2 DEF Sends

LEMMA WriteGrows ==
  ASSUME StreamTypeOK, ControlTypeOK, DispatchWrite
  PROVE  Grows(wire)
  <1>1. CASE ~IsWriting \/ WriteFails
    BY <1>1 DEF DispatchWrite, FailedWrite, kernel, Grows
  <1>2. CASE IsWriting /\ ~WriteFails
    <2>1. PICK n \in Takes(Len(outputBuffer_)) :
              wire' = wire \o First(outputBuffer_, n)
      BY <1>2 DEF DispatchWrite
    <2>2. outputBuffer_ \in Seq(Bytes) /\ n \in 0..Len(outputBuffer_)
      BY <2>1 DEF Takes, StreamTypeOK
    <2>3. First(outputBuffer_, n) \in Seq(Bytes)
      BY <2>2, CutAndJoin
    <2> QED  BY <2>1, <2>3 DEF Grows
  <1> QED  BY <1>1, <1>2


phase == IF ups = 0 THEN "new" ELSE IF downs = 0 THEN "up" ELSE "down"

abstract == <<phase, accepted, wire, shutWr>>

StreamInv == LifeInv /\ StreamInOrder

\* Bytes are taken and delivered while the connection is up and not ended.
LEMMA Moves ==
  ASSUME StreamInv, StreamInv', ups = 1, ups' = 1, downs = 0, downs' = 0, ~shutWr,
         Grows(wire), Grows(accepted)
  PROVE  Stream!Move
  <1>1. /\ wire \in Seq(Bytes) /\ accepted \in Seq(Bytes)
        /\ wire' \in Seq(Bytes) /\ accepted' \in Seq(Bytes)
        /\ outputBuffer_' \in Seq(Bytes) /\ shutWr' \in BOOLEAN
    BY DEF StreamInv, LifeInv, StreamTypeOK, ControlTypeOK
  <1>2. Stream!IsPrefix(accepted, accepted') /\ Stream!IsPrefix(wire, wire')
    BY <1>1, PrefixOfJoin, PrefixOfSelf DEF Grows
  <1>3. accepted' = wire' \o outputBuffer_'
    BY DEF StreamInv, StreamInOrder
  <1>4. Stream!IsPrefix(wire', accepted')
    BY <1>1, <1>3, PrefixOfJoin
  <1>5. shutWr' => wire' = accepted'
    <2>1. ASSUME shutWr' PROVE outputBuffer_' = <<>>
      BY <2>1 DEF StreamInv, LifeInv, FinIsLast
    <2> QED  BY <2>1, <1>1, <1>3, ConcatEmptySeq
  <1> QED  BY <1>1, <1>2, <1>4, <1>5 DEF Stream!Move

\* What a connection that is open does to the stream.
LEMMA OpenStep ==
  ASSUME StreamInv, StreamInv', [Next]_vars, ups = 1
  PROVE  [Stream!Next]_abstract
  <1> USE DEF abstract, phase
  <1>0. /\ StreamTypeOK /\ ControlTypeOK /\ CloseInv /\ ~RunShutdown /\ ~RunEstablished
        /\ downs \in {0, 1} /\ downs' \in {0, 1}
        /\ downs = 1 <=> state_ = "kDisconnected"
    <2>1. /\ StreamTypeOK /\ ControlTypeOK /\ CloseInv /\ BeginInv
      BY DEF StreamInv, LifeInv
    <2>2. ~Waits(Established)
      BY <2>1 DEF BeginInv
    <2>3. /\ downs = IF state_ = "kDisconnected" THEN 1 ELSE 0
          /\ downs' = IF state_' = "kDisconnected" THEN 1 ELSE 0
      BY DEF StreamInv, LifeInv, CloseInv, ClosedForGood
    <2> QED  BY <2>1, <2>2, <2>3, NoRunShutdown, RunsEstablished
  <1>1. ups' = 1
    BY <1>0, SendsDo, WriteDoes, QueuesDo, OthersDo, StepKinds
  <1>2. CASE Sends
    <2>1. UNCHANGED <<downs, shutWr>>
      BY <1>0, <1>2, SendsDo
    <2>2. CASE state_ = "kDisconnected" \/ shutWr
      <3>1. shutWr /\ state_ # "kDisconnected" => WritesDirectly
        BY <1>0, OpenInterest DEF StreamInv, LifeInv, FinIsLast, WritesDirectly
      <3>2. UNCHANGED <<wire, accepted>>
        BY <1>0, <1>2, <2>2, <3>1, SendsDo
      <3> QED  BY <1>1, <2>1, <3>2
    <2>3. CASE state_ # "kDisconnected" /\ ~shutWr
      <3>1. Grows(wire) /\ Grows(accepted)
        BY <1>0, <1>2, SendsGrow
      <3> QED  BY <1>0, <1>1, <2>1, <2>3, <3>1, Moves DEF Stream!Next
    <2> QED  BY <2>2, <2>3
  <1>3. CASE DispatchWrite
    <2>1. UNCHANGED <<downs, accepted>>
      BY <1>0, <1>3, WriteDoes
    <2>2. CASE UNCHANGED <<wire, shutWr>>
      BY <1>1, <2>1, <2>2
    <2>3. CASE IsWriting /\ ~shutWr
      <3>1. downs = 0
        BY <1>0, <2>3 DEF CloseInv, ClosedForGood, IsWriting
      <3>2. Grows(wire) /\ Grows(accepted)
        BY <1>0, <1>3, <2>1, WriteGrows DEF Grows
      <3> QED  BY <1>1, <2>1, <2>3, <3>1, <3>2, Moves DEF Stream!Next
    <2> QED  BY <1>0, <1>3, <2>2, <2>3, WriteDoes
  <1>4. CASE Queues
    BY <1>1, <1>4, QueuesDo
  <1>5. CASE UserShutdown
    <2>1. /\ state_ = "kConnected" /\ UNCHANGED <<wire, accepted, downs>>
      BY <1>5 DEF UserShutdown, MayShutdown, history
    <2>2. CASE shutWr' = shutWr
      BY <1>1, <2>1, <2>2
    <2>3. CASE shutWr' # shutWr
      <3>1. ~shutWr
        BY <1>0, <1>5, <2>3 DEF UserShutdown, ShutdownInLoop, ControlTypeOK
      <3> QED  BY <1>0, <1>1, <2>1, <3>1, Moves DEF Grows, Stream!Next
    <2> QED  BY <2>2, <2>3
  <1>6. CASE Others /\ ~UserShutdown
    <2>1. /\ UNCHANGED <<wire, accepted, shutWr>>
          /\ downs' = downs \/ downs' = downs + 1
      BY <1>0, <1>6, OthersDo, OthersLeaveEnd
    <2> QED  BY <1>0, <1>1, <2>1 DEF Stream!Next, Stream!Down
  <1> QED  BY <1>2, <1>3, <1>4, <1>5, <1>6, StepKinds

\* A connection that is not up yet does nothing but get up.
LEMMA FreshStep ==
  ASSUME StreamInv, StreamInv', [Next]_vars, ups = 0
  PROVE  [Stream!Next]_abstract
  <1> USE DEF abstract, phase
  <1>1. StreamTypeOK /\ Fresh /\ shutWr \in BOOLEAN /\ shutWr' \in BOOLEAN
    BY DEF StreamInv, LifeInv, BeginInv, ControlTypeOK
  <1>2. CASE ups' = 0 /\ Fresh'
    <2>1. /\ wire = <<>> /\ accepted = <<>> /\ wire' = <<>> /\ accepted' = <<>>
          /\ shutWr = FALSE /\ shutWr' = FALSE
      BY <1>1, <1>2 DEF Fresh
    <2> QED  BY <1>2, <2>1
  <1>3. CASE RunEstablished /\ ups' = 1 /\ state_' = "kConnected"
    <2>1. UNCHANGED <<wire, accepted, shutWr>>
      BY <1>3 DEF RunEstablished, kernel
    <2>2. downs' = 0
      BY <1>3 DEF StreamInv, LifeInv, CloseInv, ClosedForGood
    <2> QED  BY <1>3, <2>1, <2>2 DEF Stream!Next, Stream!Up
  <1> QED  BY <1>1, <1>2, <1>3, FreshKept

(* The connection is the byte stream its user takes it for, step by step:    *)
(* what sendInLoop takes reaches the kernel in order and behind what was    *)
(* taken before, between the connection callbacks only, and shutdown() ends *)
(* it behind the last byte.                                                 *)
THEOREM ImplementsByteStream ==
  LoopShutsDown /\ StringsKept => (Spec => StreamSpec)
  <1> SUFFICES ASSUME LoopShutsDown, StringsKept PROVE Spec => StreamSpec
    OBVIOUS
  <1>1. Spec => []StreamInv
    <2>1. LifeInv /\ StreamInOrder <=> StreamInv
      BY DEF StreamInv
    <2> QED  BY <2>1, Lives, KeepsOrder, PTL
  <1>2. Init => Stream!Init
    BY DEF Init, Stream!Init
  <1>3. StreamInv /\ StreamInv' /\ [Next]_vars => [Stream!Next]_abstract
    <2>1. SUFFICES ASSUME StreamInv, StreamInv', [Next]_vars
                   PROVE  [Stream!Next]_abstract
      OBVIOUS
    <2>2. ups \in {0, 1}
      BY <2>1 DEF StreamInv, LifeInv, BeginInv
    <2> QED  BY <2>1, <2>2, OpenStep, FreshStep
  <1> QED  BY <1>1, <1>2, <1>3, PTL DEF Spec, StreamSpec, Stream!Spec, abstract, phase
=============================================================================
