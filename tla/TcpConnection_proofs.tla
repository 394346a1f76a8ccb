------------------------ MODULE TcpConnection_proofs ------------------------
(***************************************************************************)
(* For any number of threads, messages, sizes and marks: the types, the    *)
(* order of the byte stream, and the high water warnings.                  *)
(*                                                                         *)
(* Only three things change the stream: a string handed to sendInLoop, a   *)
(* direct write, and handleWrite.  So the proof is about SendInLoop, which *)
(* a callback and a functor reach, and DispatchWrite; every other step     *)
(* leaves wire, outputBuffer_, accepted and warnings as they are.          *)
(***************************************************************************)
EXTENDS TcpConnection, SequenceTheorems, TLAPS

stream == <<wire, outputBuffer_, accepted, warnings>>

\* The types of the stream, and what reaches it.
StreamTypeOK ==
    /\ wire \in Seq(Bytes) /\ outputBuffer_ \in Seq(Bytes)
    /\ accepted \in Seq(Bytes) /\ warnings \in Nat
    /\ functors \in Seq(Functors) /\ pendingFunctors_ \in Seq(Functors)
    /\ call \in [Threads -> CallStates]

USE MessagesAssumption, OpsAssumption, MarkAssumption

-----------------------------------------------------------------------------
(* Sequences.                                                              *)

\* A sequence cut in two is itself again.
LEMMA CutAndJoin ==
  ASSUME NEW S, NEW s \in Seq(S), NEW n \in 0..Len(s)
  PROVE  /\ First(s, n) \in Seq(S) /\ Len(First(s, n)) = n
         /\ Rest(s, n) \in Seq(S) /\ Len(Rest(s, n)) = Len(s) - n
         /\ First(s, n) \o Rest(s, n) = s
  <1>1. /\ First(s, n) \in Seq(S) /\ Len(First(s, n)) = n
        /\ \A i \in 1..n : First(s, n)[i] = s[i]
    BY DEF First
  <1>2. /\ Rest(s, n) \in Seq(S) /\ Len(Rest(s, n)) = Len(s) - n
        /\ \A i \in 1..(Len(s) - n) : Rest(s, n)[i] = s[n + i]
    BY DEF Rest
  <1> DEFINE f == First(s, n)
             r == Rest(s, n)
  <1> HIDE DEF f, r
  <1>3. f \in Seq(S) /\ Len(f) = n /\ \A i \in 1..n : f[i] = s[i]
    BY <1>1 DEF f
  <1>4. /\ r \in Seq(S) /\ Len(r) = Len(s) - n
        /\ \A i \in 1..(Len(s) - n) : r[i] = s[n + i]
    BY <1>2 DEF r
  <1>5. f \o r \in Seq(S) /\ Len(f \o r) = Len(s)
    <2>1. f \o r \in Seq(S) /\ Len(f \o r) = Len(f) + Len(r)
      BY <1>3, <1>4, ConcatProperties
    <2> QED  BY <2>1, <1>3, <1>4
  <1>6. ASSUME NEW i \in 1..Len(s)
        PROVE  (f \o r)[i] = s[i]
    <2>1. CASE i <= n
      BY <2>1, <1>3, <1>4
    <2>2. CASE i > n
      <3>0. i \in 1..(Len(f) + Len(r))
        BY <1>3, <1>4
      <3>a. \A j \in 1..(Len(f) + Len(r)) :
                (f \o r)[j] = IF j <= Len(f) THEN f[j] ELSE r[j - Len(f)]
        BY <1>3, <1>4, ConcatProperties
      <3>1. (f \o r)[i] = r[i - n]
        BY <3>0, <3>a, <2>2, <1>3
      <3>2. i - n \in 1..(Len(s) - n) /\ n + (i - n) = i
        BY <2>2
      <3> QED  BY <3>1, <3>2, <1>4
    <2>3. i <= n \/ i > n
      OBVIOUS
    <2> QED  BY <2>1, <2>2, <2>3
  <1>7. f \o r = s
    BY <1>5, <1>6, SeqEqual
  <1> QED  BY <1>1, <1>2, <1>7 DEF f, r

\* u may be appended before or after.
JoinsBehind(u) == \A s, t \in Seq(Bytes) : (s \o t) \o u = s \o (t \o u)

LEMMA Associative ==
  \A u \in Seq(Bytes) : JoinsBehind(u)
  <1>1. SUFFICES ASSUME NEW s \in Seq(Bytes), NEW t \in Seq(Bytes),
                        NEW u \in Seq(Bytes)
                 PROVE  (s \o t) \o u = s \o (t \o u)
    BY DEF JoinsBehind
  <1> QED  BY ConcatAssociative, SMTT(30)

-----------------------------------------------------------------------------
(* The types.                                                              *)

\* What a step queues, and what it takes from the queue, are functors.
LEMMA QueueTyped ==
  ASSUME StreamTypeOK, NEW fs \in Seq(Functors), QueueInLoop(fs)
  PROVE  pendingFunctors_' \in Seq(Functors)
  BY DEF StreamTypeOK, QueueInLoop

LEMMA RunsTyped ==
  ASSUME StreamTypeOK, NEW op, Runs(op)
  PROVE  /\ functors' \in Seq(Functors)
         /\ Head(functors) \in Functors /\ Head(functors)[1] = op
  BY DEF StreamTypeOK, Runs

LEMMA SendsMessage ==
  ASSUME StreamTypeOK, Runs("send")
  PROVE  Head(functors)[2] \in Messages
  <1>1. Head(functors) \in Functors /\ Head(functors)[1] = "send"
    BY RunsTyped
  <1> QED  BY <1>1 DEF Functors

LEMMA Queued ==
  /\ << <<"writeComplete">> >> \in Seq(Functors)
  /\ << <<"highWaterMark">> >> \in Seq(Functors)
  /\ << <<"connectDestroyed">> >> \in Seq(Functors)
  BY DEF Functors

-----------------------------------------------------------------------------
(* sendInLoop.                                                             *)

\* All a message adds is behind what was there, in one piece, and the warning
\* is due exactly when the buffer passes the mark.
LEMMA SendKeeps ==
  ASSUME StreamTypeOK, NEW m \in Messages, NEW data \in Seq(Bytes),
         Len(data) = Size[m], SendInLoop(m, data)
  PROVE  /\ wire' \in Seq(Bytes) /\ outputBuffer_' \in Seq(Bytes)
         /\ accepted' \in Seq(Bytes) /\ warnings' \in Nat
         /\ pendingFunctors_' \in Seq(Functors)
         /\ HighWaterOnce => HighWaterOnce'
         /\ (data = [i \in 1..Size[m] |-> m] /\ StreamInOrder) => StreamInOrder'
  <1> DEFINE msg == [i \in 1..Size[m] |-> m]
  <1>0. msg \in Seq(Bytes) /\ Len(msg) = Size[m] /\ Size[m] \in Nat
    BY DEF Bytes
  <1> HIDE DEF msg
  <1>1. CASE \/ state_ = "kDisconnected"
             \/ state_ # "kDisconnected" /\ WritesDirectly /\ WriteFails
    <2>1. UNCHANGED <<wire, outputBuffer_, pendingFunctors_, accepted, warnings>>
      BY <1>1 DEF SendInLoop, FailedWrite, kernel
    <2> QED  BY <2>1 DEF StreamTypeOK, HighWaterOnce, StreamInOrder
  <1>2. CASE state_ # "kDisconnected" /\ ~(WritesDirectly /\ WriteFails)
    <2>1. PICK n \in Nat :
              /\ n \in IF WritesDirectly THEN Takes(Len(data)) ELSE {0}
              /\ Write(data, n)
              /\ \/ /\ n = Len(data)
                    /\ \/ QueueInLoop(<< <<"writeComplete">> >>)
                       \/ UNCHANGED pendingFunctors_
                    /\ UNCHANGED <<events_, watched, outputBuffer_, warnings>>
                 \/ n < Len(data) /\ BufferRest(Rest(data, n))
      BY <1>2 DEF SendInLoop, Takes
    <2>0. /\ wire \in Seq(Bytes) /\ outputBuffer_ \in Seq(Bytes)
          /\ accepted \in Seq(Bytes)
      BY DEF StreamTypeOK
    <2>2. accepted' = accepted \o msg
      BY <1>2 DEF SendInLoop, msg
    <2>3. n \in 0..Len(data) /\ (n > 0 => outputBuffer_ = <<>>)
      BY <2>1 DEF Takes, WritesDirectly
    <2> DEFINE f == First(data, n)
               r == Rest(data, n)
    <2>4. /\ f \in Seq(Bytes) /\ Len(f) = n /\ r \in Seq(Bytes)
          /\ Len(r) = Len(data) - n /\ f \o r = data
      BY <2>3, CutAndJoin
    <2>5. wire' = wire \o f
      BY <2>1 DEF Write
    <2> HIDE DEF f, r
    <2>8. f \in Seq(Bytes) /\ r \in Seq(Bytes)
      BY <2>4
    <2>9. JoinsBehind(r)
      BY <2>8, Associative
    <2>6. CASE n = Len(data)
      <3>1. UNCHANGED <<outputBuffer_, warnings>>
        BY <2>1, <2>6
      <3>2. pendingFunctors_' \in Seq(Functors)
        <4>1. CASE QueueInLoop(<< <<"writeComplete">> >>)
          BY <4>1, Queued, QueueTyped
        <4>2. CASE UNCHANGED pendingFunctors_
          BY <4>2 DEF StreamTypeOK
        <4> QED  BY <2>1, <2>6, <4>1, <4>2
      <3>3. r = <<>>
        BY <2>4, <2>6
      <3>4. f = data
        BY <3>3, <2>4, ConcatEmptySeq
      <3>5. (wire \o outputBuffer_) \o f = (wire \o f) \o outputBuffer_
        <4>1. CASE outputBuffer_ = <<>>
          <5>1. wire \o outputBuffer_ = wire /\ (wire \o f) \o outputBuffer_ = wire \o f
            BY <4>1, <2>0, <2>4, ConcatEmptySeq, ConcatProperties
          <5> QED  BY <5>1
        <4>2. CASE outputBuffer_ # <<>>
          <5>1. f = <<>>
            BY <4>2, <2>3, <2>4
          <5>2. wire \o outputBuffer_ \in Seq(Bytes)
            BY <2>0, ConcatProperties
          <5>3. (wire \o outputBuffer_) \o f = wire \o outputBuffer_ /\ wire \o f = wire
            BY <5>1, <5>2, <2>0, ConcatEmptySeq
          <5> QED  BY <5>3
        <4> QED  BY <4>1, <4>2
      <3>6. (data = msg /\ StreamInOrder) => StreamInOrder'
        BY <3>1, <3>4, <3>5, <2>2, <2>5 DEF StreamInOrder
      <3> QED
        <4>1. /\ wire' \in Seq(Bytes) /\ accepted' \in Seq(Bytes)
              /\ outputBuffer_' \in Seq(Bytes) /\ warnings' \in Nat
          <5>1. outputBuffer_' = outputBuffer_ /\ warnings' = warnings
            BY <3>1
          <5>2. wire' \in Seq(Bytes) /\ accepted' \in Seq(Bytes)
            BY <2>0, <2>2, <2>4, <2>5, <1>0
          <5> QED  BY <5>1, <5>2, <2>0 DEF StreamTypeOK
        <4>2. HighWaterOnce => HighWaterOnce'
          BY <3>1 DEF HighWaterOnce
        <4> QED  BY <4>1, <4>2, <3>2, <3>6 DEF msg
    <2>7. CASE n < Len(data)
      <3>1. BufferRest(r)
        BY <2>1, <2>7 DEF r
      <3>2. outputBuffer_' = outputBuffer_ \o r
        BY <3>1 DEF BufferRest
      <3>3. outputBuffer_' \in Seq(Bytes) /\ Len(outputBuffer_') = Len(outputBuffer_) + Len(r)
        BY <2>0, <2>8, <3>2, ConcatProperties
      <3>4. IF CrossesMark(Len(outputBuffer_), Len(outputBuffer_) + Len(r))
            THEN /\ QueueInLoop(<< <<"highWaterMark">> >>)
                 /\ warnings' = warnings + 1
            ELSE UNCHANGED <<pendingFunctors_, warnings>>
        BY <3>1 DEF BufferRest
      <3>5. pendingFunctors_' \in Seq(Functors) /\ warnings' \in Nat
        <4>1. CASE CrossesMark(Len(outputBuffer_), Len(outputBuffer_) + Len(r))
          <5>1. QueueInLoop(<< <<"highWaterMark">> >>) /\ warnings' = warnings + 1
            BY <3>4, <4>1
          <5>2. pendingFunctors_' \in Seq(Functors)
            BY <5>1, Queued, QueueTyped
          <5> QED  BY <5>1, <5>2 DEF StreamTypeOK
        <4>2. CASE ~CrossesMark(Len(outputBuffer_), Len(outputBuffer_) + Len(r))
          BY <3>4, <4>2 DEF StreamTypeOK
        <4> QED  BY <4>1, <4>2
      <3>6. HighWaterOnce => HighWaterOnce'
        <4>1. Len(outputBuffer_) \in Nat /\ Len(r) \in Nat \ {0}
          BY <2>3, <2>4, <2>7 DEF StreamTypeOK
        <4> QED  BY <4>1, <3>3, <3>4 DEF HighWaterOnce, CrossesMark, StreamTypeOK
      <3>7. (data = msg /\ StreamInOrder) => StreamInOrder'
        <4>1. SUFFICES ASSUME data = msg, StreamInOrder PROVE StreamInOrder'
          OBVIOUS
        <4>2. accepted' = (wire \o outputBuffer_) \o (f \o r)
          BY <4>1, <2>2, <2>4 DEF StreamInOrder
        <4>3. (wire \o outputBuffer_) \o (f \o r) = (wire \o f) \o (outputBuffer_ \o r)
          <5>1. CASE outputBuffer_ = <<>>
            <6>1. wire \o outputBuffer_ = wire /\ outputBuffer_ \o r = r
              BY <5>1, <2>4, ConcatEmptySeq DEF StreamTypeOK
            <6>2. (wire \o f) \o r = wire \o (f \o r)
              BY <2>8, <2>0, <2>9 DEF JoinsBehind
            <6> QED  BY <6>1, <6>2
          <5>2. CASE outputBuffer_ # <<>>
            <6>1. Len(f) = 0
              BY <5>2, <2>3, <2>4
            <6>2. f = <<>>
              BY <6>1, <2>4
            <6>3. f \o r = r /\ wire \o f = wire
              BY <6>2, <2>4, ConcatEmptySeq DEF StreamTypeOK
            <6>4. (wire \o outputBuffer_) \o r = wire \o (outputBuffer_ \o r)
              BY <2>0, <2>9 DEF JoinsBehind
            <6> QED  BY <6>3, <6>4
          <5> QED  BY <5>1, <5>2
        <4> QED  BY <4>2, <4>3, <3>2, <2>5 DEF StreamInOrder
      <3> QED
        BY <3>3, <3>5, <3>6, <3>7, <2>2, <2>4, <2>5, <1>0 DEF StreamTypeOK, msg
    <2> QED  BY <2>3, <2>6, <2>7
  <1> QED  BY <1>1, <1>2 DEF msg

-----------------------------------------------------------------------------
(* handleWrite.                                                            *)

\* What goes from the buffer to the wire is its front.
LEMMA WriteKeeps ==
  ASSUME StreamTypeOK, DispatchWrite
  PROVE  /\ wire' \in Seq(Bytes) /\ outputBuffer_' \in Seq(Bytes)
         /\ accepted' = accepted /\ warnings' \in Nat
         /\ pendingFunctors_' \in Seq(Functors)
         /\ HighWaterOnce => HighWaterOnce'
         /\ StreamInOrder => StreamInOrder'
  <1>0. accepted' = accepted
    BY DEF DispatchWrite
  <1>1. CASE ~IsWriting \/ WriteFails
    <2>1. UNCHANGED <<wire, outputBuffer_, pendingFunctors_, warnings>>
      BY <1>1 DEF DispatchWrite, FailedWrite, kernel
    <2> QED  BY <1>0, <2>1 DEF StreamTypeOK, HighWaterOnce, StreamInOrder
  <1>2. CASE IsWriting /\ ~WriteFails
    <2>0. /\ wire \in Seq(Bytes) /\ outputBuffer_ \in Seq(Bytes)
          /\ warnings \in Nat /\ Len(outputBuffer_) \in Nat
      BY DEF StreamTypeOK
    <2>1. PICK n \in Takes(Len(outputBuffer_)) :
              /\ outputBuffer_' = Retrieved(n)
              /\ wire' = wire \o First(outputBuffer_, n)
              /\ warnings' = IF Len(outputBuffer_) - n < HighWaterMark THEN 0
                             ELSE warnings
              /\ QueueInLoop(<< <<"writeComplete">> >>) \/ UNCHANGED pendingFunctors_
      BY <1>2 DEF DispatchWrite, Drained
    <2>2. n \in 0..Len(outputBuffer_)
      BY <2>0, <2>1 DEF Takes
    <2> DEFINE f == First(outputBuffer_, n)
               r == Rest(outputBuffer_, n)
    <2>3. /\ f \in Seq(Bytes) /\ r \in Seq(Bytes) /\ f \o r = outputBuffer_
          /\ Len(r) = Len(outputBuffer_) - n
      BY <2>0, <2>2, CutAndJoin
    <2>4. wire' = wire \o f /\ outputBuffer_' = r
      BY <2>1 DEF Retrieved
    <2> HIDE DEF f, r
    <2>5. wire' \in Seq(Bytes) /\ outputBuffer_' \in Seq(Bytes) /\ warnings' \in Nat
      BY <2>0, <2>1, <2>3, <2>4
    <2>6. pendingFunctors_' \in Seq(Functors)
      <3>1. CASE QueueInLoop(<< <<"writeComplete">> >>)
        BY <3>1, Queued, QueueTyped
      <3>2. CASE UNCHANGED pendingFunctors_
        BY <3>2 DEF StreamTypeOK
      <3> QED  BY <3>1, <3>2, <2>1
    <2>7. HighWaterOnce => HighWaterOnce'
      <3>1. Len(outputBuffer_') = Len(outputBuffer_) - n
        BY <2>3, <2>4
      <3> QED  BY <3>1, <2>0, <2>1, <2>2 DEF HighWaterOnce
    <2>8. StreamInOrder => StreamInOrder'
      <3>0. f \in Seq(Bytes) /\ r \in Seq(Bytes)
        BY <2>3
      <3>1. JoinsBehind(r)
        BY <3>0, Associative
      <3>2. (wire \o f) \o r = wire \o (f \o r)
        BY <3>0, <3>1, <2>0 DEF JoinsBehind
      <3> QED  BY <3>2, <1>0, <2>0, <2>3, <2>4 DEF StreamInOrder
    <2> QED  BY <1>0, <2>5, <2>6, <2>7, <2>8
  <1> QED  BY <1>1, <1>2

-----------------------------------------------------------------------------
(* The two senders, and every other step.                                  *)

Kept == StreamTypeOK' /\ (HighWaterOnce => HighWaterOnce')

Sends == RunSend \/ \E m \in Messages : UserSend(m)

\* Memory(m) has the size of m.
LEMMA MemoryTyped ==
  ASSUME NEW m \in Messages, NEW data \in Memory(m)
  PROVE  /\ data \in Seq(Bytes) /\ Len(data) = Size[m]
         /\ StringsKept => data = [i \in 1..Size[m] |-> m]
  <1>1. PICK x \in Bytes : /\ data = [i \in 1..Size[m] |-> x]
                           /\ StringsKept => x = m
    BY DEF Memory, Bytes
  <1>2. Size[m] \in Nat
    OBVIOUS
  <1> QED  BY <1>1, <1>2

LEMMA SendsKeep ==
  ASSUME StreamTypeOK, Sends
  PROVE  Kept /\ (StringsKept /\ StreamInOrder => StreamInOrder')
  <1>1. CASE RunSend
    <2>1. Runs("send")
      BY <1>1 DEF RunSend
    <2> DEFINE m == Head(functors)[2]
    <2>2. m \in Messages
      BY <2>1, SendsMessage
    <2>3. PICK data \in Memory(m) : SendInLoop(m, data)
      BY <1>1 DEF RunSend
    <2> HIDE DEF m
    <2>4. functors' \in Seq(Functors) /\ call' = call
      BY <2>1, RunsTyped DEF Runs, users
    <2>5. /\ data \in Seq(Bytes) /\ Len(data) = Size[m]
          /\ StringsKept => data = [i \in 1..Size[m] |-> m]
      BY <2>2, <2>3, MemoryTyped
    <2> QED  BY <2>2, <2>3, <2>4, <2>5, SendKeeps DEF Kept, StreamTypeOK
  <1>2. CASE \E m \in Messages : UserSend(m)
    <2>1. PICK m \in Messages : UserSend(m)
      BY <1>2
    <2> DEFINE data == [i \in 1..Size[m] |-> m]
    <2>2. data \in Seq(Bytes) /\ Len(data) = Size[m]
      BY DEF Bytes
    <2>3. SendInLoop(m, data) /\ UNCHANGED <<functors, call>>
      BY <2>1 DEF UserSend
    <2> QED  BY <2>2, <2>3, SendKeeps DEF Kept, StreamTypeOK
  <1> QED  BY <1>1, <1>2 DEF Sends

\* The steps that queue something and do nothing else to the stream.
Queues ==
    \/ ServerRemoves \/ ServerStops
    \/ \E t \in Threads : RunInLoop(t) \/ ShutdownCheck(t) \/ ShutdownSet(t)
    \/ \E t \in Threads, m \in Messages : SendCheck(t, m)

LEMMA QueuesKeep ==
  ASSUME StreamTypeOK, Queues
  PROVE  StreamTypeOK' /\ UNCHANGED stream
  <1>0. UNCHANGED stream /\ UNCHANGED functors
    BY DEF Queues, ServerRemoves, ServerStops, RunInLoop, ShutdownCheck,
           ShutdownSet, SendCheck, conn, kernel, history, queues, stream
  <1>1. CASE ServerRemoves \/ ServerStops
    <2>1. QueueInLoop(<< <<"connectDestroyed">> >>) /\ call' = call
      BY <1>1 DEF ServerRemoves, ServerStops, users
    <2> QED  BY <1>0, <2>1, Queued, QueueTyped DEF StreamTypeOK, stream
  <1>2. CASE \E t \in Threads : RunInLoop(t)
    <2>1. PICK t \in Threads : RunInLoop(t)
      BY <1>2
    <2>2. call[t] \in Functors
      BY <2>1 DEF RunInLoop, StreamTypeOK, CallStates, Functors
    <2>3. <<call[t]>> \in Seq(Functors)
      BY <2>2
    <2>4. QueueInLoop(<<call[t]>>) /\ call' = [call EXCEPT ![t] = <<>>]
      BY <2>1 DEF RunInLoop, Goes
    <2>5. pendingFunctors_' \in Seq(Functors)
      BY <2>3, <2>4, QueueTyped
    <2>6. call' \in [Threads -> CallStates]
      BY <2>4 DEF StreamTypeOK, CallStates
    <2> QED  BY <1>0, <2>5, <2>6 DEF StreamTypeOK, stream
  <1>3. CASE \/ \E t \in Threads : ShutdownCheck(t) \/ ShutdownSet(t)
             \/ \E t \in Threads, m \in Messages : SendCheck(t, m)
    <2>1. PICK t \in Threads, s \in CallStates : call' = [call EXCEPT ![t] = s]
      BY <1>3 DEF ShutdownCheck, ShutdownSet, SendCheck, Goes, CallStates
    <2>2. pendingFunctors_' = pendingFunctors_
      BY <1>3 DEF ShutdownCheck, ShutdownSet, SendCheck, queues
    <2> QED  BY <1>0, <2>1, <2>2 DEF StreamTypeOK, stream
  <1> QED  BY <1>1, <1>2, <1>3 DEF Queues

\* The steps that take from the queue, or do not touch it.
Others ==
    \/ Poll \/ DispatchHup \/ DispatchError \/ DispatchRead \/ CloseCallback
    \/ DoPendingFunctors \/ RunEstablished \/ RunShutdown \/ RunCallback
    \/ RunDestroyed \/ Destroying \/ Removing \/ PollAgain \/ UserReturns
    \/ UserShutdown \/ PeerSends \/ PeerReads \/ PeerLeaves \/ UNCHANGED vars

LEMMA OthersKeep ==
  ASSUME StreamTypeOK, Others
  PROVE  StreamTypeOK' /\ UNCHANGED stream
  <1>1. UNCHANGED stream
    BY DEF Others, Poll, DispatchHup, DispatchError, DispatchRead, CloseCallback,
           DoPendingFunctors, RunEstablished, RunShutdown, RunCallback,
           RunDestroyed, Destroying, Removing, PollAgain, UserReturns,
           UserShutdown, PeerSends, PeerReads, PeerLeaves, HandleClose, Runs,
           vars, conn, kernel, history, stream
  <1>2. call' = call
    BY DEF Others, Poll, DispatchHup, DispatchError, DispatchRead, CloseCallback,
           DoPendingFunctors, RunEstablished, RunShutdown, RunCallback,
           RunDestroyed, Destroying, Removing, PollAgain, UserReturns,
           UserShutdown, PeerSends, PeerReads, PeerLeaves, HandleClose, Runs,
           vars, users
  <1>3. functors' \in Seq(Functors) /\ pendingFunctors_' \in Seq(Functors)
    <2>1. CASE \/ RunEstablished \/ RunShutdown \/ RunCallback \/ RunDestroyed
      <3>1. \E op : Runs(op)
        BY <2>1 DEF RunEstablished, RunShutdown, RunCallback, RunDestroyed
      <3>2. pendingFunctors_' = pendingFunctors_
        BY <2>1 DEF RunEstablished, RunShutdown, RunCallback, RunDestroyed
      <3> QED  BY <3>1, <3>2, RunsTyped DEF StreamTypeOK
    <2>2. CASE DoPendingFunctors
      BY <2>2 DEF DoPendingFunctors, StreamTypeOK
    <2>3. CASE \/ Poll \/ DispatchHup \/ DispatchError \/ DispatchRead \/ CloseCallback
               \/ Destroying \/ Removing \/ PollAgain \/ UserReturns
               \/ UserShutdown \/ PeerSends \/ PeerReads \/ PeerLeaves \/ UNCHANGED vars
      <3>1. UNCHANGED queues
        BY <2>3 DEF Poll, DispatchHup, DispatchError, DispatchRead, CloseCallback,
             Destroying, Removing, PollAgain, UserReturns, UserShutdown,
             PeerSends, PeerReads, PeerLeaves, HandleClose, vars, queues
      <3> QED  BY <3>1 DEF queues, StreamTypeOK
    <2> QED  BY <2>1, <2>2, <2>3 DEF Others
  <1> QED  BY <1>1, <1>2, <1>3 DEF stream, StreamTypeOK

LEMMA StepKinds ==
  ASSUME [Next]_vars
  PROVE  Sends \/ DispatchWrite \/ Queues \/ Others
  BY DEF Next, LoopStep, UserStep, ThreadStep, Sends, Queues, Others

LEMMA StepKeeps ==
  ASSUME StreamTypeOK, [Next]_vars
  PROVE  Kept /\ (StringsKept /\ StreamInOrder => StreamInOrder')
  <1>1. CASE Sends
    BY <1>1, SendsKeep
  <1>2. CASE DispatchWrite
    <2>1. UNCHANGED <<functors, call>>
      BY <1>2 DEF DispatchWrite, users
    <2> QED  BY <1>2, <2>1, WriteKeeps DEF Kept, StreamTypeOK
  <1>3. CASE Queues \/ Others
    <2>1. StreamTypeOK' /\ UNCHANGED stream
      BY <1>3, QueuesKeep, OthersKeep
    <2> QED  BY <2>1 DEF Kept, stream, HighWaterOnce, StreamInOrder
  <1> QED  BY <1>1, <1>2, <1>3, StepKinds

LEMMA InitialStream == Init => StreamTypeOK /\ HighWaterOnce /\ StreamInOrder
  <1> SUFFICES ASSUME Init PROVE StreamTypeOK /\ HighWaterOnce /\ StreamInOrder
    OBVIOUS
  <1>1. StreamTypeOK
    BY DEF Init, StreamTypeOK, Functors, CallStates
  <1>2. HighWaterOnce /\ StreamInOrder
    BY ConcatEmptySeq DEF Init, HighWaterOnce, StreamInOrder
  <1> QED  BY <1>1, <1>2

LEMMA StreamTypes == Spec => []StreamTypeOK
  <1>1. StreamTypeOK /\ [Next]_vars => StreamTypeOK'
    BY StepKeeps DEF Kept
  <1> QED  BY <1>1, InitialStream, PTL DEF Spec

-----------------------------------------------------------------------------
(* The other types.                                                        *)

ControlTypeOK ==
    /\ state_ \in {"kDisconnected", "kConnecting", "kConnected", "kDisconnecting"}
    /\ events_ \subseteq {"read", "write"} /\ watched \in BOOLEAN
    /\ removed \in BOOLEAN
    /\ pc \in {"poll", "dispatch", "functors", "user", "closing", "destroying",
               "removing"}
    /\ after \in {"poll", "dispatch", "functors", "closing", "removing"}
    /\ revents \subseteq {"hup", "error", "read", "write"}
    /\ unsent \subseteq Messages
    /\ owner \in {"server", "removing", "removed", "stopped"}
    /\ input \in BOOLEAN /\ peer \in {"open", "fin", "reset", "dead"}
    /\ room \in 0..SendBuffer /\ shutWr \in BOOLEAN
    /\ ups \in Nat /\ downs \in Nat /\ brokenPipe \in BOOLEAN

LEMMA ControlInitial == Init => ControlTypeOK
  <1> SUFFICES ASSUME Init PROVE ControlTypeOK
    OBVIOUS
  <1>1. room = SendBuffer /\ room \in 0..SendBuffer
    BY DEF Init
  <1>2. /\ watched \in BOOLEAN /\ removed \in BOOLEAN /\ input \in BOOLEAN
        /\ shutWr \in BOOLEAN /\ brokenPipe \in BOOLEAN
    BY Zenon DEF Init
  <1>3. /\ state_ = "kConnecting" /\ events_ = {} /\ pc = "poll" /\ after = "poll"
        /\ revents = {} /\ unsent = Messages /\ owner = "server" /\ peer = "open"
        /\ ups = 0 /\ downs = 0
    BY Zenon DEF Init
  <1> QED  BY <1>1, <1>2, <1>3 DEF ControlTypeOK

\* The flags that are set to conditions.
LEMMA UpdateTypes ==
  ASSUME NEW events, Update(events)
  PROVE  events_' = events /\ watched' \in BOOLEAN
  BY Zenon DEF Update

LEMMA ShutdownTypes ==
  ASSUME ShutdownInLoop
  PROVE  shutWr' \in BOOLEAN
  BY Zenon DEF ShutdownInLoop

LEMMA FailedWriteTypes ==
  ASSUME ControlTypeOK, FailedWrite
  PROVE  /\ peer' \in {peer, "dead"} /\ brokenPipe' \in BOOLEAN
         /\ UNCHANGED <<input, room, shutWr>>
  BY Zenon DEF FailedWrite

LEMMA SendInLoopTypes ==
  ASSUME ControlTypeOK, NEW m, NEW data \in Seq(Bytes), SendInLoop(m, data)
  PROVE  /\ UNCHANGED <<state_, removed, ups, downs, input>>
         /\ events_' \subseteq {"read", "write"} /\ watched' \in BOOLEAN
         /\ peer' \in {"open", "fin", "reset", "dead"} /\ room' \in 0..SendBuffer
         /\ shutWr' \in BOOLEAN /\ brokenPipe' \in BOOLEAN
  <1>0. UNCHANGED <<state_, removed, ups, downs>>
    BY DEF SendInLoop
  <1>1. CASE state_ = "kDisconnected"
    BY <1>0, <1>1 DEF SendInLoop, ControlTypeOK, kernel
  <1>2. CASE state_ # "kDisconnected" /\ WritesDirectly /\ WriteFails
    <2>1. FailedWrite /\ UNCHANGED <<events_, watched>>
      BY <1>2 DEF SendInLoop
    <2> QED  BY <1>0, <2>1, FailedWriteTypes DEF ControlTypeOK
  <1>3. CASE state_ # "kDisconnected" /\ ~(WritesDirectly /\ WriteFails)
    <2>1. PICK n \in Nat :
              /\ n <= room /\ Write(data, n)
              /\ \/ UNCHANGED <<events_, watched>>
                 \/ EnableWriting
      BY <1>3 DEF SendInLoop, Takes, BufferRest, ControlTypeOK
    <2>2. /\ room' \in 0..SendBuffer
          /\ UNCHANGED <<input, peer, shutWr, brokenPipe>>
      BY <2>1 DEF Write, ControlTypeOK
    <2>3. events_' \subseteq {"read", "write"} /\ watched' \in BOOLEAN
      <3>1. CASE UNCHANGED <<events_, watched>>
        BY <3>1 DEF ControlTypeOK
      <3>2. CASE EnableWriting
        <4>1. events_' = events_ \cup {"write"} /\ watched' \in BOOLEAN
          BY <3>2, UpdateTypes, Zenon DEF EnableWriting
        <4> QED  BY <4>1 DEF ControlTypeOK
      <3> QED  BY <2>1, <3>1, <3>2
    <2> QED  BY <1>0, <2>2, <2>3 DEF ControlTypeOK
  <1> QED  BY <1>1, <1>2, <1>3

LEMMA ControlKept ==
  ASSUME StreamTypeOK, ControlTypeOK, [Next]_vars
  PROVE  ControlTypeOK'
  <1> USE DEF ControlTypeOK, conn, queues, loop, users, kernel, history
  <1>1. CASE Sends
    <2>1. CASE RunSend
      <3>1. Head(functors)[2] \in Messages
        BY <2>1, SendsMessage DEF RunSend
      <3>2. PICK data \in Memory(Head(functors)[2]) :
                 SendInLoop(Head(functors)[2], data)
        BY <2>1 DEF RunSend
      <3>3. data \in Seq(Bytes)
        BY <3>1, <3>2, MemoryTyped
      <3>4. UNCHANGED <<pc, after, revents, unsent, owner>>
        BY <2>1 DEF RunSend, Runs
      <3> QED  BY <3>2, <3>3, <3>4, SendInLoopTypes
    <2>2. CASE \E m \in Messages : UserSend(m)
      <3>1. PICK m \in Messages : UserSend(m)
        BY <2>2
      <3> DEFINE data == [i \in 1..Size[m] |-> m]
      <3>2. data \in Seq(Bytes)
        BY DEF Bytes
      <3>3. /\ SendInLoop(m, data) /\ unsent' = unsent \ {m}
            /\ UNCHANGED <<pc, after, revents, owner>>
        BY <3>1 DEF UserSend
      <3> QED  BY <3>2, <3>3, SendInLoopTypes
    <2> QED  BY <1>1, <2>1, <2>2 DEF Sends
  <1>2. CASE DispatchWrite
    <2>1. UNCHANGED <<state_, removed, pc, after, unsent, owner, ups, downs, input>>
      BY <1>2 DEF DispatchWrite, FailedWrite
    <2>2. revents' \subseteq revents
      BY <1>2 DEF DispatchWrite, Dispatch
    <2>3. /\ events_' \subseteq events_ /\ watched' \in BOOLEAN
          /\ shutWr' \in BOOLEAN
      BY <1>2 DEF DispatchWrite, FailedWrite, Drained, DisableWriting, Update,
                  ShutdownAfterOutput
    <2>4. /\ peer' \in {"open", "fin", "reset", "dead"} /\ room' \in 0..SendBuffer
          /\ brokenPipe' \in BOOLEAN
      BY <1>2 DEF DispatchWrite, FailedWrite, Takes
    <2> QED  BY <2>1, <2>2, <2>3, <2>4
  <1>3. CASE Queues
    <2>1. UNCHANGED <<events_, watched, removed, pc, after, revents, input, peer, room,
                      shutWr, ups, downs, brokenPipe>>
      BY <1>3 DEF Queues, ServerRemoves, ServerStops, RunInLoop, ShutdownCheck,
                  ShutdownSet, SendCheck
    <2>2. /\ state_' \in {state_, "kDisconnecting"} /\ unsent' \subseteq unsent
          /\ owner' \in {owner, "removed", "stopped"}
      BY <1>3 DEF Queues, ServerRemoves, ServerStops, RunInLoop, ShutdownCheck,
                  ShutdownSet, SendCheck
    <2> QED  BY <2>1, <2>2
  <1>4. CASE DispatchHup \/ DispatchError \/ DispatchRead \/ CloseCallback
    <2>1. \/ HandleClose
          \/ UNCHANGED <<state_, events_, watched, downs>>
      BY <1>4 DEF DispatchHup, DispatchError, DispatchRead, CloseCallback
    <2>2. /\ state_' \in {state_, "kDisconnected"} /\ downs' \in {downs, downs + 1}
          /\ events_' \in {events_, {}} /\ watched' \in BOOLEAN
      <3>1. ASSUME HandleClose
            PROVE  state_' = "kDisconnected" /\ downs' = downs + 1 /\ DisableAll
        BY <3>1 DEF HandleClose
      <3>2. ASSUME DisableAll
            PROVE  events_' = {} /\ watched' \in BOOLEAN
        BY <3>2, UpdateTypes, Zenon DEF DisableAll
      <3> QED  BY <2>1, <3>1, <3>2
    <2>3. UNCHANGED <<removed, unsent, room, shutWr, ups, brokenPipe>>
      BY <1>4 DEF DispatchHup, DispatchError, DispatchRead, CloseCallback, HandleClose
    <2>4. /\ revents' \subseteq revents /\ owner' \in {owner, "removing"}
          /\ input' \in {input, FALSE} /\ peer' \in {peer, "dead"}
      BY <1>4 DEF DispatchHup, DispatchError, DispatchRead, CloseCallback, Told,
                  HandleClose, Dispatch
    <2>5. /\ pc' \in {pc, "user", "dispatch"}
          /\ after' \in {after, "closing", "dispatch"}
      BY <1>4 DEF DispatchHup, DispatchError, DispatchRead, CloseCallback,
                  HandleClose, CallUser
    <2>6. /\ pc' \in {"poll", "dispatch", "functors", "user", "closing", "destroying",
                     "removing"}
          /\ after' \in {"poll", "dispatch", "functors", "closing", "removing"}
      BY <2>5
    <2>7. /\ state_' \in {"kDisconnected", "kConnecting", "kConnected", "kDisconnecting"}
          /\ downs' \in Nat /\ events_' \subseteq {"read", "write"}
      BY <2>2
    <2> QED  BY <2>2, <2>3, <2>4, <2>6, <2>7
  <1>5. CASE RunEstablished \/ Destroying
    <2>1. \/ Update(events_ \cup {"read"})
          \/ Update({})
      BY <1>5, Zenon DEF RunEstablished, Destroying, DisableAll
    <2>2. events_' \in {events_ \cup {"read"}, {}} /\ watched' \in BOOLEAN
      BY <2>1, UpdateTypes
    <2>3. UNCHANGED <<removed, unsent, owner, input, peer, room, shutWr, brokenPipe,
                      revents>>
      BY <1>5 DEF RunEstablished, Destroying, Runs
    <2>4. /\ state_' \in {"kConnected", "kDisconnected"} /\ pc' = "user"
          /\ after' \in {"functors", "removing"}
          /\ ups' \in {ups, ups + 1} /\ downs' \in {downs, downs + 1}
      BY <1>5 DEF RunEstablished, Destroying, CallUser
    <2> QED  BY <2>2, <2>3, <2>4
  <1>6. CASE RunShutdown \/ UserShutdown
    <2>1. shutWr' \in BOOLEAN
      BY <1>6, ShutdownTypes DEF RunShutdown, UserShutdown
    <2>2. UNCHANGED <<events_, watched, removed, unsent, owner, input, peer, room, ups,
                      downs, brokenPipe, pc, after, revents>>
      BY <1>6 DEF RunShutdown, UserShutdown, Runs
    <2>3. state_' \in {state_, "kDisconnecting"}
      BY <1>6 DEF RunShutdown, UserShutdown
    <2> QED  BY <2>1, <2>2, <2>3
  <1>8. CASE RunCallback \/ RunDestroyed \/ Removing \/ PollAgain \/ UserReturns
    <2>1. UNCHANGED <<state_, events_, unsent, owner, input, peer, room, shutWr, ups,
                      downs, brokenPipe, revents>>
      BY <1>8 DEF RunCallback, RunDestroyed, Removing, PollAgain, UserReturns, Runs
    <2>2. removed' \in BOOLEAN /\ watched' \in BOOLEAN
      BY <1>8 DEF RunCallback, RunDestroyed, Removing, PollAgain, UserReturns
    <2>3. /\ pc' \in {"user", "destroying", "removing", "functors", "poll", after}
          /\ after' \in {after, "functors"}
      BY <1>8 DEF RunCallback, RunDestroyed, Removing, PollAgain, UserReturns, CallUser
    <2> QED  BY <2>1, <2>2, <2>3
  <1>9. CASE Poll \/ DoPendingFunctors
    <2>1. Ready \subseteq {"hup", "error", "read", "write"}
      BY DEF Ready
    <2>2. UNCHANGED <<state_, events_, watched, removed, unsent, owner, input, peer,
                      room, shutWr, ups, downs, brokenPipe, after>>
      BY <1>9 DEF Poll, DoPendingFunctors
    <2>3. revents' \in {Ready, revents} /\ pc' \in {"dispatch", "functors"}
      BY <1>9 DEF Poll, DoPendingFunctors
    <2> QED  BY <2>1, <2>2, <2>3
  <1>10. CASE PeerSends \/ PeerReads \/ PeerLeaves
    <2>1. /\ input' \in BOOLEAN /\ peer' \in {peer, "fin", "reset"}
      BY <1>10, Zenon DEF PeerSends, PeerReads, PeerLeaves
    <2>2. room' \in 0..SendBuffer
      BY <1>10 DEF PeerSends, PeerReads, PeerLeaves
    <2>3. UNCHANGED <<state_, events_, watched, removed, unsent, owner, shutWr, ups,
                      downs, brokenPipe, pc, after, revents>>
      BY <1>10 DEF PeerSends, PeerReads, PeerLeaves
    <2> QED  BY <2>1, <2>2, <2>3
  <1>7. CASE UNCHANGED vars
    BY <1>7 DEF vars
  <1> QED
    BY <1>1, <1>2, <1>3, <1>4, <1>5, <1>6, <1>7, <1>8, <1>9, <1>10, StepKinds
    DEF Others

-----------------------------------------------------------------------------
(* The theorems.                                                           *)

(* Every step of the loop's thread, of the others and of the peer keeps the *)
(* types: what is written fits, and the queues hold functors.               *)
THEOREM TypeCorrect == Spec => []TypeOK
  <1>1. StreamTypeOK /\ ControlTypeOK /\ [Next]_vars => ControlTypeOK'
    BY ControlKept
  <1>2. StreamTypeOK /\ ControlTypeOK => TypeOK
    BY DEF StreamTypeOK, ControlTypeOK, TypeOK
  <1> QED  BY <1>1, <1>2, ControlInitial, StreamTypes, PTL DEF Spec

(* sendInLoop and handleWrite: the high water callback is queued once for   *)
(* each time the output passes the mark, whoever sends.                     *)
THEOREM WarnsOnce == Spec => []HighWaterOnce
  <1>1. StreamTypeOK /\ HighWaterOnce /\ [Next]_vars => HighWaterOnce'
    BY StepKeeps DEF Kept
  <1> QED  BY <1>1, InitialStream, StreamTypes, PTL DEF Spec

(* sendInLoop and handleWrite lose, repeat and reorder nothing, whoever      *)
(* sends, as long as the strings that wait for the loop are kept.           *)
THEOREM KeepsOrder == StringsKept => (Spec => []StreamInOrder)
  <1> SUFFICES ASSUME StringsKept PROVE Spec => []StreamInOrder
    OBVIOUS
  <1>1. StreamTypeOK /\ StreamInOrder /\ [Next]_vars => StreamInOrder'
    BY StepKeeps
  <1> QED  BY <1>1, InitialStream, StreamTypes, PTL DEF Spec
=============================================================================
