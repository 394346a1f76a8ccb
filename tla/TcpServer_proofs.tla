-------------------------- MODULE TcpServer_proofs ---------------------------
(***************************************************************************)
(* Proofs about TcpServer for any clients, threads and descriptors: no     *)
(* pointer dangles, and each connection is destroyed once by its loop.     *)
(*                                                                         *)
(* A loop's functors are looked at through three predicates on the         *)
(* sequence still to run: that a functor is in it, that it is there once,  *)
(* and that one comes before another.  The invariant says of each          *)
(* connection which of its functors may be in which loop, in what order,   *)
(* and what its state is meanwhile.                                        *)
(***************************************************************************)
EXTENDS TcpServer, SequenceTheorems, FiniteSetTheorems, TLAPS

In(q, f) == \E i \in 1..Len(q) : q[i] = f
Once(q, f) == \A i, j \in 1..Len(q) : q[i] = f /\ q[j] = f => i = j
Before(q, f, g) == \A i, j \in 1..Len(q) : q[i] = f /\ q[j] = g => i < j

Est(c) == Functor("connectEstablished", c)
Des(c) == Functor("connectDestroyed", c)
Rem(c) == Functor("removeConnectionInLoop", c)
Snd(c) == Functor("sendInLoop", c)

-----------------------------------------------------------------------------
(* The invariant.                                                          *)

\* The base loop and the server: the one is in its rounds only while the other
\* is started, and ends after it.
BaseInv ==
    /\ pc[Base] # "none"
    /\ pc[Base] \in {"poll", "dispatch", "functors"} => server = "started"
    /\ server \in {"ending", "gone"} => pc[Base] \in {"returned", "gone"}
    /\ pc[Base] = "gone" => server = "gone"
    /\ server = "made" => loops_ = <<>> /\ next_ = 0 /\ pc[Base] = "entering"
    /\ listenning_ => server \in {"started", "ending"}

\* The pool: its threads run, until the destructor has them quit in turn.
PoolInv ==
    /\ \A l \in IoLoops : (pc[l] # "none" <=> l \in Range(loops_)) /\ pc[l] # "returned"
    /\ \A l \in IoLoops : quit_[l] \/ pc[l] = "gone" => joining > 0
    /\ joining > 0 => server \in {"ending", "gone"}
    /\ server = "gone" \/ joining > 0 => connections_ = {}
    /\ \A k \in 1..Len(loops_) : k < joining => pc[loops_[k]] = "gone"
    /\ server = "gone" => \A k \in 1..Len(loops_) : pc[loops_[k]] = "gone"

\* A loop's round.
RoundInv ==
    \A l \in Loops :
        /\ pc[l] # "functors" => functors[l] = <<>>
        /\ at[l] <= Len(functors[l]) + 1
        /\ active[l] # {} => pc[l] = "dispatch"
        /\ Acceptor \in active[l] => l = Base /\ backlog # <<>>
        /\ \A c \in active[l] \ {Acceptor} : loopOf[c] = l /\ index_[c] = "kAdded"

\* Those that wait to be accepted are new and differ.
BacklogInv ==
    /\ IsInjective(backlog)
    /\ \A c \in Range(backlog) : ~Created(c)

\* A connection not there yet.
Fresh(c) ==
    ~Created(c) =>
        /\ state_[c] = "kConnecting" /\ index_[c] = "kNew" /\ destroys[c] = 0
        /\ c \notin connections_ \cup held

\* A functor is queued in the loop that may run it.
Placed(c) ==
    \A l \in Loops, f \in Doings :
        In(ToRun(l), Functor(f, c)) =>
            /\ Created(c)
            /\ IF f = "removeConnectionInLoop" THEN l = Base /\ loopOf[c] # Base
               ELSE l = loopOf[c]

Whole == <<"up", "down">>

\* state_ against the rest of the connection.
StateInv(c) ==
    /\ reports[c] = CASE state_[c] = "kConnecting" -> <<>>
                      [] state_[c] = "kDisconnected" -> Whole
                      [] OTHER -> <<"up">>
    /\ index_[c] = "kAdded" => state_[c] \in {"kConnected", "kDisconnecting"}
    /\ destroys[c] > 0 => index_[c] = "kNew"
    /\ c \in held => state_[c] # "kConnecting"
    /\ c \in sending => c \in held /\ server = "started"

\* Its loop has been started.
HomeInv(c) == server # "made" /\ pc[loopOf[c]] # "none"

\* connectEstablished, once, before all else.
EstInv(c) ==
    LET q == ToRun(loopOf[c]) IN
    /\ Once(q, Est(c)) /\ Before(q, Est(c), Des(c))
    /\ In(q, Est(c)) =>
           loopOf[c] # Base /\ state_[c] = "kConnecting" /\ destroys[c] = 0

\* removeConnectionInLoop, once, for a connection that is down and, as long as
\* the server is there to remove it, in the map.
RemInv(c) ==
    LET q == ToRun(Base) IN
    /\ Once(q, Rem(c))
    /\ In(q, Rem(c)) =>
           state_[c] = "kDisconnected" /\ (server = "started" => c \in connections_)

\* connectDestroyed, once, when it has left the map, which while the server is
\* there it does only when it is down.
DesInv(c) ==
    LET q == ToRun(loopOf[c]) IN
    /\ Once(q, Des(c))
    /\ Running(loopOf[c]) =>
           IF c \in connections_ THEN destroys[c] = 0 /\ ~In(q, Des(c))
           ELSE destroys[c] = IF In(q, Des(c)) THEN 0 ELSE 1
    /\ server = "started" /\ c \notin connections_ => state_[c] = "kDisconnected"

\* sendInLoop: its user has the connection; behind connectDestroyed it finds
\* the connection down.  (A base loop that has returned runs none.)
SndInv(c) ==
    LET q == ToRun(loopOf[c]) IN
    /\ In(q, Snd(c)) => c \in held
    /\ state_[c] # "kDisconnected" =>
           /\ Before(q, Snd(c), Des(c))
           /\ destroys[c] > 0 /\ In(q, Snd(c)) =>
                  loopOf[c] = Base /\ server # "started"

ConnInv(c) ==
    /\ Fresh(c) /\ Placed(c) /\ StateInv(c)
    /\ Created(c) =>
           HomeInv(c) /\ EstInv(c) /\ RemInv(c) /\ DesInv(c) /\ SndInv(c)

Inv ==
    /\ Types /\ BaseInv /\ PoolInv /\ RoundInv /\ BacklogInv
    /\ \A c \in Clients : ConnInv(c)

-----------------------------------------------------------------------------
(* Functors in a sequence.                                                 *)

LEMMA InAppended ==
    ASSUME NEW S, NEW q \in Seq(S), NEW h \in S, NEW f, NEW g
    PROVE  /\ In(Append(q, h), f) <=> In(q, f) \/ f = h
           /\ Once(q, f) /\ (f = h => ~In(q, f)) => Once(Append(q, h), f)
           /\ Before(q, f, g) /\ ~(f = h /\ g = h) /\ (f = h => ~In(q, g))
                  => Before(Append(q, h), f, g)
<1> DEFINE r == Append(q, h)
<1>1. /\ Len(r) = Len(q) + 1 /\ Len(q) \in Nat
      /\ \A i \in 1..Len(q) : r[i] = q[i]
      /\ r[Len(q) + 1] = h
  BY AppendProperties
<1>2. \A i \in 1..Len(r) : i \in 1..Len(q) \/ i = Len(q) + 1
  BY <1>1
<1>3. \A i \in 1..Len(q) : i \in 1..Len(r)
  BY <1>1
<1>4. Len(q) + 1 \in 1..Len(r)
  BY <1>1
<1> HIDE DEF r
<1>5. In(r, f) <=> In(q, f) \/ f = h
  BY <1>1, <1>2, <1>3, <1>4 DEF In
<1>6. Once(q, f) /\ (f = h => ~In(q, f)) => Once(r, f)
  BY <1>1, <1>2, <1>3, <1>4 DEF In, Once
<1>7. Before(q, f, g) /\ ~(f = h /\ g = h) /\ (f = h => ~In(q, g)) => Before(r, f, g)
  BY <1>1, <1>2, <1>3, <1>4 DEF In, Before
<1> QED
  BY <1>5, <1>6, <1>7 DEF r

LEMMA InRest ==
    ASSUME NEW S, NEW q \in Seq(S), q # <<>>, NEW f, NEW g
    PROVE  /\ In(q, f) <=> In(Tail(q), f) \/ f = Head(q)
           /\ Once(q, f) => Once(Tail(q), f) /\ (f = Head(q) => ~In(Tail(q), f))
           /\ Before(q, f, g) =>
                  Before(Tail(q), f, g) /\ (g = Head(q) => ~In(Tail(q), f))
<1> DEFINE r == Tail(q)
<1>1. /\ Len(q) \in Nat /\ Len(q) > 0 /\ Len(r) = Len(q) - 1 /\ Len(r) \in Nat
      /\ \A i \in 1..Len(r) : r[i] = q[i + 1]
      /\ Head(q) = q[1]
  BY HeadTailProperties, EmptySeq
<1>2. \A i \in 1..Len(r) : i + 1 \in 1..Len(q) /\ i + 1 # 1
  BY <1>1
<1>3. \A i \in 1..Len(q) : i # 1 => i - 1 \in 1..Len(r) /\ (i - 1) + 1 = i
  BY <1>1
<1>4. 1 \in 1..Len(q)
  BY <1>1
<1>5. \A i, j \in 1..Len(r) : (i + 1 = j + 1 => i = j) /\ (i + 1 < j + 1 => i < j)
  BY <1>1
<1>6. \A i \in 1..Len(r) : ~(i + 1 < 1)
  BY <1>1
<1> HIDE DEF r
<1>7. In(q, f) <=> In(r, f) \/ f = Head(q)
  <2>1. In(q, f) => In(r, f) \/ f = Head(q)
    BY <1>1, <1>3 DEF In
  <2>2. In(r, f) => In(q, f)
    BY <1>1, <1>2 DEF In
  <2>3. f = Head(q) => In(q, f)
    BY <1>1, <1>4 DEF In
  <2> QED
    BY <2>1, <2>2, <2>3
<1>8. Once(q, f) => Once(r, f) /\ (f = Head(q) => ~In(r, f))
  BY <1>1, <1>2, <1>4, <1>5 DEF In, Once
<1>9. Before(q, f, g) => Before(r, f, g) /\ (g = Head(q) => ~In(r, f))
  BY <1>1, <1>2, <1>4, <1>5, <1>6 DEF In, Before
<1> QED
  BY <1>7, <1>8, <1>9 DEF r

LEMMA InNothing ==
    ASSUME NEW f, NEW g
    PROVE  ~In(<<>>, f) /\ Once(<<>>, f) /\ Before(<<>>, f, g)
  BY DEF In, Once, Before

\* What is still to run of a vector fs from a on, and then of p.
Queue(fs, a, p) == SubSeq(fs, a, Len(fs)) \o p

LEMMA QueueTyped ==
    ASSUME NEW S, NEW fs \in Seq(S), NEW a \in Nat \ {0}, NEW p \in Seq(S)
    PROVE  /\ SubSeq(fs, a, Len(fs)) \in Seq(S) /\ Queue(fs, a, p) \in Seq(S)
           /\ Len(Queue(fs, a, p)) = Len(SubSeq(fs, a, Len(fs))) + Len(p)
<1>1. SubSeq(fs, a, Len(fs)) \in Seq(S)
  <2>1. \A i \in a..Len(fs) : fs[i] \in S
    BY ElementOfSeq
  <2> QED
    BY <2>1, SubSeqProperties
<1> QED
  BY <1>1, ConcatProperties DEF Queue

LEMMA QueueGrows ==
    ASSUME NEW S, NEW fs \in Seq(S), NEW a \in Nat \ {0}, NEW p \in Seq(S), NEW h \in S
    PROVE  Queue(fs, a, Append(p, h)) = Append(Queue(fs, a, p), h)
<1> DEFINE r == SubSeq(fs, a, Len(fs))
<1>1. r \in Seq(S) /\ r \o p \in Seq(S)
  BY QueueTyped DEF Queue
<1> HIDE DEF r
<1>2. <<h>> \in Seq(S)
  OBVIOUS
<1>3. r \o (p \o <<h>>) = (r \o p) \o <<h>>
  BY <1>1, <1>2, ConcatAssociative
<1>4. Append(p, h) = p \o <<h>> /\ Append(r \o p, h) = (r \o p) \o <<h>>
  BY <1>1, AppendIsConcat
<1> QED
  BY <1>3, <1>4 DEF Queue, r

LEMMA QueueMoves ==
    ASSUME NEW S, NEW fs \in Seq(S), NEW a \in 1..Len(fs), NEW p \in Seq(S)
    PROVE  /\ Queue(fs, a, p) # <<>>
           /\ Head(Queue(fs, a, p)) = fs[a]
           /\ Tail(Queue(fs, a, p)) = Queue(fs, a + 1, p)
<1> DEFINE r == SubSeq(fs, a + 1, Len(fs))
<1>1. a \in Nat \ {0} /\ a + 1 \in Nat \ {0} /\ Len(fs) \in a..Len(fs) /\ fs[a] \in S
  BY ElementOfSeq, LenProperties
<1>2. SubSeq(fs, a, Len(fs)) = <<fs[a]>> \o r
  BY <1>1, SubSeqRecursiveFirst
<1>3. r \in Seq(S) /\ <<fs[a]>> \in Seq(S) /\ r \o p \in Seq(S)
  BY <1>1, QueueTyped DEF Queue
<1> HIDE DEF r
<1>4. Queue(fs, a, p) = <<fs[a]>> \o (r \o p)
  BY <1>2, <1>3, ConcatAssociative DEF Queue
<1> DEFINE t == r \o p
           q == <<fs[a]>> \o t
<1>5. t \in Seq(S)
  BY <1>3
<1> HIDE DEF t
<1>6. /\ q \in Seq(S) /\ Len(q) = 1 + Len(t) /\ Len(t) \in Nat
      /\ \A i \in 1..(1 + Len(t)) : q[i] = IF i <= 1 THEN fs[a] ELSE t[i - 1]
  <2>1. Len(<<fs[a]>>) = 1 /\ <<fs[a]>>[1] = fs[a]
    OBVIOUS
  <2> QED
    BY <1>3, <1>5, <2>1, ConcatProperties
<1> HIDE DEF q
<1>7. q # <<>> /\ Head(q) = fs[a]
  BY <1>6
<1>8. Tail(q) = t
  <2>1. Tail(q) \in Seq(S) /\ Len(Tail(q)) = Len(t)
    BY <1>6, <1>7, HeadTailProperties
  <2>2. \A i \in 1..Len(t) : Tail(q)[i] = q[i + 1]
    BY <1>6, <1>7, <2>1, HeadTailProperties
  <2>3. \A i \in 1..Len(t) : q[i + 1] = t[i]
    BY <1>6
  <2> QED
    BY <1>5, <2>1, <2>2, <2>3, SeqEqual
<1> QED
  BY <1>4, <1>7, <1>8 DEF q, t, r, Queue

LEMMA QueueAtEnd ==
    ASSUME NEW S, NEW fs \in Seq(S), NEW a \in Nat, a > Len(fs), NEW p \in Seq(S)
    PROVE  Queue(fs, a, p) = p
<1>1. SubSeq(fs, a, Len(fs)) = <<>>
  BY SubSeqEmpty, LenProperties
<1> QED
  BY <1>1, ConcatEmptySeq DEF Queue

LEMMA QueueWhole ==
    ASSUME NEW S, NEW fs \in Seq(S)
    PROVE  Queue(fs, 1, <<>>) = fs
<1>1. SubSeq(fs, 1, Len(fs)) = fs
  BY SubSeqFull
<1> QED
  BY <1>1, ConcatEmptySeq DEF Queue

-----------------------------------------------------------------------------
(* Types.                                                                  *)

USE DEF vars, serverVars, poolVars, roundVars, connVars, netVars, callVars, userVars

LEMMA FunctorTyped ==
    /\ \A c \in Clients : /\ Est(c) \in Functors /\ Des(c) \in Functors
                         /\ Rem(c) \in Functors /\ Snd(c) \in Functors
    /\ \A f \in Functors : f.do \in Doings /\ f.conn \in Clients
                         /\ f = Functor(f.do, f.conn)
  BY DEF Functors, Functor, Doings, Est, Des, Rem, Snd

\* Queueing a functor, and taking one.
LEMMA AppendTyped ==
    ASSUME Types, NEW l \in Loops, NEW f \in Functors,
           pending' = [pending EXCEPT ![l] = Append(@, f)]
    PROVE  QueueTypes'
  BY DEF Types, QueueTypes

LEMMA TakenTyped ==
    ASSUME Types, NEW l \in Loops, at[l] <= Len(functors[l])
    PROVE  functors[l][at[l]] \in Functors /\ at[l] \in 1..Len(functors[l])
<1>1. functors[l] \in Seq(Functors) /\ at[l] \in Nat \ {0}
  BY DEF Types, LoopTypes
<1>2. at[l] \in 1..Len(functors[l])
  BY <1>1, LenProperties
<1> QED
  BY <1>1, <1>2, ElementOfSeq

LEMMA RangeTyped ==
    ASSUME NEW S, NEW q \in Seq(S)
    PROVE  /\ \A x \in Range(q) : x \in S /\ \E i \in 1..Len(q) : x = q[i]
           /\ \A i \in 1..Len(q) : q[i] \in Range(q)
<1>1. Range(q) = {q[i] : i \in 1..Len(q)}
  BY RangeEquality
<1> QED
  BY <1>1, ElementOfSeq

LEMMA PoolTyped ==
    ASSUME Types
    PROVE  Range(loops_) \subseteq IoLoops /\ \A k \in 1..Len(loops_) : loops_[k] \in IoLoops
  BY RangeTyped DEF Types, ServerTypes

LEMMA StartTyped ==
    ASSUME Types, BaseInv, NEW n \in ThreadNums, Start(n)
    PROVE  /\ Types'
           /\ Len(loops_') = n /\ \A i \in 1..n : loops_'[i] = IoThreads[i]
<1>1. n \in 0..Len(IoThreads) /\ n \in Int /\ Len(IoThreads) \in Nat
  BY ThreadAssumption, LoopAssumption, LenProperties
<1>2. \A i \in 1..n : IoThreads[i] \in IoLoops
  BY <1>1, ElementOfSeq, LoopAssumption
<1>3. loops_' \in Seq(IoLoops) /\ Len(loops_') = n /\ \A i \in 1..n : loops_'[i] = IoThreads[i]
  <2>1. SubSeq(IoThreads, 1, n) \in Seq(IoLoops) /\ Len(SubSeq(IoThreads, 1, n)) = n
        /\ \A i \in 1..(n - 1 + 1) : SubSeq(IoThreads, 1, n)[i] = IoThreads[1 + i - 1]
    BY <1>1, <1>2, SubSeqProperties
  <2> QED
    BY <1>1, <2>1 DEF Start
<1>4. ServerTypes'
  <2>1. joining' = 0 /\ next_' = 0 /\ (loops_' # <<>> => n > 0)
    BY <1>1, <1>3, EmptySeq DEF Start, BaseInv, Types, ServerTypes
  <2> QED
    BY <1>1, <1>3, <2>1 DEF Start, Types, ServerTypes
<1>5. LoopTypes'
  BY DEF Start, Types, LoopTypes
<1>6. (QueueTypes /\ ConnTypes /\ ClientTypes)'
  BY DEF Start, Types, QueueTypes, ConnTypes, ClientTypes
<1> QED
  BY <1>3, <1>4, <1>5, <1>6 DEF Types

LEMMA ConnectTyped ==
    ASSUME ConnTypes, NEW c \in Clients, ConnectEstablished(c), NEW l \in Loops,
           loopOf' = [loopOf EXCEPT ![c] = l] \/ UNCHANGED loopOf
    PROVE  ConnTypes' /\ held \subseteq held' /\ held' \subseteq held \cup {c}
<1>1. Append(reports[c], "up") \in Seq({"up", "down"})
  BY AppendProperties DEF ConnTypes
<1> QED
  BY <1>1 DEF ConnectEstablished, ConnTypes

LEMMA DestroyTyped ==
    ASSUME ConnTypes, NEW c \in Clients, ConnectDestroyed(c), UNCHANGED loopOf
    PROVE  ConnTypes'
<1>1. CASE state_[c] = "kConnected"
  <2>1. Append(reports[c], "down") \in Seq({"up", "down"})
    BY AppendProperties DEF ConnTypes
  <2>2. /\ state_' = [state_ EXCEPT ![c] = "kDisconnected"]
        /\ reports' = [reports EXCEPT ![c] = Append(reports[c], "down")]
        /\ index_' = [index_ EXCEPT ![c] = "kNew"]
        /\ destroys' = [destroys EXCEPT ![c] = destroys[c] + 1]
    BY <1>1 DEF ConnectDestroyed
  <2> QED
    BY <2>1, <2>2 DEF ConnTypes
<1>2. CASE state_[c] # "kConnected"
  BY <1>2 DEF ConnectDestroyed, ConnTypes
<1> QED
  BY <1>1, <1>2

LEMMA AcceptTyped ==
    ASSUME Types, RoundInv, HandleAccept
    PROVE  Types' /\ backlog # <<>> /\ Head(backlog) \in Clients
<1>1. Base \in Loops /\ backlog \in Seq(Clients)
  BY DEF Types, ClientTypes, Loops
<1>2. backlog # <<>>
  BY <1>1 DEF HandleAccept, RoundInv
<1>3. Head(backlog) \in Clients /\ Tail(backlog) \in Seq(Clients)
  BY <1>1, <1>2, HeadTailProperties
<1> DEFINE c == Head(backlog)
<1>4. LoopTypes'
  BY <1>1 DEF HandleAccept, Types, LoopTypes
<1>6. CASE FreeFd /\ NewConnection(c) /\ backlog' = Tail(backlog) /\ UNCHANGED listenning_
  <2>1. CASE loops_ = <<>>
    <3>1. ConnectEstablished(c) /\ UNCHANGED <<next_, pending>>
          /\ loopOf' = [loopOf EXCEPT ![c] = Base] /\ connections_' = connections_ \cup {c}
      BY <1>6, <2>1 DEF NewConnection
    <3> HIDE DEF c
    <3>2. c \in Clients
      BY <1>3 DEF c
    <3>3. ConnTypes' /\ held' \subseteq held \cup {c} /\ held \subseteq held'
      BY <1>1, <3>1, <3>2, ConnectTyped DEF Types
    <3>4. ClientTypes'
      BY <1>3, <1>6, <3>1, <3>2, <3>3 DEF HandleAccept, Types, ClientTypes
    <3>5. ServerTypes' /\ QueueTypes'
      BY <1>6, <3>1 DEF HandleAccept, Types, ServerTypes, QueueTypes
    <3> QED
      BY <1>2, <1>3, <1>4, <3>3, <3>4, <3>5 DEF Types
  <2>2. CASE loops_ # <<>>
    <3> DEFINE io == loops_[next_ + 1]
    <3>1. next_ + 1 \in 1..Len(loops_) /\ NextIndex \in Nat /\ NextIndex < Len(loops_)
      BY <2>2, LenProperties DEF Types, ServerTypes, NextIndex
    <3>2. io \in IoLoops /\ io \in Loops
      BY <3>1, PoolTyped DEF Loops
    <3>3. /\ next_' = NextIndex
          /\ loopOf' = [loopOf EXCEPT ![c] = io] /\ connections_' = connections_ \cup {c}
          /\ pending' = [pending EXCEPT ![io] = Append(@, Est(c))]
          /\ UNCHANGED <<state_, index_, reports, destroys, held>>
      BY <1>6, <2>2 DEF NewConnection, Est
    <3> HIDE DEF c, io
    <3>4. c \in Clients
      BY <1>3 DEF c
    <3>5. QueueTypes'
      BY <3>2, <3>3, <3>4, AppendTyped, FunctorTyped
    <3>6. ConnTypes'
      BY <3>2, <3>3, <3>4 DEF Types, ConnTypes
    <3>7. ClientTypes'
      BY <1>3, <1>6, <3>3, <3>4 DEF HandleAccept, Types, ClientTypes
    <3>8. ServerTypes'
      BY <1>6, <3>1, <3>3 DEF HandleAccept, Types, ServerTypes
    <3> QED
      BY <1>2, <1>3, <1>4, <3>5, <3>6, <3>7, <3>8 DEF Types
  <2> QED
    BY <2>1, <2>2
<1>7. CASE UNCHANGED <<backlog, next_, connections_, pending, connVars, held, listenning_>>
  <2>1. (ServerTypes /\ QueueTypes /\ ConnTypes /\ ClientTypes)'
    BY <1>7 DEF HandleAccept, Types, ServerTypes, QueueTypes, ConnTypes, ClientTypes
  <2> QED
    BY <1>2, <1>3, <1>4, <2>1 DEF Types
<1>8. \/ FreeFd /\ NewConnection(c) /\ backlog' = Tail(backlog) /\ UNCHANGED listenning_
      \/ UNCHANGED <<backlog, next_, connections_, pending, connVars, held, listenning_>>
  BY DEF HandleAccept, Refuse
<1> QED
  BY <1>2, <1>3, <1>6, <1>7, <1>8

\* The steps of one loop that leave pending alone.
LEMMA RoundTyped ==
    ASSUME Types, NEW l \in Loops,
           EnterLoop(l) \/ Poll(l) \/ Swap(l) \/ EndRound(l)
    PROVE  Types'
<1>1. CASE EnterLoop(l)
  <2>1. LoopTypes'
    BY <1>1 DEF EnterLoop, Types, LoopTypes
  <2> QED
    BY <1>1, <2>1 DEF EnterLoop, Types, ServerTypes, QueueTypes, ConnTypes, ClientTypes
<1>2. CASE Poll(l)
  <2>1. Ready(l) \subseteq Clients \cup {Acceptor}
    BY DEF Types, ClientTypes, Ready
  <2>2. LoopTypes'
    BY <1>2, <2>1 DEF Poll, Types, LoopTypes
  <2> QED
    BY <1>2, <2>2 DEF Poll, Types, ServerTypes, QueueTypes, ConnTypes, ClientTypes
<1>3. CASE Swap(l)
  <2>1. pending[l] \in Seq(Functors) /\ <<>> \in Seq(Functors)
    BY EmptySeq DEF Types, QueueTypes
  <2>2. LoopTypes' /\ QueueTypes'
    BY <1>3, <2>1 DEF Swap, Types, LoopTypes, QueueTypes
  <2> QED
    BY <1>3, <2>2 DEF Swap, Types, ServerTypes, ConnTypes, ClientTypes
<1>4. CASE EndRound(l)
  <2>1. <<>> \in Seq(Functors)
    BY EmptySeq
  <2>2. \E x \in {"poll", "returned", "gone"} : pc' = [pc EXCEPT ![l] = x]
    BY <1>4 DEF EndRound
  <2>3. functors' = [functors EXCEPT ![l] = <<>>] /\ at' = [at EXCEPT ![l] = 1]
        /\ UNCHANGED <<quit_, active>>
    BY <1>4 DEF EndRound
  <2>4. LoopTypes'
    BY <2>1, <2>2, <2>3 DEF Types, LoopTypes
  <2>5. QueueTypes'
    BY <1>4, <2>1 DEF EndRound, Types, QueueTypes
  <2> QED
    BY <1>4, <2>4, <2>5 DEF EndRound, Types, ServerTypes, ConnTypes, ClientTypes
<1> QED
  BY <1>1, <1>2, <1>3, <1>4

LEMMA HandleTyped ==
    ASSUME Types, NEW l \in Loops, NEW c \in Clients, HandleRead(l, c) \/ HandleClose(l, c)
    PROVE  Types'
<1>1. CASE HandleRead(l, c)
  <2>1. LoopTypes'
    BY <1>1 DEF HandleRead, Types, LoopTypes
  <2>2. ConnTypes'
    BY <1>1 DEF HandleRead, Types, ConnTypes
  <2>3. ClientTypes'
    BY <1>1 DEF HandleRead, MayQueueCallback, Types, ClientTypes
  <2> QED
    BY <1>1, <2>1, <2>2, <2>3 DEF HandleRead, Types, ServerTypes, QueueTypes
<1>2. CASE HandleClose(l, c)
  <2>1. LoopTypes'
    BY <1>2 DEF HandleClose, Types, LoopTypes
  <2>2. Append(reports[c], "down") \in Seq({"up", "down"})
    BY AppendProperties DEF Types, ConnTypes
  <2>3. ConnTypes'
    BY <1>2, <2>2 DEF HandleClose, Types, ConnTypes
  <2>4. Base \in Loops
    BY DEF Loops
  <2>5. QueueTypes' /\ connections_' \subseteq connections_
    <3>1. CASE loopOf[c] = Base
      BY <1>2, <3>1, <2>4, AppendTyped, FunctorTyped DEF HandleClose, RemoveConnection, Des
    <3>2. CASE loopOf[c] # Base
      BY <1>2, <3>2, <2>4, AppendTyped, FunctorTyped DEF HandleClose, RemoveConnection, Rem
    <3> QED
      BY <3>1, <3>2
  <2>6. ClientTypes'
    BY <1>2, <2>5 DEF HandleClose, Types, ClientTypes
  <2> QED
    BY <1>2, <2>1, <2>3, <2>5, <2>6 DEF HandleClose, Types, ServerTypes
<1> QED
  BY <1>1, <1>2

\* What one functor does.
DoEst(c) == ConnectEstablished(c) /\ UNCHANGED <<connections_, pending, queued>>
DoDes(c) == ConnectDestroyed(c) /\ UNCHANGED <<connections_, pending, queued, held>>
DoRem(c) ==
    /\ RemoveConnectionInLoop(c)
    /\ UNCHANGED <<state_, index_, reports, destroys, queued, held>>
DoSnd(c) ==
    SendInLoop(c) /\ UNCHANGED <<connections_, pending, state_, reports, destroys, held>>
Do(f) ==
    \/ f = Est(f.conn) /\ DoEst(f.conn)
    \/ f = Des(f.conn) /\ DoDes(f.conn)
    \/ f = Rem(f.conn) /\ DoRem(f.conn)
    \/ f = Snd(f.conn) /\ DoSnd(f.conn)

LEMMA RunDoes ==
    ASSUME Types, NEW l \in Loops, RunFunctor(l)
    PROVE  /\ functors[l][at[l]] \in Functors /\ at[l] \in 1..Len(functors[l])
           /\ at' = [at EXCEPT ![l] = @ + 1]
           /\ Do(functors[l][at[l]])
           /\ UNCHANGED <<serverVars, pc, quit_, functors, active, loopOf, netVars, taken,
                          sending>>
<1>1. functors[l][at[l]] \in Functors /\ at[l] \in 1..Len(functors[l])
  BY TakenTyped DEF RunFunctor
<1> DEFINE f == functors[l][at[l]]
<1>2. f = Functor(f.do, f.conn)
  BY <1>1, FunctorTyped
<1>3. Do(f)
  BY <1>2 DEF RunFunctor, Do, DoEst, DoDes, DoRem, DoSnd, Est, Des, Rem, Snd
<1> QED
  BY <1>1, <1>3 DEF RunFunctor

\* A connection with a functor to run has a loop.
LEMMA RunTyped ==
    ASSUME Types, NEW l \in Loops, RunFunctor(l), Created(functors[l][at[l]].conn)
    PROVE  Types'
<1> DEFINE f == functors[l][at[l]]
           c == f.conn
<1>1. /\ c \in Clients /\ Do(f) /\ at' = [at EXCEPT ![l] = @ + 1]
      /\ UNCHANGED <<serverVars, pc, quit_, functors, active, loopOf, netVars, taken, sending>>
      /\ Created(c)
  BY RunDoes, FunctorTyped
<1> HIDE DEF f, c
<1>2. LoopTypes' /\ ServerTypes'
  BY <1>1 DEF Types, LoopTypes, ServerTypes
<1>3. CASE DoEst(c)
  <2>1. ConnTypes' /\ held' \subseteq held \cup {c} /\ held \subseteq held'
    BY <1>1, <1>3, ConnectTyped DEF DoEst, Types
  <2>2. QueueTypes' /\ ClientTypes'
    BY <1>1, <1>3, <2>1 DEF DoEst, Types, QueueTypes, ClientTypes
  <2> QED
    BY <1>2, <2>1, <2>2 DEF Types
<1>4. CASE DoDes(c)
  <2>1. ConnTypes'
    BY <1>1, <1>4, DestroyTyped DEF DoDes, Types
  <2>2. QueueTypes' /\ ClientTypes'
    BY <1>1, <1>4 DEF DoDes, Types, QueueTypes, ClientTypes
  <2> QED
    BY <1>2, <2>1, <2>2 DEF Types
<1>5. CASE DoRem(c)
  <2>1. loopOf[c] \in Loops
    BY <1>1 DEF Types, ConnTypes, Created
  <2>2. Des(c) \in Functors
    BY <1>1, FunctorTyped
  <2>3. QueueTypes'
    BY <1>5, <2>1, <2>2, AppendTyped DEF DoRem, RemoveConnectionInLoop, Des
  <2>4. ConnTypes' /\ ClientTypes'
    BY <1>1, <1>5 DEF DoRem, RemoveConnectionInLoop, Types, ConnTypes, ClientTypes
  <2> QED
    BY <1>2, <2>3, <2>4 DEF Types
<1>6. CASE DoSnd(c)
  <2>1. ConnTypes'
    BY <1>1, <1>6 DEF DoSnd, SendInLoop, Types, ConnTypes
  <2>2. QueueTypes' /\ ClientTypes'
    BY <1>1, <1>6 DEF DoSnd, SendInLoop, MayQueueCallback, Types, QueueTypes, ClientTypes
  <2> QED
    BY <1>2, <2>1, <2>2 DEF Types
<1> QED
  BY <1>1, <1>3, <1>4, <1>5, <1>6 DEF Do, c

LEMMA EndTyped ==
    ASSUME Types, BeginEnd \/ QuitThread \/ EndServer \/ EndBase
    PROVE  Types'
<1>1. CASE BeginEnd
  BY <1>1 DEF BeginEnd, Types, ServerTypes, LoopTypes, QueueTypes, ConnTypes, ClientTypes
<1>2. CASE QuitThread
  <2>1. joining' \in 0..Len(loops_) /\ joining' \in 1..Len(loops_)
    BY <1>2, LenProperties DEF QuitThread, Types, ServerTypes
  <2>2. LoopTypes'
    BY <1>2, <2>1, PoolTyped DEF QuitThread, Types, LoopTypes, Loops
  <2>3. ServerTypes'
    BY <1>2, <2>1 DEF QuitThread, Types, ServerTypes
  <2> QED
    BY <1>2, <2>2, <2>3 DEF QuitThread, Types, QueueTypes, ConnTypes, ClientTypes
<1>3. CASE EndServer
  BY <1>3 DEF EndServer, Types, ServerTypes, LoopTypes, QueueTypes, ConnTypes, ClientTypes
<1>4. CASE EndBase
  <2>1. LoopTypes' /\ QueueTypes'
    BY <1>4, EmptySeq DEF EndBase, Types, LoopTypes, QueueTypes
  <2> QED
    BY <1>4, <2>1 DEF EndBase, Types, ServerTypes, ConnTypes, ClientTypes
<1> QED
  BY <1>1, <1>2, <1>3, <1>4

LEMMA DestroyConnectionTyped ==
    ASSUME Types, NEW c \in Clients, DestroyConnection(c), Created(c)
    PROVE  Types'
<1>1. loopOf[c] \in Loops
  BY DEF Types, ConnTypes, Created
<1>2. CASE loopOf[c] = Base
  <2>1. ConnTypes'
    BY <1>2, DestroyTyped DEF DestroyConnection, Types
  <2> QED
    BY <1>2, <2>1 DEF DestroyConnection, Types, ServerTypes, LoopTypes, QueueTypes, ClientTypes
<1>3. CASE loopOf[c] # Base
  <2>1. QueueTypes'
    BY <1>1, <1>3, AppendTyped, FunctorTyped DEF DestroyConnection, Des
  <2> QED
    BY <1>3, <2>1 DEF DestroyConnection, Types, ServerTypes, LoopTypes, ConnTypes, ClientTypes
<1> QED
  BY <1>2, <1>3

LEMMA OutsideTyped ==
    ASSUME Types, NEW c \in Clients, Outside(c), c \in held => Created(c)
    PROVE  Types'
<1>1. CASE Connect(c)
  <2>1. backlog' \in Seq(Clients)
    BY <1>1, AppendProperties DEF Connect, Types, ClientTypes
  <2> QED
    BY <1>1, <2>1 DEF Connect, Types, ServerTypes, LoopTypes, QueueTypes, ConnTypes, ClientTypes
<1>2. CASE ClientSends(c) \/ Leave(c)
  BY <1>2 DEF ClientSends, Leave, Types, ServerTypes, LoopTypes, QueueTypes, ConnTypes,
              ClientTypes
<1>3. CASE UserTests(c) \/ UserReleases(c)
  BY <1>3 DEF UserTests, UserReleases, MayRelease, Types, ServerTypes, LoopTypes,
              QueueTypes, ConnTypes, ClientTypes
<1>4. CASE UserQueues(c)
  <2>1. loopOf[c] \in Loops
    BY <1>4 DEF UserQueues, Types, ConnTypes, ClientTypes, Created
  <2>2. QueueTypes'
    BY <1>4, <2>1, AppendTyped, FunctorTyped DEF UserQueues, Snd
  <2> QED
    BY <1>4, <2>2 DEF UserQueues, Types, ServerTypes, LoopTypes, ConnTypes, ClientTypes
<1> QED
  BY <1>1, <1>2, <1>3, <1>4 DEF Outside

-----------------------------------------------------------------------------
(* What a step does to what a loop has to run.                             *)

LEMMA ToRunTyped ==
    ASSUME Types, NEW l \in Loops
    PROVE  /\ ToRun(l) \in Seq(Functors)
           /\ ToRun(l) = Queue(functors[l], at[l], pending[l])
           /\ functors[l] \in Seq(Functors) /\ at[l] \in Nat \ {0}
           /\ pending[l] \in Seq(Functors)
<1>1. /\ functors[l] \in Seq(Functors) /\ at[l] \in Nat \ {0}
      /\ pending[l] \in Seq(Functors)
  BY DEF Types, LoopTypes, QueueTypes
<1>2. Queue(functors[l], at[l], pending[l]) \in Seq(Functors)
  BY <1>1, QueueTyped
<1> QED
  BY <1>1, <1>2 DEF ToRun, Queue

LEMMA ToRunStays ==
    ASSUME NEW l, functors'[l] = functors[l], at'[l] = at[l], pending'[l] = pending[l]
    PROVE  ToRun(l)' = ToRun(l)
  BY DEF ToRun

LEMMA ToRunGrowsAt ==
    ASSUME Types, NEW l \in Loops, NEW f \in Functors,
           functors'[l] = functors[l], at'[l] = at[l], pending'[l] = Append(pending[l], f)
    PROVE  ToRun(l)' = Append(ToRun(l), f)
<1> DEFINE fs == functors[l]
           a == at[l]
           p == pending[l]
<1>1. /\ fs \in Seq(Functors) /\ a \in Nat \ {0} /\ p \in Seq(Functors)
      /\ ToRun(l) = Queue(fs, a, p)
  BY ToRunTyped
<1>2. ToRun(l)' = Queue(fs, a, Append(p, f))
  BY DEF ToRun, Queue
<1> HIDE DEF fs, a, p
<1>3. fs \in Seq(Functors) /\ a \in Nat \ {0} /\ p \in Seq(Functors) /\ f \in Functors
  BY <1>1
<1>4. Queue(fs, a, Append(p, f)) = Append(Queue(fs, a, p), f)
  BY ONLY <1>3, QueueGrows
<1> QED
  BY <1>1, <1>2, <1>4

LEMMA ToRunGrows ==
    ASSUME Types, NEW l \in Loops, NEW f \in Functors, UNCHANGED <<functors, at>>,
           pending' = [pending EXCEPT ![l] = Append(@, f)]
    PROVE  \A m \in Loops : ToRun(m)' = IF m = l THEN Append(ToRun(m), f) ELSE ToRun(m)
<1>1. SUFFICES ASSUME NEW m \in Loops
               PROVE  ToRun(m)' = IF m = l THEN Append(ToRun(m), f) ELSE ToRun(m)
  OBVIOUS
<1>2. pending \in [Loops -> Seq(Functors)]
  BY DEF Types, QueueTypes
<1>3. CASE m = l
  <2>1. functors'[l] = functors[l] /\ at'[l] = at[l] /\ pending'[l] = Append(pending[l], f)
    BY <1>2
  <2>2. ToRun(l)' = Append(ToRun(l), f)
    BY <2>1, ToRunGrowsAt
  <2> QED
    BY <1>3, <2>2
<1>4. CASE m # l
  <2>1. pending'[m] = pending[m]
    BY <1>2, <1>4
  <2> QED
    BY <1>4, <2>1, ToRunStays
<1> QED
  BY <1>3, <1>4

LEMMA ToRunShrinks ==
    ASSUME Types, NEW l \in Loops, at[l] \in 1..Len(functors[l]), UNCHANGED functors,
           at' = [at EXCEPT ![l] = @ + 1]
    PROVE  /\ ToRun(l) # <<>> /\ Head(ToRun(l)) = functors[l][at[l]]
           /\ pending'[l] = pending[l] => ToRun(l)' = Tail(ToRun(l))
           /\ \A m \in Loops \ {l} : at'[m] = at[m]
<1>1. /\ ToRun(l) # <<>> /\ Head(ToRun(l)) = functors[l][at[l]]
      /\ Tail(ToRun(l)) = Queue(functors[l], at[l] + 1, pending[l])
  <2>1. /\ functors[l] \in Seq(Functors) /\ pending[l] \in Seq(Functors)
        /\ ToRun(l) = Queue(functors[l], at[l], pending[l])
    BY ToRunTyped
  <2>2. /\ Queue(functors[l], at[l], pending[l]) # <<>>
        /\ Head(Queue(functors[l], at[l], pending[l])) = functors[l][at[l]]
        /\ Tail(Queue(functors[l], at[l], pending[l]))
               = Queue(functors[l], at[l] + 1, pending[l])
    BY <2>1, QueueMoves
  <2> QED
    BY <2>1, <2>2
<1>2. at'[l] = at[l] + 1 /\ \A m \in Loops \ {l} : at'[m] = at[m]
  BY DEF Types, LoopTypes
<1>3. pending'[l] = pending[l] => ToRun(l)' = Queue(functors[l], at[l] + 1, pending[l])
  BY <1>2 DEF ToRun, Queue
<1> QED
  BY <1>1, <1>2, <1>3

\* The steps after which all loops have the same to run.
QueuesStay == \A l \in Loops : ToRun(l)' = ToRun(l)

LEMMA SwapQueues ==
    ASSUME Types, RoundInv, NEW l \in Loops, Swap(l)
    PROVE  QueuesStay
<1>1. SUFFICES ASSUME NEW m \in Loops PROVE ToRun(m)' = ToRun(m)
  BY DEF QueuesStay
<1>2. CASE m = l
  <2>1. functors[m] = <<>>
    BY <1>2 DEF Swap, RoundInv
  <2>2. ToRun(m) = pending[m]
    <3>1. at[m] > Len(<<>>) /\ at[m] \in Nat
      BY ToRunTyped, EmptySeq
    <3>2. Queue(<<>>, at[m], pending[m]) = pending[m]
      BY <2>1, <3>1, ToRunTyped, QueueAtEnd
    <3> QED
      BY <2>1, <3>2, ToRunTyped
  <2>3. functors'[m] = pending[m] /\ pending'[m] = <<>> /\ at'[m] = 1
    BY <1>2 DEF Swap, Types, LoopTypes, QueueTypes
  <2>4. ToRun(m)' = Queue(pending[m], 1, <<>>)
    BY <2>3 DEF ToRun, Queue
  <2> QED
    BY <2>2, <2>4, ToRunTyped, QueueWhole
<1>3. CASE m # l
  <2>1. functors'[m] = functors[m] /\ pending'[m] = pending[m] /\ at'[m] = at[m]
    BY <1>3 DEF Swap, Types, LoopTypes, QueueTypes
  <2> QED
    BY <2>1, ToRunStays
<1> QED
  BY <1>2, <1>3

LEMMA EndRoundQueues ==
    ASSUME Types, NEW l \in Loops, EndRound(l)
    PROVE  \A m \in Loops :
               ToRun(m)' = IF m = l /\ pc'[l] = "gone" THEN <<>> ELSE ToRun(m)
<1>1. SUFFICES ASSUME NEW m \in Loops
               PROVE  ToRun(m)' = IF m = l /\ pc'[l] = "gone" THEN <<>> ELSE ToRun(m)
  OBVIOUS
<1>2. CASE m = l
  <2>1. ToRun(m) = pending[m]
    BY <1>2, ToRunTyped, QueueAtEnd DEF EndRound
  <2>2. functors'[m] = <<>> /\ at'[m] = 1
    BY <1>2 DEF EndRound, Types, LoopTypes
  <2>3. pending'[m] = IF pc'[l] = "gone" THEN <<>> ELSE pending[m]
    BY <1>2 DEF EndRound, Types, LoopTypes, QueueTypes
  <2>4. pending'[m] \in Seq(Functors)
    BY <2>3, ToRunTyped, EmptySeq
  <2>5. ToRun(m)' = Queue(<<>>, 1, pending'[m])
    BY <2>2 DEF ToRun, Queue
  <2>6. Queue(<<>>, 1, pending'[m]) = pending'[m]
    <3>1. <<>> \in Seq(Functors) /\ Len(<<>>) = 0 /\ 1 \in Nat /\ 1 > Len(<<>>)
      BY EmptySeq
    <3> QED
      BY <2>4, <3>1, QueueAtEnd
  <2> QED
    BY <1>2, <2>1, <2>3, <2>5, <2>6
<1>3. CASE m # l
  <2>1. functors'[m] = functors[m] /\ pending'[m] = pending[m] /\ at'[m] = at[m]
    BY <1>3 DEF EndRound, Types, LoopTypes, QueueTypes
  <2> QED
    BY <1>3, <2>1, ToRunStays
<1> QED
  BY <1>2, <1>3

LEMMA EndBaseQueues ==
    ASSUME Types, RoundInv, EndBase
    PROVE  /\ \A m \in Loops : ToRun(m)' = IF m = Base THEN <<>> ELSE ToRun(m)
           /\ pc'[Base] = "gone"
<1>0. Base \in Loops
  BY DEF Loops
<1>1. SUFFICES ASSUME NEW m \in Loops
               PROVE  ToRun(m)' = IF m = Base THEN <<>> ELSE ToRun(m)
  BY <1>0 DEF EndBase, Types, LoopTypes
<1>2. CASE m = Base
  <2>1. functors'[m] = <<>> /\ at'[m] \in Nat /\ at'[m] > Len(<<>>) /\ pending'[m] = <<>>
    BY <1>0, <1>2, ToRunTyped, EmptySeq DEF EndBase, RoundInv, Types, QueueTypes
  <2>2. ToRun(m)' = Queue(<<>>, at'[m], <<>>)
    BY <2>1 DEF ToRun, Queue
  <2> QED
    BY <1>2, <2>1, <2>2, QueueAtEnd, EmptySeq
<1>3. CASE m # Base
  <2>1. functors'[m] = functors[m] /\ pending'[m] = pending[m] /\ at'[m] = at[m]
    BY <1>3 DEF EndBase, Types, LoopTypes, QueueTypes
  <2> QED
    BY <1>3, <2>1, ToRunStays
<1> QED
  BY <1>2, <1>3

\* For a connection d, whatever other connections' functors are queued or run:
\* its own are where they were, as often and in the same order.
QueuesKeep(d) ==
    \A l \in Loops, f, g \in Doings :
        /\ In(ToRun(l)', Functor(f, d)) <=> In(ToRun(l), Functor(f, d))
        /\ Once(ToRun(l), Functor(f, d)) => Once(ToRun(l)', Functor(f, d))
        /\ Before(ToRun(l), Functor(f, d), Functor(g, d))
               => Before(ToRun(l)', Functor(f, d), Functor(g, d))

LEMMA OthersKeep ==
    ASSUME Types, NEW d \in Clients,
           \A l \in Loops :
               \/ ToRun(l)' = ToRun(l)
               \/ \E h \in Functors : h.conn # d /\ ToRun(l)' = Append(ToRun(l), h)
               \/ /\ ToRun(l) # <<>> /\ Head(ToRun(l)).conn # d
                  /\ ToRun(l)' = Tail(ToRun(l))
    PROVE  QueuesKeep(d)
<1>1. SUFFICES ASSUME NEW l \in Loops, NEW f \in Doings, NEW g \in Doings
               PROVE  LET F == Functor(f, d)  G == Functor(g, d) IN
                      /\ In(ToRun(l)', F) <=> In(ToRun(l), F)
                      /\ Once(ToRun(l), F) => Once(ToRun(l)', F)
                      /\ Before(ToRun(l), F, G) => Before(ToRun(l)', F, G)
  BY DEF QueuesKeep
<1> DEFINE F == Functor(f, d)
           G == Functor(g, d)
<1>2. ToRun(l) \in Seq(Functors)
  BY ToRunTyped
<1>3. F.conn = d /\ G.conn = d
  BY DEF Functor
<1> HIDE DEF F, G
<1>4. CASE ToRun(l)' = ToRun(l)
  BY <1>4 DEF F, G
<1>5. ASSUME NEW h \in Functors, h.conn # d, ToRun(l)' = Append(ToRun(l), h)
      PROVE  /\ In(ToRun(l)', F) <=> In(ToRun(l), F)
             /\ Once(ToRun(l), F) => Once(ToRun(l)', F)
             /\ Before(ToRun(l), F, G) => Before(ToRun(l)', F, G)
  <2>1. F # h
    BY <1>3, <1>5
  <2> QED
    BY <1>2, <1>5, <2>1, InAppended
<1>6. ASSUME ToRun(l) # <<>>, Head(ToRun(l)).conn # d, ToRun(l)' = Tail(ToRun(l))
      PROVE  /\ In(ToRun(l)', F) <=> In(ToRun(l), F)
             /\ Once(ToRun(l), F) => Once(ToRun(l)', F)
             /\ Before(ToRun(l), F, G) => Before(ToRun(l)', F, G)
  <2>1. F # Head(ToRun(l))
    BY <1>3, <1>6
  <2> QED
    BY <1>2, <1>6, <2>1, InRest
<1> QED
  BY <1>4, <1>5, <1>6 DEF F, G

-----------------------------------------------------------------------------
(* The loops, the server and the pool.                                     *)

LEMMA ControlStays ==
    ASSUME BaseInv, PoolInv, UNCHANGED <<server, loops_, joining, pc, quit_, listenning_>>,
           loops_ # <<>> \/ UNCHANGED next_,
           connections_' \subseteq connections_ \/ server = "started"
    PROVE  BaseInv' /\ PoolInv'
  BY DEF BaseInv, PoolInv

LEMMA NoThreadYet ==
    ASSUME Types, BaseInv, PoolInv, server = "made"
    PROVE  \A l \in IoLoops : pc[l] = "none" /\ ~quit_[l]
<1>1. \A l \in IoLoops : (pc[l] # "none" <=> l \in Range(loops_)) /\ (quit_[l] => joining > 0)
  BY DEF PoolInv
<1>2. loops_ \in Seq(IoLoops) /\ ~(joining > 0)
  BY DEF Types, ServerTypes, BaseInv, PoolInv
<1>3. Len(loops_) = 0
  <2>1. loops_ = <<>>
    BY DEF BaseInv
  <2> QED
    BY <2>1
<1>4. Range(loops_) = {loops_[i] : i \in 1..Len(loops_)}
  BY <1>2, RangeEquality
<1>5. Range(loops_) = {}
  BY <1>3, <1>4
<1> QED
  BY <1>1, <1>2, <1>5

LEMMA StartControl ==
    ASSUME Types, BaseInv, PoolInv, NEW n \in ThreadNums, Start(n)
    PROVE  BaseInv' /\ PoolInv'
<1>1. /\ server = "made" /\ server' = "started" /\ loops_ = <<>> /\ joining = 0
      /\ pc[Base] = "entering" /\ listenning_' = TRUE
      /\ UNCHANGED <<next_, joining, connections_, quit_>>
  <2>1. loops_ = <<>> /\ joining \in 0..Len(loops_)
    BY DEF Start, BaseInv, Types, ServerTypes
  <2>2. joining = 0
    BY <2>1
  <2> QED
    BY <2>1, <2>2 DEF Start, BaseInv
<1>2. Range(loops_') \subseteq IoLoops
  <2>1. Types'
    BY StartTyped
  <2>2. loops_' \in Seq(IoLoops)
    BY <2>1 DEF Types, ServerTypes
  <2> QED
    BY <2>2, RangeTyped
<1>3. \A l \in Loops : pc'[l] = IF l \in Range(loops_') THEN "entering" ELSE pc[l]
  BY DEF Start
<1>4. Base \notin Range(loops_') /\ Base \in Loops /\ IoLoops \subseteq Loops
  BY <1>2, LoopAssumption DEF Loops
<1>5. \A l \in IoLoops : pc[l] = "none" /\ ~quit_[l]
  BY <1>1, NoThreadYet
<1>6. BaseInv'
  BY <1>1, <1>3, <1>4 DEF BaseInv
<1>7. PoolInv'
  BY <1>1, <1>3, <1>4, <1>5 DEF PoolInv
<1> QED
  BY <1>6, <1>7

\* The steps that move one loop's pc or quit_.
LEMMA LoopControl ==
    ASSUME Types, BaseInv, PoolInv, NEW l \in Loops,
           EnterLoop(l) \/ Poll(l) \/ Swap(l) \/ EndRound(l)
    PROVE  BaseInv' /\ PoolInv'
<1>1. UNCHANGED <<server, loops_, joining, connections_, next_, listenning_>>
  BY DEF EnterLoop, Poll, Swap, EndRound
<1>2. PICK x \in {"poll", "dispatch", "functors", "returned", "gone"} :
          /\ pc' = [pc EXCEPT ![l] = x] /\ pc[l] \notin {"none", "returned", "gone"}
          /\ x = "functors" => pc[l] \in {"entering", "dispatch"}
          /\ x = "functors" /\ pc[l] = "entering" => server # "made"
          /\ x \in {"poll", "dispatch"} => pc[l] \in {"poll", "functors"}
          /\ x \in {"returned", "gone"} => pc[l] = "functors" /\ quit_[l] /\ (x = "gone" <=> l # Base)
  BY DEF EnterLoop, Poll, Swap, EndRound
<1>3. \A m \in Loops : quit_'[m] => quit_[m]
  <2>1. quit_' = quit_ \/ quit_' = [quit_ EXCEPT ![l] = FALSE]
    BY DEF EnterLoop, Poll, Swap, EndRound
  <2> QED
    BY <2>1 DEF Types, LoopTypes
<1>4. \A m \in Loops : pc'[m] = IF m = l THEN x ELSE pc[m]
  BY <1>2 DEF Types, LoopTypes
<1>5. Base \in Loops /\ IoLoops \subseteq Loops /\ (l # Base => l \in IoLoops)
  BY DEF Loops
<1>6. BaseInv'
  <2>1. CASE l = Base
    BY <1>1, <1>2, <1>4, <1>5, <2>1 DEF BaseInv, Types, ServerTypes
  <2>2. CASE l # Base
    BY <1>1, <1>4, <1>5, <2>2 DEF BaseInv
  <2> QED
    BY <2>1, <2>2
<1>7. PoolInv'
  <2>1. \A m \in IoLoops :
            (pc'[m] # "none" <=> m \in Range(loops_)) /\ pc'[m] # "returned"
    BY <1>2, <1>4, <1>5, LoopAssumption DEF PoolInv
  <2>2. \A m \in IoLoops : quit_'[m] \/ pc'[m] = "gone" => joining > 0
    BY <1>2, <1>3, <1>4, <1>5 DEF PoolInv
  <2>3. \A k \in 1..Len(loops_) : pc[loops_[k]] = "gone" => pc'[loops_[k]] = "gone"
    BY <1>2, <1>4, <1>5, PoolTyped
  <2> QED
    BY <1>1, <2>1, <2>2, <2>3 DEF PoolInv
<1> QED
  BY <1>6, <1>7

LEMMA EndControl ==
    ASSUME Types, BaseInv, PoolInv,
           QuitBase \/ BeginEnd \/ QuitThread \/ EndServer \/ EndBase
    PROVE  BaseInv' /\ PoolInv'
<1>0. Base \in Loops /\ IoLoops \subseteq Loops /\ Base \notin IoLoops
  BY LoopAssumption DEF Loops
<1>1. CASE QuitBase
  <2>1. \A m \in IoLoops : quit_'[m] = quit_[m]
    BY <1>0, <1>1 DEF QuitBase, Types, LoopTypes
  <2> QED
    BY <1>1, <2>1 DEF QuitBase, BaseInv, PoolInv
<1>2. CASE BeginEnd
  BY <1>2 DEF BeginEnd, BaseInv, PoolInv
<1>3. CASE QuitThread
  <2>1. joining' = joining + 1 /\ joining \in Nat /\ joining' \in 1..Len(loops_)
    BY <1>3, LenProperties DEF QuitThread, Types, ServerTypes
  <2>2. BaseInv'
    BY <1>3 DEF QuitThread, BaseInv
  <2>3. \A k \in 1..Len(loops_) : k < joining' => pc[loops_[k]] = "gone"
    <3>1. SUFFICES ASSUME NEW k \in 1..Len(loops_), k < joining'
                   PROVE  pc[loops_[k]] = "gone"
      OBVIOUS
    <3>2. k < joining \/ k = joining
      BY <2>1, <3>1
    <3>3. CASE k < joining
      BY <3>3 DEF PoolInv
    <3>4. CASE k = joining
      BY <1>3, <2>1, <3>4 DEF QuitThread, Joined
    <3> QED
      BY <3>2, <3>3, <3>4
  <2>4. UNCHANGED <<server, loops_, connections_, pc>> /\ connections_ = {} /\ server = "ending"
    BY <1>3 DEF QuitThread
  <2> QED
    BY <2>1, <2>2, <2>3, <2>4 DEF PoolInv
<1>4. CASE EndServer
  <2>1. UNCHANGED <<loops_, joining, connections_, pc, quit_, next_>> /\ server' = "gone"
        /\ connections_ = {} /\ ~listenning_' /\ server = "ending"
    BY <1>4 DEF EndServer
  <2>2. \A k \in 1..Len(loops_) : pc[loops_[k]] = "gone"
    <3>1. SUFFICES ASSUME NEW k \in 1..Len(loops_) PROVE pc[loops_[k]] = "gone"
      OBVIOUS
    <3>2. joining = Len(loops_) /\ (joining > 0 => pc[loops_[joining]] = "gone")
      BY <1>4 DEF EndServer, AllJoined, Joined
    <3>3. k < joining \/ k = joining
      BY <3>2, LenProperties DEF Types, ServerTypes
    <3>4. CASE k < joining
      BY <3>4 DEF PoolInv
    <3>5. CASE k = joining
      BY <3>2, <3>5
    <3> QED
      BY <3>3, <3>4, <3>5
  <2>3. BaseInv'
    BY <2>1 DEF BaseInv
  <2>4. PoolInv'
    BY <2>1, <2>2 DEF PoolInv
  <2> QED
    BY <2>3, <2>4
<1>5. CASE EndBase
  <2>1. \A m \in Loops : pc'[m] = IF m = Base THEN "gone" ELSE pc[m]
    BY <1>5 DEF EndBase, Types, LoopTypes
  <2>2. UNCHANGED <<server, loops_, joining, connections_, quit_, next_, listenning_>>
        /\ server = "gone"
    BY <1>5 DEF EndBase
  <2>3. \A k \in 1..Len(loops_) : pc'[loops_[k]] = pc[loops_[k]]
    BY <1>0, <2>1, PoolTyped
  <2>4. BaseInv'
    BY <1>0, <2>1, <2>2 DEF BaseInv
  <2>5. PoolInv'
    BY <1>0, <2>1, <2>2, <2>3 DEF PoolInv
  <2> QED
    BY <2>4, <2>5
<1> QED
  BY <1>1, <1>2, <1>3, <1>4, <1>5

LEMMA RoundStays ==
    ASSUME RoundInv, UNCHANGED <<pc, functors>>,
           \A l \in Loops : at'[l] <= Len(functors[l]) + 1,
           \A l \in Loops : active'[l] \subseteq active[l],
           \A l \in Loops : Acceptor \in active'[l] => (backlog # <<>> => backlog' # <<>>),
           \A l \in Loops : \A c \in active'[l] \ {Acceptor} :
               loopOf'[c] = loopOf[c] /\ (index_'[c] = index_[c] \/ index_'[c] = "kAdded")
    PROVE  RoundInv'
  BY DEF RoundInv

LEMMA StartRound ==
    ASSUME Types, Types', BaseInv, PoolInv, RoundInv, NEW n \in ThreadNums, Start(n)
    PROVE  RoundInv'
<1>1. \A l \in Loops : pc'[l] # pc[l] => pc'[l] = "entering" /\ l \in Range(loops_')
  BY DEF Start, Types, LoopTypes
<1>2. Range(loops_') \subseteq IoLoops
  <2>1. loops_' \in Seq(IoLoops)
    BY DEF Types, ServerTypes
  <2> QED
    BY <2>1, RangeTyped
<1>3. \A l \in Loops : pc'[l] # pc[l] => pc[l] = "none"
  BY <1>1, <1>2, NoThreadYet DEF Start
<1> QED
  BY <1>1, <1>3 DEF RoundInv, Start

-----------------------------------------------------------------------------
(* One connection.                                                         *)

\* No loop begins or comes back.
PcKeeps ==
    \A l \in Loops :
        /\ pc'[l] \notin {"none", "gone"} => pc[l] \notin {"none", "gone"}
        /\ pc[l] # "none" => pc'[l] # "none"

\* Whatever a step does to others, to its loop's place in the round, and to
\* what the connection's user is about.
LEMMA ConnStays ==
    ASSUME NEW d \in Clients, ConnInv(d), QueuesKeep(d), ConnTypes, Types',
           \/ server' = server
           \/ server' \in {"ending", "gone"} /\ sending' = {},
           loopOf'[d] = loopOf[d], state_'[d] = state_[d], index_'[d] = index_[d],
           reports'[d] = reports[d], destroys'[d] = destroys[d],
           d \in connections_' <=> d \in connections_, d \in held' <=> d \in held,
           d \in sending' => d \in sending \/ (d \in held /\ server = "started"),
           PcKeeps
    PROVE  ConnInv(d)'
<1>1. Fresh(d)'
  BY DEF ConnInv, Fresh, Created
<1>2. Placed(d)'
  BY DEF ConnInv, Placed, Created, QueuesKeep
<1>3. StateInv(d)'
  BY DEF ConnInv, StateInv
<1> DEFINE l == loopOf[d]
<1>4. ASSUME Created(d)
      PROVE  (HomeInv(d) /\ EstInv(d) /\ RemInv(d) /\ DesInv(d) /\ SndInv(d))'
  <2>1. l \in Loops /\ Base \in Loops
    BY <1>4 DEF ConnTypes, Created, Loops
  <2>2. /\ "connectEstablished" \in Doings /\ "connectDestroyed" \in Doings
        /\ "removeConnectionInLoop" \in Doings /\ "sendInLoop" \in Doings
    BY DEF Doings
  <2>3. /\ HomeInv(d) /\ EstInv(d) /\ RemInv(d) /\ DesInv(d) /\ SndInv(d)
    BY <1>4 DEF ConnInv
  <2> DEFINE q == ToRun(l)
  <2>4. ToRun(loopOf[d])' = ToRun(l)'
    OBVIOUS
  <2>5. /\ In(q', Est(d)) <=> In(q, Est(d))
        /\ In(q', Des(d)) <=> In(q, Des(d))
        /\ In(q', Snd(d)) <=> In(q, Snd(d))
        /\ Once(q, Est(d)) => Once(q', Est(d))
        /\ Once(q, Des(d)) => Once(q', Des(d))
        /\ Before(q, Est(d), Des(d)) => Before(q', Est(d), Des(d))
        /\ Before(q, Snd(d), Des(d)) => Before(q', Snd(d), Des(d))
    BY <2>1, <2>2 DEF QueuesKeep, Est, Des, Snd
  <2>6. /\ In(ToRun(Base)', Rem(d)) <=> In(ToRun(Base), Rem(d))
        /\ Once(ToRun(Base), Rem(d)) => Once(ToRun(Base)', Rem(d))
    BY <2>1, <2>2 DEF QueuesKeep, Rem
  <2>7. EstInv(d)'
    BY <2>3, <2>5 DEF EstInv
  <2>8. RemInv(d)'
    BY <2>3, <2>6 DEF RemInv
  <2>9. DesInv(d)'
    BY <2>1, <2>3, <2>5 DEF DesInv, Running, PcKeeps
  <2>10. SndInv(d)'
    BY <2>3, <2>5 DEF SndInv
  <2> QED
    BY <2>1, <2>3, <2>7, <2>8, <2>9, <2>10 DEF HomeInv, PcKeeps
<1> QED
  BY <1>1, <1>2, <1>3, <1>4 DEF ConnInv, Created

LEMMA StayKeep ==
    ASSUME NEW d, QueuesStay
    PROVE  QueuesKeep(d)
  BY DEF QueuesStay, QueuesKeep

LEMMA PendingStays ==
    ASSUME UNCHANGED <<pending, functors, at>>
    PROVE  QueuesStay
  BY ToRunStays DEF QueuesStay

\* The steps in which no connection moves.
LEMMA ConnsStay ==
    ASSUME Inv, Types', QueuesStay, UNCHANGED <<connVars, connections_, held>>,
           \/ server' = server
           \/ server' \in {"ending", "gone"} /\ sending' = {},
           \A d \in Clients : d \in sending' => d \in sending \/ (d \in held /\ server = "started"),
           PcKeeps
    PROVE  \A d \in Clients : ConnInv(d)'
<1>1. SUFFICES ASSUME NEW d \in Clients PROVE ConnInv(d)'
  OBVIOUS
<1>2. ConnInv(d) /\ QueuesKeep(d) /\ ConnTypes
  BY StayKeep DEF Inv, Types
<1>3. d \in sending' => d \in sending \/ (d \in held /\ server = "started")
  OBVIOUS
<1> QED
  BY <1>2, <1>3, ConnStays

LEMMA LoopKeeps ==
    ASSUME Inv, NEW l \in Loops, EnterLoop(l) \/ Poll(l) \/ Swap(l)
    PROVE  Inv'
<1>1. Types' /\ BaseInv' /\ PoolInv'
  BY RoundTyped, LoopControl DEF Inv
<1>2. QueuesStay
  BY PendingStays, SwapQueues DEF EnterLoop, Poll, Inv
<1>3. /\ UNCHANGED <<connVars, connections_, held, server, sending, backlog>>
      /\ \E x \in {"poll", "dispatch", "functors"} :
             pc' = [pc EXCEPT ![l] = x] /\ pc[l] \notin {"none", "gone"}
  BY DEF EnterLoop, Poll, Swap
<1>4. \A c \in Clients : ConnInv(c)'
  <2>1. PcKeeps
    BY <1>3 DEF Inv, Types, LoopTypes, PcKeeps
  <2>2. /\ UNCHANGED <<connVars, connections_, held>> /\ server' = server
        /\ \A d \in Clients : d \in sending' => d \in sending
    BY <1>3
  <2> QED
    BY <1>1, <1>2, <2>1, <2>2, ConnsStay
<1>5. BacklogInv'
  BY <1>3 DEF Inv, BacklogInv, Created
<1>6. RoundInv'
  <2> USE DEF Inv, Types, LoopTypes
  <2>1. CASE EnterLoop(l)
    BY <2>1 DEF EnterLoop, RoundInv
  <2>2. CASE Poll(l)
    <3>1. \A m \in Loops : active'[m] = IF m = l THEN Ready(l) ELSE active[m]
      BY <2>2 DEF Poll
    <3>2. \A m \in Loops : pc'[m] = IF m = l THEN "dispatch" ELSE pc[m]
      BY <2>2 DEF Poll
    <3>3. /\ Acceptor \in Ready(l) => l = Base /\ backlog # <<>>
          /\ \A c \in Ready(l) \ {Acceptor} : loopOf[c] = l /\ index_[c] = "kAdded"
      BY ClientAssumption DEF Ready, ClientTypes
    <3>4. UNCHANGED <<functors, at, backlog, loopOf, index_>> /\ pc[l] # "functors"
      BY <2>2 DEF Poll
    <3> QED
      BY <3>1, <3>2, <3>3, <3>4 DEF RoundInv
  <2>3. CASE Swap(l)
    <3>1. /\ \A m \in Loops : pc'[m] = IF m = l THEN "functors" ELSE pc[m]
          /\ \A m \in Loops : functors'[m] = IF m = l THEN pending[l] ELSE functors[m]
          /\ \A m \in Loops : at'[m] = IF m = l THEN 1 ELSE at[m]
      BY <2>3 DEF Swap
    <3>2. UNCHANGED <<active, backlog, loopOf, index_>> /\ active[l] = {}
      BY <2>3 DEF Swap
    <3>3. 1 <= Len(pending[l]) + 1
      BY LenProperties DEF QueueTypes
    <3>4. \A m \in Loops : at'[m] <= Len(functors'[m]) + 1
      BY <3>1, <3>3 DEF RoundInv
    <3>5. \A m \in Loops : pc'[m] # "functors" => functors'[m] = <<>>
      BY <3>1 DEF RoundInv
    <3>6. \A m \in Loops : active'[m] # {} => pc'[m] = "dispatch"
      BY <3>1, <3>2 DEF RoundInv
    <3> QED
      BY <3>2, <3>4, <3>5, <3>6 DEF RoundInv
  <2> QED
    BY <2>1, <2>2, <2>3
<1> QED
  BY <1>1, <1>4, <1>5, <1>6 DEF Inv

LEMMA EndKeeps ==
    ASSUME Inv, QuitBase \/ BeginEnd \/ QuitThread \/ EndServer
    PROVE  Inv'
<1>1. UNCHANGED <<connVars, connections_, held, sending, backlog, pending, functors, at,
                  pc, active>>
  BY DEF QuitBase, BeginEnd, QuitThread, EndServer
<1>2. Types' /\ BaseInv' /\ PoolInv'
  <2>1. Types'
    <3>1. CASE QuitBase
      <4>1. LoopTypes'
        BY <3>1 DEF QuitBase, Inv, Types, LoopTypes
      <4> QED
        BY <3>1, <4>1 DEF QuitBase, Inv, Types, ServerTypes, QueueTypes, ConnTypes, ClientTypes
    <3> QED
      BY <3>1, EndTyped DEF Inv
  <2> QED
    BY <2>1, EndControl DEF Inv
<1>3. \/ server' = server
      \/ server' \in {"ending", "gone"} /\ sending = {}
  <2>1. CASE EndServer
    <3>1. server = "ending" /\ server' = "gone"
      BY <2>1 DEF EndServer
    <3>2. \A c \in sending : c \in Clients /\ c \notin sending
      BY <3>1 DEF Inv, Types, ClientTypes, ConnInv, StateInv
    <3> QED
      BY <3>1, <3>2
  <2> QED
    BY <2>1 DEF QuitBase, BeginEnd, QuitThread
<1>4. \A c \in Clients : ConnInv(c)'
  <2>1. QueuesStay
    BY <1>1, PendingStays
  <2>2. /\ UNCHANGED <<connVars, connections_, held>>
        /\ server' = server \/ (server' \in {"ending", "gone"} /\ sending' = {})
        /\ \A d \in Clients : d \in sending' => d \in sending
        /\ PcKeeps
    BY <1>1, <1>3 DEF PcKeeps
  <2> QED
    BY <1>2, <2>1, <2>2, ConnsStay
<1>5. RoundInv' /\ BacklogInv'
  BY <1>1 DEF Inv, RoundInv, BacklogInv, Created
<1> QED
  BY <1>2, <1>4, <1>5 DEF Inv

LEMMA BacklogGrows ==
    ASSUME BacklogInv, backlog \in Seq(Clients), NEW c \in Clients, ~Present(c),
           backlog' = Append(backlog, c), UNCHANGED loopOf
    PROVE  BacklogInv'
<1>1. /\ \A i, j \in 1..Len(backlog) : backlog[i] = backlog[j] => i = j
      /\ \A i \in 1..Len(backlog) : backlog[i] # c /\ ~Created(backlog[i])
  <2>1. DOMAIN backlog = 1..Len(backlog)
    OBVIOUS
  <2> QED
    BY <2>1, RangeTyped DEF BacklogInv, IsInjective, Present
<1>2. /\ backlog' \in Seq(Clients) /\ Len(backlog') = Len(backlog) + 1 /\ Len(backlog) \in Nat
      /\ \A i \in 1..Len(backlog) : backlog'[i] = backlog[i]
      /\ backlog'[Len(backlog) + 1] = c
  BY AppendProperties, LenProperties
<1>3. \A i \in 1..Len(backlog') : i \in 1..Len(backlog) \/ i = Len(backlog) + 1
  BY <1>2
<1>4. \A i, j \in 1..Len(backlog') : backlog'[i] = backlog'[j] => i = j
  BY <1>1, <1>2, <1>3
<1>5. \A i \in 1..Len(backlog') : ~Created(backlog'[i])
  BY <1>1, <1>2, <1>3 DEF Present
<1>6. IsInjective(backlog')
  <2>1. DOMAIN backlog' = 1..Len(backlog')
    BY <1>2
  <2> QED
    BY <1>4, <2>1 DEF IsInjective
<1>7. \A d \in Range(backlog') : ~Created(d)
  <2> DEFINE b == backlog'
  <2>1. b \in Seq(Clients)
    BY <1>2
  <2> HIDE DEF b
  <2>2. \A d \in Range(b) : \E i \in 1..Len(b) : d = b[i]
    BY <2>1, RangeTyped
  <2> QED
    BY <2>2, <1>5 DEF b
<1> QED
  BY <1>6, <1>7 DEF BacklogInv, Created

\* Clients, and a user that tests state_.
LEMMA OutsideKeeps ==
    ASSUME Inv, NEW c \in Clients, ClientSends(c) \/ Leave(c) \/ Connect(c) \/ UserTests(c)
    PROVE  Inv'
<1>1. /\ UNCHANGED <<server, loops_, next_, joining, listenning_, connVars, connections_,
                     held, pending, functors, at, pc, quit_, active>>
      /\ backlog' = backlog \/ (backlog' = Append(backlog, c) /\ ~Present(c))
      /\ \/ sending' = sending
         \/ sending' = sending \cup {c} /\ c \in held /\ server = "started"
  <2>1. CASE ClientSends(c) \/ Leave(c)
    BY <2>1 DEF ClientSends, Leave
  <2>2. CASE Connect(c)
    BY <2>2 DEF Connect
  <2>3. CASE UserTests(c)
    BY <2>3 DEF UserTests
  <2> QED
    BY <2>1, <2>2, <2>3
<1>2. Types'
  BY OutsideTyped DEF Inv, ConnInv, Fresh, Outside
<1>3. BaseInv' /\ PoolInv'
  BY <1>1, ControlStays DEF Inv
<1>4. \A d \in Clients : ConnInv(d)'
  <2>1. QueuesStay
    BY <1>1, PendingStays
  <2>2. /\ UNCHANGED <<connVars, connections_, held>> /\ server' = server
        /\ \A d \in Clients :
               d \in sending' => d \in sending \/ (d \in held /\ server = "started")
        /\ PcKeeps
    BY <1>1 DEF PcKeeps
  <2> QED
    BY <1>2, <2>1, <2>2, ConnsStay
<1>5. backlog \in Seq(Clients)
  BY DEF Inv, Types, ClientTypes
<1>6. RoundInv'
  <2>1. backlog # <<>> => backlog' # <<>>
    BY <1>1, <1>5, AppendProperties
  <2> QED
    BY <1>1, <2>1 DEF RoundInv, Inv
<1>7. BacklogInv'
  <2>1. CASE backlog' = backlog
    BY <1>1, <2>1 DEF Inv, BacklogInv, Created
  <2>2. CASE backlog' = Append(backlog, c) /\ ~Present(c)
    BY <1>1, <1>5, <2>2, BacklogGrows DEF Inv
  <2> QED
    BY <1>1, <2>1, <2>2
<1> QED
  BY <1>2, <1>3, <1>4, <1>6, <1>7 DEF Inv

LEMMA StartKeeps ==
    ASSUME Inv, NEW n \in ThreadNums, Start(n)
    PROVE  Inv'
<1>1. Types' /\ BaseInv' /\ PoolInv'
  BY StartTyped, StartControl DEF Inv
<1>2. RoundInv'
  BY <1>1, StartRound DEF Inv
<1>3. /\ UNCHANGED <<connVars, connections_, held, sending, backlog, pending, functors, at>>
      /\ server = "made"
  BY DEF Start
<1>4. BacklogInv'
  BY <1>3 DEF Inv, BacklogInv, Created
<1>5. ASSUME NEW d \in Clients
      PROVE  ConnInv(d)'
  <2>1. ConnInv(d) /\ ~Created(d)
    BY <1>3 DEF Inv, ConnInv, HomeInv
  <2>2. ~Created(d)' /\ QueuesStay
    BY <1>3, <2>1, PendingStays DEF Created
  <2>3. d \notin sending
    BY <1>3, <2>1 DEF ConnInv, StateInv
  <2>4. Fresh(d)' /\ StateInv(d)'
    BY <1>3, <2>1, <2>3 DEF ConnInv, Fresh, StateInv, Created
  <2>5. Placed(d)'
    BY <1>3, <2>1, <2>2 DEF ConnInv, Placed, Created, QueuesStay
  <2> QED
    BY <2>2, <2>4, <2>5 DEF ConnInv
<1> QED
  BY <1>1, <1>2, <1>4, <1>5 DEF Inv

\* A thread's loop, or main's, is destroyed with all it had to run.
LEMMA ConnsOutlive ==
    ASSUME Inv, Types', UNCHANGED <<server, connVars, connections_, held, sending>>,
           NEW l \in Loops,
           \A m \in Loops :
               ToRun(m)' = IF m = l /\ pc'[l] = "gone" THEN <<>> ELSE ToRun(m),
           PcKeeps
    PROVE  \A d \in Clients : ConnInv(d)'
<1>1. CASE pc'[l] # "gone"
  <2>1. QueuesStay
    BY <1>1 DEF QueuesStay
  <2>2. server' = server /\ \A d \in Clients : d \in sending' => d \in sending
    OBVIOUS
  <2> QED
    BY <2>1, <2>2, ConnsStay
<1>2. CASE pc'[l] = "gone"
  <2>1. SUFFICES ASSUME NEW d \in Clients PROVE ConnInv(d)'
    OBVIOUS
  <2>2. ConnInv(d)
    BY DEF Inv
  <2>3. Fresh(d)' /\ StateInv(d)'
    BY <2>2 DEF ConnInv, Fresh, StateInv, Created
  <2>4. \A m \in Loops, f \in Doings :
            In(ToRun(m)', Functor(f, d)) => In(ToRun(m), Functor(f, d))
    BY <1>2, InNothing
  <2>5. Placed(d)'
    BY <2>2, <2>4 DEF ConnInv, Placed, Created
  <2>6. ASSUME Created(d)
        PROVE  (HomeInv(d) /\ EstInv(d) /\ RemInv(d) /\ DesInv(d) /\ SndInv(d))'
    <3>1. loopOf[d] \in Loops /\ Base \in Loops
      BY <2>6 DEF Inv, Types, ConnTypes, Created, Loops
    <3>2. /\ HomeInv(d) /\ EstInv(d) /\ RemInv(d) /\ DesInv(d) /\ SndInv(d)
      BY <2>2, <2>6 DEF ConnInv
    <3>3. /\ ToRun(loopOf[d])' = IF loopOf[d] = l THEN <<>> ELSE ToRun(loopOf[d])
          /\ ToRun(Base)' = IF Base = l THEN <<>> ELSE ToRun(Base)
      BY <1>2, <3>1
    <3>4. EstInv(d)'
      BY <3>2, <3>3, InNothing DEF EstInv
    <3>5. RemInv(d)'
      BY <3>2, <3>3, InNothing DEF RemInv
    <3>6. DesInv(d)'
      BY <1>2, <3>1, <3>2, <3>3, InNothing DEF DesInv, Running, PcKeeps
    <3>7. SndInv(d)'
      BY <3>2, <3>3, InNothing DEF SndInv
    <3> QED
      BY <3>1, <3>2, <3>4, <3>5, <3>6, <3>7 DEF HomeInv, PcKeeps
  <2> QED
    BY <2>3, <2>5, <2>6 DEF ConnInv, Created
<1> QED
  BY <1>1, <1>2

LEMMA EndRoundKeeps ==
    ASSUME Inv, NEW l \in Loops, EndRound(l)
    PROVE  Inv'
<1>1. Types' /\ BaseInv' /\ PoolInv'
  BY RoundTyped, LoopControl DEF Inv
<1>2. /\ UNCHANGED <<connVars, connections_, held, server, sending, backlog, active>>
      /\ functors' = [functors EXCEPT ![l] = <<>>] /\ at' = [at EXCEPT ![l] = 1]
      /\ \E x \in {"poll", "returned", "gone"} : pc' = [pc EXCEPT ![l] = x]
      /\ pc[l] = "functors"
  BY DEF EndRound
<1>3. /\ \A m \in Loops :
             pc[m] = pc'[m] \/ (m = l /\ pc'[m] \in {"poll", "returned", "gone"})
      /\ \A m \in Loops : functors'[m] = IF m = l THEN <<>> ELSE functors[m]
      /\ \A m \in Loops : at'[m] = IF m = l THEN 1 ELSE at[m]
  BY <1>2 DEF Inv, Types, LoopTypes
<1>4. \A c \in Clients : ConnInv(c)'
  <2>1. \A m \in Loops :
            ToRun(m)' = IF m = l /\ pc'[l] = "gone" THEN <<>> ELSE ToRun(m)
    BY EndRoundQueues DEF Inv
  <2>2. PcKeeps
    BY <1>2, <1>3 DEF PcKeeps
  <2>3. UNCHANGED <<server, connVars, connections_, held, sending>>
    BY <1>2
  <2> QED
    BY <1>1, <2>1, <2>2, <2>3, ConnsOutlive
<1>5. BacklogInv'
  BY <1>2 DEF Inv, BacklogInv, Created
<1>6. RoundInv'
  <2>1. active[l] = {}
    BY <1>2 DEF Inv, RoundInv
  <2>2. \A m \in Loops : (pc'[m] # "functors" => functors'[m] = <<>>)
                         /\ at'[m] <= Len(functors'[m]) + 1
    <3>1. Len(<<>>) = 0
      OBVIOUS
    <3> QED
      BY <1>3, <3>1 DEF Inv, RoundInv
  <2>3. \A m \in Loops : active[m] # {} => pc'[m] = "dispatch"
    BY <1>3, <2>1 DEF Inv, RoundInv
  <2> QED
    BY <1>2, <2>2, <2>3 DEF Inv, RoundInv
<1> QED
  BY <1>1, <1>4, <1>5, <1>6 DEF Inv

LEMMA EndBaseKeeps ==
    ASSUME Inv, EndBase
    PROVE  Inv'
<1>0. Base \in Loops
  BY DEF Loops
<1>1. Types' /\ BaseInv' /\ PoolInv'
  BY EndTyped, EndControl DEF Inv
<1>2. /\ UNCHANGED <<connVars, connections_, held, server, sending, backlog, active,
                     functors, at>>
      /\ pc' = [pc EXCEPT ![Base] = "gone"] /\ pc[Base] = "returned"
  BY DEF EndBase
<1>3. \A m \in Loops : pc'[m] = IF m = Base THEN "gone" ELSE pc[m]
  BY <1>2 DEF Inv, Types, LoopTypes
<1>4. \A c \in Clients : ConnInv(c)'
  <2>1. \A m \in Loops :
            ToRun(m)' = IF m = Base /\ pc'[Base] = "gone" THEN <<>> ELSE ToRun(m)
    BY EndBaseQueues DEF Inv
  <2>2. PcKeeps
    BY <1>3 DEF PcKeeps
  <2>3. UNCHANGED <<server, connVars, connections_, held, sending>>
    BY <1>2
  <2> QED
    BY <1>0, <1>1, <2>1, <2>2, <2>3, ConnsOutlive
<1>5. BacklogInv'
  BY <1>2 DEF Inv, BacklogInv, Created
<1>6. RoundInv'
  BY <1>2, <1>3 DEF Inv, RoundInv
<1> QED
  BY <1>1, <1>4, <1>5, <1>6 DEF Inv

-----------------------------------------------------------------------------
(* The connection a step is about.                                         *)

LEMMA GrowFacts ==
    ASSUME Types, NEW l \in Loops, NEW h \in Functors, ToRun(l)' = Append(ToRun(l), h)
    PROVE  \A f, g :
               /\ In(ToRun(l)', f) <=> In(ToRun(l), f) \/ f = h
               /\ Once(ToRun(l), f) /\ (f = h => ~In(ToRun(l), f)) => Once(ToRun(l)', f)
               /\ Before(ToRun(l), f, g) /\ ~(f = h /\ g = h) /\ (f = h => ~In(ToRun(l), g))
                      => Before(ToRun(l)', f, g)
<1>1. ToRun(l) \in Seq(Functors)
  BY ToRunTyped
<1> QED
  BY <1>1, InAppended

LEMMA ShrinkFacts ==
    ASSUME Types, NEW l \in Loops, NEW h, ToRun(l) # <<>>, Head(ToRun(l)) = h,
           ToRun(l)' = Tail(ToRun(l))
    PROVE  /\ In(ToRun(l), h)
           /\ \A f, g :
               /\ In(ToRun(l), f) <=> In(ToRun(l)', f) \/ f = h
               /\ Once(ToRun(l), f) => Once(ToRun(l)', f) /\ (f = h => ~In(ToRun(l)', f))
               /\ Before(ToRun(l), f, g) =>
                      Before(ToRun(l)', f, g) /\ (g = h => ~In(ToRun(l)', f))
<1>1. ToRun(l) \in Seq(Functors)
  BY ToRunTyped
<1>2. \A f, g :
          /\ In(ToRun(l), f) <=> In(ToRun(l)', f) \/ f = h
          /\ Once(ToRun(l), f) => Once(ToRun(l)', f) /\ (f = h => ~In(ToRun(l)', f))
          /\ Before(ToRun(l), f, g) =>
                 Before(ToRun(l)', f, g) /\ (g = h => ~In(ToRun(l)', f))
  BY <1>1, InRest
<1> QED
  BY <1>2

\* The four functors of a connection are four.
LEMMA FunctorsDiffer ==
    ASSUME NEW c
    PROVE  /\ Est(c) # Des(c) /\ Est(c) # Rem(c) /\ Est(c) # Snd(c)
           /\ Des(c) # Rem(c) /\ Des(c) # Snd(c) /\ Rem(c) # Snd(c)
           /\ \A f, g : Functor(f, c) = Functor(g, c) => f = g
  BY DEF Est, Des, Rem, Snd, Functor

\* What is to run is in the vectors.
LEMMA InToRun ==
    ASSUME Types, NEW l \in Loops, NEW f, In(ToRun(l), f)
    PROVE  f \in Range(pending[l]) \cup Range(functors[l])
<1> DEFINE fs == functors[l]
           a == at[l]
           p == pending[l]
           r == SubSeq(fs, a, Len(fs))
<1>1. fs \in Seq(Functors) /\ a \in Nat \ {0} /\ p \in Seq(Functors) /\ ToRun(l) = r \o p
  BY ToRunTyped DEF ToRun
<1>2. PICK i \in 1..Len(r \o p) : (r \o p)[i] = f
  BY <1>1 DEF In
<1>3. /\ r \in Seq(Functors) /\ Len(r) \in Nat
      /\ Len(r) = IF a <= Len(fs) THEN Len(fs) - a + 1 ELSE 0
      /\ \A j \in 1..Len(r) : r[j] = fs[a + j - 1]
  <2>1. Len(fs) \in Nat /\ \A j \in a..Len(fs) : fs[j] \in Functors
    BY <1>1, LenProperties, ElementOfSeq
  <2> HIDE DEF fs, a
  <2>2. /\ r \in Seq(Functors) /\ Len(r) = IF a <= Len(fs) THEN Len(fs) - a + 1 ELSE 0
        /\ \A j \in 1..(Len(fs) - a + 1) : r[j] = fs[a + j - 1]
    BY <1>1, <2>1, SubSeqProperties
  <2> QED
    BY <1>1, <2>1, <2>2
<1> HIDE DEF fs, a, p, r
<1>4. /\ Len(r \o p) = Len(r) + Len(p) /\ Len(p) \in Nat
      /\ \A j \in 1..Len(r) + Len(p) : (r \o p)[j] = IF j <= Len(r) THEN r[j] ELSE p[j - Len(r)]
  BY <1>1, <1>3, ConcatProperties, LenProperties
<1>5. CASE i <= Len(r)
  <2>1. f = fs[a + i - 1] /\ a + i - 1 \in 1..Len(fs)
    <3>1. i \in 1..Len(r) /\ i \in 1..Len(r) + Len(p) /\ Len(fs) \in Nat
      BY <1>1, <1>2, <1>3, <1>4, <1>5, LenProperties
    <3>2. f = r[i]
      BY <1>2, <1>4, <1>5, <3>1
    <3>3. a <= Len(fs) /\ Len(r) = Len(fs) - a + 1
      BY <1>3, <3>1
    <3>4. a \in Nat \ {0} /\ i \in 1..(Len(fs) - a + 1)
      BY <1>1, <3>1, <3>3
    <3>5. a + i - 1 \in 1..Len(fs)
      BY <3>1, <3>3, <3>4
    <3>6. r[i] = fs[a + i - 1]
      BY <1>3, <3>1
    <3> QED
      BY <3>2, <3>5, <3>6
  <2>2. fs[a + i - 1] \in Range(fs)
    BY <1>1, <2>1, RangeTyped
  <2> QED
    BY <2>1, <2>2 DEF fs
<1>6. CASE i > Len(r)
  <2>1. f = p[i - Len(r)] /\ i - Len(r) \in 1..Len(p)
    BY <1>2, <1>3, <1>4, <1>6
  <2>2. p[i - Len(r)] \in Range(p)
    BY <1>1, <2>1, RangeTyped
  <2> QED
    BY <2>1, <2>2 DEF p
<1>7. i <= Len(r) \/ i > Len(r)
  BY <1>2, <1>3, <1>4
<1> QED
  BY <1>5, <1>6, <1>7

\* A step that leaves the queues and the server as they are, in which c's state_
\* and index_ change, or its user lets it go, sending nothing.
LEMMA SameQueues ==
    ASSUME Inv, NEW c \in Clients, QueuesStay, Created(c), StateInv(c)',
           UNCHANGED <<server, connections_, loopOf, pc>>, destroys'[c] = destroys[c],
           state_'[c] = state_[c] \/ {state_[c], state_'[c]} \subseteq {"kConnected", "kDisconnecting"},
           c \in held => c \in held' \/ ~In(ToRun(loopOf[c]), Snd(c))
    PROVE  ConnInv(c)'
<1>1. ConnInv(c) /\ loopOf[c] \in Loops /\ Base \in Loops
  BY DEF Inv, Types, ConnTypes, Created, Loops
<1>2. ToRun(loopOf[c])' = ToRun(loopOf[c]) /\ ToRun(Base)' = ToRun(Base)
  BY <1>1 DEF QueuesStay
<1>3. Placed(c)'
  BY <1>1 DEF ConnInv, Placed, Created, QueuesStay
<1>4. /\ HomeInv(c) /\ EstInv(c) /\ RemInv(c) /\ DesInv(c) /\ SndInv(c)
  BY <1>1 DEF ConnInv
<1>5. EstInv(c)'
  BY <1>2, <1>4 DEF EstInv
<1>6. RemInv(c)'
  BY <1>2, <1>4 DEF RemInv
<1>7. DesInv(c)'
  BY <1>2, <1>4 DEF DesInv, Running
<1>8. SndInv(c)'
  BY <1>2, <1>4 DEF SndInv
<1> QED
  BY <1>3, <1>4, <1>5, <1>6, <1>7, <1>8 DEF ConnInv, Fresh, Created, HomeInv

\* A functor of c is queued where it may be.
LEMMA PlacedGrows ==
    ASSUME Inv, NEW c \in Clients, Created(c), loopOf'[c] = loopOf[c],
           NEW l \in Loops, NEW f \in Doings,
           \A m \in Loops :
               ToRun(m)' = IF m = l THEN Append(ToRun(m), Functor(f, c)) ELSE ToRun(m),
           IF f = "removeConnectionInLoop" THEN l = Base /\ loopOf[c] # Base
           ELSE l = loopOf[c]
    PROVE  Placed(c)'
<1>1. Functor(f, c) \in Functors /\ ConnInv(c)
  BY DEF Functor, Functors, Inv
<1>2. SUFFICES ASSUME NEW m \in Loops, NEW g \in Doings, In(ToRun(m)', Functor(g, c))
               PROVE  /\ Created(c)'
                      /\ IF g = "removeConnectionInLoop" THEN m = Base /\ loopOf'[c] # Base
                         ELSE m = loopOf'[c]
  BY DEF Placed
<1>3. In(ToRun(m), Functor(g, c)) \/ (m = l /\ g = f)
  <2>1. CASE m = l
    <3>1. ToRun(m)' = Append(ToRun(m), Functor(f, c))
      BY <2>1
    <3>2. In(ToRun(m), Functor(g, c)) \/ Functor(g, c) = Functor(f, c)
      BY <1>1, <1>2, <3>1, GrowFacts DEF Inv
    <3> QED
      BY <2>1, <3>2, FunctorsDiffer
  <2>2. CASE m # l
    BY <1>2, <2>2
  <2> QED
    BY <2>1, <2>2
<1> QED
  BY <1>1, <1>3 DEF ConnInv, Placed, Created

LEMMA ReportsGrow ==
    Append(<<>>, "up") = <<"up">> /\ Append(<<"up">>, "down") = Whole
<1> DEFINE S == {"up", "down"}
<1>1. /\ <<>> \in Seq(S) /\ <<"up">> \in Seq(S) /\ Whole \in Seq(S)
      /\ Len(<<>>) = 0 /\ Len(<<"up">>) = 1 /\ Len(Whole) = 2
      /\ <<"up">>[1] = "up" /\ Whole[1] = "up" /\ Whole[2] = "down"
  BY DEF Whole
<1>2. "up" \in S /\ "down" \in S
  OBVIOUS
<1> DEFINE s == Append(<<>>, "up")
           t == Append(<<"up">>, "down")
<1>3. s \in Seq(S) /\ Len(s) = 1 /\ s[1] = "up"
  BY <1>1, <1>2, AppendProperties
<1>4. t \in Seq(S) /\ Len(t) = 2 /\ t[1] = "up" /\ t[2] = "down"
  BY <1>1, <1>2, AppendProperties
<1> HIDE DEF S, s, t
<1>5. s = <<"up">>
  BY <1>1, <1>3, SeqEqual
<1>6. t = Whole
  <2>1. \A i \in 1..2 : i = 1 \/ i = 2
    OBVIOUS
  <2>2. \A i \in 1..Len(t) : t[i] = Whole[i]
    BY <1>1, <1>4, <2>1
  <2> QED
    BY <1>1, <1>4, <2>2, SeqEqual
<1> QED
  BY <1>5, <1>6 DEF s, t

\* An up connection is closed: it is down, and its removal is queued.
LEMMA CloseOwn ==
    ASSUME Inv, Types', NEW l \in Loops, NEW c \in Clients, HandleClose(l, c)
    PROVE  ConnInv(c)'
<1>1. /\ loopOf[c] = l /\ index_[c] = "kAdded" /\ pc[l] = "dispatch"
      /\ state_' = [state_ EXCEPT ![c] = "kDisconnected"]
      /\ index_' = [index_ EXCEPT ![c] = "kDeleted"]
      /\ reports' = [reports EXCEPT ![c] = Append(@, "down")]
      /\ RemoveConnection(c)
      /\ UNCHANGED <<server, pc, functors, at, loopOf, destroys, held, sending>>
  BY DEF HandleClose, Inv, RoundInv
<1>2. Created(c) /\ Base \in Loops
  BY <1>1, LoopAssumption DEF Created, Loops
<1>3. /\ ConnInv(c)
      /\ HomeInv(c) /\ EstInv(c) /\ RemInv(c) /\ DesInv(c) /\ SndInv(c)
  BY <1>2 DEF Inv, ConnInv
<1>4. /\ state_[c] \in {"kConnected", "kDisconnecting"} /\ reports[c] = <<"up">>
      /\ destroys[c] = 0
  BY <1>1, <1>3 DEF ConnInv, StateInv, Inv, Types, ConnTypes
<1>5. /\ state_'[c] = "kDisconnected" /\ index_'[c] = "kDeleted"
      /\ reports'[c] = Whole /\ destroys'[c] = 0 /\ loopOf'[c] = l
  <2>1. Append(<<"up">>, "down") = Whole
    BY ReportsGrow
  <2>2. reports'[c] = Append(reports[c], "down")
    BY <1>1 DEF Inv, Types, ConnTypes
  <2> QED
    BY <1>1, <1>4, <2>1, <2>2 DEF Inv, Types, ConnTypes
<1>6. StateInv(c)'
  BY <1>1, <1>3, <1>5 DEF ConnInv, StateInv
<1>7. Fresh(c)' /\ Created(c)'
  BY <1>1, <1>2 DEF Fresh, Created
<1> DEFINE q == ToRun(l)
<1>8. CASE l = Base
  <2>1. server = "started" /\ c \in connections_ /\ ~In(q, Des(c))
    <3>1. server = "started"
      BY <1>1, <1>8 DEF Inv, BaseInv
    <3>2. c \in connections_
      BY <1>3, <1>4, <3>1 DEF DesInv
    <3> QED
      BY <1>1, <1>3, <3>1, <3>2 DEF DesInv, Running
  <2>2. pending' = [pending EXCEPT ![l] = Append(@, Des(c))] /\ c \notin connections_'
    BY <1>1, <1>8 DEF RemoveConnection, Des
  <2>3. \A m \in Loops : ToRun(m)' = IF m = l THEN Append(ToRun(m), Des(c)) ELSE ToRun(m)
    BY <1>1, <2>2, ToRunGrows, FunctorTyped DEF Inv
  <2>4. Placed(c)'
    BY <1>1, <1>2, <2>3, PlacedGrows DEF Des, Doings
  <2>5. \A f, g :
            /\ In(q', f) <=> In(q, f) \/ f = Des(c)
            /\ Once(q, f) /\ (f = Des(c) => ~In(q, f)) => Once(q', f)
            /\ Before(q, f, g) /\ ~(f = Des(c) /\ g = Des(c)) /\ (f = Des(c) => ~In(q, g))
                   => Before(q', f, g)
    BY <2>3, GrowFacts, FunctorTyped DEF Inv
  <2>6. ToRun(loopOf[c])' = q' /\ ToRun(loopOf[c]) = q /\ ToRun(Base)' = q'
    BY <1>1, <1>8
  <2>7. EstInv(c)'
    BY <1>1, <1>3, <1>4, <2>5, <2>6, FunctorsDiffer DEF EstInv
  <2>8. RemInv(c)'
    BY <1>1, <1>3, <1>4, <1>5, <1>8, <2>5, <2>6, FunctorsDiffer DEF RemInv
  <2>9. DesInv(c)'
    BY <1>1, <1>3, <1>5, <2>1, <2>2, <2>5, <2>6 DEF DesInv
  <2>10. SndInv(c)'
    BY <1>1, <1>3, <1>5, <2>5, <2>6, FunctorsDiffer DEF SndInv
  <2> QED
    BY <1>1, <1>3, <1>6, <1>7, <2>4, <2>7, <2>8, <2>9, <2>10 DEF ConnInv, HomeInv
<1>9. CASE l # Base
  <2>1. ~In(ToRun(Base), Rem(c))
    BY <1>3, <1>4 DEF RemInv
  <2>2. pending' = [pending EXCEPT ![Base] = Append(@, Rem(c))] /\ connections_' = connections_
    BY <1>1, <1>9 DEF RemoveConnection, Rem
  <2>3. \A m \in Loops : ToRun(m)' = IF m = Base THEN Append(ToRun(m), Rem(c)) ELSE ToRun(m)
    BY <1>1, <1>2, <2>2, ToRunGrows, FunctorTyped DEF Inv
  <2>4. Placed(c)'
    BY <1>1, <1>2, <1>9, <2>3, PlacedGrows DEF Rem, Doings
  <2>5. /\ In(ToRun(Base)', Rem(c))
        /\ Once(ToRun(Base), Rem(c)) => Once(ToRun(Base)', Rem(c))
    BY <1>2, <2>1, <2>3, GrowFacts, FunctorTyped DEF Inv
  <2>6. ToRun(loopOf[c])' = q /\ ToRun(loopOf[c]) = q
    BY <1>1, <1>9, <2>3
  <2>7. EstInv(c)'
    BY <1>1, <1>3, <1>4, <2>6 DEF EstInv
  <2>8. RemInv(c)'
    BY <1>1, <1>3, <1>4, <1>5, <2>2, <2>5 DEF RemInv, DesInv
  <2>9. DesInv(c)'
    BY <1>1, <1>3, <1>4, <1>5, <2>2, <2>6 DEF DesInv, Running
  <2>10. SndInv(c)'
    BY <1>1, <1>3, <1>5, <2>6 DEF SndInv
  <2> QED
    BY <1>1, <1>3, <1>6, <1>7, <2>4, <2>7, <2>8, <2>9, <2>10 DEF ConnInv, HomeInv
<1> QED
  BY <1>8, <1>9

\* Where a loop is that runs a functor.
LEMMA RunFacts ==
    ASSUME Inv, NEW l \in Loops, RunFunctor(l), NEW f, f = functors[l][at[l]]
    PROVE  /\ f \in Functors /\ f.conn \in Clients /\ Created(f.conn)
           /\ pc[l] = "functors" /\ Do(f)
           /\ ToRun(l) # <<>> /\ Head(ToRun(l)) = f /\ In(ToRun(l), f)
           /\ IF f.do = "removeConnectionInLoop" THEN l = Base /\ loopOf[f.conn] # Base
              ELSE l = loopOf[f.conn]
           /\ \A m \in Loops : pending'[m] = pending[m] =>
                  ToRun(m)' = IF m = l THEN Tail(ToRun(m)) ELSE ToRun(m)
           /\ UNCHANGED <<serverVars, pc, quit_, functors, active, loopOf, netVars, sending>>
<1>1. /\ f \in Functors /\ at[l] \in 1..Len(functors[l]) /\ at' = [at EXCEPT ![l] = @ + 1]
      /\ Do(f)
      /\ UNCHANGED <<serverVars, pc, quit_, functors, active, loopOf, netVars, sending>>
  BY RunDoes DEF Inv
<1>2. /\ ToRun(l) # <<>> /\ Head(ToRun(l)) = f
      /\ pending'[l] = pending[l] => ToRun(l)' = Tail(ToRun(l))
      /\ \A m \in Loops \ {l} : at'[m] = at[m]
  BY <1>1, ToRunShrinks DEF Inv
<1>3. ToRun(l) \in Seq(Functors)
  BY ToRunTyped DEF Inv
<1>4. In(ToRun(l), f)
  BY <1>2, <1>3, InRest
<1>5. \A m \in Loops : pending'[m] = pending[m] =>
          ToRun(m)' = IF m = l THEN Tail(ToRun(m)) ELSE ToRun(m)
  <2>1. \A m \in Loops \ {l} : pending'[m] = pending[m] => ToRun(m)' = ToRun(m)
    BY <1>1, <1>2, ToRunStays
  <2> QED
    BY <1>2, <2>1
<1>6. f.do \in Doings /\ f.conn \in Clients /\ f = Functor(f.do, f.conn)
  BY <1>1, FunctorTyped
<1>7. /\ Created(f.conn)
      /\ IF f.do = "removeConnectionInLoop" THEN l = Base /\ loopOf[f.conn] # Base
         ELSE l = loopOf[f.conn]
  <2>1. Placed(f.conn) /\ In(ToRun(l), Functor(f.do, f.conn))
    BY <1>4, <1>6 DEF Inv, ConnInv
  <2> QED
    BY <1>6, <2>1 DEF Placed
<1>8. pc[l] = "functors"
  BY DEF RunFunctor
<1> QED
  BY <1>1, <1>2, <1>4, <1>5, <1>6, <1>7, <1>8

\* The functor that l runs is c's, and it queues none.
LEMMA RunOwnFacts ==
    ASSUME Inv, NEW l \in Loops, RunFunctor(l), NEW c \in Clients, NEW g \in Doings,
           Functor(g, c) = functors[l][at[l]], UNCHANGED pending,
           g # "removeConnectionInLoop"
    PROVE  /\ Placed(c)' /\ l = loopOf[c] /\ Created(c) /\ pc[l] = "functors"
           /\ UNCHANGED <<server, pc, loopOf, sending>>
           /\ Do(Functor(g, c))
           /\ In(ToRun(l), Functor(g, c))
           /\ ToRun(loopOf[c])' = ToRun(l)'
           /\ In(ToRun(Base)', Rem(c)) <=> In(ToRun(Base), Rem(c))
           /\ Once(ToRun(Base), Rem(c)) => Once(ToRun(Base)', Rem(c))
           /\ \A f, h :
               /\ In(ToRun(l), f) <=> In(ToRun(l)', f) \/ f = Functor(g, c)
               /\ Once(ToRun(l), f) =>
                      Once(ToRun(l)', f) /\ (f = Functor(g, c) => ~In(ToRun(l)', f))
               /\ Before(ToRun(l), f, h) =>
                      Before(ToRun(l)', f, h) /\ (h = Functor(g, c) => ~In(ToRun(l)', f))
<1> DEFINE F == Functor(g, c)
<1>1. F.do = g /\ F.conn = c /\ F # Rem(c)
  BY DEF Functor, Rem
<1> HIDE DEF F
<1>2. /\ Created(c) /\ pc[l] = "functors" /\ Do(F) /\ l = loopOf[c]
      /\ ToRun(l) # <<>> /\ Head(ToRun(l)) = F /\ In(ToRun(l), F)
      /\ \A m \in Loops : ToRun(m)' = IF m = l THEN Tail(ToRun(m)) ELSE ToRun(m)
      /\ UNCHANGED <<server, pc, loopOf, sending>>
  BY <1>1, RunFacts DEF F
<1>3. \A f, h :
          /\ In(ToRun(l), f) <=> In(ToRun(l)', f) \/ f = F
          /\ Once(ToRun(l), f) => Once(ToRun(l)', f) /\ (f = F => ~In(ToRun(l)', f))
          /\ Before(ToRun(l), f, h) =>
                 Before(ToRun(l)', f, h) /\ (h = F => ~In(ToRun(l)', f))
  BY <1>2, ShrinkFacts DEF Inv
<1>4. Placed(c)'
  <2>1. \A m \in Loops, f \in Doings :
            In(ToRun(m)', Functor(f, c)) => In(ToRun(m), Functor(f, c))
    BY <1>2, <1>3
  <2> QED
    BY <1>2, <2>1 DEF Inv, ConnInv, Placed, Created
<1>5. /\ In(ToRun(Base)', Rem(c)) <=> In(ToRun(Base), Rem(c))
      /\ Once(ToRun(Base), Rem(c)) => Once(ToRun(Base)', Rem(c))
  <2>1. Base \in Loops
    BY DEF Loops
  <2> QED
    BY <1>1, <1>2, <1>3, <2>1
<1> QED
  BY <1>2, <1>3, <1>4, <1>5 DEF F

LEMMA EstOwn ==
    ASSUME Inv, NEW l \in Loops, RunFunctor(l), NEW c \in Clients,
           Est(c) = functors[l][at[l]], DoEst(c)
    PROVE  ConnInv(c)'
<1> DEFINE q == ToRun(l)
<1>1. UNCHANGED <<connections_, pending>> /\ ConnectEstablished(c)
  BY DEF DoEst
<1>2. /\ Placed(c)' /\ l = loopOf[c] /\ Created(c) /\ UNCHANGED <<server, pc, loopOf, sending>>
      /\ In(q, Est(c)) /\ ToRun(loopOf[c])' = q'
      /\ In(ToRun(Base)', Rem(c)) <=> In(ToRun(Base), Rem(c))
      /\ Once(ToRun(Base), Rem(c)) => Once(ToRun(Base)', Rem(c))
      /\ \A f, h :
          /\ In(q, f) <=> In(q', f) \/ f = Est(c)
          /\ Once(q, f) => Once(q', f) /\ (f = Est(c) => ~In(q', f))
          /\ Before(q, f, h) => Before(q', f, h)
  BY <1>1, RunOwnFacts DEF Est, Doings
<1>3. /\ ConnInv(c)
      /\ HomeInv(c) /\ EstInv(c) /\ RemInv(c) /\ DesInv(c) /\ SndInv(c)
  BY <1>2 DEF Inv, ConnInv
<1>4. /\ l # Base /\ state_[c] = "kConnecting" /\ destroys[c] = 0 /\ reports[c] = <<>>
  BY <1>2, <1>3 DEF EstInv, ConnInv, StateInv
<1>5. /\ state_'[c] = "kConnected" /\ index_'[c] = "kAdded" /\ destroys'[c] = 0
      /\ reports'[c] = <<"up">> /\ (c \in held => c \in held')
  <2>1. reports'[c] = Append(reports[c], "up")
    BY <1>1 DEF ConnectEstablished, Inv, Types, ConnTypes
  <2> QED
    BY <1>1, <1>4, <2>1, ReportsGrow DEF ConnectEstablished, Inv, Types, ConnTypes
<1>6. StateInv(c)'
  BY <1>2, <1>3, <1>5 DEF ConnInv, StateInv
<1>7. EstInv(c)' /\ HomeInv(c)' /\ Fresh(c)'
  BY <1>2, <1>3 DEF EstInv, HomeInv, Fresh, Created
<1>8. RemInv(c)'
  BY <1>1, <1>2, <1>3, <1>4 DEF RemInv
<1>9. DesInv(c)'
  BY <1>1, <1>2, <1>3, <1>4, <1>5, FunctorsDiffer DEF DesInv, Running
<1>10. SndInv(c)'
  BY <1>1, <1>2, <1>3, <1>4, <1>5, FunctorsDiffer DEF SndInv
<1> QED
  BY <1>2, <1>6, <1>7, <1>8, <1>9, <1>10 DEF ConnInv

\* What connectDestroyed does to the state: it reports a connection that is up.
LEMMA DestroyOwnState ==
    ASSUME Types, NEW c \in Clients, StateInv(c), ConnectDestroyed(c), destroys[c] = 0
    PROVE  /\ index_'[c] = "kNew" /\ destroys'[c] = 1
           /\ \/ state_'[c] = state_[c] /\ reports'[c] = reports[c]
              \/ state_[c] = "kConnected" /\ state_'[c] = "kDisconnected" /\ reports'[c] = Whole
<1>1. index_'[c] = "kNew" /\ destroys'[c] = 1
  BY DEF ConnectDestroyed, Types, ConnTypes
<1>2. CASE state_[c] = "kConnected"
  <2>1. reports[c] = <<"up">>
    BY <1>2 DEF StateInv
  <2>2. state_'[c] = "kDisconnected" /\ reports'[c] = Append(reports[c], "down")
    BY <1>2 DEF ConnectDestroyed, Types, ConnTypes
  <2> QED
    BY <1>1, <1>2, <2>1, <2>2, ReportsGrow
<1>3. CASE state_[c] # "kConnected"
  BY <1>1, <1>3 DEF ConnectDestroyed
<1> QED
  BY <1>2, <1>3

LEMMA DesOwn ==
    ASSUME Inv, NEW l \in Loops, RunFunctor(l), NEW c \in Clients,
           Des(c) = functors[l][at[l]], DoDes(c)
    PROVE  ConnInv(c)'
<1> DEFINE q == ToRun(l)
<1>1. UNCHANGED <<connections_, pending, held>> /\ ConnectDestroyed(c)
  BY DEF DoDes
<1>2. /\ Placed(c)' /\ l = loopOf[c] /\ Created(c) /\ UNCHANGED <<server, pc, loopOf, sending>>
      /\ In(q, Des(c)) /\ ToRun(loopOf[c])' = q' /\ pc[l] = "functors"
      /\ In(ToRun(Base)', Rem(c)) <=> In(ToRun(Base), Rem(c))
      /\ Once(ToRun(Base), Rem(c)) => Once(ToRun(Base)', Rem(c))
      /\ \A f, h :
          /\ In(q, f) <=> In(q', f) \/ f = Des(c)
          /\ Once(q, f) => Once(q', f) /\ (f = Des(c) => ~In(q', f))
          /\ Before(q, f, h) => Before(q', f, h) /\ (h = Des(c) => ~In(q', f))
  BY <1>1, RunOwnFacts DEF Des, Doings
<1>3. /\ ConnInv(c)
      /\ HomeInv(c) /\ EstInv(c) /\ RemInv(c) /\ DesInv(c) /\ SndInv(c)
  BY <1>2 DEF Inv, ConnInv
<1>4. destroys[c] = 0 /\ c \notin connections_
  BY <1>2, <1>3 DEF DesInv, Running
<1>5. /\ index_'[c] = "kNew" /\ destroys'[c] = 1
      /\ \/ state_'[c] = state_[c] /\ reports'[c] = reports[c]
         \/ state_[c] = "kConnected" /\ state_'[c] = "kDisconnected" /\ reports'[c] = Whole
  BY <1>1, <1>3, <1>4, DestroyOwnState DEF ConnInv, Inv
<1>6. StateInv(c)'
  BY <1>1, <1>2, <1>3, <1>5 DEF ConnInv, StateInv
<1>7. EstInv(c)' /\ HomeInv(c)' /\ Fresh(c)'
  BY <1>2, <1>3 DEF EstInv, HomeInv, Fresh, Created
<1>8. RemInv(c)'
  BY <1>1, <1>2, <1>3, <1>5 DEF RemInv
<1>9. DesInv(c)'
  BY <1>1, <1>2, <1>3, <1>4, <1>5 DEF DesInv
<1>10. SndInv(c)'
  BY <1>1, <1>2, <1>3, <1>5 DEF SndInv
<1> QED
  BY <1>2, <1>6, <1>7, <1>8, <1>9, <1>10 DEF ConnInv

LEMMA SndOwn ==
    ASSUME Inv, NEW l \in Loops, RunFunctor(l), NEW c \in Clients,
           Snd(c) = functors[l][at[l]], DoSnd(c)
    PROVE  ConnInv(c)'
<1> DEFINE q == ToRun(l)
<1>1. /\ UNCHANGED <<connections_, pending, held, state_, reports, destroys>>
      /\ \/ UNCHANGED index_
         \/ state_[c] # "kDisconnected" /\ index_' = [index_ EXCEPT ![c] = "kAdded"]
  BY DEF DoSnd, SendInLoop
<1>2. /\ Placed(c)' /\ l = loopOf[c] /\ Created(c) /\ UNCHANGED <<server, pc, loopOf, sending>>
      /\ In(q, Snd(c)) /\ ToRun(loopOf[c])' = q' /\ pc[l] = "functors"
      /\ In(ToRun(Base)', Rem(c)) <=> In(ToRun(Base), Rem(c))
      /\ Once(ToRun(Base), Rem(c)) => Once(ToRun(Base)', Rem(c))
      /\ \A f, h :
          /\ In(q, f) <=> In(q', f) \/ f = Snd(c)
          /\ Once(q, f) => Once(q', f)
          /\ Before(q, f, h) => Before(q', f, h)
  BY <1>1, RunOwnFacts DEF Snd, Doings
<1>3. /\ ConnInv(c)
      /\ HomeInv(c) /\ EstInv(c) /\ RemInv(c) /\ DesInv(c) /\ SndInv(c)
  BY <1>2 DEF Inv, ConnInv
<1>4. c \in held /\ state_[c] # "kConnecting" /\ (state_[c] # "kDisconnected" => destroys[c] = 0)
  <2>1. l = Base => server = "started"
    BY <1>2 DEF Inv, BaseInv
  <2>2. c \in held /\ (state_[c] # "kDisconnected" => ~(destroys[c] > 0))
    BY <1>2, <1>3, <2>1 DEF SndInv
  <2>3. destroys[c] \in Nat
    BY DEF Inv, Types, ConnTypes
  <2> QED
    BY <1>3, <2>2, <2>3 DEF ConnInv, StateInv
<1>5. \/ index_'[c] = index_[c]
      \/ index_'[c] = "kAdded" /\ destroys[c] = 0 /\ state_[c] \in {"kConnected", "kDisconnecting"}
  BY <1>1, <1>4 DEF Inv, Types, ConnTypes
<1>6. StateInv(c)'
  BY <1>1, <1>2, <1>3, <1>5 DEF ConnInv, StateInv
<1>7. EstInv(c)' /\ HomeInv(c)' /\ Fresh(c)'
  BY <1>1, <1>2, <1>3 DEF EstInv, HomeInv, Fresh, Created
<1>8. RemInv(c)'
  BY <1>1, <1>2, <1>3 DEF RemInv
<1>9. DesInv(c)'
  BY <1>1, <1>2, <1>3, FunctorsDiffer DEF DesInv, Running
<1>10. SndInv(c)'
  BY <1>1, <1>2, <1>3 DEF SndInv
<1> QED
  BY <1>2, <1>6, <1>7, <1>8, <1>9, <1>10 DEF ConnInv

\* Nobody has a loop's thread end while the server runs.
LEMMA LoopRunsOn ==
    ASSUME Inv, NEW c \in Clients, Created(c), joining = 0, pc[Base] # "gone"
    PROVE  Running(loopOf[c])
<1>1. HomeInv(c) /\ loopOf[c] \in Loops
  BY DEF Inv, ConnInv, Types, ConnTypes, Created
<1>2. \A l \in IoLoops : pc[l] = "gone" => joining > 0
  BY DEF Inv, PoolInv
<1>3. ~(joining > 0)
  OBVIOUS
<1> QED
  BY <1>1, <1>2, <1>3 DEF HomeInv, Running, Loops

\* connectDestroyed is queued for c, which has just left the map.
LEMMA DesQueued ==
    ASSUME Inv, NEW c \in Clients, Created(c), c \in connections_, Running(loopOf[c]),
           c \notin connections_', ToRun(loopOf[c])' = Append(ToRun(loopOf[c]), Des(c)),
           Placed(c)', sending' = sending, held' = held,
           UNCHANGED <<server, pc, loopOf, state_, index_, reports, destroys>>,
           state_[c] # "kDisconnected" => server # "started",
           In(ToRun(Base)', Rem(c)) => In(ToRun(Base), Rem(c)),
           server = "started" => ~In(ToRun(Base)', Rem(c)),
           Once(ToRun(Base), Rem(c)) => Once(ToRun(Base)', Rem(c))
    PROVE  ConnInv(c)'
<1> DEFINE q == ToRun(loopOf[c])
<1>1. /\ ConnInv(c)
      /\ HomeInv(c) /\ EstInv(c) /\ RemInv(c) /\ DesInv(c) /\ SndInv(c)
  BY DEF Inv, ConnInv
<1>2. destroys[c] = 0 /\ ~In(q, Des(c))
  BY <1>1 DEF DesInv
<1>3. loopOf[c] \in Loops /\ Des(c) \in Functors
  BY FunctorTyped DEF Inv, Types, ConnTypes, Created
<1>4. \A f, g :
          /\ In(q', f) <=> In(q, f) \/ f = Des(c)
          /\ Once(q, f) /\ (f = Des(c) => ~In(q, f)) => Once(q', f)
          /\ Before(q, f, g) /\ ~(f = Des(c) /\ g = Des(c)) /\ (f = Des(c) => ~In(q, g))
                 => Before(q', f, g)
  BY <1>3, GrowFacts DEF Inv
<1>5. StateInv(c)' /\ HomeInv(c)' /\ Fresh(c)'
  BY <1>1 DEF ConnInv, StateInv, HomeInv, Fresh, Created
<1>6. EstInv(c)'
  BY <1>1, <1>2, <1>4, FunctorsDiffer DEF EstInv
<1>7. RemInv(c)'
  BY <1>1 DEF RemInv
<1>8. DesInv(c)'
  BY <1>1, <1>2, <1>4 DEF DesInv
<1>9. SndInv(c)'
  BY <1>1, <1>2, <1>4, FunctorsDiffer DEF SndInv
<1> QED
  BY <1>5, <1>6, <1>7, <1>8, <1>9 DEF ConnInv

LEMMA RemOwn ==
    ASSUME Inv, NEW l \in Loops, RunFunctor(l), NEW c \in Clients,
           Rem(c) = functors[l][at[l]], DoRem(c), NEW k, k = loopOf[c]
    PROVE  ConnInv(c)'
<1>1. /\ connections_' = connections_ \ {c}
      /\ pending' = [pending EXCEPT ![k] = Append(@, Des(c))]
      /\ UNCHANGED <<state_, index_, reports, destroys, held>>
  BY DEF DoRem, RemoveConnectionInLoop, Des
<1>2. Rem(c).do = "removeConnectionInLoop" /\ Rem(c).conn = c
  BY DEF Rem, Functor
<1>3. /\ Created(c) /\ pc[l] = "functors" /\ l = Base /\ k # Base
      /\ ToRun(l) # <<>> /\ Head(ToRun(l)) = Rem(c) /\ In(ToRun(l), Rem(c))
      /\ \A m \in Loops : pending'[m] = pending[m] =>
             ToRun(m)' = IF m = l THEN Tail(ToRun(m)) ELSE ToRun(m)
      /\ UNCHANGED <<server, joining, pc, functors, loopOf, sending>>
  BY <1>2, RunFacts
<1>4. /\ ConnInv(c)
      /\ HomeInv(c) /\ EstInv(c) /\ RemInv(c) /\ DesInv(c) /\ SndInv(c)
      /\ k \in Loops /\ Des(c) \in Functors /\ pending \in [Loops -> Seq(Functors)]
  BY <1>3, FunctorTyped DEF Inv, ConnInv, Types, ConnTypes, QueueTypes, Created
<1>5. server = "started" /\ joining = 0 /\ pc[Base] # "gone"
  <2>1. server = "started"
    BY <1>3 DEF Inv, BaseInv
  <2>2. ~(joining > 0) /\ joining \in Nat
    BY <2>1, LenProperties DEF Inv, PoolInv, Types, ServerTypes
  <2> QED
    BY <1>3, <2>1, <2>2
<1>6. state_[c] = "kDisconnected" /\ c \in connections_
  BY <1>3, <1>4, <1>5 DEF RemInv
<1>7. Running(k)
  BY <1>3, <1>5, LoopRunsOn
<1>8. ToRun(k)' = Append(ToRun(k), Des(c))
  <2>1. at'[k] = at[k] /\ functors' = functors
    BY <1>3, <1>4 DEF RunFunctor, Inv, Types, LoopTypes
  <2>2. pending'[k] = Append(pending[k], Des(c))
    BY <1>1, <1>4
  <2> QED
    BY <1>4, <2>1, <2>2, ToRunGrowsAt DEF Inv
<1>9. ToRun(l)' = Tail(ToRun(l)) /\ \A m \in Loops \ {l, k} : ToRun(m)' = ToRun(m)
  BY <1>1, <1>3, <1>4
<1>10. /\ \A f :
              /\ In(ToRun(l), f) <=> In(ToRun(l)', f) \/ f = Rem(c)
              /\ Once(ToRun(l), f) => Once(ToRun(l)', f) /\ (f = Rem(c) => ~In(ToRun(l)', f))
  BY <1>3, <1>9, ShrinkFacts DEF Inv
<1>11. \A f : In(ToRun(k)', f) <=> In(ToRun(k), f) \/ f = Des(c)
  BY <1>4, <1>8, GrowFacts DEF Inv
<1>12. Placed(c)'
  <2>1. SUFFICES ASSUME NEW m \in Loops, NEW g \in Doings, In(ToRun(m)', Functor(g, c))
                 PROVE  /\ Created(c)'
                        /\ IF g = "removeConnectionInLoop" THEN m = Base /\ loopOf'[c] # Base
                           ELSE m = loopOf'[c]
    BY DEF Placed
  <2>2. In(ToRun(m), Functor(g, c)) \/ (m = k /\ g = "connectDestroyed")
    <3>1. CASE m = l
      BY <1>10, <2>1, <3>1
    <3>2. CASE m = k
      BY <1>11, <2>1, <3>2, FunctorsDiffer DEF Des
    <3>3. CASE m # l /\ m # k
      BY <1>9, <2>1, <3>3
    <3> QED
      BY <3>1, <3>2, <3>3
  <2> QED
    BY <1>3, <1>4, <2>2 DEF ConnInv, Placed, Created
<1>13. /\ ~In(ToRun(Base)', Rem(c)) /\ Once(ToRun(Base)', Rem(c))
  BY <1>3, <1>4, <1>10 DEF RemInv
<1> QED
  BY <1>1, <1>3, <1>5, <1>6, <1>7, <1>8, <1>12, <1>13, DesQueued

\* ~TcpServer destroys a connection of the base loop, and queues it for others.
LEMMA DestroyOwn ==
    ASSUME Inv, NEW c \in Clients, DestroyConnection(c), NEW k, k = loopOf[c]
    PROVE  /\ ConnInv(c)' /\ Created(c) /\ Running(k)
           /\ loopOf[c] # Base =>
                  \A m \in Loops : ToRun(m)' = IF m = k THEN Append(ToRun(m), Des(c)) ELSE ToRun(m)
<1>1. /\ server = "ending" /\ c \in connections_ /\ connections_' = connections_ \ {c}
      /\ UNCHANGED <<server, pc, functors, at, loopOf, held, sending>>
  BY DEF DestroyConnection
<1>2. Created(c) /\ loopOf[c] \in Loops /\ Base \in Loops
  <2>1. Created(c)
    BY <1>1 DEF Inv, ConnInv, Fresh
  <2> QED
    BY <2>1 DEF Inv, Types, ConnTypes, Created, Loops
<1>3. Running(loopOf[c])
  <2>1. joining = 0
    <3>1. ~(joining > 0) /\ joining \in Nat
      BY <1>1, LenProperties DEF Inv, PoolInv, Types, ServerTypes
    <3> QED
      BY <3>1
  <2>2. pc[Base] # "gone"
    BY <1>1 DEF Inv, BaseInv
  <2> QED
    BY <1>2, <2>1, <2>2, LoopRunsOn
<1>4. /\ ConnInv(c)
      /\ HomeInv(c) /\ EstInv(c) /\ RemInv(c) /\ DesInv(c) /\ SndInv(c)
  BY <1>2 DEF Inv, ConnInv
<1>5. destroys[c] = 0 /\ ~In(ToRun(loopOf[c]), Des(c))
  BY <1>1, <1>3, <1>4 DEF DesInv
<1>6. CASE loopOf[c] = Base
  <2>1. ConnectDestroyed(c) /\ UNCHANGED pending
    BY <1>6 DEF DestroyConnection
  <2>2. QueuesStay
    BY <1>1, <2>1, PendingStays
  <2>3. ToRun(Base)' = ToRun(Base) /\ ToRun(loopOf[c])' = ToRun(loopOf[c])
    BY <1>1, <1>2, <2>2 DEF QueuesStay
  <2>4. /\ index_'[c] = "kNew" /\ destroys'[c] = 1
        /\ \/ state_'[c] = state_[c] /\ reports'[c] = reports[c]
           \/ state_[c] = "kConnected" /\ state_'[c] = "kDisconnected" /\ reports'[c] = Whole
    BY <1>4, <1>5, <2>1, DestroyOwnState DEF ConnInv, Inv
  <2>5. Placed(c)'
    BY <1>1, <1>4, <2>2 DEF ConnInv, Placed, Created, QueuesStay
  <2>6. StateInv(c)' /\ HomeInv(c)' /\ Fresh(c)'
    BY <1>1, <1>2, <1>4, <2>4 DEF ConnInv, StateInv, HomeInv, Fresh, Created
  <2>7. EstInv(c)'
    BY <1>1, <1>4, <1>6, <2>3 DEF EstInv
  <2>8. RemInv(c)'
    BY <1>1, <1>4, <2>3, <2>4 DEF RemInv
  <2>9. DesInv(c)'
    BY <1>1, <1>4, <1>5, <2>3, <2>4 DEF DesInv
  <2>10. SndInv(c)'
    BY <1>1, <1>4, <1>6, <2>3, <2>4 DEF SndInv
  <2>11. ConnInv(c)'
    BY <2>5, <2>6, <2>7, <2>8, <2>9, <2>10 DEF ConnInv
  <2> QED
    BY <1>2, <1>3, <1>6, <2>11
<1>7. CASE loopOf[c] # Base
  <2> k \in Loops
    BY <1>2
  <2>1. /\ pending' = [pending EXCEPT ![k] = Append(@, Des(c))]
        /\ UNCHANGED <<state_, index_, reports, destroys>>
    BY <1>7 DEF DestroyConnection, Des
  <2>2. \A m \in Loops : ToRun(m)' = IF m = k THEN Append(ToRun(m), Des(c)) ELSE ToRun(m)
    BY <1>1, <2>1, FunctorTyped, ToRunGrows DEF Inv
  <2>3. Placed(c)'
    BY <1>1, <1>2, <2>2, PlacedGrows DEF Des, Doings
  <2>4. ToRun(Base)' = ToRun(Base) /\ ToRun(k)' = Append(ToRun(k), Des(c))
    BY <1>2, <1>7, <2>2
  <2>5. /\ ToRun(loopOf[c])' = Append(ToRun(loopOf[c]), Des(c)) /\ Running(loopOf[c])
        /\ server # "started" /\ c \notin connections_'
        /\ In(ToRun(Base)', Rem(c)) <=> In(ToRun(Base), Rem(c))
        /\ Once(ToRun(Base), Rem(c)) => Once(ToRun(Base)', Rem(c))
    BY <1>1, <1>3, <2>4
  <2>6. ConnInv(c)'
    BY <1>1, <1>2, <2>1, <2>3, <2>5, DesQueued
  <2> QED
    BY <1>2, <1>3, <2>2, <2>6
<1> QED
  BY <1>6, <1>7

\* A user queues sendInLoop.
LEMMA UserQueuesOwn ==
    ASSUME Inv, NEW c \in Clients, UserQueues(c), NEW k, k = loopOf[c]
    PROVE  /\ ConnInv(c)' /\ Created(c) /\ k \in Loops
           /\ \A m \in Loops : ToRun(m)' = IF m = k THEN Append(ToRun(m), Snd(c)) ELSE ToRun(m)
<1>1. /\ c \in sending /\ sending' = sending \ {c}
      /\ pending' = [pending EXCEPT ![k] = Append(@, Snd(c))]
      /\ UNCHANGED <<server, pc, functors, at, connections_, connVars, held>>
  BY DEF UserQueues, Snd
<1>2. c \in held /\ server = "started" /\ Created(c)
  BY <1>1 DEF Inv, ConnInv, StateInv, Fresh
<1>3. /\ ConnInv(c)
      /\ HomeInv(c) /\ EstInv(c) /\ RemInv(c) /\ DesInv(c) /\ SndInv(c)
      /\ k \in Loops /\ Base \in Loops /\ Snd(c) \in Functors
  BY <1>2, FunctorTyped DEF Inv, ConnInv, Types, ConnTypes, Created, Loops
<1>4. \A m \in Loops : ToRun(m)' = IF m = k THEN Append(ToRun(m), Snd(c)) ELSE ToRun(m)
  BY <1>1, <1>3, ToRunGrows DEF Inv
<1>5. Running(k)
  <2>1. ~(joining > 0) /\ joining \in Nat /\ pc[Base] # "gone"
    BY <1>2, LenProperties DEF Inv, PoolInv, BaseInv, Types, ServerTypes
  <2>2. joining = 0
    BY <2>1
  <2> QED
    BY <1>2, <2>1, <2>2, LoopRunsOn
<1>6. state_[c] # "kDisconnected" => destroys[c] = 0 /\ ~In(ToRun(k), Des(c))
  BY <1>2, <1>3, <1>5 DEF DesInv
<1>7. Placed(c)'
  BY <1>1, <1>2, <1>3, <1>4, PlacedGrows DEF Snd, Doings
<1>8. \A f, g :
          /\ In(ToRun(k)', f) <=> In(ToRun(k), f) \/ f = Snd(c)
          /\ Once(ToRun(k), f) /\ (f = Snd(c) => ~In(ToRun(k), f)) => Once(ToRun(k)', f)
          /\ Before(ToRun(k), f, g) /\ ~(f = Snd(c) /\ g = Snd(c))
                /\ (f = Snd(c) => ~In(ToRun(k), g))
                 => Before(ToRun(k)', f, g)
  BY <1>3, <1>4, GrowFacts DEF Inv
<1>9. ToRun(loopOf[c])' = ToRun(k)'
  BY <1>1
<1>10. /\ In(ToRun(Base)', Rem(c)) <=> In(ToRun(Base), Rem(c))
       /\ Once(ToRun(Base), Rem(c)) => Once(ToRun(Base)', Rem(c))
  BY <1>3, <1>4, <1>8, FunctorsDiffer
<1>11. StateInv(c)' /\ HomeInv(c)' /\ Fresh(c)'
  BY <1>1, <1>3 DEF ConnInv, StateInv, HomeInv, Fresh, Created
<1>12. EstInv(c)'
  BY <1>1, <1>3, <1>8, <1>9, FunctorsDiffer DEF EstInv
<1>13. RemInv(c)'
  BY <1>1, <1>3, <1>10 DEF RemInv
<1>14. DesInv(c)'
  BY <1>1, <1>3, <1>8, <1>9, FunctorsDiffer DEF DesInv, Running
<1>15. SndInv(c)'
  BY <1>1, <1>2, <1>3, <1>6, <1>8, <1>9, FunctorsDiffer DEF SndInv
<1> QED
  BY <1>2, <1>3, <1>4, <1>7, <1>11, <1>12, <1>13, <1>14, <1>15 DEF ConnInv

-----------------------------------------------------------------------------
(* Whole steps.                                                            *)

\* No connection but c moves, and no queue but by functors of c.
OnlyMoves(c) ==
    /\ server' = server /\ pc' = pc /\ sending' \subseteq sending
    /\ \A d \in Clients \ {c} :
           /\ loopOf'[d] = loopOf[d] /\ state_'[d] = state_[d] /\ index_'[d] = index_[d]
           /\ reports'[d] = reports[d] /\ destroys'[d] = destroys[d]
           /\ d \in connections_' <=> d \in connections_
           /\ d \in held' <=> d \in held
    /\ \A m \in Loops :
           \/ ToRun(m)' = ToRun(m)
           \/ \E h \in Functors : h.conn = c /\ ToRun(m)' = Append(ToRun(m), h)
           \/ ToRun(m) # <<>> /\ Head(ToRun(m)).conn = c /\ ToRun(m)' = Tail(ToRun(m))

LEMMA OthersStay ==
    ASSUME Inv, Types', NEW c \in Clients, OnlyMoves(c), ConnInv(c)'
    PROVE  \A d \in Clients : ConnInv(d)'
<1>1. SUFFICES ASSUME NEW d \in Clients \ {c} PROVE ConnInv(d)'
  OBVIOUS
<1>2. QueuesKeep(d)
  <2>1. \A m \in Loops :
            \/ ToRun(m)' = ToRun(m)
            \/ \E h \in Functors : h.conn # d /\ ToRun(m)' = Append(ToRun(m), h)
            \/ /\ ToRun(m) # <<>> /\ Head(ToRun(m)).conn # d
               /\ ToRun(m)' = Tail(ToRun(m))
    <3>1. SUFFICES ASSUME NEW m \in Loops
                   PROVE  \/ ToRun(m)' = ToRun(m)
                          \/ \E h \in Functors : h.conn # d /\ ToRun(m)' = Append(ToRun(m), h)
                          \/ /\ ToRun(m) # <<>> /\ Head(ToRun(m)).conn # d
                             /\ ToRun(m)' = Tail(ToRun(m))
      OBVIOUS
    <3>2. CASE ToRun(m)' = ToRun(m)
      BY <3>2
    <3>3. CASE \E h \in Functors : h.conn = c /\ ToRun(m)' = Append(ToRun(m), h)
      BY <1>1, <3>3
    <3>4. CASE ToRun(m) # <<>> /\ Head(ToRun(m)).conn = c /\ ToRun(m)' = Tail(ToRun(m))
      BY <1>1, <3>4
    <3> QED
      BY <3>2, <3>3, <3>4 DEF OnlyMoves
  <2> QED
    BY <2>1, OthersKeep DEF Inv
<1>3. ConnInv(d) /\ ConnTypes
  BY DEF Inv, Types
<1>4. PcKeeps
  BY DEF OnlyMoves, PcKeeps
<1>5. /\ server' = server
      /\ loopOf'[d] = loopOf[d] /\ state_'[d] = state_[d] /\ index_'[d] = index_[d]
      /\ reports'[d] = reports[d] /\ destroys'[d] = destroys[d]
      /\ d \in connections_' <=> d \in connections_
      /\ d \in held' <=> d \in held
      /\ d \in sending' => d \in sending
  BY <1>1 DEF OnlyMoves
<1> QED
  BY <1>2, <1>3, <1>4, <1>5, ConnStays

\* Data are read; the message callback may shut the connection down.
LEMMA HandleReadKeeps ==
    ASSUME Inv, NEW l \in Loops, NEW c \in Clients, HandleRead(l, c)
    PROVE  Inv'
<1>1. Types'
  BY HandleTyped DEF Inv
<1>2. /\ UNCHANGED <<serverVars, connections_, pc, quit_, functors, at, pending, loopOf,
                     index_, reports, destroys, backlog, left, userVars>>
      /\ active' = [active EXCEPT ![l] = @ \ {c}] /\ c \in active[l]
      /\ \/ state_' = state_
         \/ state_[c] = "kConnected" /\ state_' = [state_ EXCEPT ![c] = "kDisconnecting"]
  BY DEF HandleRead
<1>3. QueuesStay
  BY <1>2, PendingStays
<1>4. loopOf[c] = l /\ index_[c] = "kAdded" /\ Created(c) /\ ConnInv(c)
  BY <1>2, ClientAssumption, LoopAssumption DEF Inv, RoundInv, Created
<1>5. \/ state_'[c] = state_[c]
      \/ state_[c] = "kConnected" /\ state_'[c] = "kDisconnecting"
  BY <1>2 DEF Inv, Types, ConnTypes
<1>6. ConnInv(c)'
  <2>1. StateInv(c)'
    BY <1>2, <1>4, <1>5 DEF ConnInv, StateInv
  <2> QED
    BY <1>2, <1>3, <1>4, <1>5, <2>1, SameQueues
<1>7. OnlyMoves(c)
  BY <1>2, <1>3 DEF OnlyMoves, QueuesStay, Inv, Types, ConnTypes
<1>8. BaseInv' /\ PoolInv' /\ BacklogInv'
  BY <1>2, ControlStays DEF Inv, BacklogInv, Created
<1>9. RoundInv'
  <2>1. \A m \in Loops : active'[m] \subseteq active[m]
    BY <1>2 DEF Inv, Types, LoopTypes
  <2> QED
    BY <1>2, <2>1, RoundStays DEF Inv, RoundInv
<1> QED
  BY <1>1, <1>6, <1>7, <1>8, <1>9, OthersStay DEF Inv

LEMMA HandleCloseKeeps ==
    ASSUME Inv, NEW l \in Loops, NEW c \in Clients, HandleClose(l, c)
    PROVE  Inv'
<1>1. Types'
  BY HandleTyped DEF Inv
<1>2. /\ UNCHANGED <<serverVars, pc, quit_, functors, at, loopOf, destroys, netVars,
                     userVars>>
      /\ active' = [active EXCEPT ![l] = @ \ {c}] /\ c \in active[l]
      /\ state_' = [state_ EXCEPT ![c] = "kDisconnected"]
      /\ index_' = [index_ EXCEPT ![c] = "kDeleted"]
      /\ reports' = [reports EXCEPT ![c] = Append(@, "down")]
      /\ connections_' \in {connections_, connections_ \ {c}}
      /\ \E h \in {Des(c), Rem(c)} : pending' = [pending EXCEPT ![Base] = Append(@, h)]
  BY DEF HandleClose, RemoveConnection, Des, Rem
<1>3. PICK h \in {Des(c), Rem(c)} : pending' = [pending EXCEPT ![Base] = Append(@, h)]
  BY <1>2
<1>4. h \in Functors /\ h.conn = c /\ Base \in Loops
  BY FunctorTyped DEF Des, Rem, Functor, Loops
<1>5. \A m \in Loops : ToRun(m)' = IF m = Base THEN Append(ToRun(m), h) ELSE ToRun(m)
  BY <1>2, <1>3, <1>4, ToRunGrows DEF Inv
<1>6. OnlyMoves(c)
  <2>1. \A m \in Loops :
            \/ ToRun(m)' = ToRun(m)
            \/ \E g \in Functors : g.conn = c /\ ToRun(m)' = Append(ToRun(m), g)
    BY <1>4, <1>5
  <2>2. /\ server' = server /\ pc' = pc /\ sending' \subseteq sending
        /\ \A d \in Clients \ {c} :
               /\ loopOf'[d] = loopOf[d] /\ state_'[d] = state_[d] /\ index_'[d] = index_[d]
               /\ reports'[d] = reports[d] /\ destroys'[d] = destroys[d]
               /\ d \in connections_' <=> d \in connections_
               /\ d \in held' <=> d \in held
    BY <1>2 DEF Inv, Types, ConnTypes
  <2> QED
    BY <2>1, <2>2 DEF OnlyMoves
<1>7. ConnInv(c)'
  BY <1>1, CloseOwn
<1>8. BaseInv' /\ PoolInv' /\ BacklogInv'
  <2>1. connections_' \subseteq connections_
    BY <1>2
  <2> QED
    BY <1>2, <2>1, ControlStays DEF Inv, BacklogInv, Created
<1>9. RoundInv'
  <2>1. /\ \A m \in Loops : active'[m] \subseteq active[m]
        /\ c \notin active'[l]
    BY <1>2 DEF Inv, Types, LoopTypes
  <2>2. \A m \in Loops : \A d \in active'[m] \ {Acceptor} :
            loopOf'[d] = loopOf[d] /\ index_'[d] = index_[d]
    <3>1. loopOf[c] = l /\ c # Acceptor
      BY <1>2, ClientAssumption DEF Inv, RoundInv
    <3>2. \A m \in Loops : c \notin active'[m]
      BY <2>1, <3>1 DEF Inv, RoundInv
    <3> QED
      BY <1>2, <3>2 DEF Inv, Types, ConnTypes
  <2> QED
    BY <1>2, <2>1, <2>2, RoundStays DEF Inv, RoundInv
<1> QED
  BY <1>1, <1>6, <1>7, <1>8, <1>9, OthersStay DEF Inv

\* What is common to the four functors.
LEMMA RunKeeps ==
    ASSUME Inv, NEW l \in Loops, RunFunctor(l), NEW c \in Clients,
           NEW f, f = functors[l][at[l]], f.conn = c, ConnInv(c)', OnlyMoves(c),
           connections_' \subseteq connections_
    PROVE  Inv'
<1>1. /\ Created(c) /\ pc[l] = "functors" /\ Do(f)
      /\ at[l] <= Len(functors[l]) /\ at' = [at EXCEPT ![l] = @ + 1]
      /\ l = Base \/ l = loopOf[c]
      /\ f.do = "removeConnectionInLoop" \/ l = loopOf[c]
      /\ UNCHANGED <<serverVars, pc, quit_, functors, active, loopOf, netVars, sending>>
  BY RunFacts DEF RunFunctor
<1>2. Types'
  BY <1>1, RunTyped DEF Inv
<1>3. BaseInv' /\ PoolInv' /\ BacklogInv'
  BY <1>1, ControlStays DEF Inv, BacklogInv, Created
<1>4. RoundInv'
  <2>1. \A m \in Loops : at'[m] <= Len(functors[m]) + 1
    <3>1. SUFFICES ASSUME NEW m \in Loops PROVE at'[m] <= Len(functors[m]) + 1
      OBVIOUS
    <3>2. CASE m = l
      <4>1. at'[l] = at[l] + 1 /\ at[l] \in Nat /\ Len(functors[l]) \in Nat
        BY <1>1, LenProperties DEF Inv, Types, LoopTypes
      <4> QED
        BY <1>1, <3>2, <4>1
    <3>3. CASE m # l
      BY <1>1, <3>3 DEF Inv, Types, LoopTypes, RoundInv
    <3> QED
      BY <3>2, <3>3
  <2>2. \A m \in Loops : \A d \in active[m] \ {Acceptor} : index_'[d] = index_[d]
    <3>1. SUFFICES ASSUME NEW m \in Loops, NEW d \in active[m] \ {Acceptor}
                   PROVE  index_'[d] = index_[d]
      OBVIOUS
    <3>2. d \in Clients /\ loopOf[d] = m /\ pc[m] = "dispatch"
      BY <3>1 DEF Inv, RoundInv, Types, LoopTypes
    <3>3. CASE d # c
      BY <3>2, <3>3 DEF OnlyMoves
    <3>4. CASE d = c
      <4>1. l # loopOf[c]
        BY <1>1, <3>2, <3>4
      <4>2. f.do = "removeConnectionInLoop"
        BY <1>1, <4>1
      <4>3. index_' = index_
        BY <1>1, <4>2 DEF Do, DoRem, Est, Des, Snd, Functor
      <4> QED
        BY <4>3
    <3> QED
      BY <3>3, <3>4
  <2> QED
    BY <1>1, <2>1, <2>2, RoundStays DEF Inv, RoundInv
<1> QED
  BY <1>2, <1>3, <1>4, OthersStay DEF Inv

\* Where the functors that queue none leave the others.
LEMMA RunMoves ==
    ASSUME Inv, NEW l \in Loops, RunFunctor(l), NEW c \in Clients,
           NEW f, f = functors[l][at[l]], f.conn = c, UNCHANGED pending,
           DoEst(c) \/ DoDes(c) \/ DoSnd(c)
    PROVE  OnlyMoves(c) /\ connections_' \subseteq connections_
<1>1. /\ ToRun(l) # <<>> /\ Head(ToRun(l)) = f
      /\ \A m \in Loops : ToRun(m)' = IF m = l THEN Tail(ToRun(m)) ELSE ToRun(m)
      /\ UNCHANGED <<server, pc, loopOf, sending>>
  BY RunFacts
<1>2. connections_' = connections_
  BY DEF DoEst, DoDes, DoSnd
<1>3. \A d \in Clients \ {c} :
          /\ state_'[d] = state_[d] /\ index_'[d] = index_[d]
          /\ reports'[d] = reports[d] /\ destroys'[d] = destroys[d]
          /\ d \in held' <=> d \in held
  <2>1. CASE DoEst(c)
    BY <2>1 DEF DoEst, ConnectEstablished, Inv, Types, ConnTypes
  <2>2. CASE DoDes(c)
    BY <2>2 DEF DoDes, ConnectDestroyed, Inv, Types, ConnTypes
  <2>3. CASE DoSnd(c)
    BY <2>3 DEF DoSnd, SendInLoop, Inv, Types, ConnTypes
  <2> QED
    BY <2>1, <2>2, <2>3
<1> QED
  BY <1>1, <1>2, <1>3 DEF OnlyMoves

LEMMA RunFunctorKeeps ==
    ASSUME Inv, NEW l \in Loops, RunFunctor(l)
    PROVE  Inv'
<1>a. PICK f \in Functors : f = functors[l][at[l]] /\ Do(f)
  BY RunFacts
<1>b. PICK c \in Clients : c = f.conn
  BY <1>a, FunctorTyped
<1>1. c \in Clients /\ Do(f) /\ Created(c) /\ f = functors[l][at[l]] /\ f.conn = c
  BY <1>a, <1>b, RunFacts
<1>2. CASE f = Est(c) /\ DoEst(c)
  <2>1. UNCHANGED pending
    BY <1>2 DEF DoEst
  <2>2. ConnInv(c)'
    BY <1>1, <1>2, EstOwn
  <2> QED
    BY <1>1, <1>2, <2>1, <2>2, RunMoves, RunKeeps
<1>3. CASE f = Des(c) /\ DoDes(c)
  <2>1. UNCHANGED pending
    BY <1>3 DEF DoDes
  <2>2. ConnInv(c)'
    BY <1>1, <1>3, DesOwn
  <2> QED
    BY <1>1, <1>3, <2>1, <2>2, RunMoves, RunKeeps
<1>4. CASE f = Snd(c) /\ DoSnd(c)
  <2>1. UNCHANGED pending
    BY <1>4 DEF DoSnd
  <2>2. ConnInv(c)'
    BY <1>1, <1>4, SndOwn
  <2> QED
    BY <1>1, <1>4, <2>1, <2>2, RunMoves, RunKeeps
<1>5. CASE f = Rem(c) /\ DoRem(c)
  <2>1. ConnInv(c)'
    BY <1>1, <1>5, RemOwn
  <2>2. /\ ToRun(l) # <<>> /\ Head(ToRun(l)) = f /\ l = Base /\ loopOf[c] # Base
        /\ \A m \in Loops : pending'[m] = pending[m] =>
               ToRun(m)' = IF m = l THEN Tail(ToRun(m)) ELSE ToRun(m)
        /\ UNCHANGED <<server, pc, loopOf, sending, functors>>
    <3>1. f.do = "removeConnectionInLoop"
      BY <1>5 DEF Rem, Functor
    <3> QED
      BY <1>1, <3>1, RunFacts
  <2>3. /\ connections_' = connections_ \ {c}
        /\ UNCHANGED <<state_, index_, reports, destroys, held>>
        /\ pending' = [pending EXCEPT ![loopOf[c]] = Append(@, Des(c))]
    BY <1>5 DEF DoRem, RemoveConnectionInLoop, Des
  <2>4. Des(c) \in Functors /\ Des(c).conn = c /\ loopOf[c] \in Loops
    BY <1>1, FunctorTyped DEF Des, Functor, Inv, Types, ConnTypes, Created
  <2>5. \A m \in Loops :
            \/ ToRun(m)' = ToRun(m)
            \/ \E h \in Functors : h.conn = c /\ ToRun(m)' = Append(ToRun(m), h)
            \/ ToRun(m) # <<>> /\ Head(ToRun(m)).conn = c /\ ToRun(m)' = Tail(ToRun(m))
    <3>1. SUFFICES ASSUME NEW m \in Loops
                   PROVE  \/ ToRun(m)' = ToRun(m)
                          \/ \E h \in Functors : h.conn = c /\ ToRun(m)' = Append(ToRun(m), h)
                          \/ /\ ToRun(m) # <<>> /\ Head(ToRun(m)).conn = c
                             /\ ToRun(m)' = Tail(ToRun(m))
      OBVIOUS
    <3>2. CASE m # loopOf[c]
      <4>1. pending'[m] = pending[m]
        BY <2>3, <3>2 DEF Inv, Types, QueueTypes
      <4>2. Head(ToRun(l)).conn = c
        BY <1>1, <2>2
      <4> QED
        BY <2>2, <4>1, <4>2
    <3>3. CASE m = loopOf[c]
      <4>1. pending'[m] = Append(pending[m], Des(c)) /\ at'[m] = at[m]
        BY <2>2, <2>3, <2>4, <3>3 DEF Inv, Types, QueueTypes, LoopTypes, RunFunctor
      <4>2. ToRun(m)' = Append(ToRun(m), Des(c))
        BY <2>2, <2>4, <4>1, ToRunGrowsAt DEF Inv
      <4> QED
        BY <2>4, <4>2
    <3> QED
      BY <3>2, <3>3
  <2>6. OnlyMoves(c)
    BY <2>2, <2>3, <2>5 DEF OnlyMoves
  <2>7. connections_' \subseteq connections_
    BY <2>3
  <2> QED
    BY <1>1, <2>1, <2>6, <2>7, RunKeeps
<1> QED
  BY <1>1, <1>2, <1>3, <1>4, <1>5 DEF Do

LEMMA DestroyConnectionKeeps ==
    ASSUME Inv, NEW c \in Clients, DestroyConnection(c)
    PROVE  Inv'
<1>1. PICK k : k = loopOf[c]
  OBVIOUS
<1>2. /\ ConnInv(c)' /\ Created(c)
      /\ loopOf[c] # Base =>
             \A m \in Loops : ToRun(m)' = IF m = k THEN Append(ToRun(m), Des(c)) ELSE ToRun(m)
  BY <1>1, DestroyOwn
<1>3. Types'
  BY <1>2, DestroyConnectionTyped DEF Inv
<1>4. /\ server = "ending" /\ connections_' = connections_ \ {c}
      /\ UNCHANGED <<serverVars, roundVars, loopOf, netVars, userVars>>
      /\ IF loopOf[c] = Base THEN ConnectDestroyed(c) /\ UNCHANGED pending
         ELSE UNCHANGED <<state_, index_, reports, destroys>>
  BY DEF DestroyConnection
<1>5. BaseInv' /\ PoolInv' /\ BacklogInv'
  <2>1. connections_' \subseteq connections_
    BY <1>4
  <2> QED
    BY <1>4, <2>1, ControlStays DEF Inv, BacklogInv, Created
<1>6. \A d \in Clients \ {c} :
          /\ state_'[d] = state_[d] /\ index_'[d] = index_[d]
          /\ reports'[d] = reports[d] /\ destroys'[d] = destroys[d]
  <2>1. CASE loopOf[c] = Base
    BY <1>4, <2>1 DEF ConnectDestroyed, Inv, Types, ConnTypes
  <2>2. CASE loopOf[c] # Base
    BY <1>4, <2>2
  <2> QED
    BY <2>1, <2>2
<1>7. OnlyMoves(c)
  <2>1. \A m \in Loops :
            \/ ToRun(m)' = ToRun(m)
            \/ \E h \in Functors : h.conn = c /\ ToRun(m)' = Append(ToRun(m), h)
    <3>1. CASE loopOf[c] = Base
      BY <1>4, <3>1, PendingStays DEF QueuesStay
    <3>2. CASE loopOf[c] # Base
      <4>1. Des(c) \in Functors /\ Des(c).conn = c
        BY FunctorTyped DEF Des, Functor
      <4> QED
        BY <1>2, <3>2, <4>1
    <3> QED
      BY <3>1, <3>2
  <2> QED
    BY <1>4, <1>6, <2>1 DEF OnlyMoves
<1>8. RoundInv'
  <2>1. \A m \in Loops : \A d \in active[m] \ {Acceptor} : index_'[d] = index_[d]
    <3>1. SUFFICES ASSUME NEW m \in Loops, NEW d \in active[m] \ {Acceptor}
                   PROVE  index_'[d] = index_[d]
      OBVIOUS
    <3>2. d \in Clients /\ loopOf[d] = m /\ pc[m] = "dispatch"
      BY <3>1 DEF Inv, RoundInv, Types, LoopTypes
    <3>3. m # Base
      BY <1>4, <3>2 DEF Inv, BaseInv
    <3> QED
      BY <1>4, <1>6, <3>2, <3>3
  <2> QED
    BY <1>4, <2>1, RoundStays DEF Inv, RoundInv
<1> QED
  BY <1>2, <1>3, <1>5, <1>7, <1>8, OthersStay DEF Inv

LEMMA UserQueuesKeeps ==
    ASSUME Inv, NEW c \in Clients, UserQueues(c)
    PROVE  Inv'
<1>1. PICK k : k = loopOf[c]
  OBVIOUS
<1>2. /\ ConnInv(c)' /\ Created(c) /\ k \in Loops
      /\ \A m \in Loops : ToRun(m)' = IF m = k THEN Append(ToRun(m), Snd(c)) ELSE ToRun(m)
  BY <1>1, UserQueuesOwn
<1>3. Types'
  BY <1>2, OutsideTyped DEF Inv, Outside
<1>4. /\ UNCHANGED <<serverVars, connections_, roundVars, connVars, netVars, held>>
      /\ sending' \subseteq sending
  BY DEF UserQueues
<1>5. Snd(c) \in Functors /\ Snd(c).conn = c
  BY FunctorTyped DEF Snd, Functor
<1>6. OnlyMoves(c)
  BY <1>2, <1>4, <1>5 DEF OnlyMoves
<1>7. BaseInv' /\ PoolInv' /\ BacklogInv' /\ RoundInv'
  BY <1>4, ControlStays DEF Inv, BacklogInv, RoundInv, Created
<1> QED
  BY <1>2, <1>3, <1>6, <1>7, OthersStay DEF Inv

\* Its user lets a connection go when no sendInLoop for it is queued.
LEMMA UserReleasesKeeps ==
    ASSUME Inv, NEW c \in Clients, UserReleases(c)
    PROVE  Inv'
<1>1. /\ UNCHANGED <<serverVars, connections_, roundVars, pending, connVars, netVars, sending>>
      /\ c \in held /\ held' = held \ {c} /\ c \notin sending /\ ~SendPending(c)
  BY DEF UserReleases, MayRelease
<1>2. ConnInv(c) /\ Created(c)
  BY <1>1 DEF Inv, ConnInv, Fresh
<1>3. Types'
  BY <1>2, OutsideTyped DEF Inv, Outside
<1>4. QueuesStay
  BY <1>1, PendingStays
<1>5. ~In(ToRun(loopOf[c]), Snd(c))
  <2>1. SUFFICES ASSUME In(ToRun(loopOf[c]), Snd(c)) PROVE FALSE
    OBVIOUS
  <2>2. PICK l \in Loops : l = loopOf[c]
    BY <1>2 DEF Inv, Types, ConnTypes, Created
  <2>3. Snd(c) \in Range(pending[l]) \cup Range(functors[l])
    BY <2>1, <2>2, InToRun DEF Inv
  <2>4. pending[l] \in Seq(Functors) /\ functors[l] \in Seq(Functors)
    BY ToRunTyped DEF Inv
  <2>5. Range(pending[l] \o functors[l]) = Range(pending[l]) \cup Range(functors[l])
    BY <2>4, RangeConcatenation
  <2> QED
    BY <1>1, <2>3, <2>5 DEF SendPending, Snd
<1>6. ConnInv(c)'
  <2>1. StateInv(c)'
    BY <1>1, <1>2 DEF ConnInv, StateInv
  <2> QED
    BY <1>1, <1>2, <1>4, <1>5, <2>1, SameQueues
<1>7. OnlyMoves(c)
  BY <1>1, <1>4 DEF OnlyMoves, QueuesStay
<1>8. BaseInv' /\ PoolInv' /\ BacklogInv' /\ RoundInv'
  BY <1>1, ControlStays DEF Inv, BacklogInv, RoundInv, Created
<1> QED
  BY <1>3, <1>6, <1>7, <1>8, OthersStay DEF Inv

\* A connection is made.
LEMMA NewOwn ==
    ASSUME Inv, Types', NEW c \in Clients, ~Created(c), NewConnection(c),
           pc[Base] = "dispatch", UNCHANGED <<server, pc, functors, at, sending>>
    PROVE  ConnInv(c)' /\ OnlyMoves(c) /\ loopOf'[c] \in Loops
<1>1. /\ Fresh(c) /\ Placed(c) /\ StateInv(c)
      /\ state_[c] = "kConnecting" /\ index_[c] = "kNew" /\ destroys[c] = 0
      /\ reports[c] = <<>> /\ c \notin held
  BY DEF Inv, ConnInv, Fresh, StateInv
<1>2. \A m \in Loops : \A f \in Doings : ~In(ToRun(m), Functor(f, c))
  BY <1>1 DEF Placed
<1>3. /\ server = "started" /\ Base \in Loops /\ c \in connections_'
      /\ \A d \in Clients \ {c} : d \in connections_' <=> d \in connections_
  BY DEF Inv, BaseInv, NewConnection, Loops
<1>4. /\ "connectEstablished" \in Doings /\ "connectDestroyed" \in Doings
      /\ "removeConnectionInLoop" \in Doings /\ "sendInLoop" \in Doings
  BY DEF Doings
<1>5. \A m \in Loops : /\ ~In(ToRun(m), Est(c)) /\ ~In(ToRun(m), Des(c))
                       /\ ~In(ToRun(m), Rem(c)) /\ ~In(ToRun(m), Snd(c))
  BY <1>2, <1>4 DEF Est, Des, Rem, Snd
<1>6. CASE loops_ = <<>>
  <2>1. /\ loopOf' = [loopOf EXCEPT ![c] = Base] /\ ConnectEstablished(c) /\ UNCHANGED pending
    BY <1>6 DEF NewConnection
  <2>2. QueuesStay
    BY <2>1, PendingStays
  <2>3. /\ loopOf'[c] = Base /\ state_'[c] = "kConnected" /\ index_'[c] = "kAdded"
        /\ destroys'[c] = 0 /\ reports'[c] = <<"up">>
    <3>1. reports'[c] = Append(reports[c], "up")
      BY <2>1 DEF ConnectEstablished, Inv, Types, ConnTypes
    <3> QED
      BY <1>1, <2>1, <3>1, ReportsGrow DEF ConnectEstablished, Inv, Types, ConnTypes
  <2>4. OnlyMoves(c)
    BY <1>3, <2>1, <2>2 DEF OnlyMoves, QueuesStay, ConnectEstablished, Inv, Types, ConnTypes
  <2>5. ToRun(loopOf[c])' = ToRun(Base) /\ ToRun(Base)' = ToRun(Base)
    <3>1. ToRun(loopOf[c])' = ToRun(Base)'
      BY <2>3
    <3> QED
      BY <1>3, <2>2, <3>1 DEF QueuesStay
  <2>6. Placed(c)'
    BY <1>2, <2>2 DEF Placed, QueuesStay
  <2>7. StateInv(c)'
    BY <1>1, <1>3, <2>3 DEF StateInv, Types, ClientTypes
  <2>8. Fresh(c)' /\ HomeInv(c)'
    BY <1>3, <2>3, LoopAssumption DEF Fresh, HomeInv, Created
  <2>9. EstInv(c)'
    BY <1>3, <1>5, <2>5 DEF EstInv, Once, Before, In
  <2>10. RemInv(c)'
    BY <1>3, <1>5, <2>5 DEF RemInv, Once, In
  <2>11. DesInv(c)'
    BY <1>3, <1>5, <2>3, <2>5 DEF DesInv, Once, In
  <2>12. SndInv(c)'
    BY <1>3, <1>5, <2>5 DEF SndInv, Before, In
  <2>13. ConnInv(c)'
    BY <2>6, <2>7, <2>8, <2>9, <2>10, <2>11, <2>12 DEF ConnInv
  <2> QED
    BY <1>3, <2>3, <2>4, <2>13
<1>7. CASE loops_ # <<>>
  <2>1. PICK io : io = loops_[next_ + 1]
    OBVIOUS
  <2>2. next_ + 1 \in 1..Len(loops_)
    BY <1>7, LenProperties DEF Inv, Types, ServerTypes
  <2>3. io \in IoLoops /\ io \in Loops /\ io # Base /\ io \in Range(loops_)
    BY <2>1, <2>2, PoolTyped, RangeTyped, LoopAssumption DEF Inv, Types, ServerTypes, Loops
  <2>4. /\ loopOf' = [loopOf EXCEPT ![c] = io]
        /\ pending' = [pending EXCEPT ![io] = Append(@, Est(c))]
        /\ UNCHANGED <<state_, index_, reports, destroys, held>>
    BY <1>7, <2>1 DEF NewConnection, Est
  <2>5. \A m \in Loops : ToRun(m)' = IF m = io THEN Append(ToRun(m), Est(c)) ELSE ToRun(m)
    BY <2>3, <2>4, FunctorTyped, ToRunGrows DEF Inv
  <2>6. loopOf'[c] = io /\ \A d \in Clients \ {c} : loopOf'[d] = loopOf[d]
    BY <2>4 DEF Inv, Types, ConnTypes
  <2>7. Est(c) \in Functors /\ Est(c).conn = c
    BY FunctorTyped DEF Est, Functor
  <2>8. OnlyMoves(c)
    BY <1>3, <2>4, <2>5, <2>6, <2>7 DEF OnlyMoves
  <2>9. \A f, g :
            /\ In(ToRun(io)', f) <=> In(ToRun(io), f) \/ f = Est(c)
            /\ Once(ToRun(io), f) /\ (f = Est(c) => ~In(ToRun(io), f)) => Once(ToRun(io)', f)
            /\ Before(ToRun(io), f, g) /\ ~(f = Est(c) /\ g = Est(c))
                  /\ (f = Est(c) => ~In(ToRun(io), g))
                   => Before(ToRun(io)', f, g)
    BY <2>3, <2>5, <2>7, GrowFacts DEF Inv
  <2>10. ToRun(loopOf[c])' = ToRun(io)' /\ ToRun(Base)' = ToRun(Base)
    BY <1>3, <2>3, <2>5, <2>6
  <2>11. /\ Once(ToRun(io)', Est(c)) /\ Once(ToRun(io)', Des(c)) /\ ~In(ToRun(io)', Des(c))
         /\ ~In(ToRun(io)', Snd(c))
         /\ Before(ToRun(io)', Est(c), Des(c)) /\ Before(ToRun(io)', Snd(c), Des(c))
    <3>1. \A f, g : ~In(ToRun(io), f) =>
              Once(ToRun(io), f) /\ Before(ToRun(io), f, g) /\ Before(ToRun(io), g, f)
      BY DEF In, Once, Before
    <3> QED
      BY <1>5, <2>3, <2>9, <3>1, FunctorsDiffer
  <2>12. Placed(c)'
    <3>1. SUFFICES ASSUME NEW m \in Loops, NEW g \in Doings, In(ToRun(m)', Functor(g, c))
                   PROVE  /\ Created(c)'
                          /\ IF g = "removeConnectionInLoop" THEN m = Base /\ loopOf'[c] # Base
                             ELSE m = loopOf'[c]
      BY DEF Placed
    <3>2. m = io
      BY <1>2, <2>5, <3>1
    <3>3. Functor(g, c) = Est(c)
      BY <1>2, <2>3, <2>9, <3>1, <3>2
    <3>4. g = "connectEstablished"
      BY <3>3, FunctorsDiffer DEF Est
    <3> QED
      BY <2>3, <2>6, <3>2, <3>4, LoopAssumption DEF Created
  <2>13. StateInv(c)'
    BY <1>1, <1>3, <2>4 DEF StateInv
  <2>14. Fresh(c)' /\ HomeInv(c)'
    BY <1>3, <2>3, <2>6, LoopAssumption DEF Fresh, HomeInv, Created, Inv, PoolInv
  <2>15. EstInv(c)'
    BY <1>1, <2>3, <2>4, <2>6, <2>10, <2>11 DEF EstInv
  <2>16. RemInv(c)'
    BY <1>3, <1>5, <2>10 DEF RemInv, Once, In
  <2>17. DesInv(c)'
    BY <1>1, <1>3, <2>4, <2>10, <2>11 DEF DesInv
  <2>18. SndInv(c)'
    BY <1>1, <2>4, <2>10, <2>11 DEF SndInv
  <2>19. ConnInv(c)'
    BY <2>12, <2>13, <2>14, <2>15, <2>16, <2>17, <2>18 DEF ConnInv
  <2> QED
    BY <2>3, <2>6, <2>8, <2>19
<1> QED
  BY <1>6, <1>7

LEMMA BacklogShrinks ==
    ASSUME BacklogInv, backlog \in Seq(Clients), backlog # <<>>, backlog' = Tail(backlog),
           \A d \in Clients \ {Head(backlog)} : loopOf'[d] = loopOf[d]
    PROVE  BacklogInv'
<1> DEFINE q == backlog
           r == Tail(backlog)
<1>1. /\ q \in Seq(Clients) /\ q # <<>> /\ r \in Seq(Clients) /\ Len(r) = Len(q) - 1
      /\ \A i \in 1..Len(r) : r[i] = q[i + 1]
      /\ Head(q) = q[1] /\ Len(q) \in Nat \ {0} /\ Len(r) \in Nat
  BY HeadTailProperties, EmptySeq, LenProperties
<1>2. \A i, j \in 1..Len(q) : q[i] = q[j] => i = j
  BY <1>1, LenProperties DEF BacklogInv, IsInjective
<1>3. \A i \in 1..Len(r) : i + 1 \in 1..Len(q) /\ i + 1 # 1
  BY <1>1
<1>4. 1 \in 1..Len(q) /\ DOMAIN r = 1..Len(r)
  BY <1>1, LenProperties
<1> HIDE DEF r
<1>5. IsInjective(r)
  <2>1. SUFFICES ASSUME NEW i \in 1..Len(r), NEW j \in 1..Len(r), r[i] = r[j] PROVE i = j
    BY <1>4 DEF IsInjective
  <2>2. q[i + 1] = q[j + 1] /\ i + 1 \in 1..Len(q) /\ j + 1 \in 1..Len(q)
    BY <1>1, <1>3, <2>1
  <2>3. i + 1 = j + 1
    BY <1>2, <2>2
  <2> QED
    BY <1>1, <2>3
<1>6. \A d \in Range(r) : d \in Clients \ {Head(q)} /\ d \in Range(q)
  <2>1. SUFFICES ASSUME NEW d \in Range(r)
                 PROVE  d \in Clients \ {Head(q)} /\ d \in Range(q)
    OBVIOUS
  <2>2. PICK i \in 1..Len(r) : d = r[i] /\ d \in Clients
    BY <1>1, RangeTyped
  <2>3. d = q[i + 1] /\ d # Head(q)
    BY <1>1, <1>2, <1>3, <1>4, <2>2
  <2>4. q[i + 1] \in Range(q)
    BY <1>1, <1>3, RangeTyped
  <2> QED
    BY <2>2, <2>3, <2>4
<1> QED
  BY <1>5, <1>6 DEF BacklogInv, Created, r

LEMMA HandleAcceptKeeps ==
    ASSUME Inv, HandleAccept
    PROVE  Inv'
<1>1. /\ Types' /\ backlog # <<>> /\ backlog \in Seq(Clients)
      /\ Head(backlog) \in Clients /\ Head(backlog) \in Range(backlog)
  <2>1. Types' /\ backlog # <<>> /\ Head(backlog) \in Clients /\ backlog \in Seq(Clients)
    BY AcceptTyped DEF Inv, Types, ClientTypes
  <2>2. Head(backlog) = backlog[1] /\ 1 \in 1..Len(backlog)
    BY <2>1, HeadTailProperties, EmptySeq, LenProperties
  <2> QED
    BY <2>1, <2>2, RangeTyped
<1>2. /\ pc[Base] = "dispatch" /\ active' = [active EXCEPT ![Base] = @ \ {Acceptor}]
      /\ UNCHANGED <<server, loops_, joining, limit, pc, quit_, functors, at, data, left,
                     sending, listenning_>>
  BY DEF HandleAccept, Refuse
<1>3. /\ \A m \in Loops : active'[m] \subseteq active[m]
      /\ \A m \in Loops : Acceptor \notin active'[m]
  <2>1. \A m \in Loops : active'[m] = IF m = Base THEN active[m] \ {Acceptor} ELSE active[m]
    BY <1>2 DEF Inv, Types, LoopTypes
  <2>2. \A m \in Loops : Acceptor \in active[m] => m = Base
    BY DEF Inv, RoundInv
  <2> QED
    BY <2>1, <2>2
<1>4. CASE UNCHANGED <<backlog, next_, connections_, pending, connVars, held>>
  <2>1. QueuesStay
    BY <1>2, <1>4, PendingStays
  <2>2. PcKeeps
    BY <1>2 DEF PcKeeps
  <2>3. \A d \in Clients : d \in sending' => d \in sending
    BY <1>2
  <2>4. \A d \in Clients : ConnInv(d)'
    BY <1>1, <1>2, <1>4, <2>1, <2>2, <2>3, ConnsStay
  <2>5. RoundInv'
    BY <1>2, <1>3, <1>4, RoundStays DEF Inv, RoundInv
  <2>6. BaseInv' /\ PoolInv' /\ BacklogInv'
    BY <1>2, <1>4, ControlStays DEF Inv, BacklogInv, Created
  <2> QED
    BY <1>1, <2>4, <2>5, <2>6 DEF Inv
<1>5. CASE NewConnection(Head(backlog)) /\ backlog' = Tail(backlog)
  <2>1. PICK c \in Clients : c = Head(backlog)
    BY <1>1
  <2>2. NewConnection(c) /\ ~Created(c)
    BY <1>1, <1>5, <2>1 DEF Inv, BacklogInv
  <2>3. ConnInv(c)' /\ OnlyMoves(c)
    BY <1>1, <1>2, <2>2, NewOwn
  <2>4. RoundInv'
    <3>1. \A m \in Loops : \A d \in active'[m] \ {Acceptor} :
              loopOf'[d] = loopOf[d] /\ index_'[d] = index_[d]
      <4>1. SUFFICES ASSUME NEW m \in Loops, NEW d \in active[m] \ {Acceptor}
                     PROVE  loopOf'[d] = loopOf[d] /\ index_'[d] = index_[d]
        BY <1>3
      <4>2. d \in Clients /\ loopOf[d] = m /\ m # None
        BY <4>1, LoopAssumption DEF Inv, RoundInv, Types, LoopTypes
      <4>3. d # c
        BY <2>2, <4>2 DEF Created
      <4> QED
        BY <2>3, <4>2, <4>3 DEF OnlyMoves
    <3> QED
      BY <1>2, <1>3, <3>1, RoundStays DEF Inv, RoundInv
  <2>5. BacklogInv'
    BY <1>1, <1>5, <2>1, <2>3, BacklogShrinks DEF Inv, OnlyMoves
  <2>6. BaseInv' /\ PoolInv'
    <3>1. server = "started"
      BY <1>2 DEF Inv, BaseInv
    <3>2. loops_ # <<>> \/ UNCHANGED next_
      BY <2>2 DEF NewConnection
    <3> QED
      BY <1>2, <3>1, <3>2, ControlStays DEF Inv
  <2> QED
    BY <1>1, <2>3, <2>4, <2>5, <2>6, OthersStay DEF Inv
<1> QED
  BY <1>4, <1>5 DEF HandleAccept

LEMMA RangeOfNothing == Range(<<>>) = {}
<1>1. DOMAIN <<>> = {}
  OBVIOUS
<1> QED
  BY <1>1 DEF Range

LEMMA InitInv == Init => Inv
<1>1. SUFFICES ASSUME Init PROVE Inv
  OBVIOUS
<1>2. <<>> \in Seq(IoLoops) /\ <<>> \in Seq(Clients) /\ <<>> \in Seq(Functors)
      /\ <<>> \in Seq({"up", "down"}) /\ Base \in Loops /\ IoLoops \subseteq Loops
      /\ Base \notin IoLoops
  BY EmptySeq, LoopAssumption DEF Loops
<1>3. Len(<<>>) = 0
  OBVIOUS
<1>4. Types
  <2>1. ServerTypes
    <3>1. /\ loops_ = <<>> /\ next_ = 0 /\ joining = 0 /\ server = "made"
          /\ listenning_ = FALSE /\ limit \in Limits
      BY <1>1 DEF Init
    <3>2. joining \in 0..Len(loops_)
      BY <1>3, <3>1
    <3>3. loops_ \in Seq(IoLoops)
      BY <1>2, <3>1
    <3> QED
      BY <3>1, <3>2, <3>3 DEF ServerTypes
  <2>2. LoopTypes /\ QueueTypes
    BY <1>1, <1>2 DEF Init, LoopTypes, QueueTypes
  <2>3. ConnTypes
    BY <1>1, <1>2 DEF Init, ConnTypes
  <2>4. ClientTypes
    BY <1>1, <1>2 DEF Init, ClientTypes
  <2> QED
    BY <2>1, <2>2, <2>3, <2>4 DEF Types
<1>5. BaseInv
  BY <1>1, <1>2 DEF Init, BaseInv
<1>6. Range(loops_) = {} /\ Range(backlog) = {}
  BY <1>1, RangeOfNothing DEF Init
<1>7. PoolInv
  BY <1>1, <1>2, <1>3, <1>6 DEF Init, PoolInv
<1>8. RoundInv
  BY <1>1, <1>2, <1>3 DEF Init, RoundInv
<1>9. BacklogInv
  <2>1. IsInjective(backlog)
    BY <1>1 DEF Init, IsInjective
  <2> QED
    BY <1>6, <2>1 DEF BacklogInv
<1>10. ASSUME NEW c \in Clients
       PROVE  ConnInv(c)
  <2>1. ~Created(c)
    BY <1>1 DEF Init, Created
  <2>2. Fresh(c) /\ StateInv(c)
    BY <1>1 DEF Init, Fresh, StateInv
  <2>3. \A l \in Loops : ToRun(l) = <<>>
    <3>1. SUFFICES ASSUME NEW l \in Loops PROVE ToRun(l) = <<>>
      OBVIOUS
    <3>2. functors[l] = <<>> /\ at[l] = 1 /\ pending[l] = <<>>
      BY <1>1 DEF Init
    <3>3. Queue(<<>>, 1, <<>>) = <<>>
      BY <1>2, QueueWhole
    <3> QED
      BY <3>2, <3>3 DEF ToRun, Queue
  <2>4. Placed(c)
    BY <2>3, InNothing DEF Placed
  <2> QED
    BY <2>1, <2>2, <2>4 DEF ConnInv
<1> QED
  BY <1>4, <1>5, <1>7, <1>8, <1>9, <1>10 DEF Inv

LEMMA NextKeeps ==
    ASSUME Inv, [Next]_vars
    PROVE  Inv'
<1>1. CASE UNCHANGED vars
  <2>1. QueuesStay /\ PcKeeps
    BY <1>1, PendingStays DEF PcKeeps
  <2>2. Types'
    BY <1>1 DEF Inv, Types, ServerTypes, LoopTypes, QueueTypes, ConnTypes, ClientTypes
  <2>3. \A d \in Clients : ConnInv(d)'
    BY <1>1, <2>1, <2>2, ConnsStay
  <2>4. BaseInv' /\ PoolInv' /\ RoundInv' /\ BacklogInv'
    BY <1>1, ControlStays DEF Inv, RoundInv, BacklogInv, Created
  <2> QED
    BY <2>2, <2>3, <2>4 DEF Inv
<1>2. ASSUME NEW n \in ThreadNums, Start(n) PROVE Inv'
  BY <1>2, StartKeeps
<1>3. CASE QuitBase \/ BeginEnd \/ QuitThread \/ EndServer
  BY <1>3, EndKeeps
<1>4. CASE EndBase
  BY <1>4, EndBaseKeeps
<1>5. ASSUME NEW c \in Clients, DestroyConnection(c) PROVE Inv'
  BY <1>5, DestroyConnectionKeeps
<1>6. ASSUME NEW l \in Loops, LoopStep(l) PROVE Inv'
  <2>1. CASE EnterLoop(l) \/ Poll(l) \/ Swap(l)
    BY <2>1, LoopKeeps
  <2>2. CASE RunFunctor(l)
    BY <2>2, RunFunctorKeeps
  <2>3. CASE EndRound(l)
    BY <2>3, EndRoundKeeps
  <2>4. ASSUME NEW c \in Clients, HandleRead(l, c) \/ HandleClose(l, c) PROVE Inv'
    BY <2>4, HandleReadKeeps, HandleCloseKeeps
  <2>5. CASE l = Base /\ HandleAccept
    BY <2>5, HandleAcceptKeeps
  <2> QED
    BY <1>6, <2>1, <2>2, <2>3, <2>4, <2>5 DEF LoopStep
<1>7. ASSUME NEW c \in Clients, Outside(c) PROVE Inv'
  BY <1>7, OutsideKeeps, UserQueuesKeeps, UserReleasesKeeps DEF Outside
<1> QED
  BY <1>1, <1>2, <1>3, <1>4, <1>5, <1>6, <1>7 DEF Next, Ending

\* What holds of the server, its loops and each of its connections, whatever
\* clients, users and main() do and however many threads there are.
THEOREM ServerInvariant == Spec => []Inv
<1> QED
  BY InitInv, NextKeeps, PTL DEF Spec

-----------------------------------------------------------------------------
(* What follows.                                                           *)

LEMMA QueuedIsAlive ==
    ASSUME Inv, NEW l \in Loops, NEW f, In(ToRun(l), f), Binds(f)
    PROVE  Alive(f.conn)
<1>1. f \in Range(pending[l]) \cup Range(functors[l])
  BY InToRun DEF Inv
<1> QED
  BY <1>1 DEF Alive

\* A connection whose channel is registered is in the map, or its loop is to run
\* connectDestroyed.
LEMMA RegisteredIsAlive ==
    ASSUME Inv, NEW l \in Loops, Running(l), NEW c \in Clients, loopOf[c] = l,
           index_[c] # "kNew"
    PROVE  Alive(c)
<1>1. Created(c)
  BY LoopAssumption DEF Created
<1>2. StateInv(c) /\ DesInv(c)
  BY <1>1 DEF Inv, ConnInv
<1>3. destroys[c] = 0
  BY <1>2 DEF StateInv, Inv, Types, ConnTypes
<1>4. CASE c \in connections_
  BY <1>4 DEF Alive
<1>5. CASE c \notin connections_
  <2>1. In(ToRun(l), Des(c))
    BY <1>2, <1>3, <1>5 DEF DesInv
  <2>2. Binds(Des(c)) /\ Des(c).conn = c
    BY DEF Des, Functor, Binds
  <2> QED
    BY <2>1, <2>2, QueuedIsAlive
<1> QED
  BY <1>4, <1>5

\* No pointer dangles: while a loop runs, what is in its active list, in its
\* poller or in its functors exists, though the functors of sendInLoop and the
\* poller have bare pointers; and no channel outlives the server it calls.
THEOREM NothingDangles == Spec => []NoDanglingThis
<1>1. Inv => NoDanglingThis
  <2>1. SUFFICES ASSUME Inv, NEW l \in Loops, Running(l)
                 PROVE  /\ \A c \in active[l] \ {Acceptor} : Alive(c)
                        /\ \A c \in Clients : loopOf[c] = l /\ index_[c] # "kNew" => Alive(c)
                        /\ \A f \in Range(ToRun(l)) : Alive(f.conn)
                        /\ server = "gone" => l = Base /\ pc[l] = "returned"
    BY DEF NoDanglingThis
  <2>2. \A c \in Clients : loopOf[c] = l /\ index_[c] # "kNew" => Alive(c)
    BY <2>1, RegisteredIsAlive
  <2>3. \A c \in active[l] \ {Acceptor} : Alive(c)
    <3>1. \A c \in active[l] \ {Acceptor} : c \in Clients /\ loopOf[c] = l /\ index_[c] # "kNew"
      BY <2>1 DEF Inv, RoundInv, Types, LoopTypes
    <3> QED
      BY <2>2, <3>1
  <2>4. ASSUME NEW f \in Range(ToRun(l)) PROVE Alive(f.conn)
    <3>1. ToRun(l) \in Seq(Functors)
      BY <2>1, ToRunTyped DEF Inv
    <3>2. In(ToRun(l), f) /\ f \in Functors
      BY <2>4, <3>1, RangeTyped DEF In
    <3>3. CASE Binds(f)
      BY <2>1, <3>2, <3>3, QueuedIsAlive
    <3>4. CASE ~Binds(f)
      <4>1. f.conn \in Clients /\ f = Functor("sendInLoop", f.conn)
        BY <3>2, <3>4, FunctorTyped DEF Binds
      <4>2. PICK c \in Clients : c = f.conn
        BY <4>1
      <4>3. In(ToRun(l), Functor("sendInLoop", c)) /\ "sendInLoop" \in Doings
        BY <3>2, <4>1, <4>2 DEF Doings
      <4>4. Created(c) /\ l = loopOf[c]
        BY <2>1, <4>3 DEF Inv, ConnInv, Placed
      <4>5. c \in held
        BY <2>1, <4>3, <4>4 DEF Inv, ConnInv, SndInv, Snd
      <4> QED
        BY <4>2, <4>5 DEF Alive
    <3> QED
      BY <3>3, <3>4
  <2>5. ASSUME server = "gone" PROVE l = Base /\ pc[l] = "returned"
    <3>1. CASE l \in IoLoops
      <4>1. l \in Range(loops_) /\ loops_ \in Seq(IoLoops)
        BY <2>1, <3>1 DEF Inv, PoolInv, Running, Types, ServerTypes
      <4>2. PICK k \in 1..Len(loops_) : l = loops_[k]
        BY <4>1, RangeTyped
      <4> QED
        BY <2>1, <2>5, <4>2 DEF Inv, PoolInv, Running
    <3>2. CASE l = Base
      BY <2>1, <2>5, <3>2 DEF Inv, BaseInv, Running
    <3> QED
      BY <3>1, <3>2 DEF Loops
  <2> QED
    BY <2>2, <2>3, <2>4, <2>5
<1> QED
  BY <1>1, ServerInvariant, PTL

\* How often a functor is queued.
LEMMA HowOften ==
    ASSUME NEW q \in Seq(Functors), NEW f, Once(q, f)
    PROVE  Cardinality({i \in DOMAIN q : q[i] = f}) = IF In(q, f) THEN 1 ELSE 0
<1>1. DOMAIN q = 1..Len(q)
  OBVIOUS
<1>2. CASE In(q, f)
  <2>1. PICK i \in 1..Len(q) : q[i] = f
    BY <1>2 DEF In
  <2>2. {j \in DOMAIN q : q[j] = f} = {i}
    BY <1>1, <2>1 DEF Once
  <2> QED
    BY <1>2, <2>2, FS_Singleton
<1>3. CASE ~In(q, f)
  <2>1. {j \in DOMAIN q : q[j] = f} = {}
    BY <1>1, <1>3 DEF In
  <2> QED
    BY <1>3, <2>1, FS_EmptySet
<1> QED
  BY <1>2, <1>3

\* Whoever takes a connection out of the map, removeConnectionInLoop or the
\* destructor, its own loop is then to run connectDestroyed, once.
THEOREM EachIsDestroyedOnce == Spec => []DestroyedOnce
<1>1. Inv => DestroyedOnce
  <2>1. SUFFICES ASSUME Inv, NEW c \in Clients, Created(c), Running(loopOf[c])
                 PROVE  destroys[c] + Cardinality({i \in DOMAIN ToRun(loopOf[c]) :
                                        ToRun(loopOf[c])[i] = Functor("connectDestroyed", c)})
                            = IF c \in connections_ THEN 0 ELSE 1
    BY DEF DestroyedOnce
  <2> DEFINE q == ToRun(loopOf[c])
  <2>2. loopOf[c] \in Loops
    BY <2>1 DEF Inv, Types, ConnTypes, Created
  <2>3. q \in Seq(Functors)
    BY <2>1, <2>2, ToRunTyped DEF Inv
  <2>4. /\ Once(q, Des(c))
        /\ IF c \in connections_ THEN destroys[c] = 0 /\ ~In(q, Des(c))
           ELSE destroys[c] = IF In(q, Des(c)) THEN 0 ELSE 1
    BY <2>1 DEF Inv, ConnInv, DesInv
  <2> HIDE DEF q
  <2>5. Cardinality({i \in DOMAIN q : q[i] = Des(c)}) = IF In(q, Des(c)) THEN 1 ELSE 0
    BY <2>3, <2>4, HowOften
  <2>6. destroys[c] + Cardinality({i \in DOMAIN q : q[i] = Des(c)})
            = IF c \in connections_ THEN 0 ELSE 1
    BY <2>4, <2>5
  <2> QED
    BY <2>6 DEF q, Des
<1> QED
  BY <1>1, ServerInvariant, PTL
=============================================================================
