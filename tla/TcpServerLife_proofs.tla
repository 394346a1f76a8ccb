------------------------- MODULE TcpServerLife_proofs --------------------------
(***************************************************************************)
(* More about TcpServer, on top of its invariant: its connections live as  *)
(* ConnectionLife says, no more of them exist than there are descriptors,  *)
(* and the pool's loops share them evenly.                                 *)
(***************************************************************************)
EXTENDS TcpServer_proofs

Living == {c \in Clients : Alive(c)}

\* The connections that exist.
LivingInv == IsFiniteSet(Living) /\ Cardinality(Living) <= limit

Assigned(l) == {c \in Clients : loopOf[c] = l}

\* getNextLoop: the loops before next_ have one connection more than the others,
\* the last of which is the last loop.
RobinInv ==
    /\ IsInjective(loops_)
    /\ \A i \in 1..Len(loops_) :
           /\ IsFiniteSet(Assigned(loops_[i]))
           /\ Cardinality(Assigned(loops_[i]))
                  = Cardinality(Assigned(loops_[Len(loops_)])) + IF i <= next_ THEN 1 ELSE 0

-----------------------------------------------------------------------------
(* What a step does to the connections that exist.                         *)

Says(c) == \E r \in {"up", "down"} : reports'[c] = Append(reports[c], r)

\* A connection that is not made: it does not come to life, and is alive when
\* its callback is called.
Keeps(c) ==
    /\ loopOf'[c] = loopOf[c] /\ (Alive(c)' => Alive(c))
    /\ reports'[c] = reports[c] \/ (Alive(c) /\ Says(c))

\* One that is.
Made(c) ==
    /\ ~Created(c) /\ FreeFd /\ c \in connections_' /\ loopOf'[c] \in Loops
    /\ reports'[c] = reports[c] \/ Says(c)

LEMMA RangeAppended ==
    ASSUME NEW S, NEW q \in Seq(S), NEW x \in S
    PROVE  Range(Append(q, x)) = Range(q) \cup {x}
<1> DEFINE one == <<x>>
<1>1. one \in Seq(S) /\ Range(one) = {x}
  <2>1. DOMAIN <<x>> = {1} /\ <<x>>[1] = x
    OBVIOUS
  <2> QED
    BY <2>1 DEF Range
<1>2. Append(q, x) = q \o one
  BY AppendIsConcat
<1> HIDE DEF one
<1> QED
  BY <1>1, <1>2, RangeConcatenation

LEMMA AliveKeeps ==
    ASSUME Types, NEW c \in Clients,
           c \in connections_' \cup held' \cup queued' \cup taken' => Alive(c),
           \A l \in Loops : functors'[l] \in {functors[l], pending[l], <<>>},
           \A l \in Loops :
               \/ pending'[l] \in {pending[l], <<>>}
               \/ \E f \in Functors : /\ pending'[l] = Append(pending[l], f)
                                      /\ f.conn = c /\ Binds(f) => Alive(c)
    PROVE  Alive(c)' => Alive(c)
<1>1. SUFFICES ASSUME NEW l \in Loops, NEW f \in Range(pending'[l]) \cup Range(functors'[l]),
                      f.conn = c, Binds(f)
               PROVE  Alive(c)
  BY DEF Alive, Binds
<1>2. pending[l] \in Seq(Functors)
  BY DEF Types, QueueTypes
<1>3. CASE f \in Range(pending[l]) \cup Range(functors[l])
  BY <1>1, <1>3 DEF Alive
<1>4. CASE f \notin Range(pending[l]) \cup Range(functors[l])
  <2>1. f \notin Range(functors'[l]) /\ f \in Range(pending'[l])
    BY <1>1, <1>4, RangeOfNothing
  <2>2. pending'[l] # pending[l] /\ pending'[l] # <<>>
    BY <1>4, <2>1, RangeOfNothing
  <2>3. PICK g \in Functors : /\ pending'[l] = Append(pending[l], g)
                              /\ g.conn = c /\ Binds(g) => Alive(c)
    BY <2>2
  <2>4. Range(pending'[l]) = Range(pending[l]) \cup {g}
    BY <1>2, <2>3, RangeAppended
  <2> QED
    BY <1>1, <1>4, <2>1, <2>3, <2>4
<1> QED
  BY <1>3, <1>4

\* The steps that touch none of what keeps a connection.
LEMMA QuietKeeps ==
    ASSUME UNCHANGED <<connections_, held, callVars, pending, functors, loopOf, reports>>
    PROVE  \A c \in Clients : Keeps(c)
  BY DEF Keeps, Alive, callVars

\* Those that let go of some of it.
LEMMA LettingGoKeeps ==
    ASSUME Types, UNCHANGED <<connections_, loopOf, reports>>, held' \subseteq held,
           queued' \cup taken' \subseteq queued \cup taken,
           \A l \in Loops : functors'[l] \in {functors[l], pending[l], <<>>},
           \A l \in Loops : pending'[l] \in {pending[l], <<>>}
    PROVE  \A c \in Clients : Keeps(c)
<1>1. SUFFICES ASSUME NEW c \in Clients PROVE Keeps(c)
  OBVIOUS
<1>2. c \in connections_' \cup held' \cup queued' \cup taken' => Alive(c)
  BY DEF Alive
<1>3. Alive(c)' => Alive(c)
  BY <1>2, AliveKeeps
<1> QED
  BY <1>3 DEF Keeps

\* Those of a connection that exists: it may be reported, held and queued.
LEMMA ActingKeeps ==
    ASSUME Inv, NEW c \in Clients, Alive(c), loopOf' = loopOf, functors' = functors,
           connections_' \subseteq connections_, held' \subseteq held \cup {c},
           queued' \cup taken' \subseteq queued \cup taken \cup {c},
           \/ pending' = pending
           \/ \E k \in Loops, f \in Functors :
                  f.conn = c /\ pending' = [pending EXCEPT ![k] = Append(@, f)],
           \/ reports' = reports
           \/ \E r \in {"up", "down"} : reports' = [reports EXCEPT ![c] = Append(@, r)]
    PROVE  \A d \in Clients : Keeps(d)
<1>1. SUFFICES ASSUME NEW d \in Clients PROVE Keeps(d)
  OBVIOUS
<1>2. Types /\ pending \in [Loops -> Seq(Functors)]
      /\ reports \in [Clients -> Seq({"up", "down"})]
  BY DEF Inv, Types, QueueTypes, ConnTypes
<1>3. Alive(d)' => Alive(d)
  <2>1. d \in connections_' \cup held' \cup queued' \cup taken' => Alive(d)
    BY DEF Alive
  <2>2. \A l \in Loops :
            \/ pending'[l] \in {pending[l], <<>>}
            \/ \E f \in Functors : /\ pending'[l] = Append(pending[l], f)
                                   /\ f.conn = d /\ Binds(f) => Alive(d)
    <3>1. CASE pending' = pending
      BY <3>1
    <3>2. ASSUME NEW k \in Loops, NEW f \in Functors, f.conn = c,
                 pending' = [pending EXCEPT ![k] = Append(@, f)]
          PROVE  \A l \in Loops :
                     \/ pending'[l] \in {pending[l], <<>>}
                     \/ \E g \in Functors : /\ pending'[l] = Append(pending[l], g)
                                            /\ g.conn = d /\ Binds(g) => Alive(d)
      <4>1. pending'[k] = Append(pending[k], f) /\ \A l \in Loops \ {k} : pending'[l] = pending[l]
        BY <1>2, <3>2
      <4>2. f.conn = d /\ Binds(f) => Alive(d)
        BY <3>2
      <4> QED
        BY <3>2, <4>1, <4>2
    <3> QED
      BY <3>1, <3>2
  <2>3. \A l \in Loops : functors'[l] \in {functors[l], pending[l], <<>>}
    OBVIOUS
  <2> QED
    BY <1>2, <2>1, <2>2, <2>3, AliveKeeps
<1>4. reports'[d] = reports[d] \/ (Alive(d) /\ Says(d))
  <2>1. CASE reports' = reports
    BY <2>1
  <2>2. ASSUME NEW r \in {"up", "down"}, reports' = [reports EXCEPT ![c] = Append(@, r)]
        PROVE  reports'[d] = reports[d] \/ (Alive(d) /\ Says(d))
    <3>1. CASE d = c
      BY <1>2, <2>2, <3>1 DEF Says
    <3>2. CASE d # c
      BY <1>2, <2>2, <3>2
    <3> QED
      BY <3>1, <3>2
  <2> QED
    BY <2>1, <2>2
<1> QED
  BY <1>3, <1>4 DEF Keeps

LEMMA CloseKeeps ==
    ASSUME Inv, NEW l \in Loops, NEW c \in Clients, HandleClose(l, c)
    PROVE  \A d \in Clients : Keeps(d)
<1>1. /\ pc[l] = "dispatch" /\ c \in active[l] \ {Acceptor}
      /\ reports' = [reports EXCEPT ![c] = Append(@, "down")]
      /\ connections_' \subseteq connections_
      /\ \E f \in {Des(c), Rem(c)} : pending' = [pending EXCEPT ![Base] = Append(@, f)]
      /\ loopOf' = loopOf /\ functors' = functors /\ held' = held
      /\ queued' = queued /\ taken' = taken
  BY DEF HandleClose, RemoveConnection, Des, Rem, serverVars, userVars, callVars, netVars
<1>2. Alive(c)
  BY <1>1, RegisteredIsAlive DEF Inv, RoundInv, Running
<1>3. Base \in Loops /\ \A f \in {Des(c), Rem(c)} : f \in Functors /\ f.conn = c
  BY FunctorTyped DEF Loops, Des, Rem, Functor
<1>4. \E k \in Loops, f \in Functors :
          f.conn = c /\ pending' = [pending EXCEPT ![k] = Append(@, f)]
  BY <1>1, <1>3
<1> QED
  BY <1>1, <1>2, <1>4, ActingKeeps

LEMMA DestroyKeeps ==
    ASSUME Inv, NEW c \in Clients, DestroyConnection(c)
    PROVE  \A d \in Clients : Keeps(d)
<1>1. /\ c \in connections_ /\ connections_' \subseteq connections_
      /\ loopOf' = loopOf /\ functors' = functors /\ held' = held
      /\ queued' = queued /\ taken' = taken
      /\ IF loopOf[c] = Base
         THEN ConnectDestroyed(c) /\ pending' = pending
         ELSE /\ pending' = [pending EXCEPT ![loopOf[c]] = Append(@, Des(c))]
              /\ reports' = reports
  BY DEF DestroyConnection, Des, roundVars, callVars, userVars
<1>2. Alive(c) /\ Created(c)
  BY <1>1 DEF Alive, Inv, ConnInv, Fresh
<1>3. loopOf[c] \in Loops /\ Des(c) \in Functors /\ Des(c).conn = c
  BY <1>2, FunctorTyped DEF Inv, Types, ConnTypes, Created, Des, Functor
<1>4. \/ pending' = pending
      \/ \E k \in Loops, f \in Functors :
             f.conn = c /\ pending' = [pending EXCEPT ![k] = Append(@, f)]
  BY <1>1, <1>3
<1>5. \/ reports' = reports
      \/ \E r \in {"up", "down"} : reports' = [reports EXCEPT ![c] = Append(@, r)]
  BY <1>1 DEF ConnectDestroyed
<1> QED
  BY <1>1, <1>2, <1>4, <1>5, ActingKeeps

LEMMA RunLives ==
    ASSUME Inv, NEW l \in Loops, RunFunctor(l)
    PROVE  \A d \in Clients : Keeps(d)
<1>1. PICK f \in Functors : f = functors[l][at[l]]
  BY RunFacts
<1>2. PICK c \in Clients : c = f.conn
  BY <1>1, FunctorTyped
<1>3. /\ Created(c) /\ Do(f) /\ In(ToRun(l), f)
      /\ loopOf' = loopOf /\ functors' = functors /\ taken' = taken
      /\ f.do = "removeConnectionInLoop" \/ l = loopOf[c]
  BY <1>1, <1>2, RunFacts DEF RunFunctor, serverVars
<1>4. Alive(c)
  <2>1. CASE f = Snd(c)
    <3>1. l = loopOf[c]
      BY <1>3, <2>1 DEF Snd, Functor
    <3>2. c \in held
      BY <1>3, <2>1, <3>1 DEF Inv, ConnInv, SndInv
    <3> QED
      BY <3>2 DEF Alive
  <2>2. CASE f # Snd(c)
    <3>1. Binds(f)
      BY <1>2, <2>2, FunctorTyped DEF Binds, Snd
    <3> QED
      BY <1>2, <1>3, <3>1, QueuedIsAlive
  <2> QED
    BY <2>1, <2>2
<1>5. /\ held' \subseteq held \cup {c} /\ connections_' \subseteq connections_
      /\ queued' \subseteq queued \cup {c}
      /\ \/ pending' = pending
         \/ pending' = [pending EXCEPT ![loopOf[c]] = Append(@, Des(c))]
      /\ \/ reports' = reports
         \/ \E r \in {"up", "down"} : reports' = [reports EXCEPT ![c] = Append(@, r)]
  <2>1. CASE DoEst(c)
    BY <2>1 DEF DoEst, ConnectEstablished
  <2>2. CASE DoDes(c)
    BY <2>2 DEF DoDes, ConnectDestroyed
  <2>3. CASE DoRem(c)
    BY <2>3 DEF DoRem, RemoveConnectionInLoop, Des
  <2>4. CASE DoSnd(c)
    BY <2>4 DEF DoSnd, SendInLoop, MayQueueCallback
  <2> QED
    BY <1>2, <1>3, <2>1, <2>2, <2>3, <2>4 DEF Do
<1>6. loopOf[c] \in Loops /\ Des(c) \in Functors /\ Des(c).conn = c
  BY <1>3, FunctorTyped DEF Inv, Types, ConnTypes, Created, Des, Functor
<1>7. \/ pending' = pending
      \/ \E k \in Loops, g \in Functors :
             g.conn = c /\ pending' = [pending EXCEPT ![k] = Append(@, g)]
  BY <1>5, <1>6
<1>8. queued' \cup taken' \subseteq queued \cup taken \cup {c}
  BY <1>3, <1>5
<1> QED
  BY <1>3, <1>4, <1>5, <1>7, <1>8, ActingKeeps

LEMMA QueuesSendKeeps ==
    ASSUME Inv, NEW c \in Clients, UserQueues(c)
    PROVE  \A d \in Clients : Keeps(d)
<1>1. /\ pending' = [pending EXCEPT ![loopOf[c]] = Append(@, Snd(c))]
      /\ UNCHANGED <<connections_, held, queued, taken, functors, loopOf, reports>>
  BY DEF UserQueues, Snd, roundVars, callVars, connVars
<1>2. Types /\ pending \in [Loops -> Seq(Functors)]
  BY DEF Inv, Types, QueueTypes
<1>3. Snd(c) \in Functors /\ ~Binds(Snd(c))
  BY FunctorTyped DEF Snd, Functor, Binds
<1>4. \A l \in Loops : pending'[l] = pending[l] \/ pending'[l] = Append(pending[l], Snd(c))
  BY <1>1, <1>2
<1>5. SUFFICES ASSUME NEW d \in Clients PROVE Keeps(d)
  OBVIOUS
<1>6. d \in connections_' \cup held' \cup queued' \cup taken' => Alive(d)
  BY <1>1 DEF Alive
<1>7. \A l \in Loops :
          \/ pending'[l] \in {pending[l], <<>>}
          \/ \E f \in Functors : /\ pending'[l] = Append(pending[l], f)
                                 /\ f.conn = d /\ Binds(f) => Alive(d)
  BY <1>3, <1>4
<1>8. \A l \in Loops : functors'[l] \in {functors[l], pending[l], <<>>}
  BY <1>1
<1>9. Alive(d)' => Alive(d)
  BY <1>2, <1>6, <1>7, <1>8, AliveKeeps
<1> QED
  BY <1>1, <1>9 DEF Keeps

\* Accepting makes one connection, or none.
AcceptsOne ==
    \E c \in Clients : Made(c) /\ \A d \in Clients \ {c} : Keeps(d)

LEMMA AcceptLives ==
    ASSUME Inv, HandleAccept
    PROVE  (\A d \in Clients : Keeps(d)) \/ AcceptsOne
<1>1. Types' /\ backlog # <<>> /\ Head(backlog) \in Clients /\ backlog \in Seq(Clients)
  BY AcceptTyped DEF Inv, Types, ClientTypes
<1>2. /\ pc[Base] = "dispatch"
      /\ server' = server /\ pc' = pc /\ functors' = functors /\ at' = at /\ sending' = sending
      /\ queued' = queued /\ taken' = taken
  BY DEF HandleAccept, callVars
<1>3. CASE UNCHANGED <<backlog, next_, connections_, pending, connVars, held>>
  BY <1>2, <1>3, QuietKeeps DEF callVars, connVars
<1>4. CASE FreeFd /\ NewConnection(Head(backlog))
  <2>1. PICK c \in Clients : c = Head(backlog)
    BY <1>1
  <2>2. c \in Range(backlog)
    <3>1. Head(backlog) = backlog[1] /\ 1 \in 1..Len(backlog)
      BY <1>1, HeadTailProperties, EmptySeq, LenProperties
    <3> QED
      BY <1>1, <2>1, <3>1, RangeTyped
  <2>3. NewConnection(c) /\ ~Created(c)
    BY <1>4, <2>1, <2>2 DEF Inv, BacklogInv
  <2>4. loopOf'[c] \in Loops /\ OnlyMoves(c)
    BY <1>1, <1>2, <2>3, NewOwn
  <2>5. reports'[c] = reports[c] \/ Says(c)
    <3>1. \/ reports' = reports
          \/ reports' = [reports EXCEPT ![c] = Append(@, "up")]
      BY <2>3 DEF NewConnection, ConnectEstablished
    <3> QED
      BY <3>1 DEF Says, Inv, Types, ConnTypes
  <2>6. Made(c)
    BY <1>4, <2>3, <2>4, <2>5 DEF Made, NewConnection
  <2>7. ASSUME NEW d \in Clients \ {c}
        PROVE  Keeps(d)
    <3>1. /\ loopOf'[d] = loopOf[d] /\ reports'[d] = reports[d]
          /\ d \in connections_' <=> d \in connections_
          /\ d \in held' <=> d \in held
      BY <2>4, <2>7 DEF OnlyMoves
    <3>2. d \in connections_' \cup held' \cup queued' \cup taken' => Alive(d)
      BY <1>2, <3>1 DEF Alive
    <3>3. \A l \in Loops :
              \/ pending'[l] \in {pending[l], <<>>}
              \/ \E f \in Functors : /\ pending'[l] = Append(pending[l], f)
                                     /\ f.conn = d /\ Binds(f) => Alive(d)
      <4>1. Est(c) \in Functors /\ Est(c).conn # d
        BY <2>7, FunctorTyped DEF Est, Functor
      <4>2. pending' = pending \/ \E k : pending' = [pending EXCEPT ![k] = Append(@, Est(c))]
        BY <2>3 DEF NewConnection, Est
      <4>3. \A l \in Loops : pending'[l] = pending[l] \/ pending'[l] = Append(pending[l], Est(c))
        BY <4>2 DEF Inv, Types, QueueTypes
      <4> QED
        BY <4>1, <4>3
    <3>4. \A l \in Loops : functors'[l] \in {functors[l], pending[l], <<>>}
      BY <1>2
    <3>5. Alive(d)' => Alive(d)
      BY <2>7, <3>2, <3>3, <3>4, AliveKeeps DEF Inv
    <3> QED
      BY <3>1, <3>5 DEF Keeps
  <2> QED
    BY <2>6, <2>7 DEF AcceptsOne
<1> QED
  BY <1>3, <1>4 DEF HandleAccept

\* The message callback of a connection that exists may have its callback queued.
LEMMA ReadKeeps ==
    ASSUME Inv, NEW l \in Loops, NEW c \in Clients, HandleRead(l, c)
    PROVE  \A d \in Clients : Keeps(d)
<1>1. /\ pc[l] = "dispatch" /\ c \in active[l]
      /\ UNCHANGED <<connections_, held, pending, functors, loopOf, reports>>
      /\ queued' \cup taken' \subseteq queued \cup taken \cup {c}
  BY DEF HandleRead, MayQueueCallback, userVars
<1>2. Alive(c)
  BY <1>1, ClientAssumption, RegisteredIsAlive DEF Inv, RoundInv, Running
<1> QED
  BY <1>1, <1>2, ActingKeeps

\* Every step but one of Acceptor::handleRead only keeps or lets go.
LEMMA StepLives ==
    ASSUME Inv, [Next]_vars
    PROVE  (\A d \in Clients : Keeps(d)) \/ AcceptsOne
<1> USE DEF vars, serverVars, poolVars, roundVars, connVars, netVars, callVars, userVars
<1>1. CASE UNCHANGED vars
  BY <1>1, QuietKeeps
<1>2. CASE \E n \in ThreadNums : Start(n)
  BY <1>2, QuietKeeps DEF Start
<1>3. CASE QuitBase \/ BeginEnd \/ QuitThread \/ EndServer
  BY <1>3, QuietKeeps DEF QuitBase, BeginEnd, QuitThread, EndServer
<1>4. ASSUME EndBase \/ \E l \in Loops : Swap(l) \/ EndRound(l)
      PROVE  \A d \in Clients : Keeps(d)
  <2>1. /\ UNCHANGED <<connections_, loopOf, reports, held>>
        /\ queued' \cup taken' \subseteq queued \cup taken
    BY <1>4 DEF EndBase, Swap, EndRound
  <2>2. \A l \in Loops : /\ functors'[l] \in {functors[l], pending[l], <<>>}
                         /\ pending'[l] \in {pending[l], <<>>}
    BY <1>4 DEF EndBase, Swap, EndRound, Inv, Types, LoopTypes, QueueTypes
  <2> QED
    BY <2>1, <2>2, LettingGoKeeps DEF Inv
<1>5. ASSUME NEW c \in Clients, DestroyConnection(c) PROVE \A d \in Clients : Keeps(d)
  BY <1>5, DestroyKeeps
<1>6. ASSUME NEW l \in Loops, LoopStep(l) PROVE (\A d \in Clients : Keeps(d)) \/ AcceptsOne
  <2>1. CASE EnterLoop(l) \/ Poll(l)
    BY <2>1, QuietKeeps DEF EnterLoop, Poll
  <2>2. CASE Swap(l) \/ EndRound(l)
    BY <1>4, <2>2
  <2>3. CASE RunFunctor(l)
    BY <2>3, RunLives
  <2>4. ASSUME NEW c \in Clients, HandleRead(l, c) PROVE \A d \in Clients : Keeps(d)
    BY <2>4, ReadKeeps
  <2>5. ASSUME NEW c \in Clients, HandleClose(l, c) PROVE \A d \in Clients : Keeps(d)
    BY <2>5, CloseKeeps
  <2>6. CASE HandleAccept
    BY <2>6, AcceptLives
  <2> QED
    BY <1>6, <2>1, <2>2, <2>3, <2>4, <2>5, <2>6 DEF LoopStep
<1>7. ASSUME NEW c \in Clients, Outside(c) PROVE \A d \in Clients : Keeps(d)
  <2>1. CASE Connect(c) \/ ClientSends(c) \/ Leave(c) \/ UserTests(c)
    BY <2>1, QuietKeeps DEF Connect, ClientSends, Leave, UserTests
  <2>2. CASE UserQueues(c)
    BY <2>2, QueuesSendKeeps
  <2>3. CASE UserReleases(c)
    BY <2>3, LettingGoKeeps DEF UserReleases, Inv
  <2> QED
    BY <1>7, <2>1, <2>2, <2>3 DEF Outside
<1> QED
  BY <1>1, <1>2, <1>3, <1>4, <1>5, <1>6, <1>7 DEF Next, Ending

-----------------------------------------------------------------------------
(* No more connections than descriptors.                                   *)

\* The server goes its way; the limit is given.
LEMMA ServerMoves ==
    ASSUME [Next]_vars
    PROVE  /\ limit' = limit
           /\ server \in {"ending", "gone"} => server' \in {"ending", "gone"}
           /\ \/ server' = server \/ server \in {"made", "ending", "gone"}
              \/ UNCHANGED <<connections_, held, callVars, pending, functors, loopOf, reports>>
<1> USE DEF vars, serverVars, poolVars, roundVars, connVars, netVars, callVars, userVars
<1>1. CASE UNCHANGED vars
  BY <1>1
<1>2. CASE \E n \in ThreadNums : Start(n)
  BY <1>2 DEF Start
<1>3. CASE QuitBase \/ Ending
  BY <1>3 DEF QuitBase, Ending, BeginEnd, QuitThread, EndServer, EndBase, DestroyConnection
<1>4. CASE \E l \in Loops : LoopStep(l)
  BY <1>4 DEF LoopStep, EnterLoop, Poll, Swap, RunFunctor, EndRound, HandleRead, HandleClose,
              HandleAccept
<1>5. CASE \E c \in Clients : Outside(c)
  BY <1>5 DEF Outside, Connect, ClientSends, Leave, UserTests, UserQueues, UserReleases
<1> QED
  BY <1>1, <1>2, <1>3, <1>4, <1>5 DEF Next

LEMMA LivingKeeps ==
    ASSUME Inv, LivingInv, [Next]_vars
    PROVE  LivingInv'
<1>1. limit' = limit /\ limit \in Nat
  BY ServerMoves, LimitAssumption DEF Inv, Types, ServerTypes
<1>2. CASE \A d \in Clients : Keeps(d)
  <2>1. Living' \in SUBSET Living
    BY <1>2 DEF Living, Keeps
  <2>2. /\ IsFiniteSet(Living') /\ Cardinality(Living') <= Cardinality(Living)
        /\ Cardinality(Living') \in Nat /\ Cardinality(Living) \in Nat
    BY <2>1, FS_Subset, FS_CardinalityType DEF LivingInv
  <2> QED
    BY <1>1, <2>2 DEF LivingInv
<1>3. ASSUME NEW c \in Clients, Made(c), \A d \in Clients \ {c} : Keeps(d)
      PROVE  LivingInv'
  <2>1. Living' \in SUBSET (Living \cup {c})
    BY <1>3 DEF Living, Keeps
  <2>2. Cardinality(Living) < limit
    BY <1>3 DEF Made, FreeFd, Living
  <2>3. IsFiniteSet(Living \cup {c}) /\ Cardinality(Living) \in Nat
        /\ Cardinality(Living \cup {c}) <= Cardinality(Living) + 1
    BY FS_AddElement, FS_CardinalityType DEF LivingInv
  <2>4. /\ IsFiniteSet(Living') /\ Cardinality(Living') <= Cardinality(Living \cup {c})
        /\ Cardinality(Living') \in Nat /\ Cardinality(Living \cup {c}) \in Nat
    BY <2>1, <2>3, FS_Subset, FS_CardinalityType
  <2> QED
    BY <1>1, <2>2, <2>3, <2>4 DEF LivingInv
<1> QED
  BY <1>2, <1>3, StepLives DEF AcceptsOne

\* The server's state has its types, and the connections that exist are never
\* more than the descriptors: the Acceptor makes one only when there is one left.
THEOREM ServerTypeCorrect == Spec => []TypeOK
<1>1. Init => Inv /\ LivingInv
  <2>1. SUFFICES ASSUME Init PROVE LivingInv
    BY InitInv
  <2>2. Living = {}
    <3>1. \A c \in Clients : ~Alive(c)
      BY <2>1, RangeOfNothing DEF Init, Alive
    <3> QED
      BY <3>1 DEF Living
  <2>3. limit \in Nat
    BY <2>1, LimitAssumption DEF Init
  <2> QED
    BY <2>2, <2>3, FS_EmptySet DEF LivingInv
<1>2. Inv /\ LivingInv /\ [Next]_vars => Inv' /\ LivingInv'
  BY NextKeeps, LivingKeeps
<1>3. Inv /\ LivingInv => TypeOK
  BY DEF Inv, LivingInv, TypeOK, Living
<1> QED
  BY <1>1, <1>2, <1>3, PTL DEF Spec

-----------------------------------------------------------------------------
(* The life of a connection.                                               *)

\* What it sees next is what comes next.
LEMMA SaysNext ==
    ASSUME NEW q \in {<<>>, <<"up">>, Whole}, NEW r \in {"up", "down"},
           Append(q, r) \in {<<>>, <<"up">>, Whole}
    PROVE  Len(q) < Len(Whole) /\ Append(q, r) = Append(q, Whole[Len(q) + 1])
<1> DEFINE S == {"up", "down"}
           s == Append(q, r)
<1>1. /\ <<>> \in Seq(S) /\ <<"up">> \in Seq(S) /\ Whole \in Seq(S)
      /\ Len(<<>>) = 0 /\ Len(<<"up">>) = 1 /\ Len(Whole) = 2
      /\ <<"up">>[1] = "up" /\ Whole[1] = "up" /\ Whole[2] = "down"
  BY DEF Whole
<1>2. s \in Seq(S) /\ Len(s) = Len(q) + 1 /\ s[Len(q) + 1] = r
  <2>1. q \in Seq(S) /\ r \in S
    BY <1>1
  <2> QED
    BY <2>1, AppendProperties
<1>3. s \in {<<>>, <<"up">>, Whole}
  OBVIOUS
<1> HIDE DEF s, S
<1>4. CASE q = <<>>
  <2>1. Len(s) = 1 /\ s[1] = r
    BY <1>1, <1>2, <1>4
  <2>2. s = <<"up">>
    BY <1>1, <1>3, <2>1
  <2>3. r = "up"
    BY <1>1, <2>1, <2>2
  <2> QED
    BY <1>1, <1>4, <2>3
<1>5. CASE q = <<"up">>
  <2>1. Len(s) = 2 /\ s[2] = r
    BY <1>1, <1>2, <1>5
  <2>2. s = Whole
    BY <1>1, <1>3, <2>1
  <2>3. r = "down"
    BY <1>1, <2>1, <2>2
  <2> QED
    BY <1>1, <1>5, <2>3
<1>6. CASE q = Whole
  <2>1. Len(s) = 3
    BY <1>1, <1>2, <1>6
  <2>2. Len(s) # 0 /\ Len(s) # 1 /\ Len(s) # 2
    BY <2>1
  <2> QED
    BY <1>1, <1>3, <2>2
<1> QED
  BY <1>4, <1>5, <1>6

LEMMA LifeMoves ==
    ASSUME Inv, Inv', [Next]_vars, NEW c \in Clients, Keeps(c) \/ Made(c)
    PROVE  Life!Moves(c) /\ Life!Reports(c)
<1>1. Life!Reports(c)
  <2>1. /\ reports[c] \in {<<>>, <<"up">>, Whole} /\ reports'[c] \in {<<>>, <<"up">>, Whole}
        /\ Life!Whole = Whole
    BY DEF Inv, ConnInv, StateInv, Whole, Life!Whole
  <2>2. CASE reports'[c] = reports[c]
    BY <2>2 DEF Life!Reports
  <2>3. CASE Says(c) /\ (Place[c] = "alive" \/ Place'[c] = "alive")
    <3>1. PICK r \in {"up", "down"} : reports'[c] = Append(reports[c], r)
      BY <2>3 DEF Says
    <3>2. Len(reports[c]) < Len(Whole)
          /\ reports'[c] = Append(reports[c], Whole[Len(reports[c]) + 1])
      BY <2>1, <3>1, SaysNext
    <3> QED
      BY <2>1, <2>3, <3>2 DEF Life!Reports
  <2>4. CASE Keeps(c) /\ Alive(c) /\ Says(c)
    <3>1. CASE Created(c)
      BY <2>3, <2>4, <3>1 DEF Place
    <3>2. CASE ~Created(c)
      <4>1. ~Created(c)'
        BY <2>4, <3>2 DEF Keeps, Created
      <4>2. reports'[c] = reports[c]
        BY <3>2, <4>1 DEF Inv, ConnInv, Fresh, StateInv
      <4> QED
        BY <2>2, <4>2
    <3> QED
      BY <3>1, <3>2
  <2>5. CASE Made(c) /\ Says(c)
    <3>1. Created(c)' /\ Alive(c)'
      BY <2>5, LoopAssumption DEF Made, Created, Alive
    <3> QED
      BY <2>3, <2>5, <3>1 DEF Place
  <2> QED
    BY <2>2, <2>4, <2>5 DEF Keeps, Made
<1>2. Life!Moves(c)
  <2>1. CASE Made(c)
    <3>1. Created(c)' /\ Alive(c)' /\ ~Created(c)
      BY <2>1, LoopAssumption DEF Made, Created, Alive
    <3> QED
      BY <3>1 DEF Place, Life!Moves
  <2>2. CASE Keeps(c)
    <3>1. CASE Place'[c] = Place[c]
      BY <3>1 DEF Life!Moves
    <3>2. CASE Created(c) /\ Alive(c) /\ ~Alive(c)'
      <4>1. Created(c)' /\ Place[c] = "alive" /\ Place'[c] = "freed"
        BY <2>2, <3>2 DEF Keeps, Created, Place
      <4>2. server \in {"ending", "gone"} \/ reports'[c] = Whole
        <5>1. SUFFICES ASSUME server \notin {"ending", "gone"} PROVE reports'[c] = Whole
          OBVIOUS
        <5>2. server = "started"
          BY <3>2, <5>1 DEF Inv, ConnInv, HomeInv, Types, ServerTypes
        <5>3. server' = "started"
          <6>1. ~UNCHANGED <<connections_, held, callVars, pending, functors, loopOf, reports>>
            BY <3>2 DEF Alive, callVars
          <6> QED
            BY <5>2, <6>1, ServerMoves
        <5>4. c \notin connections_'
          BY <3>2 DEF Alive
        <5>5. state_'[c] = "kDisconnected"
          BY <4>1, <5>3, <5>4 DEF Inv, ConnInv, DesInv
        <5> QED
          BY <5>5 DEF Inv, ConnInv, StateInv
      <4> QED
        BY <4>1, <4>2 DEF Life!Moves, Life!Whole, Whole
    <3> QED
      BY <2>2, <3>1, <3>2 DEF Keeps, Created, Place
  <2> QED
    BY <2>1, <2>2
<1> QED
  BY <1>1, <1>2

\* Each connection lives as ConnectionLife says: the callback is called with the
\* object alive, up and then down, and while the server runs no object is freed
\* before it has been reported down.
THEOREM ConnectionsLive == Spec => LifeSpec
<1>1. Init => Life!Init
  <2>1. SUFFICES ASSUME Init PROVE Life!Init
    OBVIOUS
  <2>2. Place = [c \in Clients |-> "none"]
    BY <2>1 DEF Init, Place, Created
  <2> QED
    BY <2>1, <2>2 DEF Init, Life!Init
<1>2. Inv /\ Inv' /\ [Next]_vars => [Life!Next]_Life!lifeVars
  <2>1. SUFFICES ASSUME Inv, Inv', [Next]_vars PROVE Life!Next
    OBVIOUS
  <2>2. \A c \in Clients : Keeps(c) \/ Made(c)
    BY <2>1, StepLives DEF AcceptsOne
  <2>3. \A c \in Clients : Life!Moves(c) /\ Life!Reports(c)
    BY <2>1, <2>2, LifeMoves
  <2>4. /\ Place' \in [Clients -> {"none", "alive", "freed"}]
        /\ reports' \in [Clients -> {<<>>, <<"up">>, Life!Whole}]
    BY <2>1 DEF Inv, ConnInv, StateInv, Types, ConnTypes, Place, Whole, Life!Whole
  <2>5. server \in {"ending", "gone"} => server' \in {"ending", "gone"}
    BY <2>1, ServerMoves
  <2> QED
    BY <2>3, <2>4, <2>5 DEF Life!Next
<1> QED
  BY <1>1, <1>2, ServerInvariant, PTL DEF Spec, LifeSpec, Life!Spec

-----------------------------------------------------------------------------
(* Round robin.                                                            *)

LEMMA RobinStart ==
    ASSUME Inv, Inv', NEW n \in ThreadNums, Start(n)
    PROVE  RobinInv'
<1>1. /\ server = "made" /\ loops_' = SubSeq(IoThreads, 1, n) /\ next_' = 0
      /\ \A c \in Clients : loopOf'[c] = None
  BY DEF Start, Inv, BaseInv, ConnInv, HomeInv, Created, connVars
<1>2. IsInjective(loops_')
  <2>1. n \in Nat /\ n <= Len(IoThreads) /\ IoThreads \in Seq(IoLoops) /\ Len(IoThreads) \in Nat
    BY ThreadAssumption, LoopAssumption, LenProperties
  <2>2. \A i, j \in 1..Len(IoThreads) : IoThreads[i] = IoThreads[j] => i = j
    BY <2>1, LoopAssumption DEF IsInjective
  <2>3. /\ DOMAIN loops_' = 1..n /\ 1..n \subseteq 1..Len(IoThreads)
        /\ \A i \in 1..n : loops_'[i] = IoThreads[i]
    BY <1>1, <2>1
  <2> QED
    BY <2>2, <2>3 DEF IsInjective
<1>3. \A i \in 1..Len(loops_') : Assigned(loops_[i])' = {}
  <2>1. loops_' \in Seq(IoLoops)
    BY DEF Inv, Types, ServerTypes
  <2>2. \A i \in 1..Len(loops_') : loops_'[i] \in IoLoops
    BY <2>1, ElementOfSeq
  <2> QED
    <3>1. SUFFICES ASSUME NEW i \in 1..Len(loops_'), NEW c \in Clients, loopOf'[c] = loops_'[i]
                   PROVE  FALSE
      BY DEF Assigned
    <3> QED
      BY <1>1, <2>2, <3>1, LoopAssumption DEF Loops
<1>4. Len(loops_') \in Nat /\ \A i \in 1..Len(loops_') : Len(loops_') \in 1..Len(loops_')
  BY LenProperties DEF Inv, Types, ServerTypes
<1>5. \A i \in 1..Len(loops_') : ~(i <= next_')
  BY <1>1, <1>4
<1>6. \A i \in 1..Len(loops_') : Assigned(loops_[Len(loops_)])' = {}
  BY <1>3, <1>4
<1>7. ASSUME NEW i \in 1..Len(loops_')
      PROVE  /\ IsFiniteSet(Assigned(loops_[i])')
             /\ Cardinality(Assigned(loops_[i])')
                    = Cardinality(Assigned(loops_[Len(loops_)])') + IF i <= next_' THEN 1 ELSE 0
  <2>1. Assigned(loops_[i])' = {} /\ Assigned(loops_[Len(loops_)])' = {} /\ ~(i <= next_')
    BY <1>3, <1>5, <1>6, <1>7
  <2>2. IsFiniteSet({}) /\ Cardinality({}) = 0
    BY FS_EmptySet
  <2>3. Cardinality(Assigned(loops_[i])') = 0
        /\ Cardinality(Assigned(loops_[Len(loops_)])') = 0 /\ IsFiniteSet(Assigned(loops_[i])')
    BY <2>1, <2>2
  <2> QED
    BY <2>1, <2>3
<1> QED
  BY <1>2, <1>7 DEF RobinInv

LEMMA RobinAccepts ==
    ASSUME Inv, RobinInv, NEW c \in Clients, ~Created(c), NewConnection(c), UNCHANGED loops_
    PROVE  RobinInv'
<1> DEFINE N == Len(loops_)
           Card(i) == Cardinality(Assigned(loops_[i]))
<1>1. CASE loops_ = <<>>
  <2>1. N = 0
    BY <1>1
  <2>2. Len(loops_') = 0
    BY <2>1
  <2> QED
    BY <2>2 DEF RobinInv
<1>2. CASE loops_ # <<>>
  <2>1. /\ N \in Nat /\ next_ \in Nat /\ next_ < N /\ loops_ \in Seq(IoLoops)
        /\ \A i \in 1..N : loops_[i] \in IoLoops
    BY <1>2, LenProperties, ElementOfSeq DEF Inv, Types, ServerTypes
  <2>2. PICK k \in 1..N : k = next_ + 1
    BY <2>1
  <2>3. next_' = IF k >= N THEN 0 ELSE k
    BY <1>2, <2>2 DEF NewConnection, NextIndex
  <2>4. PICK io : io = loops_[k]
    OBVIOUS
  <2>5. loopOf' = [loopOf EXCEPT ![c] = io]
    BY <1>2, <2>2, <2>4 DEF NewConnection
  <2>6. \A i, j \in 1..N : loops_[i] = loops_[j] => i = j
    BY <2>1 DEF RobinInv, IsInjective
  <2>7. /\ Assigned(io)' = Assigned(io) \cup {c} /\ c \notin Assigned(io)
        /\ \A l \in IoLoops \ {io} : Assigned(l)' = Assigned(l)
    <3>1. loopOf[c] = None /\ \A l \in IoLoops : l # None
      BY LoopAssumption DEF Created, Loops
    <3>2. \A d \in Clients : loopOf'[d] = IF d = c THEN io ELSE loopOf[d]
      BY <2>5 DEF Inv, Types, ConnTypes
    <3>3. io \in IoLoops
      BY <2>1, <2>4
    <3> QED
      BY <3>1, <3>2, <3>3 DEF Assigned
  <2>8. \A i \in 1..N : IsFiniteSet(Assigned(loops_[i])) /\ Card(i) \in Nat
    BY FS_CardinalityType DEF RobinInv
  <2>9. \A i \in 1..N : IsFiniteSet(Assigned(loops_[i])')
                        /\ Cardinality(Assigned(loops_[i])') = Card(i) + IF i = k THEN 1 ELSE 0
    <3>1. SUFFICES ASSUME NEW i \in 1..N
                   PROVE  IsFiniteSet(Assigned(loops_[i])')
                          /\ Cardinality(Assigned(loops_[i])') = Card(i) + IF i = k THEN 1 ELSE 0
      OBVIOUS
    <3>2. CASE i = k
      <4>1. Assigned(loops_[i])' = Assigned(loops_[i]) \cup {c}
        BY <2>4, <2>7, <3>2
      <4>2. c \notin Assigned(loops_[i]) /\ IsFiniteSet(Assigned(loops_[i]))
        BY <2>4, <2>7, <2>8, <3>2
      <4> QED
        BY <3>2, <4>1, <4>2, FS_AddElement
    <3>3. CASE i # k
      <4>1. loops_[i] \in IoLoops \ {io}
        BY <2>1, <2>4, <2>6, <3>3
      <4>2. Assigned(loops_[i])' = Assigned(loops_[i])
        BY <2>7, <4>1
      <4> QED
        BY <2>8, <3>3, <4>2
    <3> QED
      BY <3>2, <3>3
  <2>10. \A i \in 1..N : Card(i) = Card(N) + IF i <= next_ THEN 1 ELSE 0
    BY DEF RobinInv
  <2>11. \A i \in 1..N :
             Cardinality(Assigned(loops_[i])')
                 = Cardinality(Assigned(loops_[N])') + IF i <= next_' THEN 1 ELSE 0
    <3> HIDE DEF Card
    <3>1. N \in 1..N
      BY <2>1
    <3> QED
      BY <2>1, <2>2, <2>3, <2>8, <2>9, <2>10, <3>1
  <2> QED
    BY <2>9, <2>11 DEF RobinInv
<1> QED
  BY <1>1, <1>2

LEMMA RobinKeeps ==
    ASSUME Inv, Inv', RobinInv, [Next]_vars
    PROVE  RobinInv'
<1> USE DEF vars, serverVars, poolVars, roundVars, connVars, netVars, callVars, userVars
<1>1. CASE \E n \in ThreadNums : Start(n)
  BY <1>1, RobinStart
<1>2. CASE HandleAccept
  <2>1. CASE NewConnection(Head(backlog))
    <3>1. backlog # <<>> /\ Head(backlog) \in Clients /\ backlog \in Seq(Clients)
      BY <1>2, AcceptTyped DEF Inv, Types, ClientTypes
    <3>2. PICK c \in Clients : c = Head(backlog)
      BY <3>1
    <3>3. c \in Range(backlog)
      <4>1. Head(backlog) = backlog[1] /\ 1 \in 1..Len(backlog)
        BY <3>1, HeadTailProperties, EmptySeq, LenProperties
      <4> QED
        BY <3>1, <3>2, <4>1, RangeTyped
    <3>4. ~Created(c)
      BY <3>3 DEF Inv, BacklogInv
    <3> QED
      BY <1>2, <2>1, <3>2, <3>4, RobinAccepts DEF HandleAccept
  <2>2. CASE UNCHANGED <<next_, loopOf>>
    BY <1>2, <2>2 DEF HandleAccept, RobinInv, Assigned
  <2> QED
    BY <1>2, <2>1, <2>2 DEF HandleAccept
<1>3. CASE UNCHANGED <<loops_, next_, loopOf>>
  BY <1>3 DEF RobinInv, Assigned
<1>4. CASE UNCHANGED vars
  BY <1>3, <1>4
<1>5. CASE QuitBase \/ Ending
  BY <1>3, <1>5 DEF QuitBase, Ending, BeginEnd, QuitThread, EndServer, EndBase, DestroyConnection
<1>6. CASE \E l \in Loops : LoopStep(l)
  BY <1>2, <1>3, <1>6 DEF LoopStep, EnterLoop, Poll, Swap, RunFunctor, EndRound, HandleRead,
                           HandleClose
<1>7. CASE \E c \in Clients : Outside(c)
  BY <1>3, <1>7 DEF Outside, Connect, ClientSends, Leave, UserTests, UserQueues, UserReleases
<1> QED
  BY <1>1, <1>4, <1>5, <1>6, <1>7 DEF Next

\* However many connections the pool is given, no loop has two more than another:
\* getNextLoop goes round all of them, and starts again at the first.
THEOREM LoopsAreBalanced == Spec => []Balanced
<1>1. Init => Inv /\ RobinInv
  <2>1. SUFFICES ASSUME Init PROVE RobinInv
    BY InitInv
  <2>2. loops_ = <<>> /\ IsInjective(<<>>) /\ Len(<<>>) = 0
    BY <2>1 DEF Init, IsInjective
  <2> QED
    BY <2>2 DEF RobinInv
<1>2. Inv /\ RobinInv /\ [Next]_vars => Inv' /\ RobinInv'
  BY NextKeeps, RobinKeeps
<1>3. Inv /\ RobinInv => Balanced
  <2>1. SUFFICES ASSUME Inv, RobinInv, NEW l \in Range(loops_), NEW m \in Range(loops_)
                 PROVE  Cardinality(Assigned(l)) <= Cardinality(Assigned(m)) + 1
    BY DEF Balanced, Assigned
  <2>2. loops_ \in Seq(IoLoops)
    BY <2>1 DEF Inv, Types, ServerTypes
  <2>3. PICK i, j \in 1..Len(loops_) : l = loops_[i] /\ m = loops_[j]
    BY <2>2, RangeTyped
  <2>4. Len(loops_) \in 1..Len(loops_)
    BY <2>2, <2>3, LenProperties
  <2>5. Cardinality(Assigned(loops_[Len(loops_)])) \in Nat
    BY <2>1, <2>4, FS_CardinalityType DEF RobinInv
  <2> QED
    BY <2>1, <2>3, <2>5 DEF RobinInv
<1> QED
  BY <1>1, <1>2, <1>3, PTL DEF Spec
=============================================================================
