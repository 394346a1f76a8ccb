------------------------- MODULE EPollPoller_proofs -------------------------
(***************************************************************************)
(* For any channels, fds and first size of the event list: the poller's    *)
(* map, the channels' own index_ and the kernel's list agree at all times, *)
(* and therefore epoll_ctl never fails and nothing is reported to a        *)
(* channel that is gone.                                                   *)
(***************************************************************************)
EXTENDS EPollPoller, TLAPS

\* The three say one thing: where a channel is known, from its index_.  None of
\* them is inductive alone, and TypeOK (what is reported is alive) needs them.
IInv == TypeOK /\ MapFollowsIndex /\ KernelFollowsChannels /\ NeverFatal

USE FdAssumption, SizeAssumption

LEMMA Initial == Init => IInv
  BY DEF Init, IInv, TypeOK, MapFollowsIndex, KernelFollowsChannels, NeverFatal,
         kNew, kAdded, kDeleted, Interests, Kinds

\* A channel that is not called added can be added: its fd is not watched.
LEMMA RoomToAdd ==
  ASSUME IInv, NEW c \in live, ~InEpoll(c)
  PROVE  watched[FdOf[c]] = None
  BY DEF IInv, TypeOK, KernelFollowsChannels, InEpoll

\* A channel that is called added is watched, and by itself.
LEMMA ThereToModify ==
  ASSUME IInv, NEW c \in live, InEpoll(c)
  PROVE  watched[FdOf[c]] = c
  BY DEF IInv, TypeOK, KernelFollowsChannels, InEpoll

\* A channel that leaves epoll takes its fd, and nothing else, off the list.
LEMMA LeavingKeepsKernel ==
  ASSUME IInv, NEW c \in live, NEW index \in {kNew, kDeleted},
         index_' = [index_ EXCEPT ![c] = index], live' = live,
         \A d \in Channels \ {c} : events_'[d] = events_[d],
         \/ /\ watched' = [watched EXCEPT ![FdOf[c]] = None]
            /\ mask' = [mask EXCEPT ![FdOf[c]] = {}]
         \/ ~InEpoll(c) /\ UNCHANGED <<watched, mask>>
  PROVE  KernelFollowsChannels'
  <1> USE DEF IInv, kNew, kAdded, kDeleted
  <1>1. c \in Channels /\ FdOf[c] \in Fds /\ index # kAdded /\ index_'[c] = index
    BY DEF TypeOK
  <1>2. SUFFICES ASSUME NEW f \in Fds
        PROVE  /\ \A d \in Channels :
                      watched'[f] = d
                        <=> d \in live /\ FdOf[d] = f /\ index_'[d] = kAdded
               /\ mask'[f] = IF watched'[f] = None THEN {}
                             ELSE events_'[watched'[f]]
    BY DEF KernelFollowsChannels
  <1>3. \A d \in Channels :
            watched[f] = d <=> d \in live /\ FdOf[d] = f /\ index_[d] = kAdded
    BY DEF KernelFollowsChannels
  <1>4. mask[f] = IF watched[f] = None THEN {} ELSE events_[watched[f]]
    BY DEF KernelFollowsChannels
  <1>5. \A d \in Channels \ {c} : index_'[d] = index_[d]
    BY DEF TypeOK
  <1>6. CASE f = FdOf[c]
    <2>1. watched'[f] = None /\ mask'[f] = {}
      <3>1. CASE InEpoll(c)
        BY <3>1, <1>6 DEF TypeOK
      <3>2. CASE ~InEpoll(c) /\ UNCHANGED <<watched, mask>>
        BY <3>2, <1>4, <1>6, RoomToAdd
      <3>3. CASE /\ watched' = [watched EXCEPT ![FdOf[c]] = None]
                 /\ mask' = [mask EXCEPT ![FdOf[c]] = {}]
        BY <3>3, <1>6 DEF TypeOK
      <3> QED  BY <3>1, <3>2, <3>3
    <2>2. \A d \in Channels : d \in live /\ FdOf[d] = f => d = c
      BY <1>6 DEF TypeOK
    <2> QED  BY <1>1, <2>1, <2>2
  <1>7. CASE f # FdOf[c]
    <2>1. watched'[f] = watched[f] /\ mask'[f] = mask[f] /\ watched[f] # c
      BY <1>1, <1>3, <1>7 DEF TypeOK
    <2>2. watched[f] \in Channels \cup {None}
      BY DEF TypeOK
    <2> QED  BY <1>1, <1>3, <1>4, <1>5, <1>7, <2>1, <2>2
  <1> QED  BY <1>6, <1>7

\* A channel put on the list, or again, takes its own fd there and no other.
LEMMA EnteringKeepsKernel ==
  ASSUME IInv, NEW c \in live, live' = live,
         index_'[c] = kAdded, \A d \in Channels \ {c} : index_'[d] = index_[d],
         \A d \in Channels \ {c} : events_'[d] = events_[d],
         watched' = [watched EXCEPT ![FdOf[c]] = c],
         mask' = [mask EXCEPT ![FdOf[c]] = events_'[c]]
  PROVE  KernelFollowsChannels'
  <1> USE DEF IInv, kNew, kAdded, kDeleted
  <1>1. c \in Channels /\ FdOf[c] \in Fds
    BY DEF TypeOK
  <1>2. SUFFICES ASSUME NEW f \in Fds
        PROVE  /\ \A d \in Channels :
                      watched'[f] = d
                        <=> d \in live /\ FdOf[d] = f /\ index_'[d] = kAdded
               /\ mask'[f] = IF watched'[f] = None THEN {}
                             ELSE events_'[watched'[f]]
    BY DEF KernelFollowsChannels
  <1>3. \A d \in Channels :
            watched[f] = d <=> d \in live /\ FdOf[d] = f /\ index_[d] = kAdded
    BY DEF KernelFollowsChannels
  <1>4. mask[f] = IF watched[f] = None THEN {} ELSE events_[watched[f]]
    BY DEF KernelFollowsChannels
  <1>5. CASE f = FdOf[c]
    <2>1. watched'[f] = c /\ mask'[f] = events_'[c] /\ c # None
      BY <1>1, <1>5 DEF TypeOK
    <2>2. \A d \in Channels : d \in live /\ FdOf[d] = f => d = c
      BY <1>5 DEF TypeOK
    <2> QED  BY <1>1, <1>5, <2>1, <2>2
  <1>6. CASE f # FdOf[c]
    <2>1. watched'[f] = watched[f] /\ mask'[f] = mask[f] /\ watched[f] # c
      BY <1>1, <1>3, <1>6 DEF TypeOK
    <2>2. watched[f] \in Channels \cup {None}
      BY DEF TypeOK
    <2> QED  BY <1>1, <1>3, <1>4, <1>6, <2>1, <2>2
  <1> QED  BY <1>5, <1>6

LEMMA CreateKeeps ==
  ASSUME IInv, NEW c \in Channels, Create(c)
  PROVE  IInv'
  <1> USE DEF IInv, Create, kNew, kAdded, kDeleted, pollVars
  <1>1. TypeOK'
    BY DEF TypeOK, Interests, Kinds
  <1>2. MapFollowsIndex'
    BY DEF TypeOK, MapFollowsIndex
  <1>3. KernelFollowsChannels'
    BY DEF TypeOK, KernelFollowsChannels
  <1>4. NeverFatal'
    BY DEF NeverFatal
  <1> QED  BY <1>1, <1>2, <1>3, <1>4

\* Every change of interest: DEL when nothing is wanted, MOD or ADD otherwise.
LEMMA UpdateKeeps ==
  ASSUME IInv, NEW c \in Channels, NEW events \in SUBSET Interests,
         Update(c, events)
  PROVE  IInv'
  <1> USE DEF IInv, kNew, kAdded, kDeleted, pollVars
  <1>0. /\ c \in live /\ FdOf[c] \in Fds
        /\ events_' = [events_ EXCEPT ![c] = events] /\ events_'[c] = events
        /\ live' = live /\ UNCHANGED <<pollVars, hot>>
    BY DEF Update, TypeOK
  <1>1. CASE Modify(c) /\ events # {}
    <2>1. /\ watched[FdOf[c]] = c /\ InEpoll(c)
          /\ UNCHANGED <<index_, channels_, fatal>>
          /\ watched' = [watched EXCEPT ![FdOf[c]] = c]
          /\ mask' = [mask EXCEPT ![FdOf[c]] = events]
      BY <1>0, <1>1, ThereToModify DEF Modify, CtlMod
    <2>2. TypeOK'
      BY <1>0, <2>1 DEF TypeOK
    <2>3. MapFollowsIndex'
      BY <1>0, <2>1 DEF MapFollowsIndex
    <2>4. KernelFollowsChannels'
      <3>1. /\ index_'[c] = kAdded
            /\ \A d \in Channels \ {c} :
                   index_'[d] = index_[d] /\ events_'[d] = events_[d]
        BY <1>0, <2>1 DEF TypeOK, InEpoll
      <3> QED  BY <1>0, <2>1, <3>1, EnteringKeepsKernel
    <2> QED  BY <2>1, <2>2, <2>3, <2>4 DEF NeverFatal
  <1>2. CASE Modify(c) /\ events = {}
    <2>1. /\ InEpoll(c) /\ UNCHANGED <<channels_, fatal>>
          /\ index_' = [index_ EXCEPT ![c] = kDeleted]
          /\ watched' = [watched EXCEPT ![FdOf[c]] = None]
          /\ mask' = [mask EXCEPT ![FdOf[c]] = {}]
          /\ \A d \in Channels \ {c} : events_'[d] = events_[d]
      BY <1>0, <1>2 DEF Modify, CtlDel, TypeOK
    <2>2. TypeOK'
      BY <1>0, <2>1 DEF TypeOK
    <2>3. MapFollowsIndex'
      BY <1>0, <2>1 DEF TypeOK, MapFollowsIndex, InEpoll
    <2>4. KernelFollowsChannels'
      BY <1>0, <2>1, LeavingKeepsKernel
    <2> QED  BY <2>1, <2>2, <2>3, <2>4 DEF NeverFatal
  <1>3. CASE Add(c)
    <2>1. /\ ~InEpoll(c) /\ UNCHANGED fatal
          /\ channels_' = IF index_[c] = kNew
                          THEN [channels_ EXCEPT ![FdOf[c]] = c] ELSE channels_
          /\ index_' = [index_ EXCEPT ![c] = kAdded]
          /\ watched' = [watched EXCEPT ![FdOf[c]] = c]
          /\ mask' = [mask EXCEPT ![FdOf[c]] = events]
      BY <1>0, <1>3, RoomToAdd DEF Add, CtlAdd
    <2>2. TypeOK'
      BY <1>0, <2>1 DEF TypeOK
    <2>3. MapFollowsIndex'
      BY <1>0, <2>1 DEF TypeOK, MapFollowsIndex
    <2>4. KernelFollowsChannels'
      <3>1. /\ index_'[c] = kAdded
            /\ \A d \in Channels \ {c} :
                   index_'[d] = index_[d] /\ events_'[d] = events_[d]
        BY <1>0, <2>1 DEF TypeOK, InEpoll
      <3> QED  BY <1>0, <2>1, <3>1, EnteringKeepsKernel
    <2> QED  BY <2>1, <2>2, <2>3, <2>4 DEF NeverFatal
  <1> QED  BY <1>1, <1>2, <1>3 DEF Update

LEMMA InterestKeeps ==
  ASSUME IInv, NEW c \in Channels, Interest(c)
  PROVE  IInv'
  <1>1. events_[c] \in SUBSET Interests
    BY DEF IInv, TypeOK
  <1>2. /\ events_[c] \cup {"read"} \in SUBSET Interests
        /\ events_[c] \ {"read"} \in SUBSET Interests
        /\ events_[c] \cup {"write"} \in SUBSET Interests
        /\ events_[c] \ {"write"} \in SUBSET Interests
        /\ {} \in SUBSET Interests
    BY <1>1 DEF Interests
  <1> QED
    BY <1>2, UpdateKeeps
    DEF Interest, EnableReading, DisableReading, EnableWriting, DisableWriting,
        DisableAll

LEMMA RemoveKeeps ==
  ASSUME IInv, NEW c \in Channels, Remove(c)
  PROVE  IInv'
  <1> USE DEF IInv, kNew, kAdded, kDeleted, pollVars
  <1>1. /\ c \in live /\ FdOf[c] \in Fds
        /\ channels_' = [channels_ EXCEPT ![FdOf[c]] = None]
        /\ index_' = [index_ EXCEPT ![c] = kNew]
        /\ UNCHANGED <<live, events_, pollVars, hot, fatal>>
    BY DEF Remove, CtlDel, TypeOK
  <1>2. \/ /\ InEpoll(c)
           /\ watched' = [watched EXCEPT ![FdOf[c]] = None]
           /\ mask' = [mask EXCEPT ![FdOf[c]] = {}]
        \/ ~InEpoll(c) /\ UNCHANGED <<watched, mask>>
    BY DEF Remove, CtlDel
  <1>3. TypeOK'
    BY <1>1, <1>2 DEF TypeOK
  <1>4. MapFollowsIndex'
    BY <1>1 DEF TypeOK, MapFollowsIndex
  <1>5. KernelFollowsChannels'
    BY <1>1, <1>2, LeavingKeepsKernel
  <1> QED  BY <1>1, <1>3, <1>4, <1>5 DEF NeverFatal

LEMMA DestroyKeeps ==
  ASSUME IInv, NEW c \in Channels, Destroy(c)
  PROVE  IInv'
  <1> USE DEF IInv, Destroy, kNew, kAdded, kDeleted, pollVars
  <1>1. TypeOK'
    BY DEF TypeOK, Kinds
  <1>2. MapFollowsIndex'
    BY DEF TypeOK, MapFollowsIndex
  <1>3. KernelFollowsChannels'
    BY DEF TypeOK, KernelFollowsChannels
  <1> QED  BY <1>1, <1>2, <1>3 DEF NeverFatal

\* What is reported was watched, and what is watched is alive.
LEMMA PollKeeps ==
  ASSUME IInv, Poll
  PROVE  IInv'
  <1> USE DEF IInv
  <1>1. PICK S \in SUBSET Reportable :
             /\ activeChannels_' = {watched[f] : f \in S}
             /\ eventListSize' = NextSize(Cardinality(S))
    BY DEF Poll
  <1>2. UNCHANGED <<chanVars, hot>>
    BY DEF Poll
  <1>3. activeChannels_' \subseteq live
    BY <1>1 DEF Reportable, TypeOK, KernelFollowsChannels
  <1>4. eventListSize' \in Nat \ {0}
    BY <1>1 DEF NextSize, TypeOK
  <1>5. TypeOK'
    BY <1>2, <1>3, <1>4 DEF TypeOK, chanVars
  <1> QED
    BY <1>2, <1>5 DEF MapFollowsIndex, KernelFollowsChannels, NeverFatal, chanVars

LEMMA OtherStepsKeep ==
  ASSUME IInv,
         \/ \E c \in Channels : HandleEvent(c)
         \/ \E f \in Fds, k \in Kinds : Happens(f, k)
         \/ UNCHANGED vars
  PROVE  IInv'
  <1>1. UNCHANGED <<live, events_, index_, channels_, watched, mask, fatal>>
    BY DEF HandleEvent, Happens, vars, chanVars
  <1>2. eventListSize' = eventListSize /\ activeChannels_' \subseteq activeChannels_
    BY DEF HandleEvent, Happens, vars, pollVars
  <1>3. hot' \in [Fds -> SUBSET Kinds]
    <2>1. CASE \E c \in Channels : HandleEvent(c)
      <3>1. PICK c \in Channels : HandleEvent(c)
        BY <2>1
      <3>2. PICK left \in SUBSET hot[FdOf[c]] :
                 hot' = [hot EXCEPT ![FdOf[c]] = left]
        BY <3>1 DEF HandleEvent
      <3>3. left \in SUBSET Kinds
        BY <3>2 DEF IInv, TypeOK
      <3> QED  BY <3>2, <3>3 DEF IInv, TypeOK
    <2>2. CASE \E f \in Fds, k \in Kinds : Happens(f, k)
      <3>1. PICK f \in Fds, k \in Kinds : hot' = [hot EXCEPT ![f] = @ \cup {k}]
        BY <2>2 DEF Happens
      <3> QED  BY <3>1 DEF IInv, TypeOK
    <2>3. CASE UNCHANGED vars
      BY <2>3 DEF IInv, TypeOK, vars
    <2> QED  BY <2>1, <2>2, <2>3
  <1>4. TypeOK'
    BY <1>1, <1>2, <1>3 DEF IInv, TypeOK
  <1> QED
    BY <1>1, <1>4
    DEF IInv, MapFollowsIndex, KernelFollowsChannels, NeverFatal

LEMMA Invariance == Spec => []IInv
  <1>1. IInv /\ [Next]_vars => IInv'
    <2> SUFFICES ASSUME IInv, [Next]_vars PROVE IInv'
      OBVIOUS
    <2>1. CASE \E c \in Channels : Create(c)
      BY <2>1, CreateKeeps
    <2>2. CASE \E c \in Channels : Interest(c)
      BY <2>2, InterestKeeps
    <2>3. CASE \E c \in Channels : Remove(c)
      BY <2>3, RemoveKeeps
    <2>4. CASE \E c \in Channels : Destroy(c)
      BY <2>4, DestroyKeeps
    <2>5. CASE Poll
      BY <2>5, PollKeeps
    <2>6. CASE \/ \E c \in Channels : HandleEvent(c)
               \/ \E f \in Fds, k \in Kinds : Happens(f, k)
               \/ UNCHANGED vars
      BY <2>6, OtherStepsKeep
    <2> QED  BY <2>1, <2>2, <2>3, <2>4, <2>5, <2>6 DEF Next
  <1> QED  BY <1>1, Initial, PTL DEF Spec

(* Every reported channel is alive until its handler has run.               *)
THEOREM TypeCorrect == Spec => []TypeOK
  BY Invariance, PTL DEF IInv

(* updateChannel and removeChannel: the map agrees with index_.             *)
THEOREM MapIsRight == Spec => []MapFollowsIndex
  BY Invariance, PTL DEF IInv

(* The kernel watches just the added channels, for just their events_.      *)
THEOREM KernelIsRight == Spec => []KernelFollowsChannels
  BY Invariance, PTL DEF IInv

(* No use of a channel makes update() reach LOG_FATAL.                      *)
THEOREM ControlNeverFails == Spec => []NeverFatal
  BY Invariance, PTL DEF IInv
=============================================================================
