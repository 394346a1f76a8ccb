---------------------------- MODULE EPollPoller -----------------------------
(***************************************************************************)
(* A loop's poller (src/EPollPoller.cc) and the channels registered with   *)
(* it (src/Channel.cc): a channel's events_ say what it wants, its index_  *)
(* what the poller did with it, channels_ which channel has which fd, and  *)
(* the kernel keeps a list of its own, changed by epoll_ctl.  Everything   *)
(* here happens on the loop's thread, between two polls or in the handlers *)
(* of the first.                                                           *)
(*                                                                         *)
(* A channel lives as long as its owner (EventLoop, Acceptor,              *)
(* TcpConnection), which removes it from the poller before it closes the   *)
(* fd; the kernel then gives the fd's number to another.                   *)
(***************************************************************************)
EXTENDS Naturals, FiniteSets

CONSTANTS Channels,
          Fds,
          FdOf,                \* Channel::fd_
          None,                \* no channel
          kInitEventListSize

ASSUME FdAssumption == FdOf \in [Channels -> Fds] /\ None \notin Channels
ASSUME SizeAssumption == kInitEventListSize \in Nat \ {0}

VARIABLES
    live,            \* the channels that exist
    events_,         \* channel -> what it is interested in
    index_,          \* channel -> its state in the poller
    channels_,       \* fd -> the channel the poller knows by it
    watched,         \* the kernel's list: fd -> the channel in data.ptr
    mask,            \* and fd -> the events in it
    hot,             \* fd -> what the kernel would report of it
    eventListSize,   \* events_.size() of the poller
    activeChannels_, \* reported and not handled yet
    fatal            \* LOG_FATAL exited

chanVars == <<live, events_, index_, channels_, watched, mask, fatal>>
pollVars == <<eventListSize, activeChannels_>>
vars == <<chanVars, pollVars, hot>>

Interests == {"read", "write"}
Kinds == Interests \cup {"hup"}
kNew == "new"
kAdded == "added"
kDeleted == "deleted"

Init ==
    /\ live = {} /\ fatal = FALSE
    /\ events_ = [c \in Channels |-> {}]
    /\ index_ = [c \in Channels |-> kNew]
    /\ channels_ = [f \in Fds |-> None]
    /\ watched = [f \in Fds |-> None] /\ mask = [f \in Fds |-> {}]
    /\ hot = [f \in Fds |-> {}]
    /\ eventListSize = kInitEventListSize /\ activeChannels_ = {}

-----------------------------------------------------------------------------
(* epoll_ctl: EEXIST and ENOENT are fatal for ADD and MOD, logged for DEL. *)

CtlAdd(c) ==
    LET f == FdOf[c] IN
    IF watched[f] # None
    THEN fatal' = TRUE /\ UNCHANGED <<watched, mask>>
    ELSE /\ watched' = [watched EXCEPT ![f] = c]
         /\ mask' = [mask EXCEPT ![f] = events_'[c]]
         /\ UNCHANGED fatal

CtlMod(c) ==
    LET f == FdOf[c] IN
    IF watched[f] = None
    THEN fatal' = TRUE /\ UNCHANGED <<watched, mask>>
    ELSE /\ watched' = [watched EXCEPT ![f] = c]
         /\ mask' = [mask EXCEPT ![f] = events_'[c]]
         /\ UNCHANGED fatal

CtlDel(c) ==
    /\ watched' = [watched EXCEPT ![FdOf[c]] = None]
    /\ mask' = [mask EXCEPT ![FdOf[c]] = {}]
    /\ UNCHANGED fatal

-----------------------------------------------------------------------------
(* What owners do with their channels.                                     *)

\* Channel::Channel, on an fd nobody else has.
Create(c) ==
    /\ ~fatal /\ c \notin live /\ \A d \in live : FdOf[d] # FdOf[c]
    /\ live' = live \cup {c}
    /\ events_' = [events_ EXCEPT ![c] = {}]
    /\ index_' = [index_ EXCEPT ![c] = kNew]
    /\ UNCHANGED <<channels_, watched, mask, fatal, pollVars, hot>>

\* A slip: a channel that was deleted from epoll is taken for one in it.
InEpollUnlessNew(c) == index_[c] # kNew

InEpoll(c) == index_[c] = kAdded

\* updateChannel for a channel that is in epoll ...
Modify(c) ==
    /\ InEpoll(c)
    /\ \/ events_'[c] # {} /\ CtlMod(c) /\ UNCHANGED index_
       \/ /\ events_'[c] = {} /\ CtlDel(c)
          /\ index_' = [index_ EXCEPT ![c] = kDeleted]
    /\ UNCHANGED channels_

\* A slip: only index_ says that the channel is known.
AddKeepsMap(c) ==
    /\ ~InEpoll(c)
    /\ UNCHANGED channels_
    /\ index_' = [index_ EXCEPT ![c] = kAdded]
    /\ CtlAdd(c)

\* ... and for one that is not (whatever its interest).
Add(c) ==
    /\ ~InEpoll(c)
    /\ channels_' = IF index_[c] = kNew
                    THEN [channels_ EXCEPT ![FdOf[c]] = c] ELSE channels_
    /\ index_' = [index_ EXCEPT ![c] = kAdded]
    /\ CtlAdd(c)

\* enableReading, disableReading, enableWriting, disableWriting, disableAll:
\* change events_, then update().
Update(c, events) ==
    /\ ~fatal /\ c \in live
    /\ events_' = [events_ EXCEPT ![c] = events]
    /\ Modify(c) \/ Add(c)
    /\ UNCHANGED <<live, pollVars, hot>>

EnableReading(c) == Update(c, events_[c] \cup {"read"})
DisableReading(c) == Update(c, events_[c] \ {"read"})
EnableWriting(c) == Update(c, events_[c] \cup {"write"})
DisableWriting(c) == Update(c, events_[c] \ {"write"})
DisableAll(c) == Update(c, {})

\* A slip: the channel is removed from the map and forgotten in epoll.
RemoveFromMapOnly(c) ==
    /\ ~fatal /\ c \in live
    /\ channels_' = [channels_ EXCEPT ![FdOf[c]] = None]
    /\ index_' = [index_ EXCEPT ![c] = kNew]
    /\ UNCHANGED <<live, events_, watched, mask, fatal, pollVars, hot>>

\* Channel::remove, removeChannel.
Remove(c) ==
    /\ ~fatal /\ c \in live
    /\ channels_' = [channels_ EXCEPT ![FdOf[c]] = None]
    /\ \/ InEpoll(c) /\ CtlDel(c)
       \/ ~InEpoll(c) /\ UNCHANGED <<watched, mask, fatal>>
    /\ index_' = [index_ EXCEPT ![c] = kNew]
    /\ UNCHANGED <<live, events_, pollVars, hot>>

\* A slip: the connection goes before the dispatch is over.
DestroyAtOnce(c) ==
    /\ ~fatal /\ c \in live /\ index_[c] = kNew
    /\ live' = live \ {c}
    /\ hot' = [hot EXCEPT ![FdOf[c]] = {}]
    /\ UNCHANGED <<events_, index_, channels_, watched, mask, fatal, pollVars>>

\* The owner goes, after remove() and when no handler of it is due (that is why
\* removeConnectionInLoop queues connectDestroyed: NoDanglingThis of TcpServer);
\* the fd is closed too.
Destroy(c) ==
    /\ ~fatal /\ c \in live /\ index_[c] = kNew /\ c \notin activeChannels_
    /\ live' = live \ {c}
    /\ hot' = [hot EXCEPT ![FdOf[c]] = {}]
    /\ UNCHANGED <<events_, index_, channels_, watched, mask, fatal, pollVars>>

-----------------------------------------------------------------------------
(* Polling.                                                                *)

\* Something happens to an fd in use.
Happens(f, k) ==
    /\ ~fatal /\ \E c \in live : FdOf[c] = f
    /\ hot' = [hot EXCEPT ![f] = @ \cup {k}]
    /\ UNCHANGED <<chanVars, pollVars>>

\* A hangup is reported to whoever is in epoll, asked for or not.
Reportable ==
    {f \in Fds : watched[f] # None /\ hot[f] \cap (mask[f] \cup {"hup"}) # {}}

\* A slip: the list keeps its size.
SameSize(n) == eventListSize

NextSize(n) == IF n = eventListSize THEN 2 * eventListSize ELSE eventListSize

\* epoll_wait fills the list with as many as there are or it can hold, and it
\* may choose which.
Poll ==
    /\ ~fatal /\ activeChannels_ = {}
    /\ \E S \in SUBSET Reportable :
        /\ S # {} /\ Cardinality(S) <= eventListSize
        /\ S # Reportable => Cardinality(S) = eventListSize
        /\ activeChannels_' = {watched[f] : f \in S}
        /\ eventListSize' = NextSize(Cardinality(S))
    /\ UNCHANGED <<chanVars, hot>>

\* handleEvent; the handler uses up some of what happened, or nothing.
HandleEvent(c) ==
    /\ ~fatal /\ c \in activeChannels_
    /\ activeChannels_' = activeChannels_ \ {c}
    /\ \E left \in SUBSET hot[FdOf[c]] : hot' = [hot EXCEPT ![FdOf[c]] = left]
    /\ UNCHANGED <<chanVars, eventListSize>>

Interest(c) ==
    \/ EnableReading(c) \/ DisableReading(c)
    \/ EnableWriting(c) \/ DisableWriting(c) \/ DisableAll(c)

Next ==
    \/ \E c \in Channels :
           Create(c) \/ Interest(c) \/ Remove(c) \/ Destroy(c) \/ HandleEvent(c)
    \/ \E f \in Fds, k \in Kinds : Happens(f, k)
    \/ Poll

\* The loop polls again after it has handled what the last poll reported.
Fairness == WF_vars(Poll) /\ \A c \in Channels : WF_vars(HandleEvent(c))

Spec == Init /\ [][Next]_vars
FairSpec == Spec /\ Fairness

-----------------------------------------------------------------------------
(* What must hold.                                                         *)

\* Types; two channels that exist have two fds; a poll reports to channels
\* that exist, and they are there until they have handled it.
TypeOK ==
    /\ live \subseteq Channels
    /\ events_ \in [Channels -> SUBSET Interests]
    /\ index_ \in [Channels -> {kNew, kAdded, kDeleted}]
    /\ channels_ \in [Fds -> Channels \cup {None}]
    /\ watched \in [Fds -> Channels \cup {None}]
    /\ mask \in [Fds -> SUBSET Interests]
    /\ hot \in [Fds -> SUBSET Kinds]
    /\ eventListSize \in Nat \ {0}
    /\ activeChannels_ \subseteq live
    /\ \A c, d \in live : FdOf[c] = FdOf[d] => c = d

\* The poller's map and the channels' own index_ agree: an fd leads to the
\* channel that exists, is known (kAdded, kDeleted) and has that fd.
MapFollowsIndex ==
    \A f \in Fds, c \in Channels :
        channels_[f] = c <=> c \in live /\ FdOf[c] = f /\ index_[c] # kNew

\* The kernel's list follows the channels: an fd is watched exactly for the
\* live channel that index_ calls added, and for exactly its events_.  (So
\* epoll_wait never returns a pointer to a channel that is gone.)
KernelFollowsChannels ==
    \A f \in Fds :
        /\ \A c \in Channels :
               watched[f] = c <=> c \in live /\ FdOf[c] = f /\ index_[c] = kAdded
        /\ mask[f] = IF watched[f] = None THEN {} ELSE events_[watched[f]]

\* epoll_ctl never fails for ADD and MOD: no order of interest changes,
\* removals and reuses of an fd makes the library exit.
NeverFatal == ~fatal

\* No starvation: a channel that stays reportable is reported, though the event
\* list may be too short for all and the kernel choose others first; the list
\* grows when a poll fills it.
ReportableIsReported ==
    \A f \in Fds :
        f \in Reportable ~> f \notin Reportable \/ watched[f] \in activeChannels_
=============================================================================
