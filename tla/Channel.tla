------------------------------ MODULE Channel -------------------------------
(***************************************************************************)
(* Channels and channel groups of channel.c, called by cooperative threads *)
(* (lwt.c): a thread runs until it calls lwt_yield, which channel.c does   *)
(* only in the three waiting loops, so a call is one action, or two when   *)
(* its loop waits, and which thread goes on after a yield is left open.    *)
(*                                                                         *)
(* The ring buffer of a channel is the queue it stands for (module         *)
(* RingBuffer and its lemmas).  A channel is a block of memory, which      *)
(* lwt_chan may hand out again after lwt_chan_deref gave it back; so is a  *)
(* group.  The list of a group is the TAILQ of queue.h, link by link,      *)
(* since a channel keeps stale links when it leaves one.                   *)
(*                                                                         *)
(* A thread uses the channels it holds: those it made, was created with,   *)
(* or received, until it calls lwt_chan_deref.  The maker of a channel is  *)
(* the one that receives from it and puts it into groups.  A Careful       *)
(* client also keeps the rules that are marked with its name.              *)
(***************************************************************************)
EXTENDS Integers, Sequences, FiniteSets

LOCAL INSTANCE FiniteSetsExt

CONSTANTS
    Threads, First,  \* the threads, and the one that starts the others
    Chans,           \* the blocks of memory for channels
    Groups,          \* the channel groups
    Data,            \* messages that are not channels
    Size,            \* the size each channel is made with
    InfiniteCap,     \* INFINITE_CAP (rbuf.h:10)
    NULL,
    MaxMade,         \* bound: how many channels are made
    MaxCnt,          \* bound: how far calls count all snd_cnt up, chan_cnt down
    Careful          \* does the client keep the rules below?

Nodes == Groups \union Chans   \* what the links of a list lead to

ASSUME ChannelAssumption ==
    /\ First \in Threads
    /\ Data \intersect Chans = {}
    /\ Size \in [Chans -> Nat]
    /\ InfiniteCap \in Nat \ {0}
    /\ Groups \intersect Chans = {}
    /\ NULL \notin Threads \union Groups \union Chans
    /\ MaxMade \in Nat /\ MaxCnt \in Nat
    /\ Careful \in BOOLEAN

VARIABLES
    live,                    \* the channels made and not freed
    queue, snd_cnt, rcv_thd, cgrp,   \* fields of struct lwt_channel
    groups,                  \* the groups made and not freed
    chan_cnt,                \* field of struct lwt_cgrp
    tqe_next, tqe_prev,      \* links of a channel; tqh_first, tqh_last of a group
    nchan, nrcving,          \* LWT_INFO_NCHAN, LWT_INFO_NRCVING
    crashed,                 \* freed memory was followed, or a scan has no end
    op,                      \* the waiting loop each thread is in
    got,                     \* what its last lwt_rcv returned
    started,                 \* the threads that exist
    holds,                   \* the channels each thread may use
    lent                     \* channels that were given to a new thread

chanVars  == <<live, queue, snd_cnt, rcv_thd, cgrp, nchan>>
linkVars  == <<tqe_next, tqe_prev>>
groupVars == <<groups, chan_cnt, linkVars>>
callVars  == <<nrcving, op, got>>
userVars  == <<started, holds, lent>>
vars == <<chanVars, groupVars, callVars, userVars, crashed>>

Messages == Data \union Chans
Room(c) == IF Size[c] = 0 THEN InfiniteCap ELSE Size[c]
IsFull(c) == Len(queue[c]) = Room(c)
Pending(c) == queue[c] # <<>>

\* What the calls so far count, for the bound MaxCnt.
CountedUp == MapThenSumSet(LAMBDA c : snd_cnt[c], Chans)

\* S has all that is met from group g on along the links, if the walk goes on
\* after each channel of P only.
Closed(link, g, P, S) ==
    /\ link[g] \in S \union {NULL}
    /\ \A c \in S \intersect P : link[c] \in S \union {NULL}

\* What the walk meets.
Path(link, g, P) ==
    {c \in Chans : \A S \in SUBSET Chans : Closed(link, g, P, S) => c \in S}

\* The channels in the list of a group.
Members(g) == Path(tqe_next, g, Chans)
Listed(c) == \E g \in groups : c \in Members(g)

Init ==
    /\ live = {} /\ groups = {}
    /\ queue = [c \in Chans |-> <<>>]
    /\ snd_cnt = [c \in Chans |-> 0]
    /\ rcv_thd = [c \in Chans |-> NULL]
    /\ cgrp = [c \in Chans |-> NULL]
    /\ chan_cnt = [g \in Groups |-> 0]
    /\ tqe_next = [n \in Nodes |-> NULL]
    /\ tqe_prev = [n \in Nodes |-> n]
    /\ nchan = 0 /\ nrcving = 0
    /\ crashed = FALSE
    /\ op = [t \in Threads |-> <<"user">>]
    /\ got = [t \in Threads |-> NULL]
    /\ started = {First}
    /\ holds = [t \in Threads |-> {}]
    /\ lent = {}

----------------------------------------------------------------------------
(* Making, passing and giving up channels.                                *)

Free(t) == ~crashed /\ t \in started /\ op[t] = <<"user">>

Holds(t, c) == Free(t) /\ c \in holds[t]

\* lwt_chan.
NewChan(t, c) ==
    /\ Free(t)
    /\ c \notin live /\ nchan < MaxMade
    /\ live' = live \union {c}
    /\ queue' = [queue EXCEPT ![c] = <<>>]
    /\ snd_cnt' = [snd_cnt EXCEPT ![c] = 0]
    /\ rcv_thd' = [rcv_thd EXCEPT ![c] = t]
    /\ cgrp' = [cgrp EXCEPT ![c] = NULL]
    /\ nchan' = nchan + 1
    /\ holds' = [holds EXCEPT ![t] = @ \union {c}]
    /\ lent' = lent \ {c}
    /\ UNCHANGED <<groupVars, callVars, started, crashed>>

\* lwt_create_chan: a new thread u with a channel of t's.
Lend(t, u, c) ==
    /\ Holds(t, c)
    /\ u \notin started
    /\ started' = started \union {u}
    /\ holds' = [holds EXCEPT ![u] = {c}]
    /\ lent' = lent \union {c}
    /\ UNCHANGED <<chanVars, groupVars, callVars, crashed>>

\* Mutant of Deref: the last deref frees, whoever calls it.
DerefAnyone(t, c) ==
    /\ Holds(t, c)
    /\ Careful => c \notin lent /\ ~Listed(c)
    /\ IF snd_cnt[c] = 0
       THEN /\ rcv_thd' = [rcv_thd EXCEPT ![c] = NULL]
            /\ live' = live \ {c}
            /\ UNCHANGED snd_cnt
       ELSE /\ snd_cnt' = [snd_cnt EXCEPT ![c] = @ - 1]
            /\ UNCHANGED <<live, rcv_thd>>
    /\ holds' = [holds EXCEPT ![t] = @ \ {c}]
    /\ UNCHANGED <<queue, cgrp, nchan, groupVars, callVars, started, lent,
                   crashed>>

\* lwt_chan_deref.  A careful client does not call it for a channel that a
\* thread was created with, which snd_cnt does not count, nor for one that
\* is in a group.
Deref(t, c) ==
    /\ Holds(t, c)
    /\ Careful => c \notin lent /\ ~Listed(c)
    /\ IF rcv_thd[c] = t /\ snd_cnt[c] = 0
       THEN /\ rcv_thd' = [rcv_thd EXCEPT ![c] = NULL]
            /\ live' = live \ {c}
            /\ UNCHANGED snd_cnt
       ELSE /\ snd_cnt' = [snd_cnt EXCEPT ![c] = @ - 1]
            /\ UNCHANGED <<live, rcv_thd>>
    /\ holds' = [holds EXCEPT ![t] = @ \ {c}]
    /\ UNCHANGED <<queue, cgrp, nchan, groupVars, callVars, started, lent,
                   crashed>>

----------------------------------------------------------------------------
(* lwt_snd and lwt_snd_chan.                                              *)

\* The message goes into the queue, counted in snd_cnt, and the call ends.
\* Mutant of Write: the waiting sender does not leave its loop.
WriteStay(t, c, m, cnt) ==
    /\ queue' = [queue EXCEPT ![c] = Append(@, m)]
    /\ snd_cnt' = [cnt EXCEPT ![c] = @ + 1]
    /\ UNCHANGED op

Write(t, c, m, cnt) ==
    /\ queue' = [queue EXCEPT ![c] = Append(@, m)]
    /\ snd_cnt' = [cnt EXCEPT ![c] = @ + 1]
    /\ op' = [op EXCEPT ![t] = <<"user">>]

\* The start of lwt_snd, snd_cnt being cnt: -1 if the receiver is gone, else
\* wait while the buffer is full, else write.
StartSnd(t, c, m, cnt) ==
    IF rcv_thd[c] = NULL THEN snd_cnt' = cnt /\ UNCHANGED <<queue, op>>
    ELSE IF IsFull(c)
    THEN /\ op' = [op EXCEPT ![t] = <<"snd", c, m>>]
         /\ snd_cnt' = cnt
         /\ UNCHANGED queue
    ELSE Write(t, c, m, cnt)

SndLeaves == <<live, rcv_thd, cgrp, nchan, nrcving, got, groupVars, userVars>>

Snd(t, c, m) ==
    /\ Holds(t, c)
    /\ CountedUp < MaxCnt
    /\ StartSnd(t, c, m, snd_cnt)
    /\ UNCHANGED <<SndLeaves, crashed>>

\* Mutant of SndChan: the reference is not counted.
SndChanUncounted(t, c, d) ==
    /\ Holds(t, c) /\ d \in holds[t]
    /\ CountedUp + 1 < MaxCnt
    /\ StartSnd(t, c, d, snd_cnt)
    /\ UNCHANGED <<SndLeaves, crashed>>

\* The reference that is sent is counted first.
SndChan(t, c, d) ==
    /\ Holds(t, c) /\ d \in holds[t]
    /\ CountedUp + 1 < MaxCnt
    /\ StartSnd(t, c, d, [snd_cnt EXCEPT ![d] = @ + 1])
    /\ UNCHANGED <<SndLeaves, crashed>>

\* Back in the loop of lwt_snd: the buffer of a freed channel is NULL.
SndResume(t) ==
    /\ ~crashed /\ op[t][1] = "snd"
    /\ LET c == op[t][2] IN
          IF c \notin live
          THEN crashed' = TRUE /\ UNCHANGED <<queue, snd_cnt, op>>
          ELSE /\ ~IsFull(c)
               /\ Write(t, c, op[t][3], snd_cnt)
               /\ UNCHANGED crashed
    /\ UNCHANGED SndLeaves

----------------------------------------------------------------------------
(* lwt_rcv and lwt_rcv_chan.                                              *)

\* The oldest message is the thread's; a channel in it, the thread's to use.
Read(t, c) ==
    LET m == Head(queue[c]) IN
    /\ queue' = [queue EXCEPT ![c] = Tail(@)]
    /\ got' = [got EXCEPT ![t] = m]
    /\ holds' = [holds EXCEPT ![t] = IF m \in Chans THEN @ \union {m} ELSE @]
    /\ op' = [op EXCEPT ![t] = <<"user">>]

RcvLeaves == <<live, snd_cnt, rcv_thd, cgrp, nchan, groupVars, started, lent>>

\* Mutant of Rcv: the wait is not counted.
RcvUncounted(t, c) ==
    /\ Holds(t, c) /\ rcv_thd[c] = t
    /\ IF Pending(c) THEN Read(t, c)
       ELSE /\ op' = [op EXCEPT ![t] = <<"rcv", c>>]
            /\ UNCHANGED <<queue, got, holds>>
    /\ UNCHANGED <<RcvLeaves, nrcving, crashed>>

Rcv(t, c) ==
    /\ Holds(t, c) /\ rcv_thd[c] = t
    /\ IF Pending(c) THEN Read(t, c) /\ UNCHANGED nrcving
       ELSE /\ op' = [op EXCEPT ![t] = <<"rcv", c>>]
            /\ nrcving' = nrcving + 1
            /\ UNCHANGED <<queue, got, holds>>
    /\ UNCHANGED <<RcvLeaves, crashed>>

RcvResume(t) ==
    /\ ~crashed /\ op[t][1] = "rcv"
    /\ Pending(op[t][2])
    /\ Read(t, op[t][2])
    /\ nrcving' = nrcving - 1
    /\ UNCHANGED <<RcvLeaves, crashed>>

----------------------------------------------------------------------------
(* Groups.                                                                *)

\* TAILQ_INIT: the list is empty, its last link is the one of the head.
Initialized(g) ==
    /\ tqe_next' = [tqe_next EXCEPT ![g] = NULL]
    /\ tqe_prev' = [tqe_prev EXCEPT ![g] = g]

\* TAILQ_INSERT_TAIL.
Inserted(g, c) ==
    /\ tqe_next' = [tqe_next EXCEPT ![c] = NULL, ![tqe_prev[g]] = c]
    /\ tqe_prev' = [tqe_prev EXCEPT ![c] = tqe_prev[g], ![g] = c]

\* Mutant of Removed: the head's link to the last element stays.
RemovedLast(g, c) ==
    /\ tqe_prev' = IF tqe_next[c] = NULL THEN tqe_prev
                   ELSE [tqe_prev EXCEPT ![tqe_next[c]] = tqe_prev[c]]
    /\ tqe_next' = [tqe_next EXCEPT ![tqe_prev[c]] = tqe_next[c]]

\* TAILQ_REMOVE: c keeps its own links.
Removed(g, c) ==
    /\ tqe_prev' = [tqe_prev EXCEPT ![IF tqe_next[c] = NULL THEN g
                                      ELSE tqe_next[c]] = tqe_prev[c]]
    /\ tqe_next' = [tqe_next EXCEPT ![tqe_prev[c]] = tqe_next[c]]

\* lwt_cgrp.
NewGroup(t, g) ==
    /\ Free(t)
    /\ g \notin groups
    /\ groups' = groups \union {g}
    /\ chan_cnt' = [chan_cnt EXCEPT ![g] = 0]
    /\ Initialized(g)
    /\ UNCHANGED <<chanVars, callVars, userVars, crashed>>

\* lwt_cgrp_free, when it does not return -1.  A careful client does not call
\* it while a thread waits on the group.
FreeGroup(t, g) ==
    /\ Free(t)
    /\ g \in groups /\ chan_cnt[g] = 0
    /\ Careful => \A u \in Threads : op[u] # <<"wait", g>>
    /\ groups' = groups \ {g}
    /\ UNCHANGED <<chan_cnt, linkVars, chanVars, callVars, userVars, crashed>>

\* Mutant of Add: cgrp is not set.
AddUnset(t, g, c) ==
    /\ Holds(t, c) /\ rcv_thd[c] = t /\ g \in groups
    /\ cgrp[c] = NULL
    /\ chan_cnt' = [chan_cnt EXCEPT ![g] = @ + 1]
    /\ Inserted(g, c)
    /\ UNCHANGED <<chanVars, groups, callVars, userVars, crashed>>

\* lwt_cgrp_add.  It returns 0 without a change when cgrp is g already, and
\* -1 when it is another group.
Add(t, g, c) ==
    /\ Holds(t, c) /\ rcv_thd[c] = t /\ g \in groups
    /\ cgrp[c] = NULL
    /\ cgrp' = [cgrp EXCEPT ![c] = g]
    /\ chan_cnt' = [chan_cnt EXCEPT ![g] = @ + 1]
    /\ Inserted(g, c)
    /\ UNCHANGED <<live, queue, snd_cnt, rcv_thd, nchan, groups, callVars,
                   userVars, crashed>>

\* lwt_cgrp_rem, when no message is pending.  It goes by cgrp, which the
\* channel keeps: a careful client removes only what the list has.  The
\* buffer of a freed channel is NULL.
Rem(t, g, c) ==
    /\ Holds(t, c) /\ g \in groups
    /\ cgrp[c] = g
    /\ Careful => c \in Members(g)
    /\ IF c \notin live
       THEN crashed' = TRUE /\ UNCHANGED <<chan_cnt, linkVars>>
       ELSE /\ ~Pending(c)
            /\ chan_cnt[g] > -MaxCnt
            /\ Removed(g, c)
            /\ chan_cnt' = [chan_cnt EXCEPT ![g] = @ - 1]
            /\ UNCHANGED crashed
    /\ UNCHANGED <<chanVars, groups, callVars, userVars>>

\* The loop over the list in lwt_cgrp_wait meets these channels: it goes on
\* after one that has no message.
Met(g) == Path(tqe_next, g, {c \in live : ~Pending(c)})

\* It ends at a channel with a message,
Found(g) == \E c \in Met(g) \intersect live : Pending(c)

\* or at the end of the list,
Passed(g) ==
    /\ \A c \in Met(g) : c \in live /\ ~Pending(c)
    /\ \E n \in Met(g) \union {g} : tqe_next[n] = NULL

\* or it follows the NULL buffer of a freed channel or never ends.
Lost(g) == ~Found(g) /\ ~Passed(g)

\* lwt_cgrp_wait, when it does not return at once.
Wait(t, g) ==
    /\ Free(t)
    /\ g \in groups
    /\ \/ /\ Passed(g)
          /\ op' = [op EXCEPT ![t] = <<"wait", g>>]
          /\ UNCHANGED crashed
       \/ Lost(g) /\ crashed' = TRUE /\ UNCHANGED op
    /\ UNCHANGED <<nrcving, got, chanVars, groupVars, userVars>>

\* Back in the loop, over a list whose head may be gone.
WaitResume(t) ==
    /\ ~crashed /\ op[t][1] = "wait"
    /\ LET g == op[t][2] IN
          IF g \notin groups \/ Lost(g)
          THEN crashed' = TRUE /\ UNCHANGED op
          ELSE Found(g) /\ op' = [op EXCEPT ![t] = <<"user">>] /\ UNCHANGED crashed
    /\ UNCHANGED <<nrcving, got, chanVars, groupVars, userVars>>

----------------------------------------------------------------------------
Resume(t) == SndResume(t) \/ RcvResume(t) \/ WaitResume(t)

Call(t) ==
    \/ \E c \in Chans :
          \/ NewChan(t, c) \/ Deref(t, c) \/ Rcv(t, c)
          \/ \E u \in Threads : Lend(t, u, c)
          \/ \E m \in Data : Snd(t, c, m)
          \/ \E d \in Chans : SndChan(t, c, d)
    \/ \E g \in Groups :
          \/ NewGroup(t, g) \/ FreeGroup(t, g) \/ Wait(t, g)
          \/ \E c \in Chans : Add(t, g, c) \/ Rem(t, g, c)

Next == \E t \in Threads : Call(t) \/ Resume(t)

Spec == Init /\ [][Next]_vars

----------------------------------------------------------------------------
(* Properties.                                                            *)

Ops ==
    {<<"user">>} \union ({"snd"} \X Chans \X Messages)
        \union ({"rcv"} \X Chans) \union ({"wait"} \X Groups)

\* Every variable has its type.
TypeOK ==
    /\ live \subseteq Chans /\ groups \subseteq Groups
    /\ queue \in [Chans -> Seq(Messages)]
    /\ snd_cnt \in [Chans -> Int]
    /\ rcv_thd \in [Chans -> Threads \union {NULL}]
    /\ cgrp \in [Chans -> Groups \union {NULL}]
    /\ chan_cnt \in [Groups -> Int]
    /\ tqe_next \in [Nodes -> Chans \union {NULL}]
    /\ tqe_prev \in [Nodes -> Nodes]
    /\ nchan \in Nat /\ nrcving \in Nat
    /\ crashed \in BOOLEAN
    /\ op \in [Threads -> Ops]
    /\ got \in [Threads -> Messages \union {NULL}]
    /\ started \subseteq Threads
    /\ holds \in [Threads -> SUBSET Chans]
    /\ lent \subseteq Chans

\* channel.c:109-116, and lwt_cgrp_add and lwt_cgrp_rem (176-220): LWT_INFO_NRCVING
\* is the number of threads that wait in lwt_rcv; and, for a careful client,
\* chan_cnt, which lwt_cgrp_free trusts, is the number of channels in the
\* group's list.  (A second lwt_cgrp_rem of a channel lowers it again.)
CountsExact ==
    /\ nrcving = Cardinality({t \in Threads : op[t][1] = "rcv"})
    /\ \A g \in groups : chan_cnt[g] = Cardinality(Members(g))

\* A channel somebody else can still reach: another thread holds it, or is
\* to find it in a queue or in its unfinished lwt_snd_chan, or a group
\* lists it.
Reached(t, c) ==
    \/ \E u \in Threads \ {t} : c \in holds[u]
    \/ \E d \in live \ {c} : \E i \in DOMAIN queue[d] : queue[d][i] = c
    \/ \E u \in Threads \ {t} : op[u][1] = "snd" /\ op[u][3] = c
    \/ Listed(c)

\* channel.c:42-44: lwt_chan_deref frees a channel only when "the receiver
\* is the only thread has reference with this channel".
FreedUnshared ==
    [][\A c \in Chans : c \in live /\ c \notin live' =>
          ~Reached(rcv_thd[c], c)]_vars

\* The waiting loops of lwt_snd and lwt_cgrp_wait, which come back after a
\* yield, never follow the buffer of a channel or the head of a group that was
\* given back in between (rbuf_free sets the buffer to NULL), and the scan of
\* a group has an end.
NoCrash == ~crashed

\* lwt_cgrp_add and lwt_cgrp_rem (channel.c:184-214) go by c->cgrp and relink
\* only neighbours: a channel in a group's list has that group there, so that
\* no two lists share its links, and the links of a list are inverse to each
\* other from head to end, so that TAILQ_REMOVE takes out what it is given.
GroupLinks ==
    \A g \in groups :
        /\ \A c \in Members(g) : cgrp[c] = g
        /\ \A n \in Members(g) \union {g} :
              IF tqe_next[n] = NULL THEN tqe_prev[g] = n
              ELSE tqe_prev[tqe_next[n]] = n

\* Each channel is a mailbox: what lwt_snd and lwt_snd_chan are called with
\* enters the queue once, lwt_rcv takes the oldest.  A channel whose memory
\* is used again starts empty.
Box == INSTANCE Mailbox WITH
    Capacity <- [c \in Chans |-> Room(c)],
    sending <- [t \in Threads |->
                   IF op[t][1] = "snd" THEN <<op[t][2], op[t][3]>> ELSE <<>>]

MailboxSpec == Box!ClosingSpec
=============================================================================
