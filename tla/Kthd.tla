-------------------------------- MODULE Kthd --------------------------------
(***************************************************************************)
(* The lwts of several kernel threads (scheddev/lwt.c) and what sends them *)
(* from one to another (scheddev/channel.c).                               *)
(*                                                                         *)
(* Each kthd runs __kthd_entry, has a ring of lwts of its own with a main  *)
(* lwt that is always RUNNABLE, and gives the processor to the next kthd   *)
(* only from that main lwt.  Sl shows that a kthd the timer takes out of   *)
(* its own code is resumed before another runs code of its own (TakeTurns, *)
(* without directed yields of kthds, and this code makes none), so here a  *)
(* step is one call of an lwt up to its return or to its switch, and one   *)
(* step of a scan for the next RUNNABLE lwt.  runq is the queue of the one *)
(* priority that lwt_kthd_create uses; its head has the processor.  A kthd *)
(* that is not in it is BLOCKED.                                           *)
(*                                                                         *)
(* The client names a thread by its handle only as long as the thread      *)
(* exists, and a channel as long as its receiver does; and a thread that   *)
(* is alive is joined from its own kthd, for the switch of lwt_join would  *)
(* run it on the wrong one.  A Careful client also keeps the rules that    *)
(* are marked with its name.                                               *)
(*                                                                         *)
(* Left out: the reuse of a descriptor (Lwt, KAlloc), the indices of the   *)
(* buffer (CasRing), references, marks and the release of channels         *)
(* (Channel), and lwt_yield to an lwt other than by lwt_join.              *)
(***************************************************************************)
EXTENDS PsList, Integers, Sequences, FiniteSets

CONSTANTS
    Kthd,           \* the kernel threads; each stands for its main lwt, too
    Boot,           \* the lwt of cos_init, which runs on the scheduler thread
    MaxLwt,         \* how many lwts are created
    Chan,
    ThdChan,        \* the channels that carry lwts
    BootChan,       \* the channels that cos_init makes
    Size,           \* rb->capacity - 1 of each channel
    Taker,          \* the kthd whose first lwt receives from a channel
    Data,           \* a message that is no lwt
    NULL,
    Careful         \* does the client keep the rules below?

Lwts == 1..MaxLwt
Elems == Lwts \union Kthd \union {Boot}

ASSUME KthdAssumption ==
    /\ MaxLwt \in Nat /\ IsFiniteSet(Kthd) /\ Kthd # {}
    /\ Kthd \intersect Lwts = {} /\ Boot \notin Kthd \union Lwts
    /\ NULL \notin Elems \union Chan /\ Data \notin Elems \union {NULL}
    /\ ThdChan \subseteq Chan /\ BootChan \subseteq Chan
    /\ Size \in [Chan -> Nat \ {0}] /\ Taker \in [Chan -> Kthd]
    /\ Careful \in BOOLEAN

VARIABLES
    runq,           \* the kthds that can run, the one that does first
    on,             \* the lwt whose stack the processor is on
    current_thread,
    scanning,       \* on looks for the next RUNNABLE lwt from current_thread
    nRunnable,      \* LWT_INFO_NTHD_RUNNABLE
    born,           \* the lwts 1..born have been created
    list,           \* the field list of each lwt
    state, flag, kid, fn, joinedfrom, joiningto,
    pc,             \* where each lwt is
    rcv_thd, queue, \* of each channel
    at, load        \* the channel an lwt waits at, and what it sends there

place == <<runq, on, current_thread, scanning>>
links == <<joinedfrom, joiningto>>
fields == <<born, flag, fn>>
chans == <<rcv_thd, queue>>
waits == <<at, load>>
vars == <<place, nRunnable, list, state, kid, links, fields, pc, chans, waits>>

Init ==
    /\ runq = <<>> /\ on = Boot /\ current_thread = Boot /\ scanning = FALSE
    /\ nRunnable = 1
    /\ born = 0
    /\ list = [n |-> [e \in Elems |-> e], p |-> [e \in Elems |-> e]]
    /\ state = [e \in Elems |-> "RUNNABLE"]
    /\ flag = [l \in Lwts |-> "DEFAULT"]
    /\ kid = [e \in Elems |-> IF e \in Lwts THEN NULL ELSE e]
    /\ fn = [l \in Lwts |-> NULL]
    /\ joinedfrom = [l \in Lwts |-> NULL]
    /\ joiningto = [l \in Lwts |-> NULL]
    /\ pc = [e \in Elems |-> IF e = Boot THEN "boot" ELSE "new"]
    /\ rcv_thd = [c \in Chan |-> NULL]
    /\ queue = [c \in Chan |-> <<>>]
    /\ at = [l \in Lwts |-> NULL]
    /\ load = [l \in Lwts |-> NULL]

\* on executes code at the given place.
At(here) == on # NULL /\ ~scanning /\ pc[on] = here
User == on \in Lwts /\ At("user")
Goto(there) == pc' = [pc EXCEPT ![on] = there]

\* An lwt that has been created and not been given back.
Linked(e) == pc[e] \notin {"new", "gone"}

-----------------------------------------------------------------------------
(* Scheduling.                                                             *)

\* __lwt_schedule and its scan, which starts behind current_thread.
lwt_schedule == scanning' = (nRunnable # 0) /\ UNCHANGED <<runq, on, current_thread>>

\* One round of the scan, and the switch that ends it.  An lwt that dies
\* detached is unlinked and given back just before that switch.
Scan ==
    /\ scanning
    /\ LET next == ps_list_next(list, current_thread) IN
        /\ current_thread' = next
        /\ IF state[next] # "RUNNABLE"
           THEN UNCHANGED <<on, scanning, list, pc>>
           ELSE /\ on' = next /\ scanning' = FALSE
                /\ IF pc[on] = "dying"
                   THEN list' = ps_list_rem(list, on) /\ Goto("gone")
                   ELSE UNCHANGED <<list, pc>>
    /\ UNCHANGED <<runq, nRunnable, state, kid, links, fields, chans, waits>>

-----------------------------------------------------------------------------
(* cos_init and the kernel threads.                                        *)

\* lwt_kthd_create: the kthd is put into the queue of its priority.
lwt_kthd_create(k) ==
    /\ At("boot") /\ \A i \in DOMAIN runq : runq[i] # k
    /\ runq' = Append(runq, k)
    /\ UNCHANGED <<on, current_thread, scanning, nRunnable, list, state, kid,
                   links, fields, pc, chans, waits>>

\* sl_sched_loop.
StartLoop ==
    /\ At("boot")
    /\ Len(runq) = Cardinality(Kthd) /\ \A c \in BootChan : rcv_thd[c] # NULL
    /\ on' = Head(runq)
    /\ UNCHANGED <<runq, current_thread, scanning, nRunnable, list, state, kid,
                   links, fields, pc, chans, waits>>

\* What lwt_create does with t, called by the lwt c with the lists as in ls.
Born(t, c, ls, f, function) ==
    /\ t \in Lwts /\ born' = t
    /\ list' = ps_list_add(ls, ps_list_prev(ls, c), t)
    /\ flag' = [flag EXCEPT ![t] = f]
    /\ kid' = [kid EXCEPT ![t] = kid[c]]
    /\ fn' = [fn EXCEPT ![t] = function]

\* The start of __kthd_entry: lwt_init, and the first lwt of the kthd.
KthdStart(k) ==
    /\ on = k /\ At("new")
    /\ current_thread' = k
    /\ Born(born + 1, k, ps_list_init(list, k), "NOJOIN", k)
    /\ pc' = [pc EXCEPT ![k] = "loop", ![born + 1] = "user"]
    /\ nRunnable' = nRunnable + 2
    /\ UNCHANGED <<runq, on, scanning, state, links, chans, waits>>

\* Mutant of KthdLoop: current_thread is left as the last kthd set it.
KthdLoopStale(k) ==
    /\ on = k /\ At("loop")
    /\ scanning' = (nRunnable # 0)
    /\ Goto("count")
    /\ UNCHANGED <<runq, on, current_thread, nRunnable, list, state, kid, links,
                   fields, chans, waits>>

\* The loop of __kthd_entry up to the return of lwt_schedule.
KthdLoop(k) ==
    /\ on = k /\ At("loop")
    /\ current_thread' = k
    /\ scanning' = (nRunnable # 0)
    /\ Goto("count")
    /\ UNCHANGED <<runq, on, nRunnable, list, state, kid, links, fields, chans, waits>>

\* __ps_list_nelements.
RunnableIn(e) == Cardinality({x \in Walk(list, e) : state[x] = "RUNNABLE"})

\* sl_thd_block and sl_thd_yield, called from the main lwt of the head of
\* runq: the next kthd goes on where it called one of them, or starts.  When
\* every kthd is BLOCKED sl_mod_schedule fails, and nothing runs any more.
GiveWay(k, q) ==
    /\ runq' = q
    /\ on' = IF q = <<>> THEN NULL ELSE Head(q)
    /\ Goto("loop")

\* Mutant of KthdCount: a kthd with one lwt left blocks, too.
KthdCountTwo(k) ==
    /\ on = k /\ At("count")
    /\ IF RunnableIn(current_thread) <= 2
       THEN GiveWay(k, Tail(runq))
       ELSE GiveWay(k, Append(Tail(runq), k))
    /\ UNCHANGED <<current_thread, scanning, nRunnable, list, state, kid, links,
                   fields, chans, waits>>

\* The rest of the loop: block if nobody else can run, otherwise yield.
KthdCount(k) ==
    /\ on = k /\ At("count")
    /\ IF RunnableIn(current_thread) = 1
       THEN GiveWay(k, Tail(runq))
       ELSE GiveWay(k, Append(Tail(runq), k))
    /\ UNCHANGED <<current_thread, scanning, nRunnable, list, state, kid, links,
                   fields, chans, waits>>

-----------------------------------------------------------------------------
(* Threads.                                                                *)

\* A first lwt must remain for each kthd that has not started.
lwt_create(f) ==
    /\ User
    /\ born + Cardinality({k \in Kthd : pc[k] = "new"}) < MaxLwt
    /\ Born(born + 1, current_thread, list, f, NULL)
    /\ pc' = [pc EXCEPT ![born + 1] = "user"]
    /\ nRunnable' = nRunnable + 1
    /\ UNCHANGED <<place, state, links, chans, waits>>

lwt_yield ==
    /\ User
    /\ lwt_schedule
    /\ UNCHANGED <<nRunnable, list, state, kid, links, fields, pc, chans, waits>>

\* lwt_join of t, which a careful client calls once for each child.
MayJoin(t) ==
    /\ User /\ Linked(t) /\ flag[t] = "DEFAULT"
    /\ Careful => t # current_thread /\ joinedfrom[t] = NULL
Relate(t) ==
    /\ joiningto' = [joiningto EXCEPT ![current_thread] = t]
    /\ joinedfrom' = [joinedfrom EXCEPT ![t] = current_thread]

\* The child is unlinked, from whatever ring it is in, and given back.
Reap(t) ==
    /\ list' = ps_list_rem(list, t)
    /\ pc' = [pc EXCEPT ![t] = "gone", ![on] = "user"]

JoinDead(t) ==
    /\ MayJoin(t) /\ state[t] = "DEAD"
    /\ Relate(t) /\ Reap(t)
    /\ nRunnable' = nRunnable - 1
    /\ UNCHANGED <<place, state, kid, fields, chans, waits>>

\* The wait: a directed yield to the child, if it is RUNNABLE; if not, the
\* joiner goes round in its loop for ever, and no other code runs any more.  A
\* careful client joins a child that is alive only while it is RUNNABLE.
JoinWait(t) ==
    /\ MayJoin(t) /\ state[t] # "DEAD" /\ kid[t] = kid[current_thread]
    /\ Careful => state[t] = "RUNNABLE"
    /\ Relate(t) /\ Goto("join")
    /\ state' = [state EXCEPT ![current_thread] = "BLOCKED"]
    /\ IF state'[t] = "RUNNABLE" THEN on' = t /\ current_thread' = t
                                 ELSE UNCHANGED <<on, current_thread>>
    /\ nRunnable' = nRunnable - 1
    /\ UNCHANGED <<runq, scanning, list, kid, fields, chans, waits>>

\* The end of the wait; the counter goes up by one and down by one.
JoinResume ==
    /\ on \in Lwts /\ At("join") /\ state[on] # "BLOCKED"
    /\ Reap(joiningto[on])
    /\ UNCHANGED <<place, nRunnable, state, kid, links, fields, chans, waits>>

\* lwt_die, called or by the trampoline: of a thread that can be joined,
\* which becomes a zombie, and of one that cannot.
DieJoinable ==
    /\ User /\ flag[on] = "DEFAULT"
    /\ LET joiner == joinedfrom[current_thread] IN
       state' = [e \in Elems |-> IF e = joiner THEN "RUNNABLE"
                                 ELSE IF e = current_thread THEN "DEAD" ELSE state[e]]
    /\ Goto("dead") /\ lwt_schedule
    /\ UNCHANGED <<nRunnable, list, kid, links, fields, chans, waits>>

DieDetached ==
    /\ User /\ flag[on] = "NOJOIN"
    /\ Goto("dying") /\ scanning' = TRUE
    /\ UNCHANGED <<runq, on, current_thread, nRunnable, list, state, kid, links,
                   fields, chans, waits>>

-----------------------------------------------------------------------------
(* Channels.                                                               *)

\* lwt_chan: the lwt that makes a channel is its receiver.
lwt_chan(c) ==
    /\ rcv_thd[c] = NULL
    /\ \/ At("boot") /\ c \in BootChan
       \/ User /\ c \notin BootChan /\ fn[on] = Taker[c]
    /\ rcv_thd' = [rcv_thd EXCEPT ![c] = current_thread]
    /\ UNCHANGED <<place, nRunnable, list, state, kid, links, fields, pc, queue, waits>>

IsFull(c) == Len(queue[c]) = Size[c]

\* Mutant of Wake: the kthd is woken whether it is BLOCKED or not.
WakeAlways(c) ==
    LET k == kid[rcv_thd[c]] IN
    runq' = IF k \in Kthd THEN Append(runq, k) ELSE runq
\* The end of lwt_snd: the kthd of the receiver is woken if it is BLOCKED.
Wake(c) ==
    LET k == kid[rcv_thd[c]] IN
    runq' = IF k \in Kthd /\ \A i \in DOMAIN runq : runq[i] # k
            THEN Append(runq, k) ELSE runq

\* lwt_snd from its test for room on.
Send(c, m) ==
    IF IsFull(c)
    THEN /\ Goto("snd") /\ lwt_schedule
         /\ at' = [at EXCEPT ![on] = c] /\ load' = [load EXCEPT ![on] = m]
         /\ queue' = queue
    ELSE /\ queue' = [queue EXCEPT ![c] = Append(@, m)]
         /\ Wake(c) /\ UNCHANGED <<on, current_thread, scanning>>
         /\ Goto("user")
         /\ at' = [at EXCEPT ![on] = NULL] /\ load' = [load EXCEPT ![on] = NULL]

\* Nobody sends where the lwt that made the channel has ended.
MaySend(c) == User /\ rcv_thd[c] # NULL /\ Linked(rcv_thd[c])

lwt_snd(c) ==
    /\ MaySend(c) /\ c \notin ThdChan
    /\ Send(c, Data)
    /\ UNCHANGED <<nRunnable, list, state, kid, links, fields, rcv_thd>>

\* Mutant of lwt_snd_thd: the thread is stopped once it is in the buffer.
lwt_snd_thd_late(c, t) ==
    /\ MaySend(c) /\ c \in ThdChan
    /\ t # current_thread /\ Linked(t)
    /\ Careful => flag[t] = "NOJOIN" /\ state[t] = "RUNNABLE"
    /\ state' = IF IsFull(c) THEN state ELSE [state EXCEPT ![t] = "BLOCKED"]
    /\ Send(c, t)
    /\ UNCHANGED <<nRunnable, list, kid, links, fields, rcv_thd>>

\* The thread stays in its ring, BLOCKED, until somebody receives it.  The code
\* looks at no more than whether it is the caller.  A careful client sends a
\* thread that nobody may join, and only while it is RUNNABLE: not one that is
\* on its way already, nor one that waits in lwt_join.
lwt_snd_thd(c, t) ==
    /\ MaySend(c) /\ c \in ThdChan
    /\ t # current_thread /\ Linked(t)
    /\ Careful => flag[t] = "NOJOIN" /\ state[t] = "RUNNABLE"
    /\ state' = [state EXCEPT ![t] = "BLOCKED"]
    /\ Send(c, t)
    /\ UNCHANGED <<nRunnable, list, kid, links, fields, rcv_thd>>

SndResume ==
    /\ on \in Lwts /\ At("snd")
    /\ Send(at[on], load[on])
    /\ UNCHANGED <<nRunnable, list, state, kid, links, fields, rcv_thd>>

\* Mutant of Adopt: the thread leaves its ring and is put into no other.
AdoptLoose(t) ==
    /\ kid' = [kid EXCEPT ![t] = kid[current_thread]]
    /\ list' = ps_list_rem(list, t)
    /\ state' = [state EXCEPT ![t] = "RUNNABLE"]
\* The end of lwt_rcv_thd: the thread changes its kthd and its ring.
Adopt(t) ==
    LET ls == ps_list_rem(list, t) IN
    /\ kid' = [kid EXCEPT ![t] = kid[current_thread]]
    /\ list' = ps_list_add(ls, ps_list_prev(ls, current_thread), t)
    /\ state' = [state EXCEPT ![t] = "RUNNABLE"]

\* lwt_rcv, and lwt_rcv_thd where the channel carries threads, from the test
\* for a message on.
Receive(c) ==
    IF queue[c] = <<>>
    THEN /\ Goto("rcv") /\ lwt_schedule
         /\ at' = [at EXCEPT ![on] = c]
         /\ UNCHANGED <<queue, list, state, kid>>
    ELSE /\ queue' = [queue EXCEPT ![c] = Tail(@)]
         /\ IF c \in ThdChan THEN Adopt(Head(queue[c]))
                             ELSE UNCHANGED <<list, state, kid>>
         /\ Goto("user") /\ UNCHANGED place
         /\ at' = [at EXCEPT ![on] = NULL]

lwt_rcv(c) ==
    /\ User /\ fn[on] = Taker[c] /\ rcv_thd[c] # NULL
    /\ Receive(c)
    /\ UNCHANGED <<nRunnable, links, fields, rcv_thd, load>>

RcvResume ==
    /\ on \in Lwts /\ At("rcv")
    /\ Receive(at[on])
    /\ UNCHANGED <<nRunnable, links, fields, rcv_thd, load>>

\* lwt_cgrp_wait for the channels of which an lwt is the receiver.  It gives
\* the client a channel with a message; the client goes on from there.
Group(l) == {c \in Chan : Taker[c] = fn[l] /\ rcv_thd[c] # NULL}
Pending(l) == \E c \in Group(l) : queue[c] # <<>>

lwt_cgrp_wait ==
    /\ User /\ Group(on) # {} /\ ~Pending(on)
    /\ Goto("grp") /\ lwt_schedule
    /\ UNCHANGED <<nRunnable, list, state, kid, links, fields, chans, waits>>

\* Mutant of GrpResume: the channels are looked at once only.
GrpResumeOnce ==
    /\ on \in Lwts /\ At("grp")
    /\ lwt_schedule
    /\ UNCHANGED <<nRunnable, list, state, kid, links, fields, pc, chans, waits>>
GrpResume ==
    /\ on \in Lwts /\ At("grp")
    /\ IF Pending(on) THEN Goto("user") /\ UNCHANGED place
                      ELSE lwt_schedule /\ UNCHANGED pc
    /\ UNCHANGED <<nRunnable, list, state, kid, links, fields, chans, waits>>

-----------------------------------------------------------------------------

KthdStep == \E k \in Kthd : KthdStart(k) \/ KthdLoop(k) \/ KthdCount(k)

LwtStep ==
    \/ lwt_yield \/ DieJoinable \/ DieDetached \/ JoinResume
    \/ \E f \in {"DEFAULT", "NOJOIN"} : lwt_create(f)
    \/ \E t \in Lwts : JoinDead(t) \/ JoinWait(t)

ChanStep ==
    \/ SndResume \/ RcvResume \/ lwt_cgrp_wait \/ GrpResume
    \/ \E c \in Chan : lwt_chan(c) \/ lwt_snd(c) \/ lwt_rcv(c)
    \/ \E c \in Chan, t \in Lwts : lwt_snd_thd(c, t)

Next ==
    \/ \E k \in Kthd : lwt_kthd_create(k)
    \/ StartLoop \/ Scan \/ KthdStep \/ LwtStep \/ ChanStep

Spec == Init /\ [][Next]_vars

\* The processor goes on, and no lwt keeps it for ever: between its other
\* calls each yields from time to time.
FairSpec == Spec /\ WF_vars(Next) /\ \A l \in Lwts : WF_vars(on = l /\ lwt_yield)

-----------------------------------------------------------------------------
(* Properties.                                                             *)

Places == {"boot", "new", "gone", "loop", "count", "user", "join", "dead", "dying",
           "snd", "rcv", "grp"}

\* Every variable has its type; no kthd is in the run queue twice, which the
\* assertion of sl_mod_wakeup (sl_mod_fprr.c:43) asks for.
TypeOK ==
    /\ runq \in Seq(Kthd) /\ \A i, j \in DOMAIN runq : runq[i] = runq[j] => i = j
    /\ on \in Elems \union {NULL} /\ current_thread \in Elems
    /\ scanning \in BOOLEAN /\ nRunnable \in Int /\ born \in 0..MaxLwt
    /\ list \in [n : [Elems -> Elems], p : [Elems -> Elems]]
    /\ state \in [Elems -> {"RUNNABLE", "BLOCKED", "DEAD"}]
    /\ flag \in [Lwts -> {"DEFAULT", "NOJOIN"}]
    /\ kid \in [Elems -> Kthd \union {Boot, NULL}]
    /\ fn \in [Lwts -> Kthd \union {NULL}]
    /\ joinedfrom \in [Lwts -> Lwts \union {NULL}]
    /\ joiningto \in [Lwts -> Lwts \union {NULL}]
    /\ pc \in [Elems -> Places]
    /\ rcv_thd \in [Chan -> Lwts \union {Boot, NULL}]
    /\ queue \in [Chan -> Seq(Lwts \union {Data})]
    /\ at \in [Lwts -> Chan \union {NULL}]
    /\ load \in [Lwts -> Lwts \union {Data, NULL}]

Members == {e \in Elems : Linked(e)}

\* The pointers n and p of the lwts that exist are inverse, and no link leads
\* from the ring of one kthd to that of another, although lwt_rcv_thd
\* (channel.c:365) and lwt_join (lwt.c:124) unlink threads of rings they do
\* not walk.
LinksExact ==
    /\ WellLinked(list, Members)
    /\ \A e \in Members : kid[list.n[e]] = kid[e]

\* The lwts of a kthd are one ring: the scans of lwt.c:219 and channel.c:286
\* meet all of them and nobody else, from wherever they start.
RingsWhole ==
    \A e \in Members : Walk(list, e) = {x \in Members : kid[x] = kid[e]}

\* current_thread is one variable for all kthds (lwt.c:15), which each sets
\* when its turn comes.  Whenever code of an lwt runs, current_thread is that
\* lwt, it is RUNNABLE, and it belongs to the kthd that has the processor; a
\* scan never leaves that kthd's ring.
RunsAtHome ==
    /\ on \in Lwts \union Kthd => runq # <<>> /\ kid[on] = Head(runq)
    /\ scanning => kid[current_thread] = kid[on]
    /\ on \in Lwts /\ ~scanning =>
          on = current_thread /\ state[on] = "RUNNABLE" /\ Linked(on)

Stopped(k) == pc[k] # "new" /\ \A i \in DOMAIN runq : runq[i] # k

\* What supplement.md:3 says of a kthd without a runnable thread, the other
\* way round: a kthd that is BLOCKED has none.  A kthd decides to block from
\* a count of its own ring, and other kthds change that ring afterwards.
NoneForgotten ==
    \A k \in Kthd : Stopped(k) =>
        \A l \in Lwts : Linked(l) /\ kid[l] = k => state[l] # "RUNNABLE"

\* Whether a thread is on its way: in a buffer, or in the hands of a sender
\* that waits for room; and that it is in one place only.
Sent(l) ==
    \/ \E c \in Chan : \E i \in DOMAIN queue[c] : queue[c][i] = l
    \/ \E s \in Lwts : load[s] = l
OnePlace ==
    /\ \A c, d \in Chan : \A i \in DOMAIN queue[c], j \in DOMAIN queue[d] :
          queue[c][i] = queue[d][j] /\ queue[c][i] # Data => c = d /\ i = j
    /\ \A s, u \in Lwts : load[s] = load[u] /\ load[s] \in Lwts => s = u
    /\ \A s \in Lwts, c \in Chan : \A i \in DOMAIN queue[c] :
          queue[c][i] = load[s] => load[s] = Data

\* lwt_snd_thd stops a thread before lwt_snd, which may wait; for a careful
\* client, a thread that is on its way is there once and BLOCKED, and every
\* BLOCKED thread is either on its way or waits for a child that is alive and
\* will wake it.
NobodyLost ==
    /\ OnePlace
    /\ \A l \in Lwts :
        /\ Sent(l) => Linked(l) /\ state[l] = "BLOCKED"
        /\ state[l] = "BLOCKED" /\ ~Sent(l) =>
              /\ pc[l] = "join" /\ Linked(joiningto[l])
              /\ joinedfrom[joiningto[l]] = l /\ state[joiningto[l]] # "DEAD"

Waits(l) ==
    \/ pc[l] = "rcv" /\ queue[at[l]] # <<>>
    \/ pc[l] = "grp" /\ Pending(l)
    \/ pc[l] = "join" /\ state[l] = "RUNNABLE"

\* An lwt that waits in lwt_rcv or lwt_cgrp_wait gets out when there is a
\* message, and one that waits in lwt_join when the child has ended, through
\* the turns of its kthd and of its ring; a thread that was sent away
\* meanwhile has to be received first.
WaitersServed ==
    \A l \in Lwts : Waits(l) ~> (pc[l] = "user" \/ state[l] = "BLOCKED")
=============================================================================
