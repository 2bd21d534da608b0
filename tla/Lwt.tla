-------------------------------- MODULE Lwt --------------------------------
(***************************************************************************)
(* The cooperative thread core of lwt.c: creation, the run ring, directed  *)
(* and plain yields, lwt_die and lwt_join.                                 *)
(*                                                                         *)
(* One kernel thread runs everything, so an action is the code a thread    *)
(* executes between two context switches (__lwt_dispatch): there is        *)
(* nothing for another thread to see in between.  The thread descriptors   *)
(* (struct lwt) are the members of Slots, the memory blocks kalloc hands   *)
(* out; a block that kfree took back keeps its old contents.               *)
(*                                                                         *)
(* What the threads do is the client's choice, under this discipline: the  *)
(* handle lwt_create returns may be joined by one thread, its owner, which *)
(* is the creator unless the creator passed the handle to a thread it      *)
(* creates later (main.c:160); the main thread never dies.                 *)
(***************************************************************************)
EXTENDS Integers, Sequences, FiniteSets

CONSTANTS
    Slots,        \* the descriptors the allocator can hand out
    Main,         \* the descriptor of the main thread
    NULL,         \* the null pointer
    MaxTid,       \* bound: the largest thread id handed out
    SpinBound,    \* bound: how far the RUNNABLE count may drift below zero
    Recycle,      \* may kalloc return a block that held an earlier thread?
    JoinBlocked   \* may the client join a thread that is BLOCKED?

ASSUME LwtAssumption ==
    /\ Main \in Slots
    /\ NULL \notin Slots
    /\ IsFiniteSet(Slots)
    /\ MaxTid \in Nat /\ MaxTid >= 2
    /\ SpinBound \in Nat
    /\ Recycle \in BOOLEAN
    /\ JoinBlocked \in BOOLEAN

VARIABLES
    ring,             \* the circular run list, from current_thread on
    live,             \* the descriptors allocated and not yet freed
    state, flag, tid, ret, joinedfrom, joiningto,  \* fields of struct lwt
    pc,               \* where the thread's own code is
    owner,            \* the thread that holds the right to join
    lwt_tid_counter, nRunnable, nZombies, nBlocked,
    cpu,              \* "ok", "hung" in a scan, or "wild" (undefined)
    joined            \* history: what lwt_join returned for each thread id

counters == <<nRunnable, nZombies, nBlocked>>
links    == <<joinedfrom, joiningto>>
born     == <<flag, tid, lwt_tid_counter>>
vars == <<ring, live, state, ret, pc, owner, cpu, joined,
          counters, links, born>>

----------------------------------------------------------------------------
(* The run ring.  ring[1] is current_thread; ps_list_next_d goes to the   *)
(* right and the last element is ps_list_prev_d(current_thread).          *)

current_thread == ring[1]

Occurs(t, r) == \E k \in DOMAIN r : r[k] = t

NoDuplicates(r) == \A i, j \in DOMAIN r : r[i] = r[j] => i = j

InRing(t) == Occurs(t, ring)

Position(r, t) == CHOOSE k \in DOMAIN r : r[k] = t

\* r seen from its k-th element: current_thread = r[k].
RotateTo(r, k) ==
    [i \in 1..Len(r) |->
        IF i + k - 1 <= Len(r) THEN r[i + k - 1] ELSE r[i + k - 1 - Len(r)]]

\* r without its k-th element (ps_list_rem_d).
Drop(r, k) == [i \in 1..(Len(r) - 1) |-> IF i < k THEN r[i] ELSE r[i + 1]]

\* Mutant of StopsAt: the scan passes over DEAD threads only.
StopsAtBlocked(r, k, st) ==
    /\ st[r[k]] # "DEAD"
    /\ \A j \in 2..Len(r) : (j < k \/ k = 1) => st[r[j]] = "DEAD"

\* Mutant of StopsAt: the scan begins with the current thread.
StopsAtSelf(r, k, st) ==
    /\ st[r[k]] = "RUNNABLE"
    /\ \A j \in 1..(k - 1) : st[r[j]] # "RUNNABLE"

\* The scan stops at k: the first RUNNABLE thread after the current one,
\* the current one itself coming last.
StopsAt(r, k, st) ==
    /\ st[r[k]] = "RUNNABLE"
    /\ \A j \in 2..Len(r) : (j < k \/ k = 1) => st[r[j]] # "RUNNABLE"

SomeRunnable(r, st) == \E k \in DOMAIN r : st[r[k]] = "RUNNABLE"

NextRunnable(r, st) == CHOOSE k \in DOMAIN r : StopsAt(r, k, st)

\* __lwt_schedule, the thread states being st: no switch when the counter
\* says nobody is runnable; the scan never ends when nobody is.
lwt_schedule(st) ==
    /\ ring' = IF nRunnable # 0 /\ SomeRunnable(ring, st)
               THEN RotateTo(ring, NextRunnable(ring, st))
               ELSE ring
    /\ cpu' = IF nRunnable # 0 /\ ~SomeRunnable(ring, st) THEN "hung" ELSE cpu

\* lwt_yield(t): switches to t when t is RUNNABLE, else does nothing.
DirectedYield(t, st) ==
    ring' = IF st[t] = "RUNNABLE" THEN RotateTo(ring, Position(ring, t))
                                  ELSE ring

----------------------------------------------------------------------------
Init ==
    /\ ring = <<Main>>
    /\ live = {Main}
    /\ state = [s \in Slots |-> "RUNNABLE"]
    /\ flag = [s \in Slots |-> "DEFAULT"]
    /\ tid = [s \in Slots |-> IF s = Main THEN 1 ELSE 0]
    /\ ret = [s \in Slots |-> 0]
    /\ joinedfrom = [s \in Slots |-> NULL]
    /\ joiningto = [s \in Slots |-> NULL]
    /\ pc = [s \in Slots |-> "user"]
    /\ owner = [s \in Slots |-> NULL]
    /\ lwt_tid_counter = 2
    /\ nRunnable = 1 /\ nZombies = 0 /\ nBlocked = 0
    /\ cpu = "ok"
    /\ joined = [i \in 1..MaxTid |-> 0]

----------------------------------------------------------------------------
(* lwt_create.                                                            *)

\* The current thread runs code at p: its own ("user"), the loop of lwt_join
\* ("joining") or the code after lwt_die ("exited").
Running(p) == cpu = "ok" /\ pc[current_thread] = p

\* The blocks kalloc may return: one that was given back, or the next piece
\* of memory never used before (all alike, taken in a fixed order), which
\* holds zeroes.
NextFresh == CHOOSE s \in Slots : tid[s] = 0
Allocatable ==
    {s \in Slots \ live : IF tid[s] = 0 THEN s = NextFresh ELSE Recycle}

\* kalloc gives a block whose ret, joinedfrom and joiningto are what they
\* were: lwt_create initialises neither.
KeepLinks(s) == UNCHANGED <<links, ret>>

\* The handle h passed as data, if any, is now the new thread's to join.
HandOver(c, s, h) ==
    [owner EXCEPT ![s] = c, ![IF h = NULL THEN s ELSE h] =
                                 IF h = NULL THEN c ELSE s]

Create(s, f, h) ==
    LET c == current_thread IN
    /\ Running("user")
    /\ lwt_tid_counter < MaxTid
    /\ s \in Allocatable
    /\ h = NULL \/ (h \in live /\ owner[h] = c)
    /\ lwt_tid_counter' = lwt_tid_counter + 1
    /\ tid' = [tid EXCEPT ![s] = lwt_tid_counter']
    /\ state' = [state EXCEPT ![s] = "RUNNABLE"]
    /\ flag' = [flag EXCEPT ![s] = f]
    /\ pc' = [pc EXCEPT ![s] = "user"]
    /\ KeepLinks(s)
    /\ live' = live \union {s}
    /\ ring' = Append(ring, s)
    /\ owner' = HandOver(c, s, h)
    /\ nRunnable' = nRunnable + 1
    /\ nZombies' = nZombies + 1
    /\ UNCHANGED <<nBlocked, cpu, joined>>

----------------------------------------------------------------------------
(* lwt_join.                                                              *)

\* t is the current thread's to join, and lwt_join will not return at once
\* for LWT_NOJOIN.
MayJoin(t) ==
    /\ Running("user")
    /\ t \in live
    /\ owner[t] = current_thread
    /\ flag[t] = "DEFAULT"

\* Mutant of SetRelation: the joiner is not recorded in the child.
SetRelationOneWay(c, t) ==
    /\ joiningto' = [joiningto EXCEPT ![c] = t]
    /\ UNCHANGED joinedfrom

\* current_thread->joiningto = t; t->joinedfrom = current_thread.
SetRelation(c, t) ==
    /\ joiningto' = [joiningto EXCEPT ![c] = t]
    /\ joinedfrom' = [joinedfrom EXCEPT ![t] = c]

\* Mutant of Reap: the descriptor is freed but stays in the ring.
ReapLinked(t) ==
    /\ joined' = [joined EXCEPT ![tid[t]] = ret[t]]
    /\ live' = live \ {t}
    /\ owner' = [owner EXCEPT ![t] = NULL]
    /\ nZombies' = nZombies - 1
    /\ UNCHANGED ring

\* Mutant of Reap: the zombie count is left alone.
ReapUncounted(t) ==
    /\ joined' = [joined EXCEPT ![tid[t]] = ret[t]]
    /\ ring' = Drop(ring, Position(ring, t))
    /\ live' = live \ {t}
    /\ owner' = [owner EXCEPT ![t] = NULL]
    /\ UNCHANGED nZombies

\* Take the result, unlink and free the descriptor t.
Reap(t) ==
    /\ joined' = [joined EXCEPT ![tid[t]] = ret[t]]
    /\ ring' = Drop(ring, Position(ring, t))
    /\ live' = live \ {t}
    /\ owner' = [owner EXCEPT ![t] = NULL]
    /\ nZombies' = nZombies - 1

JoinDead(t) ==
    /\ MayJoin(t)
    /\ state[t] = "DEAD"
    /\ SetRelation(current_thread, t)
    /\ Reap(t)
    /\ nRunnable' = nRunnable - 1
    /\ UNCHANGED <<state, ret, pc, cpu, nBlocked, born>>

\* One round of the loop of lwt_join.
LoopBody(t, st) ==
    /\ nRunnable' = nRunnable - 1
    /\ nBlocked' = nBlocked + 1
    /\ DirectedYield(t, st)

JoinWait(t) ==
    LET c == current_thread IN
    /\ MayJoin(t)
    /\ state[t] # "DEAD"
    /\ state[t] = "BLOCKED" => JoinBlocked
    /\ SetRelation(c, t)
    /\ state' = [state EXCEPT ![c] = "BLOCKED"]
    /\ pc' = [pc EXCEPT ![c] = "joining"]
    /\ LoopBody(t, state')
    /\ UNCHANGED <<live, ret, owner, cpu, joined, nZombies, born>>

\* Control is back in the loop and the thread is still BLOCKED: another
\* round.  The bound stands for the counter running down without end.
JoinSpin ==
    LET c == current_thread IN
    /\ Running("joining")
    /\ state[c] = "BLOCKED"
    /\ nRunnable > -SpinBound
    /\ LoopBody(joiningto[c], state)
    /\ UNCHANGED <<live, state, ret, pc, owner, cpu, joined, nZombies,
                   links, born>>

\* The loop ends.  NTHD_RUNNABLE is incremented and decremented again.
JoinReturn ==
    LET c == current_thread IN
    /\ Running("joining")
    /\ state[c] # "BLOCKED"
    /\ Reap(joiningto[c])
    /\ pc' = [pc EXCEPT ![c] = "user"]
    /\ nBlocked' = nBlocked - 1
    /\ UNCHANGED <<state, ret, cpu, nRunnable, links, born>>

----------------------------------------------------------------------------
(* lwt_die.                                                               *)

\* Mutants of Wake: nobody, everybody, or into the state WAITING of lwt.h.
WakeNobody(c) == [state EXCEPT ![c] = "DEAD"]
WakeAll(c) ==
    [s \in Slots |-> IF s = c THEN "DEAD"
                     ELSE IF state[s] = "BLOCKED" THEN "RUNNABLE"
                     ELSE state[s]]
WakeWaiting(c) ==
    [s \in Slots |-> IF s = joinedfrom[c] THEN "WAITING"
                     ELSE IF s = c THEN "DEAD" ELSE state[s]]

\* The thread states after c died: c DEAD, its joiner runnable again.
Wake(c) ==
    [s \in Slots |-> IF s = joinedfrom[c] THEN "RUNNABLE"
                     ELSE IF s = c THEN "DEAD" ELSE state[s]]

DieJoinable ==
    LET c == current_thread IN
    /\ Running("user")
    /\ c # Main /\ flag[c] = "DEFAULT"
    /\ state' = Wake(c)
    /\ ret' = [ret EXCEPT ![c] = tid[c]]
    /\ pc' = [pc EXCEPT ![c] = "exited"]
    /\ lwt_schedule(state')
    /\ UNCHANGED <<live, owner, joined, counters, links, born>>

\* A LWT_NOJOIN thread leaves the ring; its state, the counters and its
\* memory stay as they are.  Alone runnable, it would find itself in the
\* scan, and run on past the end of __lwt_trampoline.
DieDetached ==
    LET c == current_thread
        others == Drop(ring, 1)
    IN
    /\ Running("user")
    /\ c # Main /\ flag[c] = "NOJOIN"
    /\ pc' = [pc EXCEPT ![c] = "exited"]
    /\ ring' = IF SomeRunnable(others, state)
               THEN RotateTo(others, CHOOSE k \in DOMAIN others :
                        /\ state[others[k]] = "RUNNABLE"
                        /\ \A j \in 1..(k - 1) :
                              state[others[j]] # "RUNNABLE")
               ELSE ring
    /\ cpu' = IF SomeRunnable(others, state) THEN cpu ELSE "wild"
    /\ UNCHANGED <<live, state, ret, owner, joined, counters, links, born>>

\* Control comes back to a thread that died: lwt_die returns, and so does
\* __lwt_trampoline, to no caller.
ReturnFromDie ==
    /\ Running("exited")
    /\ cpu' = "wild"
    /\ UNCHANGED <<ring, live, state, ret, pc, owner, joined, counters,
                   links, born>>

----------------------------------------------------------------------------
(* lwt_yield.                                                             *)

Yield ==
    /\ Running("user")
    /\ lwt_schedule(state)
    /\ UNCHANGED <<live, state, ret, pc, owner, joined, counters, links, born>>

YieldTo(t) ==
    /\ Running("user")
    /\ InRing(t)
    /\ DirectedYield(t, state)
    /\ UNCHANGED <<live, state, ret, pc, owner, cpu, joined, counters,
                   links, born>>

----------------------------------------------------------------------------
Next ==
    \/ \E s \in Slots, f \in {"DEFAULT", "NOJOIN"}, h \in Slots \union {NULL} :
          Create(s, f, h)
    \/ \E t \in Slots : JoinDead(t)
    \/ \E t \in Slots : JoinWait(t)
    \/ JoinSpin
    \/ JoinReturn
    \/ DieJoinable
    \/ DieDetached
    \/ ReturnFromDie
    \/ Yield
    \/ \E t \in Slots : YieldTo(t)

Spec == Init /\ [][Next]_vars

(***************************************************************************)
(* Fairness.  The library runs whatever thread is current, and only a call *)
(* of the client moves it on; it is the client's duty in a cooperative     *)
(* system that a thread which keeps running keeps calling lwt_yield(NULL), *)
(* and that a child which keeps running ends.  A thread inside lwt_join    *)
(* goes on by itself.                                                      *)
(***************************************************************************)
At(s, A) == current_thread = s /\ A

Fairness ==
    /\ WF_vars(JoinReturn)
    /\ \A s \in Slots : SF_vars(At(s, Yield))
    /\ \A s \in Slots \ {Main} : SF_vars(At(s, DieJoinable \/ DieDetached))

FairSpec == Spec /\ Fairness

----------------------------------------------------------------------------
(* Properties.                                                            *)

\* Every variable has its type.
TypeOK ==
    /\ ring \in Seq(Slots) /\ Len(ring) >= 1
    /\ live \in SUBSET Slots
    /\ state \in [Slots -> {"RUNNABLE", "DEAD", "BLOCKED"}]
    /\ flag \in [Slots -> {"DEFAULT", "NOJOIN"}]
    /\ tid \in [Slots -> 0..MaxTid]
    /\ ret \in [Slots -> 0..MaxTid]
    /\ joinedfrom \in [Slots -> Slots \union {NULL}]
    /\ joiningto \in [Slots -> Slots \union {NULL}]
    /\ pc \in [Slots -> {"user", "joining", "exited"}]
    /\ owner \in [Slots -> Slots \union {NULL}]
    /\ lwt_tid_counter \in 2..MaxTid
    /\ nRunnable \in Int /\ nZombies \in Int /\ nBlocked \in Int
    /\ cpu \in {"ok", "hung", "wild"}
    /\ joined \in [1..MaxTid -> 0..MaxTid]

\* A thread in the loop of lwt_join that control came back to while it is
\* still BLOCKED.
Spinning == pc[current_thread] = "joining" /\ state[current_thread] = "BLOCKED"

Waiting == {t \in live : pc[t] = "joining"}

\* The cpu always has a thread to run: the scans of __lwt_schedule and of
\* lwt_die find somebody, nothing returns past the end of a thread, and
\* control never comes back to a thread whose join cannot go on.
NeverStuck ==
    /\ cpu = "ok"
    /\ pc[current_thread] # "exited"
    /\ ~Spinning

\* lwt_join gives back the memory of a thread only after that thread died
\* (lwt.c:80 and 91): a joiner is woken by its own child and by no other.
ReapOnlyDead ==
    [][\A t \in live : t \notin live' =>
           state[t] = "DEAD" /\ joined'[tid[t]] = tid[t]]_vars

\* The threads in the ring; those that run their own code, or would; those that
\* lwt_join has to reap; and the LWT_NOJOIN threads that have ended.
Listed == {t \in Slots : InRing(t)}
Ready == {t \in live : pc[t] = "user"}
Dead == {t \in live : state[t] = "DEAD"}
Ended == {t \in live : flag[t] = "NOJOIN" /\ pc[t] = "exited"}

\* IS_RESET, main.c:46.
IsReset == nRunnable = 1 /\ nZombies = 0 /\ nBlocked = 0

\* What the counters of lwt_info count, which is not what two of them are named
\* for: BLOCKED, the threads in lwt_join; ZOMBIES, all threads in the ring but
\* one, dead or alive; RUNNABLE, the ready ones and the dead ones not yet
\* reaped.  RUNNABLE and ZOMBIES also count each LWT_NOJOIN thread that has
\* ended, for ever, as lwt_die (lwt.c:112-122) leaves them alone.  So the
\* assertion of the tests, IS_RESET, says that the main thread is the only one
\* left, and that no LWT_NOJOIN thread has ended before.
CountersAccount ==
    ~Spinning =>
        /\ nBlocked = Cardinality(Waiting)
        /\ nZombies = Cardinality(Listed) - 1 + Cardinality(Ended)
        /\ nRunnable = Cardinality(Ready) + Cardinality(Dead) + Cardinality(Ended)
        /\ IsReset <=> ring = <<Main>> /\ Ended = {}

\* Each thread that was created and neither reaped nor gone as LWT_NOJOIN is
\* in the ring, once, and nothing else is: no descriptor is lost to the
\* scheduler by the unlinking in lwt_join and lwt_die, and none that was
\* given back can be dispatched again.
RingMatches ==
    /\ NoDuplicates(ring)
    /\ \A t \in Slots :
          InRing(t) <=> t \in live /\ ~(flag[t] = "NOJOIN" /\ pc[t] = "exited")
RingExact == cpu # "wild" => RingMatches

\* A joiner waits for a thread that can still wake it: the child has not
\* been freed, it is not DEAD while the joiner is BLOCKED, and its joinedfrom
\* names the joiner, so the wakeup of lwt_die cannot be lost.
WakeupPending ==
    \A t \in Waiting :
        LET u == joiningto[t] IN
        /\ u \in live
        /\ joinedfrom[u] = t
        /\ state[t] = "BLOCKED" <=> state[u] # "DEAD"

\* Every thread that is RUNNABLE gets the cpu, as long as the threads
\* before it in the ring yield.
Scheduled ==
    \A s \in Slots :
        (InRing(s) /\ state[s] = "RUNNABLE") ~> (current_thread = s)

\* Every lwt_join returns.
JoinReturns == \A s \in Slots : (pc[s] = "joining") ~> (pc[s] # "joining")

----------------------------------------------------------------------------
(* The fork/join promise.  Without recycling a descriptor keeps its thread *)
(* id after it is freed, so it still says what became of that thread.      *)

Created(i) == \E s \in Slots : tid[s] = i
Desc(i) == CHOOSE s \in Slots : tid[s] = i

Phase(s) ==
    IF s \notin live THEN "joined"
    ELSE IF pc[s] = "joining" THEN "waiting"
    ELSE IF pc[s] = "user" THEN "ready"
    ELSE IF flag[s] = "NOJOIN" THEN "gone" ELSE "done"

PhaseOf == [i \in 1..MaxTid |-> IF Created(i) THEN Phase(Desc(i)) ELSE "none"]

Awaits(s) == IF pc[s] = "joining" THEN tid[joiningto[s]] ELSE 0

AwaitsOf == [i \in 1..MaxTid |-> IF Created(i) THEN Awaits(Desc(i)) ELSE 0]

ResultOf == [i \in 1..MaxTid |-> IF Created(i) THEN ret[Desc(i)] ELSE 0]

FJ == INSTANCE ForkJoin WITH
    phase <- PhaseOf, waitsFor <- AwaitsOf, result <- ResultOf,
    got <- joined, running <- tid[current_thread]

\* lwt.c implements ForkJoin: whatever the client calls, a thread inside
\* lwt_join never runs before its child has ended, no thread runs after its
\* end, and each lwt_join returns, once, what its child passed to lwt_die.
ForkJoinSpec == FJ!Spec
============================================================================
