--------------------------------- MODULE Sl ---------------------------------
(***************************************************************************)
(* The scheduler library of the port (scheddev/sl.h, sl.c) with its fixed  *)
(* priority policy (sl_mod_fprr.c), on one processor.                      *)
(*                                                                         *)
(* A thread runs while it is cpu.  The timer may take the processor away   *)
(* before any step and give it to the scheduler thread, so an action is    *)
(* one access to the lock word, one operation on the data the lock word    *)
(* protects, or one switch.  A switch hands a token to the kernel, taken   *)
(* earlier by cos_sched_sync; the kernel refuses the switch when a switch  *)
(* with a later token has been made meanwhile.                             *)
(*                                                                         *)
(* Left out: what cos_sched_rcv reports (threads made by sl_thd_alloc have *)
(* no receive end-point, so nothing), timeouts (they decide when the timer *)
(* strikes, which here it may do at any time), and the idle thread, which  *)
(* the policy never lets the library switch to.                            *)
(***************************************************************************)
EXTENDS Integers, Sequences, FiniteSets

CONSTANTS
    Thread,         \* what sl_thd_alloc makes for the client
    Sched,          \* sched_thd, the thread that runs cos_init
    Prios,          \* the priorities the client sets
    Wakes,          \* <<w, t>>: the client lets w wake t up
    Blocks,         \* the threads that call sl_thd_block
    Directed,       \* whether the client yields to a thread by its id
    MaxStrikes,     \* how often the timer strikes between two calls
    None

Everyone == Thread \union {Sched}
Lowest == 31        \* SL_FPRR_LOWEST

\* A thread has at most one other that wakes it up; that one sees whether
\* its last wake-up is still to be used, and does not call again before.
ASSUME SlAssumption ==
    /\ Sched \notin Thread /\ None \notin Everyone
    /\ Prios \subseteq 0..Lowest
    /\ Wakes \subseteq Thread \X Thread /\ Blocks \subseteq Thread
    /\ \A v, w \in Wakes : v[2] = w[2] => v = w
    /\ \A w \in Wakes : w[1] # w[2]
    /\ Directed \in BOOLEAN /\ MaxStrikes \in Nat

VARIABLES
    lock,           \* sl_cs: owner and contention
    state, prio,    \* of each thread
    threads,        \* the run queues of the policy
    cpu, strikes,   \* who runs; how often the timer struck since the last call
    fresh, later,   \* the tokens the kernel accepts; those taken since each
    pc, op,         \* each thread's place and call
    cached,         \* its copy of the lock word
    to,             \* the thread it is about to switch to
    fault           \* the assertion that failed

kernel == <<cpu, strikes, fresh, later>>
data == <<state, prio, threads>>
local == <<pc, op, cached, to>>
vars == <<lock, data, kernel, local, fault>>

Free == [owner |-> None, contention |-> FALSE]
Call(what, whom) == [what |-> what, whom |-> whom]
Nothing == Call("schedule", None)

Tokens == Everyone \X {"lock", "pick"}

Init ==
    /\ lock = Free
    /\ state = [t \in Thread |-> "FREE"]
    /\ prio = [t \in Thread |-> Lowest]
    /\ threads = [p \in Prios |-> <<>>]
    /\ cpu = Sched /\ strikes = 0
    /\ fresh = {}
    /\ later = [tok \in Tokens |-> {}]
    /\ pc = [t \in Everyone |-> IF t = Sched THEN "init" ELSE "back"]
    /\ op = [t \in Everyone |-> Nothing]
    /\ cached = [t \in Everyone |-> Free]
    /\ to = [t \in Everyone |-> None]
    /\ fault = "none"

\* t has the processor and is at the given place.
At(t, here) == cpu = t /\ pc[t] = here /\ fault = "none"
Goto(t, there) == pc' = [pc EXCEPT ![t] = there]

-----------------------------------------------------------------------------
(* The kernel.                                                             *)

Forget(toks) ==
    /\ fresh' = fresh \ toks
    /\ later' = [x \in Tokens |-> IF x \in toks THEN {} ELSE later[x] \ toks]

\* cos_sched_sync.
Sync(tok) ==
    /\ fresh' = fresh \union {tok}
    /\ later' = [x \in Tokens |->
                    IF x \in fresh \ {tok} THEN later[x] \union {tok} ELSE {}]

\* cos_defswitch to u: the token and all taken before it are used up.
Switch(u, tok) ==
    /\ tok \in fresh
    /\ cpu' = u /\ strikes' = strikes
    /\ Forget({tok} \union {x \in fresh : tok \in later[x]})

Refused(tok) == tok \notin fresh /\ UNCHANGED kernel

\* The timer interrupts a thread and runs the scheduler thread.
Timer ==
    /\ fault = "none" /\ cpu # Sched /\ strikes < MaxStrikes
    /\ cpu' = Sched /\ strikes' = strikes + 1
    /\ UNCHANGED <<lock, data, fresh, later, local, fault>>

-----------------------------------------------------------------------------
(* The policy: a queue of threads for each priority.                       *)

Members(s) == {s[i] : i \in DOMAIN s}
Listed(t) == \E p \in Prios : t \in Members(threads[p])
Without(s, t) ==
    IF t \notin Members(s) THEN s
    ELSE LET i == CHOOSE j \in DOMAIN s : s[j] = t
         IN  SubSeq(s, 1, i - 1) \o SubSeq(s, i + 1, Len(s))

\* Mutant of Remove: sl_mod_block leaves the thread where it is.
RemoveNobody(t) == threads' = threads

Remove(t) == threads' = [p \in Prios |-> Without(threads[p], t)]
AddLast(t) == threads' = [threads EXCEPT ![prio[t]] = Append(@, t)]
\* Mutants of ToBack: the thread goes to the front; it stays where it was, too.
ToFront(t, p) ==
    threads' = [q \in Prios |->
        IF q = p THEN <<t>> \o Without(threads[q], t) ELSE Without(threads[q], t)]
ToBackTwice(t, p) == threads' = [threads EXCEPT ![p] = Append(@, t)]

ToBack(t, p) ==
    threads' = [q \in Prios |->
        IF q = p THEN Append(Without(threads[q], t), t) ELSE Without(threads[q], t)]

\* sl_mod_schedule: the first thread of the best queue that has one.
Best == {p \in Prios : /\ threads[p] # <<>>
                       /\ \A q \in Prios : q < p => threads[q] = <<>>}
First == Head(threads[CHOOSE p \in Best : TRUE])

-----------------------------------------------------------------------------
(* cos_init, before any other thread runs.                                 *)

Alloc(t) ==
    /\ At(Sched, "init") /\ state[t] = "FREE"
    /\ state' = [state EXCEPT ![t] = "RUNNABLE"]
    /\ UNCHANGED <<lock, prio, threads, kernel, local, fault>>

\* Mutant of ParamSet: the priority is one off.
ParamSetOff(t, p) ==
    /\ At(Sched, "init") /\ state[t] # "FREE"
    /\ prio' = [prio EXCEPT ![t] = p + 1]
    /\ ToBack(t, p)
    /\ UNCHANGED <<lock, state, kernel, local, fault>>

\* sl_thd_param_set: only now is the thread in a queue.  It may be set again.
ParamSet(t, p) ==
    /\ At(Sched, "init") /\ state[t] # "FREE"
    /\ prio' = [prio EXCEPT ![t] = p]
    /\ ToBack(t, p)
    /\ UNCHANGED <<lock, state, kernel, local, fault>>

\* The client has started some thread; one that never blocks, if it has any.
StartLoop ==
    /\ At(Sched, "init")
    /\ \E t \in Thread : Listed(t) /\ (t \notin Blocks \/ Blocks = Thread)
    /\ Goto(Sched, "sync")
    /\ UNCHANGED <<lock, data, kernel, op, cached, to, fault>>

-----------------------------------------------------------------------------
(* The client's threads call the library.                                  *)

Returned(t) ==
    /\ At(t, "back") /\ t \in Thread
    /\ Goto(t, "run")
    /\ UNCHANGED <<lock, data, kernel, op, cached, to, fault>>

Started(u) == prio[u] \in Prios

MayCall(t, what, u) ==
    \/ what = "block" /\ t \in Blocks /\ u = None
    \/ what = "yield" /\ u = None
    \/ what = "yieldto" /\ Directed /\ u \in Thread \ {t} /\ Started(u)
    \/ what = "wakeup" /\ <<t, u>> \in Wakes /\ state[u] \in {"RUNNABLE", "BLOCKED"}

ClientCall(t) ==
    /\ At(t, "run") /\ t \in Thread
    /\ \E what \in {"block", "yield", "yieldto", "wakeup"}, u \in Thread \union {None} :
        MayCall(t, what, u) /\ op' = [op EXCEPT ![t] = Call(what, u)]
    /\ Goto(t, "sync")
    /\ strikes' = 0
    /\ UNCHANGED <<lock, data, cpu, fresh, later, cached, to, fault>>

-----------------------------------------------------------------------------
(* sl_cs_enter and sl_cs_enter_contention.                                 *)

TakeToken(t) ==
    /\ At(t, "sync")
    /\ Sync(<<t, "lock">>) /\ UNCHANGED <<cpu, strikes>>
    /\ Goto(t, "read")
    /\ UNCHANGED <<lock, data, op, cached, to, fault>>

\* Mutant of ReadLock: the contention bit is tested instead of the owner.
ReadLockMark(t) ==
    /\ At(t, "read")
    /\ cached' = [cached EXCEPT ![t] = lock]
    /\ Goto(t, IF lock.contention THEN "help" ELSE "take")
    /\ UNCHANGED <<lock, data, kernel, op, to, fault>>

ReadLock(t) ==
    /\ At(t, "read")
    /\ cached' = [cached EXCEPT ![t] = lock]
    /\ IF lock.owner = t
       THEN fault' = "recursive lock" /\ pc' = pc
       ELSE /\ Goto(t, IF lock.owner = None THEN "take"
                       ELSE IF lock.contention THEN "help" ELSE "mark")
            /\ UNCHANGED fault
    /\ UNCHANGED <<lock, data, kernel, op, to>>

\* Where a thread goes that has the lock.
Inside(t) ==
    CASE op[t].what \in {"block", "wakeup"} -> "body"
      [] op[t].what = "yield" -> "list"
      [] OTHER -> "pick"

TakeLock(t) ==
    /\ At(t, "take")
    /\ IF lock = cached[t]
       THEN /\ lock' = [cached[t] EXCEPT !.owner = t]
            /\ Forget({<<t, "lock">>})
            /\ Goto(t, Inside(t))
       ELSE /\ Goto(t, "sync")
            /\ UNCHANGED <<lock, fresh, later>>
    /\ cached' = [cached EXCEPT ![t] = Free]
    /\ UNCHANGED <<data, cpu, strikes, op, to, fault>>

MarkContention(t) ==
    /\ At(t, "mark")
    /\ IF lock = cached[t]
       THEN lock' = [lock EXCEPT !.contention = TRUE] /\ Goto(t, "help")
       ELSE lock' = lock /\ Goto(t, "sync")
    /\ UNCHANGED <<data, kernel, op, cached, to, fault>>

\* Switch to the owner, and look again when the processor comes back.
HelpOwner(t) ==
    /\ At(t, "help")
    /\ \/ Switch(cached[t].owner, <<t, "lock">>)
       \/ Refused(<<t, "lock">>)
    /\ Goto(t, "sync")
    /\ cached' = [cached EXCEPT ![t] = Free]
    /\ UNCHANGED <<lock, data, op, to, fault>>

-----------------------------------------------------------------------------
(* Inside of the critical section.                                         *)

\* sl_thd_block sets the state; a wake-up that was early ends it here.
BlockState(t) ==
    /\ At(t, "body") /\ op[t].what = "block"
    /\ \/ /\ state[t] = "WOKEN"
          /\ state' = [state EXCEPT ![t] = "RUNNABLE"]
          /\ Goto(t, "exit")
       \/ /\ state[t] = "RUNNABLE"
          /\ state' = [state EXCEPT ![t] = "BLOCKED"]
          /\ Goto(t, "list")
    /\ UNCHANGED <<lock, prio, threads, kernel, op, cached, to, fault>>

\* sl_thd_wakeup sets the state of its target.
WakeupState(t) ==
    /\ At(t, "body") /\ op[t].what = "wakeup"
    /\ LET u == op[t].whom IN
       \/ /\ state[u] = "RUNNABLE"
          /\ state' = [state EXCEPT ![u] = "WOKEN"]
          /\ Goto(t, "exit") /\ fault' = fault
       \/ /\ state[u] = "BLOCKED"
          /\ state' = [state EXCEPT ![u] = "RUNNABLE"]
          /\ Goto(t, "list") /\ fault' = fault
       \/ /\ state[u] \notin {"RUNNABLE", "BLOCKED"}
          /\ fault' = "woken twice" /\ UNCHANGED <<state, pc>>
    /\ UNCHANGED <<lock, prio, threads, kernel, op, cached, to>>

\* sl_mod_block, sl_mod_wakeup, sl_mod_yield.
\* Mutant of UpdateQueue: a yield leaves by sl_cs_exit and does not schedule.
UpdateQueueOnly(t) ==
    /\ At(t, "list")
    /\ \/ op[t].what = "block" /\ Remove(t) /\ Goto(t, "pick")
       \/ op[t].what = "wakeup" /\ AddLast(op[t].whom) /\ Goto(t, "pick")
       \/ op[t].what = "yield" /\ ToBack(t, prio[t]) /\ Goto(t, "exit")
    /\ UNCHANGED <<lock, state, prio, kernel, op, cached, to, fault>>

UpdateQueue(t) ==
    /\ At(t, "list")
    /\ \/ op[t].what = "block" /\ Remove(t) /\ Goto(t, "pick") /\ fault' = fault
       \/ /\ op[t].what = "wakeup" /\ ~Listed(op[t].whom)
          /\ AddLast(op[t].whom) /\ Goto(t, "pick") /\ fault' = fault
       \/ /\ op[t].what = "wakeup" /\ Listed(op[t].whom)
          /\ fault' = "listed twice" /\ UNCHANGED <<threads, pc>>
       \/ op[t].what = "yield" /\ ToBack(t, prio[t]) /\ Goto(t, "pick") /\ fault' = fault
    /\ UNCHANGED <<lock, state, prio, kernel, op, cached, to>>

\* sl_cs_exit_schedule_nospin_arg up to its exit: a token, then the choice.
Pick(t) ==
    /\ At(t, "pick")
    /\ Sync(<<t, "pick">>) /\ UNCHANGED <<cpu, strikes>>
    /\ LET u == op[t].whom
           wanted == op[t].what = "yieldto" /\ state[u] = "RUNNABLE"
       IN  IF ~wanted /\ Best = {}
           THEN fault' = "nobody to run" /\ UNCHANGED <<pc, to>>
           ELSE /\ to' = [to EXCEPT ![t] = IF wanted THEN u ELSE First]
                /\ Goto(t, "exit")
                /\ fault' = fault
    /\ UNCHANGED <<lock, data, op, cached>>

-----------------------------------------------------------------------------
(* sl_cs_exit and sl_cs_exit_contention, and the switch after them.        *)

AfterExit(t) == IF to[t] = None THEN "back" ELSE "switch"

\* The token is taken just before; only the switch to Sched uses it.
ReadToExit(t) ==
    /\ At(t, "exit")
    /\ Sync(<<t, "lock">>) /\ UNCHANGED <<cpu, strikes>>
    /\ cached' = [cached EXCEPT ![t] = lock]
    /\ Goto(t, "release")
    /\ UNCHANGED <<lock, data, op, to, fault>>

Release(t) ==
    /\ At(t, "release")
    /\ IF lock # cached[t]
       THEN Goto(t, "exit") /\ UNCHANGED <<lock, fresh, later>>
       ELSE /\ lock' = Free
            /\ IF cached[t].contention
               THEN Goto(t, "defer") /\ UNCHANGED <<fresh, later>>
               ELSE Goto(t, AfterExit(t)) /\ Forget({<<t, "lock">>})
    /\ cached' = [cached EXCEPT ![t] = Free]
    /\ UNCHANGED <<data, cpu, strikes, op, to, fault>>

\* Somebody waits for the lock: the scheduler thread decides who is next.
Defer(t) ==
    /\ At(t, "defer")
    /\ \/ Switch(Sched, <<t, "lock">>)
       \/ Refused(<<t, "lock">>)
    /\ Goto(t, AfterExit(t))
    /\ UNCHANGED <<lock, data, op, cached, to, fault>>

\* Mutant of SwitchMade: the token is taken just before the switch.
SwitchLate(t) ==
    /\ At(t, "switch")
    /\ cpu' = to[t] /\ Forget(fresh) /\ UNCHANGED strikes
    /\ Goto(t, IF t = Sched THEN "sync" ELSE "back")
    /\ to' = [to EXCEPT ![t] = None]
    /\ op' = [op EXCEPT ![t] = Nothing]
    /\ UNCHANGED <<lock, data, cached, fault>>

\* The switch; when it is refused, a thread schedules again, the scheduler
\* thread goes round its loop anyway.
SwitchMade(t) ==
    /\ At(t, "switch")
    /\ Switch(to[t], <<t, "pick">>)
    /\ Goto(t, IF t = Sched THEN "sync" ELSE "back")
    /\ to' = [to EXCEPT ![t] = None]
    /\ op' = [op EXCEPT ![t] = Nothing]
    /\ UNCHANGED <<lock, data, cached, fault>>

SwitchRefused(t) ==
    /\ At(t, "switch")
    /\ Refused(<<t, "pick">>)
    /\ Goto(t, "sync")
    /\ to' = [to EXCEPT ![t] = None]
    /\ op' = [op EXCEPT ![t] = Nothing]
    /\ UNCHANGED <<lock, data, cached, fault>>

-----------------------------------------------------------------------------

Boot ==
    \/ StartLoop
    \/ \E t \in Thread : Alloc(t) \/ \E p \in Prios : ParamSet(t, p)

Step(t) ==
    \/ Returned(t) \/ ClientCall(t)
    \/ TakeToken(t) \/ ReadLock(t) \/ TakeLock(t) \/ MarkContention(t) \/ HelpOwner(t)
    \/ BlockState(t) \/ WakeupState(t) \/ UpdateQueue(t) \/ Pick(t)
    \/ ReadToExit(t) \/ Release(t) \/ Defer(t)
    \/ SwitchMade(t) \/ SwitchRefused(t)

Next == Boot \/ Timer \/ \E t \in Everyone : Step(t)

Spec == Init /\ [][Next]_vars

\* The processor goes on, and the client's threads keep calling the library.
FairSpec == Spec /\ WF_vars(\E t \in Everyone : Step(t))

-----------------------------------------------------------------------------
(* Properties.                                                             *)

Places == {"init", "back", "run", "sync", "read", "take", "mark", "help", "body",
           "list", "pick", "exit", "release", "defer", "switch"}

Words == [owner : Everyone \union {None}, contention : BOOLEAN]

\* Every variable has its type.
TypeOK ==
    /\ lock \in Words
    /\ state \in [Thread -> {"FREE", "BLOCKED", "WOKEN", "RUNNABLE"}]
    /\ prio \in [Thread -> Prios \union {Lowest}]
    /\ threads \in [Prios -> Seq(Thread)]
    /\ cpu \in Everyone /\ strikes \in 0..MaxStrikes
    /\ fresh \subseteq Tokens
    /\ later \in [Tokens -> SUBSET Tokens]
    /\ pc \in [Everyone -> Places]
    /\ op \in [Everyone -> [what : {"schedule", "block", "wakeup", "yield", "yieldto"},
                            whom : Thread \union {None}]]
    /\ cached \in [Everyone -> Words]
    /\ to \in [Everyone -> Thread \union {None}]
    /\ fault \in {"none", "recursive lock", "woken twice", "listed twice", "nobody to run"}

Holding == {"body", "list", "pick", "exit", "release"}

\* The critical section (sl.h:50): whoever is between sl_cs_enter and the
\* compare-and-swap of sl_cs_exit is the owner in the lock word, whatever the
\* timer interrupts and whoever sets the contention bit meanwhile.
OwnerInside == \A t \in Everyone : pc[t] \in Holding <=> lock.owner = t

\* A change of a run queue that is half done: the state is set, the list not.
Pending(t) ==
    \E u \in Thread : pc[u] = "list" /\
        \/ op[u].what = "block" /\ u = t
        \/ op[u].what = "wakeup" /\ op[u].whom = t

\* The run queues (sl_mod_fprr.c:34-55) hold each started thread that is not
\* BLOCKED, once and at its priority, and nobody else.
QueuesExact ==
    /\ \A t \in Thread, p \in Prios :
        t \in Members(threads[p])
            <=> Started(t) /\ p = prio[t] /\ (state[t] # "BLOCKED" <=> ~Pending(t))
    /\ \A p \in Prios : \A i, j \in DOMAIN threads[p] :
        threads[p][i] = threads[p][j] => i = j

\* No assertion of the library fails (sl.c:25, sl.c:92, sl_mod_fprr.c:29 and
\* 43) under a client that keeps one thread running and wakes nobody twice.
NoFault == fault = "none"

\* The assertion of sl_mod_schedule (sl_mod_fprr.c:29): some thread can run.
SomebodyRuns == fault # "nobody to run"

\* Without directed yields the kthds of a program take turns as its lwts do:
\* a thread that the timer takes out of its own code gets the processor back
\* before any other runs code of its own.
TakeTurns == Cardinality({t \in Thread : pc[t] = "run"}) <= 1

AtBest(t) == \A p \in Prios : prio[t] <= p

\* A thread in the best queue comes back to its own code, as the others of
\* its priority yield or block, unless it is on its way into a block.
Served ==
    \A t \in Thread :
        (pc[Sched] # "init" /\ Listed(t) /\ AtBest(t))
            ~> (state[t] = "BLOCKED" \/ (cpu = t /\ pc[t] = "run"))

-----------------------------------------------------------------------------
(* What block and wakeup promise.                                          *)

Park == INSTANCE Parking WITH
    parked <- {t \in Thread : state[t] = "BLOCKED"},
    permit <- {t \in Thread : state[t] = "WOKEN"},
    active <- IF cpu # Sched /\ pc[cpu] = "run" THEN cpu ELSE None

\* A wake-up is neither lost nor counted twice, and no switch, however old
\* the decision behind it, brings a blocked thread back to its own code.
ParkingSpec == Park!Spec
=============================================================================
