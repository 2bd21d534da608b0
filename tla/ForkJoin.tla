------------------------------ MODULE ForkJoin ------------------------------
(***************************************************************************)
(* What lwt.c promises its client: fork and join of threads that share one *)
(* processor.  Threads are named by their ids; there is no ring, no        *)
(* descriptor, no counter and no flag, and any thread that can go on may   *)
(* be the next to run.                                                     *)
(***************************************************************************)
EXTENDS Naturals

CONSTANT MaxTid   \* bound: the largest thread id

Tids == 1..MaxTid

VARIABLES
    phase,    \* what has become of each thread
    waitsFor, \* the thread a waiting thread joins (0 for the others)
    result,   \* what a thread passed to lwt_die
    got,      \* what the lwt_join of a thread returned
    running   \* the thread on the processor

vars == <<phase, waitsFor, result, got, running>>

Phases == {"none", "ready", "waiting", "done", "joined", "gone"}

Init ==
    /\ phase = [i \in Tids |-> IF i = 1 THEN "ready" ELSE "none"]
    /\ waitsFor = [i \in Tids |-> 0]
    /\ result = [i \in Tids |-> 0]
    /\ got = [i \in Tids |-> 0]
    /\ running = 1

\* A thread can go on unless it ended, or waits for a thread that has not.
CanRun(i) ==
    \/ phase[i] = "ready"
    \/ phase[i] = "waiting" /\ phase[waitsFor[i]] = "done"

\* The running thread gives the processor to one that can run.
Switch == running' \in {i \in Tids : CanRun(i)'}

Ready == phase[running] = "ready"

Fork ==
    /\ Ready
    /\ \E i \in Tids :
          phase[i] = "none" /\ phase' = [phase EXCEPT ![i] = "ready"]
    /\ UNCHANGED <<waitsFor, result, got, running>>

Wait(i) ==
    /\ Ready
    /\ phase[i] \in {"ready", "waiting"} /\ i # running
    /\ phase' = [phase EXCEPT ![running] = "waiting"]
    /\ waitsFor' = [waitsFor EXCEPT ![running] = i]
    /\ Switch
    /\ UNCHANGED <<result, got>>

Finish ==
    /\ Ready
    /\ phase' = [phase EXCEPT ![running] = "done"]
    /\ result' \in {[result EXCEPT ![running] = v] : v \in Tids}
    /\ Switch
    /\ UNCHANGED <<waitsFor, got>>

\* A thread nobody may join ends.
Leave ==
    /\ Ready
    /\ phase' = [phase EXCEPT ![running] = "gone"]
    /\ Switch
    /\ UNCHANGED <<waitsFor, result, got>>

\* lwt_join returns the result of thread i, once.
Collect(i) ==
    /\ phase[i] = "done"
    /\ Ready \/ (phase[running] = "waiting" /\ waitsFor[running] = i)
    /\ phase' = [phase EXCEPT ![i] = "joined", ![running] = "ready"]
    /\ waitsFor' = [waitsFor EXCEPT ![running] = 0]
    /\ got' = [got EXCEPT ![i] = result[i]]
    /\ UNCHANGED <<result, running>>

Hand == Ready /\ Switch /\ UNCHANGED <<phase, waitsFor, result, got>>

Next ==
    \/ Fork
    \/ \E i \in Tids : Wait(i)
    \/ Finish
    \/ Leave
    \/ \E i \in Tids : Collect(i)
    \/ Hand

Spec == Init /\ [][Next]_vars
=============================================================================
