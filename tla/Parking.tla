------------------------------ MODULE Parking -------------------------------
(***************************************************************************)
(* What sl_thd_block and sl_thd_wakeup promise their callers, whatever the *)
(* lock word, the run queues and the timer do: a wake-up that comes before *)
(* the block is kept for it, one that comes after it ends it, and a thread *)
(* whose block has not ended runs none of its own code.                    *)
(***************************************************************************)
EXTENDS Naturals

CONSTANTS Thread, None

VARIABLES
    parked,     \* the threads in a block that has not ended
    permit,     \* the threads whose wake-up came before the block
    active      \* the thread that runs code of the client, or None

Init == parked = {} /\ permit = {} /\ active = None

\* sl_thd_block: with a permit it returns at once.
Park(t) ==
    /\ active = None /\ t \notin parked
    /\ \/ t \in permit /\ permit' = permit \ {t} /\ parked' = parked
       \/ t \notin permit /\ parked' = parked \union {t} /\ permit' = permit
    /\ active' = None

\* sl_thd_wakeup of t; a second one before the block is not allowed.
Unpark(t) ==
    /\ active = None /\ t \notin permit
    /\ \/ t \in parked /\ parked' = parked \ {t} /\ permit' = permit
       \/ t \notin parked /\ permit' = permit \union {t} /\ parked' = parked
    /\ active' = None

\* The processor comes to code of the client, or leaves it.
Enter(t) ==
    /\ active = None /\ t \notin parked
    /\ active' = t
    /\ UNCHANGED <<parked, permit>>

Leave ==
    /\ active # None
    /\ active' = None
    /\ UNCHANGED <<parked, permit>>

Next == Leave \/ \E t \in Thread : Park(t) \/ Unpark(t) \/ Enter(t)

Spec == Init /\ [][Next]_<<parked, permit, active>>
=============================================================================
