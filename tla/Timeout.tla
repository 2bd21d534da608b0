------------------------------- MODULE Timeout ------------------------------
(***************************************************************************)
(* The periodic timeout of the scheduler (sl.h, sl.c and the policy        *)
(* sl_timer_mod_periodic.c): it is set once, when sl_init calls            *)
(* sl_timeout_mod_init, and each scheduling that sees it has come sets the *)
(* next.  Times are counted in cycles of 64 bits, which do not come round; *)
(* sl_plugins.h:48 and sl.h:262 show that microsec_t and cycles_t are used *)
(* for the same times.  How the kernel rounds a timeout (tcap_cyc2time) is *)
(* left out.                                                               *)
(***************************************************************************)
EXTENDS Integers, TLAPS

CONSTANTS
    SL_PERIOD_US,    \* the period, in microseconds
    cyc_per_usec,    \* of the processor
    Start,           \* what sl_now returns when the timeout is first set
    Delays           \* how long it may be before time is looked at again

VARIABLES
    now,           \* the time
    period,        \* the period, in cycles
    timer_next     \* the time of the timeout

vars == <<now, period, timer_next>>

sl_usec2cyc(usec) == usec * cyc_per_usec

\* The next timeout after one that has come, whichever period it is.
sl_timeout_mod_expended(t, oldtimeout) == t + period - ((t - oldtimeout) % period)

\* What a scheduling at time t makes of timer_next; 0 is no timeout.
NextTimer(t) ==
    IF timer_next # 0 /\ timer_next - t <= 0
    THEN sl_timeout_mod_expended(t, timer_next)
    ELSE timer_next

\* sl_timeout_mod_init: sl_timeout_period takes microseconds, and the first
\* timeout is a period of cycles from now.
Init ==
    /\ now = Start
    /\ period = sl_usec2cyc(SL_PERIOD_US)
    /\ timer_next = now + period

\* Time goes on, by less than a period or by many.
Pass ==
    /\ \E d \in Delays : now' = now + d
    /\ UNCHANGED <<period, timer_next>>

\* sl_cs_exit_schedule_nospin_arg, of whichever thread.
Schedule ==
    /\ timer_next' = NextTimer(now)
    /\ UNCHANGED <<now, period>>

Next == Pass \/ Schedule

Spec == Init /\ [][Next]_vars

----------------------------------------------------------------------------
(* Properties.                                                            *)

\* t is one of the times that start at first and are a period apart.
OnGrid(t, first) == \E k \in Nat : t = first + k * period

\* sl_timer_mod_periodic.c:12-14: however late the schedulings are, and however
\* many periods that costs, the timeout is always one of the times that are
\* whole periods after the start, and no more than a period away.
OnTime ==
    /\ period = sl_usec2cyc(SL_PERIOD_US)
    /\ OnGrid(timer_next, Start) /\ timer_next <= now + period

\* sl.h:184-185: a timeout is put off only when it has come (the assertion of
\* sl_timer_mod_periodic.c:10), and then to a time that has not: it can be
\* neither skipped by a scheduling before it nor set in the past.
NeverPutOff ==
    [][timer_next' # timer_next => timer_next <= now /\ now < timer_next']_vars

----------------------------------------------------------------------------
(* Proofs.                                                                *)

\* Division with a remainder, as the times need it.
LEMMA Split ==
    ASSUME NEW d \in Nat, NEW p \in Nat \ {0}
    PROVE  /\ d % p \in 0..(p - 1)
           /\ \E q \in Nat : d = q * p + (d % p)
<1>1. d % p \in 0..(p - 1) /\ d = p * (d \div p) + (d % p)
  OBVIOUS
<1>2. d \div p \in Nat
  OBVIOUS
<1>3. d = (d \div p) * p + (d % p)
  BY <1>1, <1>2
<1> QED
  BY <1>1, <1>2, <1>3

\* The sum of sl_timeout_mod_expended, with the quotient times the period as m.
LEMMA Shift ==
    ASSUME NEW a \in Int, NEW b \in Int, NEW p \in Int, NEW m \in Int, NEW r \in Int,
           a - b = m + r
    PROVE  a + p - r = b + (m + p)
  OBVIOUS

\* However late a scheduling sees that its timeout has come, and however many
\* periods that has cost (sl_timer_mod_periodic.c:12), the next timeout lies
\* ahead of now, by a period at most, and on the grid of the one before.
THEOREM TimeoutOnGrid ==
    ASSUME NEW t \in Nat, timer_next \in Nat \ {0}, period \in Nat \ {0},
           timer_next <= t + period
    PROVE  /\ NextTimer(t) \in Nat /\ t < NextTimer(t) /\ NextTimer(t) <= t + period
           /\ OnGrid(NextTimer(t), timer_next)
<1>1. CASE timer_next <= t
  <2> DEFINE d == t - timer_next
             r == d % period
             next == t + period - r
  <2>1. d \in Nat /\ r \in 0..(period - 1) /\ \E q \in Nat : d = q * period + r
    <3>1. d \in Nat
      BY <1>1
    <3> HIDE DEF d
    <3> QED
      BY ONLY <3>1, Split, period \in Nat \ {0}
  <2>2. PICK q \in Nat : d = q * period + r
    BY <2>1
  <2>3. (q + 1) * period = q * period + period /\ q + 1 \in Nat /\ q * period \in Nat
    OBVIOUS
  <2>4. next = timer_next + (q + 1) * period
    <3>1. r \in Int /\ q * period \in Int
      BY <2>1, <2>3
    <3>2. t + period - r = timer_next + (q * period + period)
      <4> HIDE DEF r
      <4>1. t - timer_next = q * period + r
        BY <2>2
      <4> QED
        BY ONLY <3>1, <4>1, Shift, t \in Nat, timer_next \in Nat, period \in Nat
    <3> QED
      BY <2>3, <3>2
  <2>5. next \in Nat /\ t < next /\ next <= t + period
    BY <2>1
  <2>6. NextTimer(t) = next
    BY <1>1 DEF NextTimer, sl_timeout_mod_expended
  <2> QED
    BY <2>3, <2>4, <2>5, <2>6 DEF OnGrid
<1>2. CASE t < timer_next
  <2>1. NextTimer(t) = timer_next
    BY <1>2 DEF NextTimer
  <2>2. timer_next = timer_next + 0 * period
    OBVIOUS
  <2> QED
    BY <1>2, <2>1, <2>2 DEF OnGrid
<1> QED
  BY <1>1, <1>2

\* Being on a grid passes from one time to the next.
LEMMA GridSteps ==
    ASSUME NEW first \in Nat, period \in Nat, NEW t, NEW u,
           OnGrid(t, first), OnGrid(u, t)
    PROVE  OnGrid(u, first)
<1>1. PICK j \in Nat : t = first + j * period
  BY DEF OnGrid
<1>2. PICK k \in Nat : u = t + k * period
  BY DEF OnGrid
<1>3. (j + k) * period = j * period + k * period /\ j + k \in Nat
  OBVIOUS
<1>4. j * period \in Nat /\ k * period \in Nat
  OBVIOUS
<1>5. u = first + (j + k) * period
  <2> DEFINE a == j * period
             b == k * period
  <2>1. a \in Nat /\ b \in Nat /\ t = first + a /\ u = t + b
    BY <1>1, <1>2, <1>4
  <2>2. u = first + (a + b)
    <3> HIDE DEF a, b
    <3> QED
      BY <2>1
  <2> QED
    BY <1>3, <2>2
<1> QED
  BY <1>3, <1>5 DEF OnGrid

TypeOK == now \in Nat /\ timer_next \in Nat \ {0} /\ period \in Nat \ {0}

LEMMA TimerInit ==
    ASSUME SL_PERIOD_US \in Nat \ {0}, cyc_per_usec \in Nat \ {0}, Start \in Nat, Init
    PROVE  TypeOK /\ OnTime
<1>1. period \in Nat \ {0}
  BY DEF Init, sl_usec2cyc
<1>2. timer_next = Start + 1 * period
  BY <1>1 DEF Init
<1> QED
  BY <1>1, <1>2 DEF Init, TypeOK, OnTime, OnGrid

LEMMA TimerSchedule ==
    ASSUME Start \in Nat, TypeOK, OnTime, Schedule
    PROVE  /\ TypeOK' /\ OnTime' /\ now < timer_next'
           /\ timer_next' # timer_next => timer_next <= now
<1>1. now \in Nat /\ timer_next \in Nat \ {0} /\ period \in Nat \ {0} /\ timer_next <= now + period
  BY DEF TypeOK, OnTime
<1>2. /\ NextTimer(now) \in Nat /\ now < NextTimer(now) /\ NextTimer(now) <= now + period
      /\ OnGrid(NextTimer(now), timer_next)
  BY <1>1, TimeoutOnGrid
<1>3. OnGrid(NextTimer(now), Start)
  BY <1>1, <1>2, GridSteps DEF OnTime
<1>4. timer_next' = NextTimer(now) /\ now' = now /\ period' = period
  BY DEF Schedule
<1>5. NextTimer(now) # timer_next => timer_next <= now
  BY <1>1 DEF NextTimer
<1> QED
  BY <1>1, <1>2, <1>3, <1>4, <1>5 DEF TypeOK, OnTime, OnGrid

LEMMA TimerPass ==
    ASSUME Delays \subseteq Nat, TypeOK, OnTime, Pass
    PROVE  TypeOK' /\ OnTime'
<1>1. PICK d \in Delays : now' = now + d
  BY DEF Pass
<1>2. d \in Nat /\ now' \in Nat /\ now <= now'
  BY <1>1 DEF TypeOK
<1>3. period' = period /\ timer_next' = timer_next
  BY DEF Pass
<1>4. timer_next <= now' + period
  BY <1>2 DEF TypeOK, OnTime
<1> QED
  BY <1>2, <1>3, <1>4 DEF TypeOK, OnTime, OnGrid

\* The invariant is inductive together with the types.
LEMMA TimerInvariance ==
    ASSUME SL_PERIOD_US \in Nat \ {0}, cyc_per_usec \in Nat \ {0}, Start \in Nat,
           Delays \subseteq Nat
    PROVE  Spec => [](TypeOK /\ OnTime)
<1>1. TypeOK /\ OnTime /\ UNCHANGED vars => (TypeOK /\ OnTime)'
  BY DEF TypeOK, OnTime, OnGrid, vars
<1>2. TypeOK /\ OnTime /\ [Next]_vars => (TypeOK /\ OnTime)'
  BY <1>1, TimerSchedule, TimerPass DEF Next
<1> QED
  BY <1>2, TimerInit, PTL DEF Spec

\* sl_timer_mod_periodic.c:12-14: whatever the period, the processor and the
\* delays, the timeouts keep to the times that are whole periods after the
\* start: the periods do not drift.
THEOREM NoDrift ==
    ASSUME SL_PERIOD_US \in Nat \ {0}, cyc_per_usec \in Nat \ {0}, Start \in Nat,
           Delays \subseteq Nat
    PROVE  Spec => []OnTime
  BY TimerInvariance, PTL

\* sl.h:184-185: a timeout is moved only after it has come, to a time ahead.
THEOREM TimerNeverPutOff ==
    ASSUME SL_PERIOD_US \in Nat \ {0}, cyc_per_usec \in Nat \ {0}, Start \in Nat,
           Delays \subseteq Nat
    PROVE  Spec => NeverPutOff
<1> DEFINE Moved == timer_next' # timer_next => timer_next <= now /\ now < timer_next'
<1>1. TypeOK /\ OnTime /\ [Next]_vars => [Moved]_vars
  BY TimerSchedule DEF Next, Pass
<1> QED
  BY <1>1, TimerInvariance, PTL DEF Spec, NeverPutOff
=============================================================================
