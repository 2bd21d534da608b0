----------------------------- MODULE LwtProofs -----------------------------
(***************************************************************************)
(* Proofs about Lwt.  First the run ring as a data structure, then an      *)
(* invariant that holds for any client and any allocator (RInv: the ring   *)
(* is exact).  For an allocator that never reuses a descriptor, lwt_join   *)
(* wakes for its own child only (LinkInv).  If also no thread that is      *)
(* BLOCKED is joined, the cpu never gets stuck (GoInv), and lwt.c          *)
(* implements ForkJoin (MapInv).                                           *)
(***************************************************************************)
EXTENDS Lwt, TLAPS, FiniteSetTheorems, WellFoundedInduction

----------------------------------------------------------------------------
(* Least elements.                                                        *)

\* A nonempty set of naturals has a least element.
LEMMA LeastNatural ==
    ASSUME NEW T \in SUBSET Nat, T # {}
    PROVE  \E m \in T : \A j \in T : m <= j
<1>1. PICK m \in T : \A j \in T : <<j, m>> \notin OpToRel(<, Nat)
  BY NatLessThanWellFounded, WFMin
<1>2. \A j \in T : ~(j < m)
  BY <1>1 DEF OpToRel
<1> QED
  BY <1>2

----------------------------------------------------------------------------
(* The run ring as a sequence.                                            *)

\* Turning the ring keeps its members and makes r[k] the current thread.
LEMMA RotateProperties ==
    ASSUME NEW S, NEW r \in Seq(S), NEW k \in 1..Len(r)
    PROVE  /\ RotateTo(r, k) \in Seq(S)
           /\ Len(RotateTo(r, k)) = Len(r)
           /\ RotateTo(r, k)[1] = r[k]
           /\ \A t : Occurs(t, RotateTo(r, k)) <=> Occurs(t, r)
           /\ NoDuplicates(r) => NoDuplicates(RotateTo(r, k))
<1> DEFINE n == Len(r)
           q == RotateTo(r, k)
           at(i) == IF i + k - 1 <= n THEN i + k - 1 ELSE i + k - 1 - n
<1>1. n \in Nat /\ DOMAIN r = 1..n
  OBVIOUS
<1>2. \A i \in 1..n : at(i) \in 1..n
  BY <1>1
<1>3. q = [i \in 1..n |-> r[at(i)]]
  BY <1>1 DEF RotateTo
<1>4. q \in Seq(S) /\ Len(q) = n /\ DOMAIN q = 1..n
  <2>1. \A i \in 1..n : r[at(i)] \in S
    BY <1>1, <1>2
  <2> HIDE DEF at
  <2>2. q \in [1..n -> S]
    BY <2>1, <1>3
  <2> QED
    BY <2>2, <1>1
<1>5. q[1] = r[k]
  BY <1>1, <1>3
<1>6. \A t : Occurs(t, q) <=> Occurs(t, r)
  <2>1. ASSUME NEW t, Occurs(t, q)
        PROVE  Occurs(t, r)
    BY <2>1, <1>1, <1>2, <1>3, <1>4 DEF Occurs
  <2>2. ASSUME NEW t, Occurs(t, r)
        PROVE  Occurs(t, q)
    <3>1. PICK j \in 1..n : r[j] = t
      BY <2>2, <1>1 DEF Occurs
    <3>2. PICK i \in 1..n : at(i) = j
      <4> DEFINE i0 == IF j >= k THEN j - k + 1 ELSE j - k + 1 + n
      <4>1. i0 \in 1..n /\ at(i0) = j
        BY <1>1
      <4> QED
        BY <4>1
    <3> QED
      BY <3>1, <3>2, <1>3, <1>4 DEF Occurs
  <2> QED
    BY <2>1, <2>2
<1>7. ASSUME NoDuplicates(r)
      PROVE  NoDuplicates(q)
  <2>1. \A i, j \in 1..n : at(i) = at(j) => i = j
    BY <1>1
  <2> HIDE DEF at
  <2> QED
    BY <1>7, <2>1, <1>1, <1>2, <1>3, <1>4 DEF NoDuplicates
<1> QED
  BY <1>4, <1>5, <1>6, <1>7

\* Unlinking removes one member and moves no other.
LEMMA DropProperties ==
    ASSUME NEW S, NEW r \in Seq(S), NEW k \in 1..Len(r)
    PROVE  /\ Drop(r, k) \in Seq(S)
           /\ Len(Drop(r, k)) = Len(r) - 1
           /\ k > 1 => Drop(r, k)[1] = r[1]
           /\ NoDuplicates(r) =>
                /\ NoDuplicates(Drop(r, k))
                /\ \A t : Occurs(t, Drop(r, k)) <=> Occurs(t, r) /\ t # r[k]
<1> DEFINE n == Len(r)
           q == Drop(r, k)
           at(i) == IF i < k THEN i ELSE i + 1
<1>1. n \in Nat /\ n >= 1 /\ DOMAIN r = 1..n
  OBVIOUS
<1>2. \A i \in 1..(n-1) : at(i) \in 1..n /\ at(i) # k
  BY <1>1
<1>3. q = [i \in 1..(n-1) |-> r[at(i)]]
  <2>1. \A i \in 1..(n-1) : r[at(i)] = IF i < k THEN r[i] ELSE r[i + 1]
    BY <1>1
  <2> QED
    BY <2>1 DEF Drop
<1>4. q \in Seq(S) /\ Len(q) = n - 1 /\ DOMAIN q = 1..(n-1)
  <2>1. \A i \in 1..(n-1) : r[at(i)] \in S
    BY <1>1, <1>2
  <2> HIDE DEF at
  <2>2. q \in [1..(n-1) -> S] /\ n - 1 \in Nat
    BY <2>1, <1>3, <1>1
  <2> QED
    BY <2>2
<1>5. k > 1 => q[1] = r[1]
  BY <1>1, <1>3
<1>6. ASSUME NoDuplicates(r)
      PROVE  NoDuplicates(q)
  <2>1. \A i, j \in 1..(n-1) : at(i) = at(j) => i = j
    BY <1>1
  <2> HIDE DEF at
  <2> QED
    BY <1>6, <2>1, <1>1, <1>2, <1>3, <1>4 DEF NoDuplicates
<1>7. ASSUME NoDuplicates(r)
      PROVE  \A t : Occurs(t, q) <=> Occurs(t, r) /\ t # r[k]
  <2>1. ASSUME NEW t, Occurs(t, q)
        PROVE  Occurs(t, r) /\ t # r[k]
    <3>1. PICK i \in 1..(n-1) : q[i] = t
      BY <2>1, <1>4 DEF Occurs
    <3>2. r[at(i)] = t /\ at(i) \in 1..n /\ at(i) # k
      BY <3>1, <1>2, <1>3
    <3> HIDE DEF at
    <3> QED
      BY <3>2, <1>1, <1>7 DEF Occurs, NoDuplicates
  <2>2. ASSUME NEW t, Occurs(t, r), t # r[k]
        PROVE  Occurs(t, q)
    <3>1. PICK j \in 1..n : r[j] = t /\ j # k
      BY <2>2, <1>1 DEF Occurs
    <3>2. PICK i \in 1..(n-1) : at(i) = j
      <4> DEFINE i0 == IF j < k THEN j ELSE j - 1
      <4>1. i0 \in 1..(n-1) /\ at(i0) = j
        BY <1>1, <3>1
      <4> QED
        BY <4>1
    <3> QED
      BY <3>1, <3>2, <1>3, <1>4 DEF Occurs
  <2> QED
    BY <2>1, <2>2
<1> QED
  BY <1>4, <1>5, <1>6, <1>7

\* A member is found at its position.
LEMMA PositionProperties ==
    ASSUME NEW r, NEW t, Occurs(t, r)
    PROVE  Position(r, t) \in DOMAIN r /\ r[Position(r, t)] = t
  BY DEF Occurs, Position

\* When some thread is RUNNABLE the scan stops, and at such a thread.
LEMMA ScanStops ==
    ASSUME NEW S, NEW r \in Seq(S), NEW st, SomeRunnable(r, st)
    PROVE  NextRunnable(r, st) \in DOMAIN r /\ StopsAt(r, NextRunnable(r, st), st)
<1> DEFINE T == {k \in 2..Len(r) : st[r[k]] = "RUNNABLE"}
<1>1. Len(r) \in Nat /\ DOMAIN r = 1..Len(r)
  OBVIOUS
<1>2. PICK k0 \in 1..Len(r) : st[r[k0]] = "RUNNABLE"
  BY <1>1 DEF SomeRunnable
<1>3. \E k \in DOMAIN r : StopsAt(r, k, st)
  <2>1. CASE T = {}
    <3>1. k0 = 1
      BY <2>1, <1>2, <1>1
    <3> QED
      BY <2>1, <3>1, <1>1, <1>2 DEF StopsAt
  <2>2. CASE T # {}
    <3>1. PICK m \in T : \A j \in T : m <= j
      <4>1. T \in SUBSET Nat
        BY <1>1
      <4> QED
        BY <2>2, <4>1, LeastNatural
    <3>2. m \in 2..Len(r) /\ st[r[m]] = "RUNNABLE"
      BY <3>1
    <3>3. ASSUME NEW j \in 2..Len(r), j < m \/ m = 1
          PROVE  st[r[j]] # "RUNNABLE"
      BY <3>1, <3>2, <3>3, <1>1
    <3> QED
      BY <3>2, <3>3, <1>1 DEF StopsAt
  <2> QED
    BY <2>1, <2>2
<1> QED
  BY <1>3 DEF NextRunnable

\* So does the scan of lwt_die, over the other threads of the ring.
LEMMA FirstRunnable ==
    ASSUME NEW S, NEW r \in Seq(S), NEW st, SomeRunnable(r, st)
    PROVE  \E k \in DOMAIN r :
              /\ st[r[k]] = "RUNNABLE"
              /\ \A j \in 1..(k - 1) : st[r[j]] # "RUNNABLE"
<1> DEFINE T == {k \in DOMAIN r : st[r[k]] = "RUNNABLE"}
<1>1. DOMAIN r = 1..Len(r) /\ Len(r) \in Nat
  OBVIOUS
<1>2. T \in SUBSET Nat /\ T # {}
  BY <1>1 DEF SomeRunnable
<1>3. PICK m \in T : \A j \in T : m <= j
  BY <1>2, LeastNatural
<1>4. \A j \in 1..(m - 1) : st[r[j]] # "RUNNABLE"
  BY <1>1, <1>3
<1> QED
  BY <1>3, <1>4

----------------------------------------------------------------------------
(* Any client, any allocator: the ring is exact.                          *)

\* The right to join: nobody joins itself, and a thread in the loop of
\* lwt_join holds the right to join the live thread it waits for.
OwnerOK ==
    /\ \A t \in Slots : owner[t] # t
    /\ \A t \in live : pc[t] = "joining" =>
          /\ joiningto[t] \in live
          /\ flag[joiningto[t]] = "DEFAULT"
          /\ owner[joiningto[t]] = t

RInv == TypeOK /\ RingExact /\ OwnerOK

\* What a context switch may do to the ring: turn it.
Turned ==
    /\ ring' \in Seq(Slots) /\ Len(ring') >= 1
    /\ NoDuplicates(ring')
    /\ \A t : Occurs(t, ring') <=> Occurs(t, ring)

\* The current thread is a member of the ring.
LEMMA CurrentInRing ==
    ASSUME RInv, RingMatches
    PROVE  /\ Occurs(ring[1], ring)
           /\ ring[1] \in live
           /\ ~(flag[ring[1]] = "NOJOIN" /\ pc[ring[1]] = "exited")
<1>1. ring \in Seq(Slots) /\ Len(ring) >= 1
  BY DEF RInv, TypeOK
<1>2. 1 \in DOMAIN ring /\ ring[1] \in Slots
  BY <1>1
<1>3. Occurs(ring[1], ring)
  BY <1>2 DEF Occurs
<1> QED
  BY <1>2, <1>3 DEF RingMatches, InRing

LEMMA ScheduleTurns ==
    ASSUME RInv, RingMatches, NEW st, lwt_schedule(st)
    PROVE  Turned /\ cpu' \in {"ok", "hung", "wild"}
<1>1. /\ ring \in Seq(Slots) /\ Len(ring) >= 1 /\ NoDuplicates(ring)
      /\ cpu \in {"ok", "hung", "wild"}
  BY DEF RInv, TypeOK, RingMatches
<1>2. CASE nRunnable # 0 /\ SomeRunnable(ring, st)
  <2>1. NextRunnable(ring, st) \in 1..Len(ring)
    BY <1>1, <1>2, ScanStops
  <2>2. ring' = RotateTo(ring, NextRunnable(ring, st)) /\ cpu' = cpu
    BY <1>2 DEF lwt_schedule
  <2> QED
    BY <1>1, <2>1, <2>2, RotateProperties DEF Turned
<1>3. CASE ~(nRunnable # 0 /\ SomeRunnable(ring, st))
  <2>1. ring' = ring /\ cpu' \in {"hung", cpu}
    BY <1>3 DEF lwt_schedule
  <2> QED
    BY <1>1, <2>1 DEF Turned
<1> QED
  BY <1>2, <1>3

LEMMA DirectedYieldTurns ==
    ASSUME RInv, RingMatches, NEW st, NEW t, Occurs(t, ring), DirectedYield(t, st)
    PROVE  Turned /\ (st[t] = "RUNNABLE" => ring'[1] = t)
                  /\ (st[t] # "RUNNABLE" => ring' = ring)
<1>1. ring \in Seq(Slots) /\ Len(ring) >= 1 /\ NoDuplicates(ring)
  BY DEF RInv, TypeOK, RingMatches
<1>2. CASE st[t] = "RUNNABLE"
  <2>1. Position(ring, t) \in 1..Len(ring) /\ ring[Position(ring, t)] = t
    BY <1>1, PositionProperties
  <2>2. ring' = RotateTo(ring, Position(ring, t))
    BY <1>2 DEF DirectedYield
  <2> QED
    BY <1>1, <1>2, <2>1, <2>2, RotateProperties DEF Turned
<1>3. CASE st[t] # "RUNNABLE"
  BY <1>1, <1>3 DEF DirectedYield, Turned
<1> QED
  BY <1>2, <1>3

\* Reaping a thread other than the current one.
LEMMA ReapUnlinks ==
    ASSUME RInv, RingMatches, NEW t \in Slots, Occurs(t, ring), t # ring[1], Reap(t)
    PROVE  /\ ring' \in Seq(Slots) /\ Len(ring') >= 1
           /\ ring'[1] = ring[1]
           /\ NoDuplicates(ring')
           /\ \A u : Occurs(u, ring') <=> Occurs(u, ring) /\ u # t
<1>1. ring \in Seq(Slots) /\ Len(ring) >= 1 /\ NoDuplicates(ring)
  BY DEF RInv, TypeOK, RingMatches
<1>2. PICK k \in 1..Len(ring) : k = Position(ring, t) /\ ring[k] = t
  BY <1>1, PositionProperties
<1>3. k > 1 /\ Len(ring) - 1 >= 1
  BY <1>1, <1>2
<1>4. ring' = Drop(ring, k)
  BY <1>2 DEF Reap
<1>5. /\ ring' \in Seq(Slots) /\ Len(ring') >= 1
      /\ ring'[1] = ring[1]
  BY <1>1, <1>3, <1>4, DropProperties
<1>6. NoDuplicates(ring') /\ \A u : Occurs(u, ring') <=> Occurs(u, ring) /\ u # t
  BY <1>1, <1>2, <1>4, DropProperties
<1> QED
  BY <1>5, <1>6

\* A new thread goes to the end of the ring.
LEMMA LinkProperties ==
    ASSUME NEW S, NEW r \in Seq(S), NEW s \in S, NoDuplicates(r), ~Occurs(s, r)
    PROVE  /\ Append(r, s) \in Seq(S)
           /\ Len(Append(r, s)) = Len(r) + 1
           /\ Len(r) >= 1 => Append(r, s)[1] = r[1]
           /\ NoDuplicates(Append(r, s))
           /\ \A t : Occurs(t, Append(r, s)) <=> Occurs(t, r) \/ t = s
<1> DEFINE q == Append(r, s)
<1>1. /\ Len(r) \in Nat /\ DOMAIN r = 1..Len(r)
      /\ q \in Seq(S) /\ Len(q) = Len(r) + 1 /\ DOMAIN q = 1..(Len(r) + 1)
  OBVIOUS
<1>2. \A i \in 1..(Len(r) + 1) : q[i] = IF i <= Len(r) THEN r[i] ELSE s
  OBVIOUS
<1>3. NoDuplicates(q)
  BY <1>1, <1>2 DEF NoDuplicates, Occurs
<1>4. \A t : Occurs(t, q) <=> Occurs(t, r) \/ t = s
  <2>1. \A t : Occurs(t, q) => Occurs(t, r) \/ t = s
    BY <1>1, <1>2 DEF Occurs
  <2>2. \A t : Occurs(t, r) => Occurs(t, q)
    BY <1>1, <1>2 DEF Occurs
  <2>3. Occurs(s, q)
    <3>1. q[Len(r) + 1] = s /\ Len(r) + 1 \in DOMAIN q
      BY <1>1, <1>2
    <3> QED
      BY <3>1 DEF Occurs
  <2> QED
    BY <2>1, <2>2, <2>3
<1>5. Len(r) >= 1 => q[1] = r[1]
  BY <1>1, <1>2
<1> QED
  BY <1>1, <1>3, <1>4, <1>5

----------------------------------------------------------------------------
(* RInv is inductive: one lemma per action that changes the ring or the   *)
(* set of live descriptors, one for those that only turn the ring.        *)

LEMMA InitRInv == Init => RInv
<1> SUFFICES ASSUME Init
             PROVE  RInv
  OBVIOUS
<1>1. Main \in Slots /\ NULL \notin Slots /\ MaxTid \in Nat /\ MaxTid >= 2
  BY LwtAssumption
<1>2. ring = <<Main>> /\ ring \in Seq(Slots) /\ Len(ring) = 1 /\ DOMAIN ring = {1}
  BY <1>1 DEF Init
<1>3. TypeOK
  BY <1>1, <1>2 DEF Init, TypeOK
<1>4. RingExact
  BY <1>1, <1>2 DEF Init, RingExact, RingMatches, NoDuplicates, InRing, Occurs
<1>5. OwnerOK
  BY <1>1 DEF Init, OwnerOK
<1> QED
  BY <1>3, <1>4, <1>5 DEF RInv

LEMMA CreateRInv ==
    ASSUME RInv, NEW s \in Slots, NEW f \in {"DEFAULT", "NOJOIN"},
           NEW h \in Slots \union {NULL}, Create(s, f, h)
    PROVE  RInv'
<1> DEFINE c == ring[1]
<1> USE DEF current_thread
<1>0. RingMatches
  BY DEF RInv, RingExact, Create, Running
<1>1. TypeOK /\ OwnerOK /\ NULL \notin Slots /\ MaxTid \in Nat
  BY LwtAssumption DEF RInv
<1>2. c \in live /\ c \in Slots /\ pc[c] = "user" /\ s \notin live
  BY <1>0, <1>1, CurrentInRing DEF Create, Allocatable, Running, TypeOK
<1>3. ~Occurs(s, ring)
  BY <1>0, <1>1, <1>2 DEF RingExact, RingMatches, InRing
<1>4. /\ ring' \in Seq(Slots) /\ Len(ring') >= 1 /\ NoDuplicates(ring')
      /\ \A t : Occurs(t, ring') <=> Occurs(t, ring) \/ t = s
  <2>1. ring' = Append(ring, s) /\ ring \in Seq(Slots) /\ Len(ring) >= 1
        /\ NoDuplicates(ring)
    BY <1>0, <1>1 DEF Create, TypeOK, RingExact, RingMatches
  <2> QED
    BY <2>1, <1>3, LinkProperties
<1>5. TypeOK'
  <2>1. owner' \in [Slots -> Slots \union {NULL}]
    BY <1>1, <1>2 DEF Create, HandOver, TypeOK
  <2>2. lwt_tid_counter' \in 2..MaxTid /\ tid' \in [Slots -> 0..MaxTid]
    BY <1>1 DEF Create, TypeOK
  <2> QED
    BY <1>1, <1>4, <2>1, <2>2 DEF Create, KeepLinks, TypeOK, links
<1>6. RingExact'
  BY <1>0, <1>1, <1>2, <1>4 DEF Create, TypeOK, RingExact, RingMatches, InRing
<1>7. OwnerOK'
  <2>1. \A t \in Slots : owner'[t] # t
    BY <1>1, <1>2 DEF Create, HandOver, OwnerOK, TypeOK
  <2>2. ASSUME NEW t \in live', pc'[t] = "joining"
        PROVE  /\ joiningto'[t] \in live'
               /\ flag'[joiningto'[t]] = "DEFAULT"
               /\ owner'[joiningto'[t]] = t
    <3>1. t \in live /\ t # s /\ pc[t] = "joining" /\ t # c
      BY <2>2, <1>1, <1>2 DEF Create, TypeOK
    <3>2. joiningto[t] \in live /\ flag[joiningto[t]] = "DEFAULT"
          /\ owner[joiningto[t]] = t
      BY <3>1, <1>1 DEF OwnerOK
    <3>3. joiningto[t] # s /\ joiningto[t] # h
      BY <3>1, <3>2, <1>1, <1>2 DEF Create, TypeOK
    <3>4. joiningto' = joiningto /\ live' = live \union {s}
      BY DEF Create, KeepLinks, links
    <3>5. joiningto[t] \in Slots /\ flag'[joiningto[t]] = flag[joiningto[t]]
      BY <3>2, <3>3, <1>1 DEF Create, TypeOK
    <3>6. owner'[joiningto[t]] = owner[joiningto[t]]
      BY <3>3, <3>5, <1>1 DEF Create, HandOver, TypeOK
    <3> QED
      BY <3>2, <3>4, <3>5, <3>6
  <2> QED
    BY <2>1, <2>2 DEF OwnerOK
<1> QED
  BY <1>5, <1>6, <1>7 DEF RInv

\* Reap(t) by the current thread c, which holds the right to join t.
LEMMA ReapRInv ==
    ASSUME RInv, RingMatches, NEW t \in Slots, t \in live, owner[t] = ring[1],
           flag[t] = "DEFAULT", Reap(t),
           pc' \in [Slots -> {"user", "joining", "exited"}],
           \A u \in Slots : pc'[u] = pc[u] \/ (u = ring[1] /\ pc'[u] = "user"),
           pc[ring[1]] \in {"user", "joining"},
           flag' = flag, tid' = tid, cpu' = cpu, ret' = ret, state' = state,
           lwt_tid_counter' = lwt_tid_counter,
           joinedfrom' \in [Slots -> Slots \union {NULL}],
           joiningto' \in [Slots -> Slots \union {NULL}],
           \A u \in Slots : u # ring[1] => joiningto'[u] = joiningto[u],
           pc'[ring[1]] = "user",
           nRunnable' \in Int, nBlocked' \in Int
    PROVE  RInv'
<1> DEFINE c == ring[1]
<1>1. TypeOK /\ OwnerOK
  BY DEF RInv
<1>2. c \in live /\ c \in Slots
  BY <1>1, CurrentInRing DEF TypeOK
<1>3. t # c
  BY <1>1 DEF OwnerOK
<1>4. Occurs(t, ring)
  BY <1>1 DEF RingExact, RingMatches, InRing
<1>5. /\ ring' \in Seq(Slots) /\ Len(ring') >= 1
      /\ NoDuplicates(ring')
      /\ \A u : Occurs(u, ring') <=> Occurs(u, ring) /\ u # t
  BY <1>3, <1>4, ReapUnlinks
<1>6. live' = live \ {t} /\ owner' = [owner EXCEPT ![t] = NULL]
      /\ nZombies' = nZombies - 1
      /\ joined' = [joined EXCEPT ![tid[t]] = ret[t]]
  BY DEF Reap
<1>7. TypeOK'
  <2>1. /\ live' \in SUBSET Slots
        /\ owner' \in [Slots -> Slots \union {NULL}]
        /\ nZombies' \in Int
    BY <1>1, <1>6 DEF TypeOK
  <2>2. joined' \in [1..MaxTid -> 0..MaxTid]
    <3>1. joined \in [1..MaxTid -> 0..MaxTid] /\ ret[t] \in 0..MaxTid
      BY <1>1 DEF TypeOK
    <3> QED
      BY <3>1, <1>6
  <2> QED
    BY <1>1, <1>5, <2>1, <2>2 DEF TypeOK
<1>8. RingExact'
  BY <1>1, <1>5, <1>6, <1>2 DEF RingExact, RingMatches, InRing, TypeOK
<1>9. OwnerOK'
  <2>1. \A u \in Slots : owner'[u] # u
    BY <1>1, <1>6, LwtAssumption DEF OwnerOK, TypeOK
  <2>2. ASSUME NEW u \in live', pc'[u] = "joining"
        PROVE  /\ joiningto'[u] \in live'
               /\ flag'[joiningto'[u]] = "DEFAULT"
               /\ owner'[joiningto'[u]] = u
    <3>1. u \in live /\ u \in Slots /\ u # c /\ pc[u] = "joining"
      BY <2>2, <1>1, <1>6 DEF TypeOK
    <3>2. joiningto[u] \in live /\ flag[joiningto[u]] = "DEFAULT"
          /\ owner[joiningto[u]] = u
      BY <3>1, <1>1 DEF OwnerOK
    <3>3. joiningto[u] # t
      BY <3>1, <3>2
    <3> QED
      BY <3>1, <3>2, <3>3, <1>1, <1>6 DEF TypeOK
  <2> QED
    BY <2>1, <2>2 DEF OwnerOK
<1> QED
  BY <1>7, <1>8, <1>9 DEF RInv

LEMMA JoinDeadRInv ==
    ASSUME RInv, NEW t \in Slots, JoinDead(t)
    PROVE  RInv'
<1> USE DEF current_thread
<1>0. RingMatches
  BY DEF RInv, RingExact, JoinDead, MayJoin, Running
<1>1. TypeOK /\ ring[1] \in Slots
  BY <1>0, CurrentInRing DEF RInv, TypeOK
<1>2. t \in live /\ owner[t] = ring[1] /\ flag[t] = "DEFAULT" /\ Reap(t)
      /\ pc[ring[1]] = "user"
  BY DEF JoinDead, MayJoin, Running
<1>3. joinedfrom' \in [Slots -> Slots \union {NULL}]
      /\ joiningto' \in [Slots -> Slots \union {NULL}]
      /\ \A u \in Slots : u # ring[1] => joiningto'[u] = joiningto[u]
  BY <1>1 DEF JoinDead, SetRelation, TypeOK
<1>4. /\ pc' = pc /\ flag' = flag /\ tid' = tid /\ cpu' = cpu
      /\ ret' = ret /\ state' = state /\ lwt_tid_counter' = lwt_tid_counter
      /\ nRunnable' \in Int /\ nBlocked' \in Int
  BY <1>1 DEF JoinDead, born, TypeOK
<1> QED
  BY <1>0, <1>1, <1>2, <1>3, <1>4, ReapRInv DEF TypeOK

LEMMA JoinReturnRInv ==
    ASSUME RInv, JoinReturn
    PROVE  RInv'
<1> USE DEF current_thread
<1> DEFINE c == ring[1]
           t == joiningto[c]
<1>0. RingMatches
  BY DEF RInv, RingExact, JoinReturn, Running
<1>1. TypeOK /\ OwnerOK /\ c \in Slots /\ c \in live
  BY <1>0, CurrentInRing DEF RInv, TypeOK
<1>2. pc[c] = "joining" /\ Reap(t)
  BY DEF JoinReturn, Running
<1>3. t \in live /\ t \in Slots /\ owner[t] = c /\ flag[t] = "DEFAULT"
  BY <1>1, <1>2 DEF OwnerOK, TypeOK
<1>4. /\ pc' = [pc EXCEPT ![c] = "user"] /\ flag' = flag /\ tid' = tid
      /\ cpu' = cpu /\ ret' = ret /\ state' = state
      /\ lwt_tid_counter' = lwt_tid_counter
      /\ joinedfrom' = joinedfrom /\ joiningto' = joiningto
      /\ nRunnable' \in Int /\ nBlocked' \in Int
  BY <1>1 DEF JoinReturn, born, links, TypeOK
<1>5. pc' \in [Slots -> {"user", "joining", "exited"}] /\ pc'[c] = "user"
      /\ \A u \in Slots : pc'[u] = pc[u] \/ (u = c /\ pc'[u] = "user")
  BY <1>1, <1>4 DEF TypeOK
<1> QED
  BY <1>0, <1>1, <1>2, <1>3, <1>4, <1>5, ReapRInv DEF TypeOK

LEMMA JoinWaitRInv ==
    ASSUME RInv, NEW t \in Slots, JoinWait(t)
    PROVE  RInv'
<1> USE DEF current_thread
<1> DEFINE c == ring[1]
<1>0. RingMatches
  BY DEF RInv, RingExact, JoinWait, MayJoin, Running
<1>1. TypeOK /\ OwnerOK /\ c \in Slots /\ c \in live
  BY <1>0, CurrentInRing DEF RInv, TypeOK
<1>2. /\ t \in live /\ owner[t] = c /\ flag[t] = "DEFAULT" /\ pc[c] = "user"
      /\ SetRelation(c, t) /\ LoopBody(t, state')
      /\ state' = [state EXCEPT ![c] = "BLOCKED"]
      /\ pc' = [pc EXCEPT ![c] = "joining"]
      /\ live' = live /\ ret' = ret /\ owner' = owner /\ cpu' = cpu
      /\ joined' = joined /\ nZombies' = nZombies
      /\ flag' = flag /\ tid' = tid /\ lwt_tid_counter' = lwt_tid_counter
  BY DEF JoinWait, MayJoin, Running, born
<1>3. Occurs(t, ring)
  BY <1>0, <1>1, <1>2 DEF RingExact, RingMatches, InRing
<1>4. Turned
  BY <1>0, <1>2, <1>3, DirectedYieldTurns DEF LoopBody
<1>5. TypeOK'
  <2>1. /\ joinedfrom' \in [Slots -> Slots \union {NULL}]
        /\ joiningto' \in [Slots -> Slots \union {NULL}]
    BY <1>1, <1>2 DEF TypeOK, SetRelation
  <2>2. /\ state' \in [Slots -> {"RUNNABLE", "DEAD", "BLOCKED"}]
        /\ pc' \in [Slots -> {"user", "joining", "exited"}]
    BY <1>1, <1>2 DEF TypeOK
  <2>3. nRunnable' \in Int /\ nBlocked' \in Int
    BY <1>1, <1>2 DEF TypeOK, LoopBody
  <2>4. ring' \in Seq(Slots) /\ Len(ring') >= 1
    BY <1>4 DEF Turned
  <2> QED
    BY <1>1, <1>2, <2>1, <2>2, <2>3, <2>4 DEF TypeOK
<1>6. RingExact'
  <2>1. \A u \in live : flag[u] = "NOJOIN" /\ pc'[u] = "exited"
                          <=> flag[u] = "NOJOIN" /\ pc[u] = "exited"
    BY <1>1, <1>2 DEF TypeOK
  <2> QED
    BY <1>0, <2>1, <1>1, <1>2, <1>4 DEF RingExact, RingMatches, InRing, Turned
<1>7. OwnerOK'
  <2>1. ASSUME NEW u \in live, pc'[u] = "joining"
        PROVE  /\ joiningto'[u] \in live
               /\ flag[joiningto'[u]] = "DEFAULT"
               /\ owner[joiningto'[u]] = u
    <3>1. CASE u = c
      BY <3>1, <1>1, <1>2 DEF SetRelation, TypeOK
    <3>2. CASE u # c
      <4>1. pc[u] = "joining" /\ joiningto'[u] = joiningto[u]
        BY <2>1, <3>2, <1>1, <1>2 DEF SetRelation, TypeOK
      <4> QED
        BY <4>1, <1>1 DEF OwnerOK
    <3> QED
      BY <3>1, <3>2
  <2> QED
    BY <2>1, <1>1, <1>2 DEF OwnerOK
<1> QED
  BY <1>5, <1>6, <1>7 DEF RInv

LEMMA JoinSpinRInv ==
    ASSUME RInv, JoinSpin
    PROVE  RInv'
<1> USE DEF current_thread
<1> DEFINE c == ring[1]
<1>0. RingMatches
  BY DEF RInv, RingExact, JoinSpin, Running
<1>1. TypeOK /\ OwnerOK /\ c \in Slots /\ c \in live
  BY <1>0, CurrentInRing DEF RInv, TypeOK
<1>2. /\ pc[c] = "joining" /\ LoopBody(joiningto[c], state)
      /\ UNCHANGED <<live, state, ret, pc, owner, cpu, joined, nZombies,
                     joinedfrom, joiningto, flag, tid, lwt_tid_counter>>
  BY DEF JoinSpin, Running, born, links
<1>3. Occurs(joiningto[c], ring)
  BY <1>0, <1>1, <1>2 DEF OwnerOK, RingExact, RingMatches, InRing, TypeOK
<1>4. Turned
  BY <1>0, <1>2, <1>3, DirectedYieldTurns DEF LoopBody
<1>5. TypeOK'
  BY <1>1, <1>2, <1>4 DEF TypeOK, Turned, LoopBody
<1>6. RingExact' /\ OwnerOK'
  BY <1>0, <1>1, <1>2, <1>4 DEF RingExact, RingMatches, OwnerOK, InRing, Turned
<1> QED
  BY <1>5, <1>6 DEF RInv

LEMMA WakeType ==
    ASSUME TypeOK, NEW c \in Slots
    PROVE  Wake(c) \in [Slots -> {"RUNNABLE", "DEAD", "BLOCKED"}]
  BY DEF Wake, TypeOK

LEMMA DieJoinableRInv ==
    ASSUME RInv, DieJoinable
    PROVE  RInv'
<1> USE DEF current_thread
<1> DEFINE c == ring[1]
<1>0. RingMatches
  BY DEF RInv, RingExact, DieJoinable, Running
<1>1. TypeOK /\ OwnerOK /\ c \in Slots /\ c \in live
  BY <1>0, CurrentInRing DEF RInv, TypeOK
<1>2. /\ pc[c] = "user" /\ flag[c] = "DEFAULT" /\ state' = Wake(c)
      /\ ret' = [ret EXCEPT ![c] = tid[c]]
      /\ pc' = [pc EXCEPT ![c] = "exited"]
      /\ lwt_schedule(state')
      /\ UNCHANGED <<live, owner, joined, nRunnable, nZombies, nBlocked,
                     joinedfrom, joiningto, flag, tid, lwt_tid_counter>>
  BY DEF DieJoinable, Running, counters, links, born
<1>3. Turned /\ cpu' \in {"ok", "hung", "wild"}
  BY <1>0, <1>2, ScheduleTurns
<1>4. state' \in [Slots -> {"RUNNABLE", "DEAD", "BLOCKED"}]
  BY <1>1, <1>2, WakeType
<1>5. TypeOK'
  BY <1>1, <1>2, <1>3, <1>4 DEF TypeOK, Turned
<1>6. RingExact'
  <2>1. \A u \in live : flag[u] = "NOJOIN" /\ pc'[u] = "exited"
                          <=> flag[u] = "NOJOIN" /\ pc[u] = "exited"
    BY <1>1, <1>2 DEF TypeOK
  <2> QED
    BY <1>0, <2>1, <1>1, <1>2, <1>3 DEF RingExact, RingMatches, InRing, Turned
<1>7. OwnerOK'
  <2>1. \A u \in live : pc'[u] = "joining" => pc[u] = "joining"
    BY <1>1, <1>2 DEF TypeOK
  <2> QED
    BY <2>1, <1>1, <1>2 DEF OwnerOK
<1> QED
  BY <1>5, <1>6, <1>7 DEF RInv

LEMMA DieDetachedRInv ==
    ASSUME RInv, DieDetached
    PROVE  RInv'
<1> USE DEF current_thread
<1> DEFINE c == ring[1]
           others == Drop(ring, 1)
<1>0. RingMatches
  BY DEF RInv, RingExact, DieDetached, Running
<1>1. TypeOK /\ OwnerOK /\ c \in Slots /\ c \in live
  BY <1>0, CurrentInRing DEF RInv, TypeOK
<1>2. /\ pc[c] = "user" /\ flag[c] = "NOJOIN"
      /\ pc' = [pc EXCEPT ![c] = "exited"]
      /\ UNCHANGED <<live, state, ret, owner, joined, nRunnable, nZombies,
                     nBlocked, joinedfrom, joiningto, flag, tid,
                     lwt_tid_counter>>
  BY DEF DieDetached, Running, counters, links, born
<1>3. OwnerOK'
  BY <1>1, <1>2 DEF OwnerOK, TypeOK
<1>4. CASE SomeRunnable(others, state)
  <2>1. ring \in Seq(Slots) /\ Len(ring) >= 1 /\ 1 \in 1..Len(ring)
        /\ NoDuplicates(ring)
    BY <1>0, <1>1 DEF TypeOK, RingMatches
  <2>2. others \in Seq(Slots) /\ NoDuplicates(others)
        /\ \A t : Occurs(t, others) <=> Occurs(t, ring) /\ t # c
    BY <2>1, DropProperties
  <2>3. PICK k \in DOMAIN others : ring' = RotateTo(others, k)
    <3>1. \E k \in DOMAIN others :
             /\ state[others[k]] = "RUNNABLE"
             /\ \A j \in 1..(k - 1) : state[others[j]] # "RUNNABLE"
      BY <2>2, <1>4, FirstRunnable
    <3> QED
      BY <3>1, <1>4 DEF DieDetached
  <2>4. k \in 1..Len(others) /\ Len(others) >= 1
    <3> HIDE DEF others
    <3> QED
      BY <2>2, <2>3
  <2>5. ring' \in Seq(Slots) /\ Len(ring') >= 1 /\ NoDuplicates(ring')
        /\ \A t : Occurs(t, ring') <=> Occurs(t, ring) /\ t # c
    <3> HIDE DEF others
    <3> QED
      BY <2>2, <2>3, <2>4, RotateProperties
  <2>6. cpu' = cpu
    BY <1>4 DEF DieDetached
  <2>7. TypeOK'
    BY <1>1, <1>2, <2>5, <2>6 DEF TypeOK
  <2>8. RingExact'
    BY <1>0, <1>1, <1>2, <2>5 DEF RingExact, RingMatches, InRing, TypeOK
  <2> QED
    BY <1>3, <2>7, <2>8 DEF RInv
<1>5. CASE ~SomeRunnable(others, state)
  <2>1. ring' = ring /\ cpu' = "wild"
    BY <1>5 DEF DieDetached
  <2>2. TypeOK' /\ RingExact'
    BY <1>1, <1>2, <2>1 DEF TypeOK, RingExact
  <2> QED
    BY <1>3, <2>2 DEF RInv
<1> QED
  BY <1>4, <1>5

LEMMA ReturnFromDieRInv ==
    ASSUME RInv, ReturnFromDie
    PROVE  RInv'
<1>1. /\ cpu' = "wild"
      /\ UNCHANGED <<ring, live, state, ret, pc, owner, joined, nRunnable,
                     nZombies, nBlocked, joinedfrom, joiningto, flag, tid,
                     lwt_tid_counter>>
  BY DEF ReturnFromDie, counters, links, born
<1>2. TypeOK' /\ RingExact' /\ OwnerOK'
  BY <1>1 DEF RInv, TypeOK, RingExact, OwnerOK
<1> QED
  BY <1>2 DEF RInv

\* The steps that only turn the ring.
LEMMA TurnRInv ==
    ASSUME RInv, RingMatches, Turned, cpu' \in {"ok", "hung", "wild"},
           UNCHANGED <<live, state, ret, pc, owner, joined, nRunnable,
                       nZombies, nBlocked, joinedfrom, joiningto, flag, tid,
                       lwt_tid_counter>>
    PROVE  RInv'
<1>1. TypeOK' /\ RingExact' /\ OwnerOK'
  BY DEF RInv, TypeOK, RingExact, RingMatches, OwnerOK, Turned, InRing
<1> QED
  BY <1>1 DEF RInv

LEMMA NextRInv ==
    ASSUME RInv, [Next]_vars
    PROVE  RInv'
<1>1. ASSUME NEW s \in Slots, NEW f \in {"DEFAULT", "NOJOIN"},
             NEW h \in Slots \union {NULL}, Create(s, f, h)
      PROVE  RInv'
  BY <1>1, CreateRInv
<1>2. ASSUME NEW t \in Slots, JoinDead(t)
      PROVE  RInv'
  BY <1>2, JoinDeadRInv
<1>3. ASSUME NEW t \in Slots, JoinWait(t)
      PROVE  RInv'
  BY <1>3, JoinWaitRInv
<1>4. CASE JoinSpin
  BY <1>4, JoinSpinRInv
<1>5. CASE JoinReturn
  BY <1>5, JoinReturnRInv
<1>6. CASE DieJoinable
  BY <1>6, DieJoinableRInv
<1>7. CASE DieDetached
  BY <1>7, DieDetachedRInv
<1>8. CASE ReturnFromDie
  BY <1>8, ReturnFromDieRInv
<1>9. CASE Yield
  <2>1. RingMatches /\ lwt_schedule(state)
    BY <1>9 DEF RInv, RingExact, Yield, Running
  <2>2. Turned /\ cpu' \in {"ok", "hung", "wild"}
    BY <2>1, ScheduleTurns
  <2> QED
    BY <1>9, <2>1, <2>2, TurnRInv DEF Yield, counters, links, born
<1>10. ASSUME NEW t \in Slots, YieldTo(t)
       PROVE  RInv'
  <2>1. RingMatches /\ Occurs(t, ring) /\ DirectedYield(t, state)
    BY <1>10 DEF RInv, RingExact, YieldTo, Running, InRing
  <2>2. Turned /\ cpu' \in {"ok", "hung", "wild"}
    BY <1>10, <2>1, DirectedYieldTurns DEF RInv, TypeOK, YieldTo
  <2> QED
    BY <1>10, <2>1, <2>2, TurnRInv DEF YieldTo, counters, links, born
<1>11. CASE UNCHANGED vars
  BY <1>11 DEF RInv, TypeOK, RingExact, RingMatches, OwnerOK, InRing, vars,
               counters, links, born
<1> QED
  BY <1>1, <1>2, <1>3, <1>4, <1>5, <1>6, <1>7, <1>8, <1>9, <1>10, <1>11
     DEF Next

LEMMA RInvInvariant == Spec => []RInv
<1>1. RInv /\ [Next]_vars => RInv'
  BY NextRInv
<1> QED
  BY InitRInv, <1>1, PTL DEF Spec

\* Every variable of Lwt keeps its type, whatever the client and the
\* allocator do.
THEOREM TypeCorrect == Spec => []TypeOK
<1>1. RInv => TypeOK
  BY DEF RInv
<1> QED
  BY <1>1, RInvInvariant, PTL

\* Whatever the client calls and whichever descriptor the allocator returns,
\* the ring holds exactly the threads that may still run or be joined
\* (ps_list_add_d in lwt_create, ps_list_rem_d in lwt_join and lwt_die).
THEOREM RingCorrect == Spec => []RingExact
<1>1. RInv => RingExact
  BY DEF RInv
<1> QED
  BY <1>1, RInvInvariant, PTL

----------------------------------------------------------------------------
(* An allocator that never reuses a descriptor: a join ends when its own  *)
(* child has died, and no earlier.  The joinedfrom of a descriptor that   *)
(* lwt_create hands out is NULL then, and from there on a joinedfrom that *)
(* is not NULL names a thread that is inside lwt_join for this one.       *)

\* A descriptor not used yet holds no link; those in use have an id.
FreshOK ==
    /\ \A s \in Slots : tid[s] = 0 => joinedfrom[s] = NULL
    /\ \A t \in live : tid[t] # 0

BackLinkOK ==
    \A u \in live : joinedfrom[u] # NULL =>
        /\ joinedfrom[u] \in live
        /\ pc[joinedfrom[u]] = "joining"
        /\ joiningto[joinedfrom[u]] = u

WaitOK ==
    \A t \in live : pc[t] = "joining" =>
        /\ joinedfrom[joiningto[t]] = t
        /\ state[t] \in {"BLOCKED", "RUNNABLE"}
        /\ state[t] = "BLOCKED" <=> state[joiningto[t]] # "DEAD"

StateOK ==
    /\ \A t \in live : pc[t] = "user" => state[t] = "RUNNABLE"
    /\ \A t \in live : pc[t] = "exited" =>
          IF flag[t] = "NOJOIN" THEN state[t] = "RUNNABLE"
                                ELSE state[t] = "DEAD" /\ ret[t] = tid[t]

LinkInv == FreshOK /\ BackLinkOK /\ WaitOK /\ StateOK

LEMMA InitLinkInv == Init => LinkInv
  BY LwtAssumption
     DEF Init, LinkInv, FreshOK, BackLinkOK, WaitOK, StateOK

LEMMA CreateLinkInv ==
    ASSUME ~Recycle, RInv, LinkInv, NEW s \in Slots,
           NEW f \in {"DEFAULT", "NOJOIN"}, NEW h \in Slots \union {NULL},
           Create(s, f, h)
    PROVE  LinkInv'
<1>1. TypeOK /\ OwnerOK /\ MaxTid \in Nat
  BY LwtAssumption DEF RInv
<1>2. s \notin live /\ tid[s] = 0
  BY <1>1 DEF Create, Allocatable, TypeOK
<1>3. /\ live' = live \union {s}
      /\ tid' = [tid EXCEPT ![s] = lwt_tid_counter + 1]
      /\ state' = [state EXCEPT ![s] = "RUNNABLE"]
      /\ flag' = [flag EXCEPT ![s] = f]
      /\ pc' = [pc EXCEPT ![s] = "user"]
      /\ UNCHANGED <<joinedfrom, joiningto, ret>>
  BY DEF Create, KeepLinks, links
<1>4. joinedfrom[s] = NULL
  BY <1>2 DEF LinkInv, FreshOK
<1>5. FreshOK'
  BY <1>1, <1>3 DEF LinkInv, FreshOK, TypeOK
<1>6. BackLinkOK'
  BY <1>1, <1>2, <1>3, <1>4 DEF LinkInv, BackLinkOK, TypeOK
<1>7. WaitOK'
  <2> SUFFICES ASSUME NEW t \in live', pc'[t] = "joining"
               PROVE  /\ joinedfrom'[joiningto'[t]] = t
                      /\ state'[t] \in {"BLOCKED", "RUNNABLE"}
                      /\ state'[t] = "BLOCKED" <=> state'[joiningto'[t]] # "DEAD"
    BY DEF WaitOK
  <2>1. t \in live /\ t # s /\ t \in Slots /\ pc[t] = "joining"
    BY <1>1, <1>3 DEF TypeOK
  <2>2. joiningto[t] \in live /\ joiningto[t] # s /\ joiningto[t] \in Slots
    BY <2>1, <1>1, <1>2 DEF OwnerOK, TypeOK
  <2>3. state'[t] = state[t] /\ state'[joiningto[t]] = state[joiningto[t]]
    BY <2>1, <2>2, <1>1, <1>3 DEF TypeOK
  <2> QED
    BY <2>1, <2>3, <1>3 DEF LinkInv, WaitOK
<1>8. StateOK'
  BY <1>1, <1>2, <1>3 DEF LinkInv, StateOK, TypeOK
<1> QED
  BY <1>5, <1>6, <1>7, <1>8 DEF LinkInv

\* The thread t is DEAD and the current thread, which may join it, reaps it.
LEMMA ReapLinkInv ==
    ASSUME RInv, RingMatches, LinkInv, NEW t \in Slots, t \in live,
           owner[t] = ring[1], state[t] = "DEAD", Reap(t),
           pc[ring[1]] = "user" \/ (pc[ring[1]] = "joining" /\ joiningto[ring[1]] = t),
           pc' = [pc EXCEPT ![ring[1]] = "user"],
           state[ring[1]] = "RUNNABLE",
           joinedfrom' \in [Slots -> Slots \union {NULL}],
           \A u \in Slots : u # t => joinedfrom'[u] = joinedfrom[u],
           \A u \in Slots : u # ring[1] => joiningto'[u] = joiningto[u],
           tid[t] # 0,
           UNCHANGED <<flag, tid, ret, state>>
    PROVE  LinkInv'
<1> DEFINE c == ring[1]
<1>1. TypeOK /\ OwnerOK /\ c \in live /\ c \in Slots
  BY CurrentInRing DEF RInv, TypeOK
<1>2. live' = live \ {t}
  BY DEF Reap
<1>3. FreshOK'
  BY <1>1, <1>2 DEF LinkInv, FreshOK
<1>4. BackLinkOK'
  <2> SUFFICES ASSUME NEW u \in live', joinedfrom'[u] # NULL
               PROVE  /\ joinedfrom'[u] \in live'
                      /\ pc'[joinedfrom'[u]] = "joining"
                      /\ joiningto'[joinedfrom'[u]] = u
    BY DEF BackLinkOK
  <2> DEFINE j == joinedfrom[u]
  <2>1. u \in live /\ u # t /\ u \in Slots /\ joinedfrom'[u] = j
    BY <1>1, <1>2 DEF TypeOK
  <2>2. j \in live /\ pc[j] = "joining" /\ joiningto[j] = u /\ j \in Slots
    BY <2>1, <1>1 DEF LinkInv, BackLinkOK, TypeOK
  <2>3. j # c
    BY <2>1, <2>2
  <2>4. j # t
    BY <2>2 DEF LinkInv, WaitOK
  <2> QED
    BY <2>1, <2>2, <2>3, <2>4, <1>1, <1>2 DEF TypeOK
<1>5. WaitOK'
  <2> SUFFICES ASSUME NEW u \in live', pc'[u] = "joining"
               PROVE  /\ joinedfrom'[joiningto'[u]] = u
                      /\ state'[u] \in {"BLOCKED", "RUNNABLE"}
                      /\ state'[u] = "BLOCKED" <=> state'[joiningto'[u]] # "DEAD"
    BY DEF WaitOK
  <2>1. u \in live /\ u \in Slots /\ u # c /\ pc[u] = "joining"
    BY <1>1, <1>2 DEF TypeOK
  <2>2. joiningto[u] \in live /\ owner[joiningto[u]] = u
    BY <2>1, <1>1 DEF OwnerOK
  <2>3. joiningto[u] # t /\ joiningto[u] \in Slots
    BY <2>1, <2>2, <1>1 DEF TypeOK
  <2> QED
    BY <2>1, <2>3 DEF LinkInv, WaitOK
<1>6. StateOK'
  BY <1>1, <1>2 DEF LinkInv, StateOK, TypeOK
<1> QED
  BY <1>3, <1>4, <1>5, <1>6 DEF LinkInv

\* The current thread runs client code, so it is RUNNABLE.
LEMMA CurrentRunnable ==
    ASSUME RInv, RingMatches, LinkInv, pc[ring[1]] = "user"
    PROVE  state[ring[1]] = "RUNNABLE"
  BY CurrentInRing DEF LinkInv, StateOK

LEMMA JoinDeadLinkInv ==
    ASSUME RInv, LinkInv, NEW t \in Slots, JoinDead(t)
    PROVE  LinkInv'
<1> USE DEF current_thread
<1>0. RingMatches
  BY DEF RInv, RingExact, JoinDead, MayJoin, Running
<1>1. TypeOK /\ ring[1] \in live /\ ring[1] \in Slots
  BY <1>0, CurrentInRing DEF RInv, TypeOK
<1>2. /\ t \in live /\ owner[t] = ring[1] /\ state[t] = "DEAD" /\ Reap(t)
      /\ pc[ring[1]] = "user" /\ tid[t] # 0
  BY DEF JoinDead, MayJoin, Running, LinkInv, FreshOK
<1>3. state[ring[1]] = "RUNNABLE"
  BY <1>0, <1>2, CurrentRunnable
<1>4. /\ joinedfrom' \in [Slots -> Slots \union {NULL}]
      /\ \A u \in Slots : u # t => joinedfrom'[u] = joinedfrom[u]
      /\ \A u \in Slots : u # ring[1] => joiningto'[u] = joiningto[u]
  BY <1>1 DEF JoinDead, SetRelation, TypeOK
<1>5. UNCHANGED <<flag, tid, ret, state>> /\ pc' = [pc EXCEPT ![ring[1]] = "user"]
  BY <1>1, <1>2 DEF JoinDead, born, TypeOK
<1> QED
  BY <1>0, <1>2, <1>3, <1>4, <1>5, ReapLinkInv

\* lwt.c:91: when the loop ends, the child is DEAD.
LEMMA JoinReturnChildDead ==
    ASSUME RInv, LinkInv, JoinReturn
    PROVE  /\ RingMatches
           /\ ring[1] \in live /\ joiningto[ring[1]] \in live
           /\ owner[joiningto[ring[1]]] = ring[1]
           /\ state[joiningto[ring[1]]] = "DEAD"
           /\ state[ring[1]] = "RUNNABLE"
<1> USE DEF current_thread
<1>1. RingMatches /\ pc[ring[1]] = "joining" /\ state[ring[1]] # "BLOCKED"
  BY DEF RInv, RingExact, JoinReturn, Running
<1> QED
  BY <1>1, CurrentInRing DEF RInv, OwnerOK, LinkInv, WaitOK

LEMMA JoinReturnLinkInv ==
    ASSUME RInv, LinkInv, JoinReturn
    PROVE  LinkInv'
<1> USE DEF current_thread
<1> DEFINE t == joiningto[ring[1]]
<1>1. /\ RingMatches /\ t \in live /\ t \in Slots
      /\ owner[t] = ring[1] /\ state[t] = "DEAD"
      /\ state[ring[1]] = "RUNNABLE"
  BY JoinReturnChildDead DEF RInv, TypeOK
<1>2. pc[ring[1]] = "joining" /\ Reap(t) /\ pc' = [pc EXCEPT ![ring[1]] = "user"]
      /\ UNCHANGED <<flag, tid, ret, state, joinedfrom, joiningto>>
  BY DEF JoinReturn, Running, born, links
<1>3. joinedfrom' \in [Slots -> Slots \union {NULL}] /\ tid[t] # 0
  BY <1>1, <1>2 DEF RInv, TypeOK, LinkInv, FreshOK
<1> QED
  BY <1>1, <1>2, <1>3, ReapLinkInv

LEMMA JoinWaitLinkInv ==
    ASSUME RInv, LinkInv, NEW t \in Slots, JoinWait(t)
    PROVE  LinkInv'
<1> USE DEF current_thread
<1> DEFINE c == ring[1]
<1>0. RingMatches
  BY DEF RInv, RingExact, JoinWait, MayJoin, Running
<1>1. TypeOK /\ OwnerOK /\ c \in live /\ c \in Slots /\ NULL \notin Slots
  BY <1>0, CurrentInRing, LwtAssumption DEF RInv, TypeOK
<1>2. /\ t \in live /\ owner[t] = c /\ pc[c] = "user" /\ state[t] # "DEAD"
      /\ joiningto' = [joiningto EXCEPT ![c] = t]
      /\ joinedfrom' = [joinedfrom EXCEPT ![t] = c]
      /\ state' = [state EXCEPT ![c] = "BLOCKED"]
      /\ pc' = [pc EXCEPT ![c] = "joining"]
      /\ UNCHANGED <<live, ret, owner, flag, tid>>
  BY DEF JoinWait, MayJoin, Running, SetRelation, born
<1>3. state[c] = "RUNNABLE" /\ t # c
  BY <1>0, <1>1, <1>2, CurrentRunnable DEF OwnerOK
<1>4. FreshOK'
  BY <1>1, <1>2 DEF LinkInv, FreshOK, TypeOK
<1>5. BackLinkOK'
  <2> SUFFICES ASSUME NEW u \in live, joinedfrom'[u] # NULL
               PROVE  /\ joinedfrom'[u] \in live
                      /\ pc'[joinedfrom'[u]] = "joining"
                      /\ joiningto'[joinedfrom'[u]] = u
    BY <1>2 DEF BackLinkOK
  <2>1. CASE u = t
    BY <2>1, <1>1, <1>2 DEF TypeOK
  <2>2. CASE u # t
    <3>1. joinedfrom'[u] = joinedfrom[u] /\ u \in Slots
      BY <2>2, <1>1, <1>2 DEF TypeOK
    <3>2. /\ joinedfrom[u] \in live /\ pc[joinedfrom[u]] = "joining"
          /\ joiningto[joinedfrom[u]] = u /\ joinedfrom[u] # c
      BY <3>1, <1>2 DEF LinkInv, BackLinkOK
    <3> QED
      BY <3>1, <3>2, <1>1, <1>2 DEF TypeOK
  <2> QED
    BY <2>1, <2>2
<1>6. WaitOK'
  <2> SUFFICES ASSUME NEW u \in live, pc'[u] = "joining"
               PROVE  /\ joinedfrom'[joiningto'[u]] = u
                      /\ state'[u] \in {"BLOCKED", "RUNNABLE"}
                      /\ state'[u] = "BLOCKED" <=> state'[joiningto'[u]] # "DEAD"
    BY <1>2 DEF WaitOK
  <2>1. CASE u = c
    BY <2>1, <1>1, <1>2, <1>3 DEF TypeOK
  <2>2. CASE u # c
    <3>1. pc[u] = "joining" /\ u \in Slots /\ joiningto'[u] = joiningto[u]
          /\ state'[u] = state[u]
      BY <2>2, <1>1, <1>2 DEF TypeOK
    <3>2. joiningto[u] \in live /\ joiningto[u] \in Slots /\ joiningto[u] # t
      BY <2>2, <3>1, <1>1, <1>2 DEF OwnerOK, TypeOK
    <3>3. joinedfrom'[joiningto[u]] = joinedfrom[joiningto[u]]
      BY <3>2, <1>1, <1>2 DEF TypeOK
    <3>4. state'[joiningto[u]] # "DEAD" <=> state[joiningto[u]] # "DEAD"
      BY <3>2, <1>1, <1>2, <1>3 DEF TypeOK
    <3> QED
      BY <3>1, <3>3, <3>4 DEF LinkInv, WaitOK
  <2> QED
    BY <2>1, <2>2
<1>7. StateOK'
  BY <1>1, <1>2 DEF LinkInv, StateOK, TypeOK
<1> QED
  BY <1>4, <1>5, <1>6, <1>7 DEF LinkInv

LEMMA DieJoinableLinkInv ==
    ASSUME RInv, LinkInv, DieJoinable
    PROVE  LinkInv'
<1> USE DEF current_thread
<1> DEFINE c == ring[1]
           j == joinedfrom[c]
<1>0. RingMatches
  BY DEF RInv, RingExact, DieJoinable, Running
<1>1. TypeOK /\ OwnerOK /\ c \in live /\ c \in Slots /\ NULL \notin Slots
  BY <1>0, CurrentInRing, LwtAssumption DEF RInv, TypeOK
<1>2. /\ pc[c] = "user" /\ flag[c] = "DEFAULT"
      /\ state' = Wake(c)
      /\ ret' = [ret EXCEPT ![c] = tid[c]]
      /\ pc' = [pc EXCEPT ![c] = "exited"]
      /\ UNCHANGED <<live, owner, flag, tid, joinedfrom, joiningto>>
  BY DEF DieJoinable, Running, links, born
\* The thread woken, if any, is the one inside lwt_join for c.
<1>3. j \in Slots => j \in live /\ pc[j] = "joining" /\ joiningto[j] = c /\ j # c
  BY <1>1, <1>2 DEF LinkInv, BackLinkOK
<1>4. \A u \in Slots : state'[u] = IF u = j THEN "RUNNABLE"
                                   ELSE IF u = c THEN "DEAD" ELSE state[u]
  BY <1>2 DEF Wake
<1>5. FreshOK'
  BY <1>2 DEF LinkInv, FreshOK
<1>6. BackLinkOK'
  <2>1. ASSUME NEW u \in live, joinedfrom[u] # NULL
        PROVE  pc'[joinedfrom[u]] = "joining"
    BY <2>1, <1>1, <1>2 DEF LinkInv, BackLinkOK, TypeOK
  <2> QED
    BY <2>1, <1>2 DEF LinkInv, BackLinkOK
<1>7. WaitOK'
  <2> SUFFICES ASSUME NEW u \in live, pc'[u] = "joining"
               PROVE  /\ joinedfrom[joiningto[u]] = u
                      /\ state'[u] \in {"BLOCKED", "RUNNABLE"}
                      /\ state'[u] = "BLOCKED" <=> state'[joiningto[u]] # "DEAD"
    BY <1>2 DEF WaitOK
  <2> DEFINE v == joiningto[u]
  <2>1. u \in Slots /\ u # c /\ pc[u] = "joining"
    BY <1>1, <1>2 DEF TypeOK
  <2>2. /\ v \in Slots /\ joinedfrom[v] = u
        /\ state[u] \in {"BLOCKED", "RUNNABLE"}
        /\ state[u] = "BLOCKED" <=> state[v] # "DEAD"
    BY <2>1, <1>1 DEF LinkInv, WaitOK, OwnerOK, TypeOK
  <2>3. CASE u = j
    \* u was waiting for c, which is DEAD now.
    <3>1. v = c /\ j # c
      BY <2>1, <2>3, <1>3
    <3> QED
      BY <2>1, <2>2, <2>3, <3>1, <1>4, <1>1
  <2>4. CASE u # j
    <3>1. v # c
      BY <2>2, <2>4
    <3>2. v = j => state[v] # "DEAD"
      BY <2>2, <1>3 DEF LinkInv, WaitOK
    <3> QED
      BY <2>1, <2>2, <2>4, <3>1, <3>2, <1>4
  <2> QED
    BY <2>3, <2>4
<1>8. StateOK'
  BY <1>1, <1>2, <1>3, <1>4 DEF LinkInv, StateOK, TypeOK
<1> QED
  BY <1>5, <1>6, <1>7, <1>8 DEF LinkInv

LEMMA DieDetachedLinkInv ==
    ASSUME RInv, LinkInv, DieDetached
    PROVE  LinkInv'
<1> USE DEF current_thread
<1> DEFINE c == ring[1]
<1>0. RingMatches
  BY DEF RInv, RingExact, DieDetached, Running
<1>1. TypeOK /\ c \in live /\ c \in Slots
  BY <1>0, CurrentInRing DEF RInv, TypeOK
<1>2. /\ pc[c] = "user" /\ flag[c] = "NOJOIN"
      /\ pc' = [pc EXCEPT ![c] = "exited"]
      /\ UNCHANGED <<live, state, ret, flag, tid, joinedfrom, joiningto>>
  BY DEF DieDetached, Running, links, born
<1>3. FreshOK' /\ WaitOK'
  BY <1>1, <1>2 DEF LinkInv, FreshOK, WaitOK, TypeOK
<1>4. BackLinkOK'
  <2>1. ASSUME NEW u \in live, joinedfrom[u] # NULL
        PROVE  pc'[joinedfrom[u]] = "joining"
    BY <2>1, <1>1, <1>2 DEF LinkInv, BackLinkOK, TypeOK
  <2> QED
    BY <2>1, <1>2 DEF LinkInv, BackLinkOK
<1>5. StateOK'
  BY <1>1, <1>2 DEF LinkInv, StateOK, TypeOK
<1> QED
  BY <1>3, <1>4, <1>5 DEF LinkInv

LEMMA NextLinkInv ==
    ASSUME ~Recycle, RInv, LinkInv, [Next]_vars
    PROVE  LinkInv'
<1>1. ASSUME NEW s \in Slots, NEW f \in {"DEFAULT", "NOJOIN"},
             NEW h \in Slots \union {NULL}, Create(s, f, h)
      PROVE  LinkInv'
  BY <1>1, CreateLinkInv
<1>2. ASSUME NEW t \in Slots, JoinDead(t)
      PROVE  LinkInv'
  BY <1>2, JoinDeadLinkInv
<1>3. ASSUME NEW t \in Slots, JoinWait(t)
      PROVE  LinkInv'
  BY <1>3, JoinWaitLinkInv
<1>4. CASE JoinReturn
  BY <1>4, JoinReturnLinkInv
<1>5. CASE DieJoinable
  BY <1>5, DieJoinableLinkInv
<1>6. CASE DieDetached
  BY <1>6, DieDetachedLinkInv
<1>7. CASE JoinSpin \/ ReturnFromDie \/ Yield \/ (\E t \in Slots : YieldTo(t))
           \/ UNCHANGED vars
  <2>1. UNCHANGED <<live, state, ret, pc, flag, tid, joinedfrom, joiningto>>
    BY <1>7 DEF JoinSpin, ReturnFromDie, Yield, YieldTo, vars, links, born
  <2> QED
    BY <2>1 DEF LinkInv, FreshOK, BackLinkOK, WaitOK, StateOK
<1> QED
  BY <1>1, <1>2, <1>3, <1>4, <1>5, <1>6, <1>7 DEF Next

LEMMA LinkInvInvariant ==
    ASSUME ~Recycle
    PROVE  Spec => [](RInv /\ LinkInv)
<1>1. RInv /\ LinkInv /\ [Next]_vars => (RInv /\ LinkInv)'
  BY NextRInv, NextLinkInv
<1>2. Init => RInv /\ LinkInv
  BY InitRInv, InitLinkInv
<1> QED
  BY <1>1, <1>2, PTL DEF Spec

\* If no descriptor is reused, the thread a joiner waits for is always there
\* to wake it, and the joiner is BLOCKED exactly until that thread is DEAD:
\* the state lwt_die writes through joinedfrom is never lost and never given
\* to another thread.
THEOREM WakeupNeverLost ==
    ASSUME ~Recycle
    PROVE  Spec => []WakeupPending
<1>1. RInv /\ LinkInv => WakeupPending
  BY DEF RInv, LinkInv, OwnerOK, WaitOK, WakeupPending, Waiting
<1> QED
  BY <1>1, LinkInvInvariant, PTL

\* If no descriptor is reused, lwt_join frees only threads that have died,
\* and hands over what they passed to lwt_die.
THEOREM JoinSafe ==
    ASSUME ~Recycle
    PROVE  Spec => ReapOnlyDead
<1> USE DEF current_thread
<1> DEFINE A == \A t \in live : t \notin live' =>
                    state[t] = "DEAD" /\ joined'[tid[t]] = tid[t]
<1>1. ASSUME RInv, LinkInv, NEW t \in Slots, t \in live, state[t] = "DEAD",
             Reap(t), flag[t] = "DEFAULT"
      PROVE  A
  <2>1. TypeOK /\ StateOK /\ FreshOK
    BY <1>1 DEF RInv, LinkInv
  <2>2. live' = live \ {t} /\ joined' = [joined EXCEPT ![tid[t]] = ret[t]]
    BY <1>1 DEF Reap
  <2>3. pc[t] = "exited"
    <3>1. pc[t] # "joining"
      BY <1>1 DEF LinkInv, WaitOK
    <3>2. pc[t] # "user"
      BY <1>1, <2>1 DEF StateOK
    <3> QED
      BY <3>1, <3>2, <2>1 DEF TypeOK
  <2>4. ret[t] = tid[t]
    BY <1>1, <2>1, <2>3 DEF StateOK
  <2>5. tid[t] \in 1..MaxTid /\ joined \in [1..MaxTid -> 0..MaxTid]
    <3>1. tid[t] \in 0..MaxTid /\ tid[t] # 0 /\ MaxTid \in Nat
      BY <1>1, <2>1, LwtAssumption DEF TypeOK, FreshOK
    <3> QED
      BY <3>1, <2>1 DEF TypeOK
  <2>6. joined'[tid[t]] = tid[t]
    BY <2>2, <2>4, <2>5
  <2> QED
    BY <1>1, <2>2, <2>6
<1>2. ASSUME RInv, LinkInv, [Next]_vars
      PROVE  [A]_vars
  <2>1. ASSUME NEW t \in Slots, JoinDead(t)
        PROVE  A
    BY <2>1, <1>1, <1>2 DEF JoinDead, MayJoin
  <2>2. CASE JoinReturn
    <3>1. /\ joiningto[ring[1]] \in live
          /\ state[joiningto[ring[1]]] = "DEAD"
          /\ Reap(joiningto[ring[1]])
      BY <2>2, <1>2, JoinReturnChildDead DEF JoinReturn
    <3>2. joiningto[ring[1]] \in Slots /\ flag[joiningto[ring[1]]] = "DEFAULT"
      <4>1. ring[1] \in live /\ pc[ring[1]] = "joining"
        BY <2>2, <1>2, JoinReturnChildDead DEF JoinReturn, Running
      <4> QED
        BY <4>1, <3>1, <1>2 DEF RInv, OwnerOK, TypeOK
    <3> QED
      BY <3>1, <3>2, <1>1, <1>2
  <2>3. ASSUME live \subseteq live'
        PROVE  A
    BY <2>3
  <2>4. \/ \E t \in Slots : JoinDead(t)
        \/ JoinReturn
        \/ live \subseteq live'
    BY <1>2 DEF Next, Create, JoinWait, JoinSpin, DieJoinable, DieDetached,
                ReturnFromDie, Yield, YieldTo, vars
  <2> QED
    BY <2>1, <2>2, <2>3, <2>4
<1> QED
  BY <1>2, LinkInvInvariant, PTL DEF Spec, ReapOnlyDead
----------------------------------------------------------------------------
(* The cpu never gets stuck and lwt_info tells the truth, provided that   *)
(* the allocator reuses no descriptor and the client joins no thread that *)
(* is BLOCKED.                                                            *)
(*                                                                        *)
(* The heart is SomebodyElse: a thread that dies without waking anybody   *)
(* leaves a RUNNABLE thread behind.  If the main thread is not that thread*)
(* it is BLOCKED.  The BLOCKED threads are finitely many, each waits for  *)
(* another one, no two for the same (a thread has one owner), and none    *)
(* waits for the main thread: they cannot all be waiting for one another, *)
(* so one of them waits for a thread that runs.                           *)

MainOK ==
    Main \in live /\ owner[Main] = NULL /\ pc[Main] # "exited"
                  /\ flag[Main] = "DEFAULT"

CpuOK ==
    cpu = "ok" /\ state[ring[1]] = "RUNNABLE" /\ pc[ring[1]] # "exited"

CountOK ==
    /\ nBlocked = Cardinality(Waiting)
    /\ nRunnable = Cardinality(live) - Cardinality(Waiting)
    /\ nZombies = Cardinality(live) - 1

Base == RInv /\ LinkInv
GoInv == MainOK /\ CpuOK /\ CountOK

LEMMA LiveFinite ==
    ASSUME TypeOK
    PROVE  /\ IsFiniteSet(live) /\ Cardinality(live) \in Nat
           /\ IsFiniteSet(Waiting) /\ Cardinality(Waiting) \in Nat
<1>1. live \in SUBSET Slots /\ Waiting \in SUBSET live /\ IsFiniteSet(Slots)
  BY LwtAssumption DEF TypeOK, Waiting
<1> QED
  BY <1>1, FS_Subset, FS_CardinalityType

\* Some BLOCKED thread waits for a thread that is not BLOCKED.
LEMMA ChainEnds ==
    ASSUME Base, MainOK, state[Main] # "RUNNABLE"
    PROVE  \E x \in live : /\ pc[x] = "joining" /\ state[x] = "BLOCKED"
                           /\ state[joiningto[x]] = "RUNNABLE"
<1> DEFINE B == {t \in live : pc[t] = "joining" /\ state[t] = "BLOCKED"}
           T == B \ {Main}
           f == [x \in B |-> joiningto[x]]
<1>1. TypeOK /\ OwnerOK /\ WaitOK /\ StateOK /\ Main \in Slots /\ NULL \notin Slots
  BY LwtAssumption DEF Base, RInv, LinkInv
<1>2. Main \in B
  <2>1. pc[Main] = "joining"
    BY <1>1 DEF MainOK, StateOK, TypeOK
  <2> QED
    BY <2>1, <1>1 DEF MainOK, WaitOK
<1>3. IsFiniteSet(B) /\ IsFiniteSet(T) /\ Cardinality(T) < Cardinality(B)
  <2>1. IsFiniteSet(B) /\ Cardinality(B) \in Nat
    <3>1. B \in SUBSET live /\ IsFiniteSet(live)
      BY <1>1, LiveFinite
    <3> QED
      BY <3>1, FS_Subset, FS_CardinalityType
  <2>2. IsFiniteSet(T) /\ Cardinality(T) = Cardinality(B) - 1
    BY <2>1, <1>2, FS_RemoveElement
  <2> QED
    BY <2>1, <2>2
<1>4. \A x \in B : /\ joiningto[x] \in live /\ joiningto[x] \in Slots
                   /\ owner[joiningto[x]] = x
                   /\ flag[joiningto[x]] = "DEFAULT"
                   /\ state[joiningto[x]] # "DEAD"
  BY <1>1 DEF OwnerOK, WaitOK, TypeOK
<1>5. PICK x \in B : joiningto[x] \notin B
  <2> SUFFICES ASSUME \A x \in B : joiningto[x] \in B
               PROVE  FALSE
    OBVIOUS
  <2>1. \A x \in B : joiningto[x] \in T
    <3>1. ASSUME NEW x \in B
          PROVE  joiningto[x] # Main
      <4>1. x \in Slots /\ owner[joiningto[x]] = x
        BY <1>1, <1>4 DEF TypeOK
      <4> QED
        BY <4>1, <1>1 DEF MainOK
    <3> QED
      BY <3>1
  <2>2. f \in [B -> T]
    BY <2>1
  <2> HIDE DEF T
  <2>3. \E x, y \in B : x # y /\ f[x] = f[y]
    <3> HIDE DEF B, f
    <3> QED
      BY <1>3, <2>2, FS_PigeonHole
  <2> QED
    BY <2>3, <1>4
<1>6. state[joiningto[x]] = "RUNNABLE"
  <2> DEFINE u == joiningto[x]
  <2>1. u \in live /\ flag[u] = "DEFAULT" /\ state[u] # "DEAD" /\ u \notin B
        /\ pc[u] \in {"user", "joining", "exited"}
    BY <1>1, <1>4, <1>5 DEF TypeOK
  <2>2. CASE pc[u] = "user"
    BY <2>1, <2>2, <1>1 DEF StateOK
  <2>3. CASE pc[u] = "joining"
    BY <2>1, <2>3, <1>1 DEF WaitOK
  <2>4. CASE pc[u] = "exited"
    BY <2>1, <2>4, <1>1 DEF StateOK
  <2> QED
    BY <2>1, <2>2, <2>3, <2>4
<1> QED
  BY <1>5, <1>6

\* A thread other than the main one that nobody waits for is not the only
\* RUNNABLE thread of the ring.
LEMMA SomebodyElse ==
    ASSUME Base, RingMatches, MainOK, NEW c \in live, c # Main,
           joinedfrom[c] = NULL \/ flag[c] = "NOJOIN"
    PROVE  \E t \in Slots : Occurs(t, ring) /\ t # c /\ state[t] = "RUNNABLE"
<1>1. TypeOK /\ OwnerOK /\ WaitOK /\ NULL \notin Slots
  BY LwtAssumption DEF Base, RInv, LinkInv
<1>2. CASE state[Main] = "RUNNABLE"
  <2>1. Main \in Slots /\ Occurs(Main, ring)
    BY LwtAssumption DEF MainOK, RingMatches, InRing
  <2> QED
    BY <2>1, <1>2
<1>3. CASE state[Main] # "RUNNABLE"
  <2>1. PICK x \in live : pc[x] = "joining" /\ state[joiningto[x]] = "RUNNABLE"
    BY <1>3, ChainEnds
  <2> DEFINE u == joiningto[x]
  <2>2. u \in live /\ u \in Slots /\ flag[u] = "DEFAULT" /\ joinedfrom[u] = x
        /\ x \in Slots
    BY <2>1, <1>1 DEF OwnerOK, WaitOK, TypeOK
  <2>3. u # c
    BY <2>2, <1>1
  <2>4. Occurs(u, ring)
    BY <2>2 DEF RingMatches, InRing
  <2> QED
    BY <2>1, <2>2, <2>3, <2>4
<1> QED
  BY <1>2, <1>3

\* __lwt_schedule with a thread it can find: it runs a RUNNABLE thread of
\* the ring.
LEMMA ScheduleFinds ==
    ASSUME RInv, RingMatches, NEW st, nRunnable # 0,
           NEW t, Occurs(t, ring), st[t] = "RUNNABLE", lwt_schedule(st)
    PROVE  cpu' = cpu /\ st[ring'[1]] = "RUNNABLE" /\ Occurs(ring'[1], ring)
<1>1. ring \in Seq(Slots) /\ Len(ring) >= 1
  BY DEF RInv, TypeOK
<1>2. SomeRunnable(ring, st)
  BY DEF SomeRunnable, Occurs
<1>3. PICK k \in 1..Len(ring) : k = NextRunnable(ring, st) /\ StopsAt(ring, k, st)
  BY <1>1, <1>2, ScanStops
<1>4. ring' = RotateTo(ring, k) /\ cpu' = cpu
  BY <1>2, <1>3 DEF lwt_schedule
<1>5. ring'[1] = ring[k]
  BY <1>1, <1>4, RotateProperties
<1> QED
  BY <1>1, <1>3, <1>4, <1>5 DEF StopsAt, Occurs

----------------------------------------------------------------------------
(* The main thread is never freed and nobody holds the right to join it.  *)

LEMMA InitGoInv == Init => GoInv
<1> SUFFICES ASSUME Init
             PROVE  GoInv
  OBVIOUS
<1>1. ring[1] = Main /\ Main \in Slots
  BY LwtAssumption DEF Init
<1>2. live = {Main} /\ Waiting = {}
  BY <1>1 DEF Init, Waiting
<1>3. Cardinality(live) = 1 /\ Cardinality(Waiting) = 0
  BY <1>2, FS_Singleton, FS_EmptySet
<1>4. MainOK /\ CpuOK
  BY <1>1 DEF Init, MainOK, CpuOK
<1>5. CountOK
  BY <1>3 DEF Init, CountOK
<1> QED
  BY <1>4, <1>5 DEF GoInv

\* The thread reaped by lwt_join is not the main thread.
LEMMA ReapMain ==
    ASSUME RInv, MainOK, NEW t \in Slots, Reap(t), owner[t] \in Slots
    PROVE  /\ Main \in live' /\ owner'[Main] = NULL
<1>1. t # Main /\ NULL \notin Slots
  BY LwtAssumption DEF MainOK
<1> QED
  BY <1>1, LwtAssumption DEF RInv, TypeOK, MainOK, Reap

LEMMA NextMainOK ==
    ASSUME Base, MainOK, CpuOK, [Next]_vars
    PROVE  MainOK'
<1> USE DEF current_thread
<1>1. TypeOK /\ OwnerOK /\ RingMatches /\ Main \in Slots /\ NULL \notin Slots
  BY LwtAssumption DEF Base, RInv, RingExact, CpuOK
<1>2. ring[1] \in live /\ ring[1] \in Slots
  BY <1>1, CurrentInRing DEF Base, TypeOK
<1>3. ASSUME NEW s \in Slots, NEW f \in {"DEFAULT", "NOJOIN"},
             NEW h \in Slots \union {NULL}, Create(s, f, h)
      PROVE  MainOK'
  <2>1. s # Main /\ h # Main
    BY <1>1, <1>2, <1>3 DEF Create, Allocatable, MainOK
  <2>2. /\ pc' = [pc EXCEPT ![s] = "user"] /\ flag' = [flag EXCEPT ![s] = f]
        /\ live' = live \union {s} /\ owner' = HandOver(ring[1], s, h)
    BY <1>3 DEF Create
  <2>3. owner'[Main] = NULL
    BY <1>1, <2>1, <2>2 DEF HandOver, MainOK, TypeOK
  <2> QED
    BY <1>1, <2>1, <2>2, <2>3 DEF MainOK, TypeOK
<1>4. ASSUME NEW t \in Slots, JoinDead(t)
      PROVE  MainOK'
  <2>1. Reap(t) /\ owner[t] \in Slots /\ pc' = pc /\ flag' = flag
    BY <1>2, <1>4 DEF JoinDead, MayJoin, born
  <2> QED
    BY <2>1, ReapMain DEF Base, MainOK
<1>5. CASE JoinReturn
  <2>1. /\ joiningto[ring[1]] \in Slots /\ owner[joiningto[ring[1]]] \in Slots
    BY <1>1, <1>2, <1>5 DEF JoinReturn, Running, OwnerOK, TypeOK
  <2>2. Reap(joiningto[ring[1]]) /\ flag' = flag
        /\ pc' = [pc EXCEPT ![ring[1]] = "user"]
    BY <1>5 DEF JoinReturn, born
  <2>3. Main \in live' /\ owner'[Main] = NULL
    BY <2>1, <2>2, ReapMain DEF Base
  <2> QED
    BY <1>1, <1>2, <2>2, <2>3 DEF MainOK, TypeOK
<1>6. ASSUME NEW t \in Slots, JoinWait(t)
      PROVE  MainOK'
  BY <1>1, <1>2, <1>6 DEF JoinWait, MainOK, TypeOK, born
<1>7. CASE DieJoinable \/ DieDetached
  BY <1>1, <1>2, <1>7 DEF DieJoinable, DieDetached, MainOK, TypeOK, born
<1>8. CASE JoinSpin \/ ReturnFromDie \/ Yield \/ (\E t \in Slots : YieldTo(t))
           \/ UNCHANGED vars
  BY <1>8 DEF JoinSpin, ReturnFromDie, Yield, YieldTo, vars, MainOK, born
<1> QED
  BY <1>3, <1>4, <1>5, <1>6, <1>7, <1>8 DEF Next

----------------------------------------------------------------------------
(* The counters.                                                          *)

\* A reaped thread is not itself waiting in lwt_join.
LEMMA ReapCount ==
    ASSUME Base, CountOK, NEW t \in live, state[t] = "DEAD", Reap(t),
           NEW c \in live, c # t, pc' = [pc EXCEPT ![c] = "user"]
    PROVE  /\ Cardinality(live') = Cardinality(live) - 1
           /\ Waiting' = Waiting \ {c}
           /\ nZombies' = Cardinality(live') - 1
<1>1. TypeOK /\ WaitOK /\ StateOK
  BY DEF Base, RInv, LinkInv
<1>2. live' = live \ {t} /\ nZombies' = nZombies - 1
  BY DEF Reap
<1>3. pc[t] # "joining"
  BY <1>1 DEF WaitOK
<1>4. Waiting' = Waiting \ {c}
  BY <1>1, <1>2, <1>3 DEF Waiting, TypeOK
<1>5. Cardinality(live') = Cardinality(live) - 1
  BY <1>1, <1>2, LiveFinite, FS_RemoveElement
<1> QED
  BY <1>1, <1>2, <1>4, <1>5, LiveFinite DEF CountOK

LEMMA NextCountOK ==
    ASSUME ~JoinBlocked, Base, CpuOK, CountOK, [Next]_vars
    PROVE  CountOK'
<1> USE DEF current_thread
<1> DEFINE c == ring[1]
<1>1. TypeOK /\ OwnerOK /\ RingMatches /\ WaitOK /\ StateOK
  BY DEF Base, RInv, RingExact, LinkInv, CpuOK
<1>2. c \in live /\ c \in Slots
  BY <1>1, CurrentInRing DEF Base, TypeOK
<1>3. /\ IsFiniteSet(live) /\ Cardinality(live) \in Nat
      /\ IsFiniteSet(Waiting) /\ Cardinality(Waiting) \in Nat
  BY <1>1, LiveFinite
<1>4. ASSUME NEW s \in Slots, NEW f \in {"DEFAULT", "NOJOIN"},
             NEW h \in Slots \union {NULL}, Create(s, f, h)
      PROVE  CountOK'
  <2>1. /\ s \notin live /\ live' = live \union {s}
        /\ pc' = [pc EXCEPT ![s] = "user"]
        /\ nRunnable' = nRunnable + 1 /\ nZombies' = nZombies + 1
        /\ nBlocked' = nBlocked
    BY <1>4 DEF Create, Allocatable
  <2>2. Waiting' = Waiting
    BY <1>1, <2>1 DEF Waiting, TypeOK
  <2>3. Cardinality(live') = Cardinality(live) + 1
    BY <1>3, <2>1, FS_AddElement
  <2> QED
    BY <1>3, <2>1, <2>2, <2>3 DEF CountOK
<1>5. ASSUME NEW t \in Slots, JoinDead(t)
      PROVE  CountOK'
  <2>1. /\ t \in live /\ state[t] = "DEAD" /\ Reap(t) /\ pc[c] = "user"
        /\ pc' = pc /\ nRunnable' = nRunnable - 1 /\ nBlocked' = nBlocked
    BY <1>5 DEF JoinDead, MayJoin, Running
  <2>2. c # t
    BY <1>5, <1>1 DEF JoinDead, MayJoin, OwnerOK
  <2>3. pc' = [pc EXCEPT ![c] = "user"]
    BY <1>1, <2>1 DEF TypeOK
  <2>4. /\ Cardinality(live') = Cardinality(live) - 1
        /\ Waiting' = Waiting \ {c}
        /\ nZombies' = Cardinality(live') - 1
    BY <1>2, <2>1, <2>2, <2>3, ReapCount
  <2>5. Waiting' = Waiting
    <3>1. c \notin Waiting
      BY <2>1 DEF Waiting
    <3> QED
      BY <2>4, <3>1
  <2>6. Cardinality(Waiting') = Cardinality(Waiting)
    BY <2>5
  <2> QED
    BY <1>3, <2>1, <2>4, <2>6 DEF CountOK
<1>6. CASE JoinReturn
  <2> DEFINE t == joiningto[c]
  <2>1. /\ t \in live /\ owner[t] = c /\ state[t] = "DEAD"
        /\ pc[c] = "joining" /\ Reap(t)
        /\ pc' = [pc EXCEPT ![c] = "user"]
        /\ nBlocked' = nBlocked - 1 /\ nRunnable' = nRunnable
    BY <1>6, JoinReturnChildDead DEF Base, JoinReturn, Running
  <2>2. c # t
    BY <1>1, <1>2, <2>1 DEF OwnerOK
  <2>3. /\ Cardinality(live') = Cardinality(live) - 1
        /\ Waiting' = Waiting \ {c}
        /\ nZombies' = Cardinality(live') - 1
    BY <1>2, <2>1, <2>2, ReapCount
  <2>4. Cardinality(Waiting') = Cardinality(Waiting) - 1
    <3>1. c \in Waiting
      BY <1>2, <2>1 DEF Waiting
    <3>2. Cardinality(Waiting \ {c}) = Cardinality(Waiting) - 1
      BY <1>3, <3>1, FS_RemoveElement
    <3> QED
      BY <2>3, <3>2
  <2> QED
    BY <1>3, <2>1, <2>3, <2>4 DEF CountOK
<1>7. ASSUME NEW t \in Slots, JoinWait(t)
      PROVE  CountOK'
  <2>1. /\ pc[c] = "user" /\ pc' = [pc EXCEPT ![c] = "joining"]
        /\ live' = live /\ nZombies' = nZombies
        /\ nRunnable' = nRunnable - 1 /\ nBlocked' = nBlocked + 1
    BY <1>7 DEF JoinWait, MayJoin, Running, LoopBody
  <2>2. Waiting' = Waiting \union {c} /\ c \notin Waiting
    BY <1>1, <1>2, <2>1 DEF Waiting, TypeOK
  <2>3. Cardinality(Waiting') = Cardinality(Waiting) + 1
    BY <1>3, <2>2, FS_AddElement
  <2> QED
    BY <1>3, <2>1, <2>3 DEF CountOK
<1>8. ~JoinSpin
  BY DEF JoinSpin, CpuOK
<1>9. CASE DieJoinable \/ DieDetached
  <2>1. /\ pc[c] = "user" /\ pc' = [pc EXCEPT ![c] = "exited"]
        /\ live' = live /\ UNCHANGED <<nRunnable, nZombies, nBlocked>>
    BY <1>9 DEF DieJoinable, DieDetached, Running, counters
  <2>2. Waiting' = Waiting
    BY <1>1, <2>1 DEF Waiting, TypeOK
  <2> QED
    BY <2>1, <2>2 DEF CountOK
<1>10. CASE ReturnFromDie \/ Yield \/ (\E t \in Slots : YieldTo(t))
            \/ UNCHANGED vars
  <2>1. UNCHANGED <<live, pc, nRunnable, nZombies, nBlocked>>
    BY <1>10 DEF ReturnFromDie, Yield, YieldTo, vars, counters
  <2> QED
    BY <2>1 DEF CountOK, Waiting
<1> QED
  BY <1>4, <1>5, <1>6, <1>7, <1>8, <1>9, <1>10 DEF Next

\* While the current thread runs client code, the runnable count is not 0.
LEMMA CountNotZero ==
    ASSUME Base, CpuOK, CountOK, pc[ring[1]] = "user"
    PROVE  nRunnable # 0
<1>1. TypeOK /\ RingMatches
  BY DEF Base, RInv, RingExact, CpuOK
<1>2. ring[1] \in live /\ ring[1] \notin Waiting
  BY <1>1, CurrentInRing DEF Base, Waiting
<1>3. /\ IsFiniteSet(live) /\ Cardinality(live) \in Nat
      /\ Cardinality(Waiting) \in Nat
  BY <1>1, LiveFinite
<1>4. /\ IsFiniteSet(live \ {ring[1]})
      /\ Cardinality(live \ {ring[1]}) = Cardinality(live) - 1
  BY <1>2, <1>3, FS_RemoveElement
<1>5. Waiting \in SUBSET (live \ {ring[1]})
  BY <1>2 DEF Waiting
<1>6. Cardinality(Waiting) <= Cardinality(live) - 1
  BY <1>4, <1>5, FS_Subset
<1> QED
  BY <1>3, <1>6 DEF CountOK

----------------------------------------------------------------------------
(* The current thread can go on.                                          *)

\* A RUNNABLE current thread has not died.
LEMMA RunnableNotExited ==
    ASSUME RInv', LinkInv', cpu' = "ok", state'[ring'[1]] = "RUNNABLE",
           ring'[1] \in Slots, Occurs(ring'[1], ring')
    PROVE  CpuOK'
<1>1. RingMatches' /\ StateOK' /\ TypeOK'
  BY DEF RInv, RingExact, LinkInv
<1>2. /\ ring'[1] \in live'
      /\ ~(flag'[ring'[1]] = "NOJOIN" /\ pc'[ring'[1]] = "exited")
  BY <1>1 DEF RingMatches, InRing
<1>3. pc'[ring'[1]] # "exited"
  BY <1>1, <1>2 DEF StateOK, TypeOK
<1> QED
  BY <1>3 DEF CpuOK

\* The current thread is always in the ring (the primed CurrentInRing).
LEMMA CurrentInRingNext ==
    ASSUME TypeOK'
    PROVE  ring'[1] \in Slots /\ Occurs(ring'[1], ring')
<1>1. ring' \in Seq(Slots) /\ Len(ring') >= 1
  BY DEF TypeOK
<1>2. 1 \in DOMAIN ring' /\ ring'[1] \in Slots
  BY <1>1
<1> QED
  BY <1>2 DEF Occurs

LEMMA NextCpuOK ==
    ASSUME ~Recycle, ~JoinBlocked, Base, GoInv, [Next]_vars
    PROVE  CpuOK'
<1> USE DEF current_thread
<1> DEFINE c == ring[1]
<1>1. TypeOK /\ OwnerOK /\ RingMatches /\ CpuOK /\ MainOK /\ CountOK
  BY DEF Base, RInv, RingExact, GoInv, CpuOK
<1>2. /\ c \in live /\ c \in Slots /\ Occurs(c, ring)
      /\ ring \in Seq(Slots) /\ Len(ring) >= 1
  BY <1>1, CurrentInRing DEF Base, TypeOK
<1>3. RInv' /\ LinkInv' /\ TypeOK'
  BY NextRInv, NextLinkInv DEF Base, RInv
<1>4. SUFFICES cpu' = "ok" /\ state'[ring'[1]] = "RUNNABLE"
  BY <1>3, RunnableNotExited, CurrentInRingNext
<1>5. ASSUME NEW s \in Slots, NEW f \in {"DEFAULT", "NOJOIN"},
             NEW h \in Slots \union {NULL}, Create(s, f, h)
      PROVE  cpu' = "ok" /\ state'[ring'[1]] = "RUNNABLE"
  <2>1. /\ s \notin live /\ ring' = Append(ring, s) /\ cpu' = cpu
        /\ state' = [state EXCEPT ![s] = "RUNNABLE"]
    BY <1>5 DEF Create, Allocatable
  <2>2. ring'[1] = c /\ c # s
    BY <1>2, <2>1
  <2> QED
    BY <1>1, <1>2, <2>1, <2>2 DEF CpuOK, TypeOK
<1>6. ASSUME NEW t \in Slots, Reap(t), t \in live, owner[t] = c,
             flag[t] = "DEFAULT", cpu' = cpu, state' = state
      PROVE  cpu' = "ok" /\ state'[ring'[1]] = "RUNNABLE"
  <2>1. t # c /\ Occurs(t, ring)
    BY <1>1, <1>6 DEF OwnerOK, RingMatches, InRing
  <2>2. ring'[1] = c
    BY <1>1, <1>6, <2>1, ReapUnlinks DEF Base
  <2> QED
    BY <1>1, <1>6, <2>2 DEF CpuOK
<1>7. ASSUME NEW t \in Slots, JoinDead(t)
      PROVE  cpu' = "ok" /\ state'[ring'[1]] = "RUNNABLE"
  BY <1>6, <1>7 DEF JoinDead, MayJoin
<1>8. CASE JoinReturn
  <2> DEFINE t == joiningto[c]
  <2>1. t \in live /\ t \in Slots /\ owner[t] = c /\ flag[t] = "DEFAULT"
    BY <1>1, <1>2, <1>8 DEF JoinReturn, Running, OwnerOK, TypeOK
  <2>2. Reap(t) /\ cpu' = cpu /\ state' = state
    BY <1>8 DEF JoinReturn
  <2> QED
    BY <2>1, <2>2, <1>6
<1>9. ASSUME NEW t \in Slots, JoinWait(t)
      PROVE  cpu' = "ok" /\ state'[ring'[1]] = "RUNNABLE"
  <2>1. /\ t \in live /\ owner[t] = c /\ flag[t] = "DEFAULT"
        /\ state[t] # "DEAD" /\ state[t] # "BLOCKED"
        /\ state' = [state EXCEPT ![c] = "BLOCKED"]
        /\ DirectedYield(t, state') /\ cpu' = cpu
    BY <1>9 DEF JoinWait, MayJoin, LoopBody
  <2>2. t # c /\ Occurs(t, ring)
    BY <1>1, <1>2, <2>1 DEF OwnerOK, RingMatches, InRing
  <2>3. state'[t] = "RUNNABLE"
    BY <1>1, <1>2, <2>1, <2>2 DEF TypeOK
  <2>4. ring'[1] = t
    BY <1>1, <2>1, <2>2, <2>3, DirectedYieldTurns DEF Base
  <2> QED
    BY <1>1, <2>1, <2>3, <2>4 DEF CpuOK
<1>10. ~JoinSpin /\ ~ReturnFromDie
  BY <1>1 DEF JoinSpin, ReturnFromDie, Running, CpuOK
<1>11. CASE DieJoinable
  <2>1. /\ pc[c] = "user" /\ c # Main /\ flag[c] = "DEFAULT"
        /\ state' = Wake(c) /\ lwt_schedule(state')
    BY <1>11 DEF DieJoinable, Running
  <2>2. nRunnable # 0
    BY <1>1, <2>1, CountNotZero
  <2>3. PICK t \in Slots : Occurs(t, ring) /\ state'[t] = "RUNNABLE"
    <3>1. CASE joinedfrom[c] = NULL
      <4>1. PICK t \in Slots : Occurs(t, ring) /\ t # c /\ state[t] = "RUNNABLE"
        BY <1>1, <1>2, <2>1, <3>1, SomebodyElse
      <4> QED
        BY <2>1, <4>1 DEF Wake
    <3>2. CASE joinedfrom[c] # NULL
      <4> DEFINE j == joinedfrom[c]
      <4>1. j \in live /\ j \in Slots /\ pc[j] = "joining"
        BY <1>1, <1>2, <3>2 DEF Base, LinkInv, BackLinkOK, TypeOK
      <4>2. Occurs(j, ring)
        BY <1>1, <4>1 DEF RingMatches, InRing
      <4>3. state'[j] = "RUNNABLE"
        BY <2>1, <4>1 DEF Wake
      <4> QED
        BY <4>1, <4>2, <4>3
    <3> QED
      BY <3>1, <3>2
  <2> QED
    BY <1>1, <2>1, <2>2, <2>3, ScheduleFinds DEF Base, CpuOK
<1>12. CASE DieDetached
  <2> DEFINE others == Drop(ring, 1)
  <2>1. pc[c] = "user" /\ c # Main /\ flag[c] = "NOJOIN" /\ state' = state
    BY <1>12 DEF DieDetached, Running
  <2>2. PICK t \in Slots : Occurs(t, ring) /\ t # c /\ state[t] = "RUNNABLE"
    BY <1>1, <1>2, <2>1, SomebodyElse
  <2>3. /\ others \in Seq(Slots) /\ Occurs(t, others)
    BY <1>1, <1>2, <2>2, DropProperties DEF RingMatches
  <2>4. SomeRunnable(others, state)
    BY <2>2, <2>3 DEF SomeRunnable, Occurs
  <2>5. cpu' = cpu
    BY <1>12, <2>4 DEF DieDetached
  <2>6. \E k \in DOMAIN others :
           /\ state[others[k]] = "RUNNABLE"
           /\ \A j \in 1..(k - 1) : state[others[j]] # "RUNNABLE"
    BY <2>3, <2>4, FirstRunnable
  <2>7. PICK k \in DOMAIN others : /\ ring' = RotateTo(others, k)
                                   /\ state[others[k]] = "RUNNABLE"
    BY <1>12, <2>4, <2>6 DEF DieDetached
  <2>8. ring'[1] = others[k]
    <3> HIDE DEF others
    <3> QED
      BY <2>3, <2>7, RotateProperties
  <2> QED
    BY <1>1, <2>1, <2>5, <2>7, <2>8 DEF CpuOK
<1>13. CASE Yield
  <2>1. nRunnable # 0 /\ state' = state /\ lwt_schedule(state)
    BY <1>1, <1>13, CountNotZero DEF Yield, Running
  <2> QED
    BY <1>1, <1>2, <2>1, ScheduleFinds DEF Base, CpuOK
<1>14. ASSUME NEW t \in Slots, YieldTo(t)
       PROVE  cpu' = "ok" /\ state'[ring'[1]] = "RUNNABLE"
  <2>1. /\ Occurs(t, ring) /\ DirectedYield(t, state)
        /\ state' = state /\ cpu' = cpu
    BY <1>14 DEF YieldTo, InRing
  <2> QED
    BY <1>1, <2>1, DirectedYieldTurns DEF Base, CpuOK
<1>15. CASE UNCHANGED vars
  BY <1>1, <1>15 DEF vars, CpuOK
<1> QED
  BY <1>5, <1>7, <1>8, <1>9, <1>10, <1>11, <1>12, <1>13, <1>14, <1>15 DEF Next

LEMMA GoInvariant ==
    ASSUME ~Recycle, ~JoinBlocked
    PROVE  Spec => [](Base /\ GoInv)
<1>1. Init => Base /\ GoInv
  BY InitRInv, InitLinkInv, InitGoInv DEF Base
<1>2. Base /\ GoInv /\ [Next]_vars => (Base /\ GoInv)'
  <2> SUFFICES ASSUME Base, GoInv, [Next]_vars
               PROVE  (Base /\ GoInv)'
    OBVIOUS
  <2>1. RInv' /\ LinkInv'
    BY NextRInv, NextLinkInv DEF Base
  <2>2. MainOK' /\ CountOK'
    BY NextMainOK, NextCountOK DEF GoInv
  <2>3. CpuOK'
    BY NextCpuOK
  <2> QED
    BY <2>1, <2>2, <2>3 DEF Base, GoInv
<1> QED
  BY <1>1, <1>2, PTL DEF Spec

\* The scans of __lwt_schedule (lwt.c:191) and lwt_die (lwt.c:115) always
\* find a thread, no thread runs on after its death, and none is resumed in
\* the loop of lwt_join before its child has died.
THEOREM CpuNeverStuck ==
    ASSUME ~Recycle, ~JoinBlocked
    PROVE  Spec => []NeverStuck
<1>1. GoInv => NeverStuck
  BY DEF GoInv, CpuOK, NeverStuck, Spinning, current_thread
<1> QED
  BY <1>1, GoInvariant, PTL

LEMMA DisjointUnion ==
    ASSUME NEW S, NEW T, IsFiniteSet(S), IsFiniteSet(T), S \intersect T = {}
    PROVE  Cardinality(S \union T) = Cardinality(S) + Cardinality(T)
<1>1. Cardinality(S \union T) = Cardinality(S) + Cardinality(T) - Cardinality(S \intersect T)
  BY FS_Union
<1>2. Cardinality(S \intersect T) = 0
  BY FS_EmptySet
<1>3. Cardinality(S) \in Nat /\ Cardinality(T) \in Nat
  BY FS_CardinalityType
<1> QED
  BY <1>1, <1>2, <1>3

\* Who is in the ring, and who is not in lwt_join.
LEMMA CountedSets ==
    ASSUME Base, GoInv
    PROVE  /\ Listed = live \ Ended /\ Ended \subseteq live
           /\ live \ Waiting = Ready \union (Dead \union Ended)
           /\ Ready \intersect (Dead \union Ended) = {} /\ Dead \intersect Ended = {}
<1>1. TypeOK /\ WaitOK /\ StateOK /\ RingMatches
  BY DEF Base, RInv, RingExact, LinkInv, GoInv, CpuOK
<1>2. Listed = live \ Ended /\ Ended \subseteq live
  BY <1>1 DEF Listed, Ended, RingMatches, TypeOK
<1>3. ASSUME NEW t \in live
      PROVE  /\ t \notin Waiting <=> t \in Ready \/ t \in Dead \/ t \in Ended
             /\ ~(t \in Ready /\ t \in Dead) /\ ~(t \in Ready /\ t \in Ended)
             /\ ~(t \in Dead /\ t \in Ended)
  <2>1. t \in Slots /\ pc[t] \in {"user", "joining", "exited"}
    BY <1>1 DEF TypeOK
  <2> QED
    BY <1>1, <2>1 DEF Waiting, Ready, Dead, Ended, WaitOK, StateOK
<1>4. Waiting \subseteq live /\ Ready \subseteq live /\ Dead \subseteq live
  BY DEF Waiting, Ready, Dead
<1> QED
  BY <1>2, <1>3, <1>4

\* IS_RESET holds when the main thread is alone and nobody has ended.
LEMMA ResetMeans ==
    ASSUME Base, GoInv
    PROVE  IsReset <=> ring = <<Main>> /\ Ended = {}
<1>1. /\ TypeOK /\ OwnerOK /\ RingMatches /\ CountOK
      /\ Main \in live /\ owner[Main] = NULL /\ pc[Main] # "exited"
  BY DEF Base, RInv, RingExact, GoInv, CpuOK, MainOK
<1>2. /\ IsFiniteSet(live) /\ Cardinality(live) \in Nat
      /\ IsFiniteSet(Waiting) /\ Cardinality(Waiting) \in Nat
  BY <1>1, LiveFinite
<1>3. Listed = live \ Ended
  BY CountedSets
<1>4. ring \in Seq(Slots) /\ Len(ring) \in Nat /\ Len(ring) >= 1
  BY <1>1 DEF TypeOK
<1>5. ASSUME IsReset PROVE ring = <<Main>> /\ Ended = {}
  <2>1. Cardinality(live) = 1
    BY <1>1, <1>2, <1>5 DEF IsReset, CountOK
  <2>2. live = {Main}
    BY <1>1, <1>2, <2>1, FS_Singleton
  <2>3. Ended = {}
    BY <1>1, <2>2 DEF Ended
  <2>4. \A i \in DOMAIN ring : ring[i] = Main
    <3>1. ASSUME NEW i \in DOMAIN ring PROVE ring[i] \in Listed
      <4>1. Occurs(ring[i], ring)
        BY DEF Occurs
      <4>2. ring[i] \in Slots
        BY <1>4
      <4> QED
        BY <4>1, <4>2 DEF Listed, InRing
    <3>2. Listed = {Main}
      BY <1>3, <2>2, <2>3
    <3> QED
      BY <3>1, <3>2
  <2>5. Len(ring) = 1
    <3>1. NoDuplicates(ring)
      BY <1>1 DEF RingMatches
    <3>2. ASSUME Len(ring) >= 2 PROVE FALSE
      <4>1. 1 \in DOMAIN ring /\ 2 \in DOMAIN ring
        BY <1>4, <3>2
      <4>2. ring[1] = ring[2]
        BY <2>4, <4>1
      <4> QED
        BY <3>1, <4>1, <4>2 DEF NoDuplicates
    <3> QED
      BY <1>4, <3>2
  <2> QED
    BY <1>4, <2>3, <2>4, <2>5
<1>6. ASSUME ring = <<Main>>, Ended = {} PROVE IsReset
  <2>1. live = {Main}
    <3>1. Listed = {Main}
      BY <1>1, <1>6 DEF Listed, InRing, Occurs, TypeOK
    <3>2. Ended \subseteq live
      BY CountedSets
    <3> QED
      BY <1>3, <1>6, <3>1, <3>2
  <2>2. Waiting = {}
    BY <1>1, <2>1, LwtAssumption DEF Waiting, OwnerOK
  <2>3. Cardinality(live) = 1 /\ Cardinality(Waiting) = 0
    BY <2>1, <2>2, FS_Singleton, FS_EmptySet
  <2> QED
    BY <1>1, <2>3 DEF IsReset, CountOK
<1> QED
  BY <1>5, <1>6

\* LWT_INFO_NTHD_BLOCKED counts the threads in lwt_join; _ZOMBIES, those in the
\* ring but one; _RUNNABLE, the ready and the dead ones; the last two also
\* LWT_NOJOIN threads that have ended.  IS_RESET (main.c:46) holds when the main
\* thread is alone and no LWT_NOJOIN thread has ended.
THEOREM CountersCorrect ==
    ASSUME ~Recycle, ~JoinBlocked
    PROVE  Spec => []CountersAccount
<1>1. ASSUME Base, GoInv PROVE CountersAccount
  <2>1. TypeOK /\ CountOK
    BY <1>1 DEF Base, RInv, GoInv
  <2>2. /\ IsFiniteSet(live) /\ Cardinality(live) \in Nat
        /\ IsFiniteSet(Waiting) /\ Cardinality(Waiting) \in Nat
    BY <2>1, LiveFinite
  <2>3. /\ Listed = live \ Ended /\ Ended \subseteq live
        /\ live \ Waiting = Ready \union (Dead \union Ended)
        /\ Ready \intersect (Dead \union Ended) = {} /\ Dead \intersect Ended = {}
    BY <1>1, CountedSets
  <2>4. /\ IsFiniteSet(Ready) /\ IsFiniteSet(Dead) /\ IsFiniteSet(Ended)
        /\ IsFiniteSet(Dead \union Ended)
    <3>1. Ready \subseteq live /\ Dead \subseteq live
      BY DEF Ready, Dead
    <3> QED
      BY <2>2, <2>3, <3>1, FS_Subset
  <2>5. /\ Cardinality(Ready) \in Nat /\ Cardinality(Dead) \in Nat
        /\ Cardinality(Ended) \in Nat
    BY <2>4, FS_CardinalityType
  <2>6. Cardinality(Listed) = Cardinality(live) - Cardinality(Ended)
    <3>1. Cardinality(live \ Ended) = Cardinality(live) - Cardinality(live \intersect Ended)
      BY <2>2, FS_Difference
    <3>2. live \intersect Ended = Ended
      BY <2>3
    <3> QED
      BY <2>3, <3>1, <3>2
  <2>7. Cardinality(live \ Waiting) = Cardinality(live) - Cardinality(Waiting)
    <3>1. Cardinality(live \ Waiting) = Cardinality(live) - Cardinality(live \intersect Waiting)
      BY <2>2, FS_Difference
    <3>2. live \intersect Waiting = Waiting
      BY DEF Waiting
    <3> QED
      BY <3>1, <3>2
  <2>8. Cardinality(Dead \union Ended) = Cardinality(Dead) + Cardinality(Ended)
    BY <2>3, <2>4, DisjointUnion
  <2>9. Cardinality(Ready \union (Dead \union Ended))
            = Cardinality(Ready) + Cardinality(Dead \union Ended)
    BY <2>3, <2>4, DisjointUnion
  <2>10. Cardinality(live) - Cardinality(Waiting)
            = Cardinality(Ready) + Cardinality(Dead) + Cardinality(Ended)
    <3>1. Cardinality(live \ Waiting) = Cardinality(Ready \union (Dead \union Ended))
      BY <2>3
    <3> QED
      BY <2>2, <2>5, <2>7, <2>8, <2>9, <3>1
  <2>11. /\ nBlocked = Cardinality(Waiting)
         /\ nZombies = Cardinality(Listed) - 1 + Cardinality(Ended)
         /\ nRunnable = Cardinality(Ready) + Cardinality(Dead) + Cardinality(Ended)
    BY <2>1, <2>2, <2>5, <2>6, <2>10 DEF CountOK
  <2>12. IsReset <=> ring = <<Main>> /\ Ended = {}
    BY <1>1, ResetMeans
  <2> QED
    BY <2>11, <2>12 DEF CountersAccount
<1> QED
  BY <1>1, GoInvariant, PTL

----------------------------------------------------------------------------
(* lwt.c implements ForkJoin.  Thread ids name the descriptors: no two     *)
(* have the same one, and a descriptor without one has not been used.      *)

IdOK ==
    /\ \A s \in Slots : tid[s] <= lwt_tid_counter
    /\ \A s, t \in Slots : tid[s] = tid[t] /\ tid[s] # 0 => s = t
    /\ \A s \in Slots : tid[s] = 0 => ret[s] = 0
    /\ \A s \in Slots : pc[s] = "joining" => s \in live

LEMMA InitIdOK == Init => IdOK
  BY LwtAssumption DEF Init, IdOK

LEMMA CreateIdOK ==
    ASSUME ~Recycle, Base, IdOK, NEW s \in Slots, NEW f \in {"DEFAULT", "NOJOIN"},
           NEW h \in Slots \union {NULL}, Create(s, f, h)
    PROVE  IdOK'
<1>1. /\ TypeOK /\ MaxTid \in Nat /\ tid[s] = 0
      /\ tid' = [tid EXCEPT ![s] = lwt_tid_counter + 1]
      /\ lwt_tid_counter' = lwt_tid_counter + 1
      /\ live' = live \union {s} /\ ret' = ret
      /\ pc' = [pc EXCEPT ![s] = "user"]
  BY LwtAssumption DEF Base, RInv, Create, Allocatable, KeepLinks
<1>2. tid \in [Slots -> Nat] /\ lwt_tid_counter \in Nat
  BY <1>1 DEF TypeOK
<1>3. \A t \in Slots : tid'[t] <= lwt_tid_counter'
  BY <1>1, <1>2 DEF IdOK
<1>4. \A t, u \in Slots : tid'[t] = tid'[u] /\ tid'[t] # 0 => t = u
  BY <1>1, <1>2 DEF IdOK
<1>5. \A t \in Slots : tid'[t] = 0 => ret'[t] = 0
  BY <1>1, <1>2 DEF IdOK
<1>6. \A t \in Slots : pc'[t] = "joining" => t \in live'
  BY <1>1 DEF IdOK, TypeOK
<1> QED
  BY <1>3, <1>4, <1>5, <1>6 DEF IdOK

\* A thread that is reaped has left lwt_join long ago.
LEMMA DeadNotJoining ==
    ASSUME Base, NEW t \in Slots, t \in live, state[t] = "DEAD"
    PROVE  pc[t] = "exited"
  BY DEF Base, RInv, TypeOK, LinkInv, StateOK, WaitOK

LEMMA NextIdOK ==
    ASSUME ~Recycle, Base, IdOK, [Next]_vars
    PROVE  IdOK'
<1> USE DEF current_thread
<1>1. TypeOK /\ RInv /\ LinkInv
  BY DEF Base, RInv
<1>2. ASSUME NEW s \in Slots, NEW f \in {"DEFAULT", "NOJOIN"},
             NEW h \in Slots \union {NULL}, Create(s, f, h)
      PROVE  IdOK'
  BY <1>2, CreateIdOK
<1>3. ASSUME NEW t \in Slots, t \in live, state[t] = "DEAD", Reap(t),
             pc' = pc \/ pc' = [pc EXCEPT ![ring[1]] = "user"],
             UNCHANGED <<tid, lwt_tid_counter, ret>>
      PROVE  IdOK'
  <2>1. live' = live \ {t} /\ pc[t] = "exited"
    BY <1>3, DeadNotJoining DEF Reap
  <2> QED
    BY <1>1, <1>3, <2>1 DEF IdOK, TypeOK
<1>4. ASSUME NEW t \in Slots, JoinDead(t)
      PROVE  IdOK'
  BY <1>3, <1>4 DEF JoinDead, MayJoin, born
<1>5. ASSUME NEW t \in Slots, JoinWait(t)
      PROVE  IdOK'
  <2>1. ring[1] \in live /\ live' = live
        /\ pc' = [pc EXCEPT ![ring[1]] = "joining"]
        /\ UNCHANGED <<tid, lwt_tid_counter, ret>>
    BY <1>1, <1>5, CurrentInRing DEF RInv, RingExact, JoinWait, MayJoin, Running, born
  <2> QED
    BY <1>1, <2>1 DEF IdOK, TypeOK
<1>6. CASE JoinReturn
  <2>1. joiningto[ring[1]] \in live /\ state[joiningto[ring[1]]] = "DEAD"
    BY <1>1, <1>6, JoinReturnChildDead
  <2>2. joiningto[ring[1]] \in Slots
    BY <1>1, <2>1 DEF TypeOK
  <2> QED
    BY <1>3, <1>6, <2>1, <2>2 DEF JoinReturn, born
<1>7. CASE DieJoinable
  <2>1. /\ ring[1] \in live /\ live' = live /\ tid[ring[1]] # 0
        /\ pc' = [pc EXCEPT ![ring[1]] = "exited"]
        /\ ret' = [ret EXCEPT ![ring[1]] = tid[ring[1]]]
        /\ UNCHANGED <<tid, lwt_tid_counter>>
    BY <1>1, <1>7, CurrentInRing
       DEF RInv, RingExact, DieJoinable, Running, born, LinkInv, FreshOK
  <2> QED
    BY <1>1, <2>1 DEF IdOK, TypeOK
<1>8. CASE DieDetached
  <2>1. /\ live' = live /\ pc' = [pc EXCEPT ![ring[1]] = "exited"]
        /\ UNCHANGED <<tid, lwt_tid_counter, ret>>
    BY <1>8 DEF DieDetached, born
  <2> QED
    BY <1>1, <2>1 DEF IdOK, TypeOK
<1>9. CASE JoinSpin \/ ReturnFromDie \/ Yield \/ (\E t \in Slots : YieldTo(t))
           \/ UNCHANGED vars
  <2>1. UNCHANGED <<live, pc, ret, tid, lwt_tid_counter>>
    BY <1>9 DEF JoinSpin, ReturnFromDie, Yield, YieldTo, vars, links, born
  <2> QED
    BY <2>1 DEF IdOK
<1> QED
  BY <1>2, <1>4, <1>5, <1>6, <1>7, <1>8, <1>9 DEF Next

MapInv == Base /\ GoInv /\ IdOK

LEMMA MapInvariant ==
    ASSUME ~Recycle, ~JoinBlocked
    PROVE  Spec => []MapInv
<1>1. Base /\ IdOK /\ [Next]_vars => IdOK'
  BY NextIdOK
<1> QED
  BY InitIdOK, <1>1, GoInvariant, PTL DEF Spec, MapInv

\* What the mapping says of the thread in descriptor s.
Mapped ==
    \A s \in Slots : tid[s] # 0 =>
        /\ tid[s] \in 1..MaxTid
        /\ PhaseOf[tid[s]] = Phase(s)
        /\ AwaitsOf[tid[s]] = Awaits(s)
        /\ ResultOf[tid[s]] = ret[s]

LEMMA MappedOK == MapInv => Mapped
<1> SUFFICES ASSUME MapInv, NEW s \in Slots, tid[s] # 0
             PROVE  /\ tid[s] \in 1..MaxTid
                    /\ PhaseOf[tid[s]] = Phase(s)
                    /\ AwaitsOf[tid[s]] = Awaits(s)
                    /\ ResultOf[tid[s]] = ret[s]
  BY DEF Mapped
<1>1. TypeOK /\ IdOK /\ MaxTid \in Nat
  BY LwtAssumption DEF MapInv, Base, RInv
<1>2. tid[s] \in 1..MaxTid
  BY <1>1 DEF TypeOK
<1>3. Created(tid[s]) /\ Desc(tid[s]) = s
  <2>1. \A t \in Slots : tid[t] = tid[s] => t = s
    BY <1>1 DEF IdOK
  <2> QED
    BY <2>1 DEF Created, Desc
<1> QED
  BY <1>2, <1>3 DEF PhaseOf, AwaitsOf, ResultOf

LEMMA MappedNext == MapInv' => Mapped'
  BY MappedOK, PTL

\* The thread on the processor can go on.
CurrentGoes ==
    LET c == ring[1] IN
    /\ c \in live /\ c \in Slots /\ tid[c] \in 1..MaxTid
    /\ FJ!CanRun(tid[c])
    /\ pc[c] = "user" => PhaseOf[tid[c]] = "ready"
    /\ pc[c] = "joining" => PhaseOf[tid[c]] = "waiting"

\* A DEAD thread that is not LWT_NOJOIN has ended and can be collected.
LEMMA DeadIsDone ==
    ASSUME MapInv, NEW u \in Slots, u \in live, state[u] = "DEAD",
           flag[u] = "DEFAULT"
    PROVE  tid[u] # 0 /\ PhaseOf[tid[u]] = "done"
<1>1. pc[u] = "exited"
  BY DeadNotJoining DEF MapInv
<1>2. tid[u] # 0
  BY DEF MapInv, Base, LinkInv, FreshOK
<1>3. PhaseOf[tid[u]] = Phase(u)
  BY <1>2, MappedOK DEF Mapped
<1> QED
  BY <1>1, <1>2, <1>3 DEF Phase

LEMMA CurrentCanRun == MapInv => CurrentGoes
<1> SUFFICES ASSUME MapInv
             PROVE  CurrentGoes
  OBVIOUS
<1> DEFINE c == ring[1]
           u == joiningto[c]
<1>1. TypeOK /\ RInv /\ RingMatches /\ LinkInv /\ CpuOK /\ OwnerOK
  BY DEF MapInv, Base, RInv, GoInv, CpuOK, RingExact
<1>2. c \in live /\ c \in Slots
  BY <1>1, CurrentInRing DEF TypeOK
<1>3. tid[c] # 0
  BY <1>1, <1>2 DEF LinkInv, FreshOK
<1>4. /\ tid[c] \in 1..MaxTid /\ PhaseOf[tid[c]] = Phase(c)
      /\ AwaitsOf[tid[c]] = Awaits(c)
  BY <1>2, <1>3, MappedOK DEF Mapped
<1>5. CASE pc[c] = "user"
  <2>1. PhaseOf[tid[c]] = "ready"
    BY <1>2, <1>4, <1>5 DEF Phase
  <2> QED
    BY <1>2, <1>4, <1>5, <2>1 DEF CurrentGoes, FJ!CanRun
<1>6. CASE pc[c] = "joining"
  <2>1. PhaseOf[tid[c]] = "waiting" /\ AwaitsOf[tid[c]] = tid[u]
    BY <1>2, <1>4, <1>6 DEF Phase, Awaits
  <2>2. u \in live /\ u \in Slots /\ flag[u] = "DEFAULT" /\ state[u] = "DEAD"
    BY <1>1, <1>2, <1>6 DEF OwnerOK, LinkInv, WaitOK, CpuOK, TypeOK
  <2>3. PhaseOf[tid[u]] = "done"
    BY <2>2, DeadIsDone
  <2> QED
    BY <1>2, <1>4, <1>6, <2>1, <2>3 DEF CurrentGoes, FJ!CanRun
<1> QED
  BY <1>1, <1>2, <1>5, <1>6 DEF CpuOK, TypeOK

LEMMA SwitchOK ==
    ASSUME MapInv'
    PROVE  FJ!Switch
<1>1. CurrentGoes'
  BY CurrentCanRun, PTL
<1> QED
  BY <1>1 DEF CurrentGoes, FJ!Switch, FJ!CanRun, FJ!Tids, current_thread

LEMMA Pictures ==
    /\ PhaseOf = [i \in 1..MaxTid |-> PhaseOf[i]]
    /\ AwaitsOf = [i \in 1..MaxTid |-> AwaitsOf[i]]
    /\ ResultOf = [i \in 1..MaxTid |-> ResultOf[i]]
  BY DEF PhaseOf, AwaitsOf, ResultOf

\* Writing what is there already changes nothing.
LEMMA SameValue ==
    ASSUME NEW i, NEW x
    PROVE  /\ AwaitsOf[i] = x => [AwaitsOf EXCEPT ![i] = x] = AwaitsOf
           /\ ResultOf[i] = x => [ResultOf EXCEPT ![i] = x] = ResultOf
  BY DEF AwaitsOf, ResultOf

\* What changes in the picture when only c and t change.
LEMMA Repaint ==
    ASSUME MapInv, MapInv', tid' = tid, NEW c \in Slots, NEW t \in Slots,
           tid[c] # 0, tid[t] # 0,
           \A s \in Slots \ {c, t} :
               /\ pc'[s] = pc[s] /\ flag'[s] = flag[s]
               /\ s \in live' <=> s \in live
               /\ joiningto'[s] = joiningto[s] /\ ret'[s] = ret[s]
    PROVE  /\ PhaseOf' = [PhaseOf EXCEPT ![tid[t]] = Phase(t)', ![tid[c]] = Phase(c)']
           /\ AwaitsOf' = [AwaitsOf EXCEPT ![tid[t]] = Awaits(t)', ![tid[c]] = Awaits(c)']
           /\ ResultOf' = [ResultOf EXCEPT ![tid[t]] = ret'[t], ![tid[c]] = ret'[c]]
<1>1. TypeOK /\ IdOK /\ MaxTid \in Nat /\ Mapped /\ Mapped'
  BY MappedOK, MappedNext, LwtAssumption DEF MapInv, Base, RInv
<1>2. \A s \in Slots \ {c, t} : Phase(s)' = Phase(s) /\ Awaits(s)' = Awaits(s)
  BY <1>1 DEF Phase, Awaits
<1>3. \A s \in Slots : s # c => tid[s] # tid[c]
  BY <1>1 DEF IdOK
<1>4. \A s \in Slots : s # t => tid[s] # tid[t]
  BY <1>1 DEF IdOK
<1>5. ASSUME NEW i \in 1..MaxTid
      PROVE  /\ PhaseOf'[i] = IF i = tid[c] THEN Phase(c)'
                              ELSE IF i = tid[t] THEN Phase(t)' ELSE PhaseOf[i]
             /\ AwaitsOf'[i] = IF i = tid[c] THEN Awaits(c)'
                               ELSE IF i = tid[t] THEN Awaits(t)' ELSE AwaitsOf[i]
             /\ ResultOf'[i] = IF i = tid[c] THEN ret'[c]
                               ELSE IF i = tid[t] THEN ret'[t] ELSE ResultOf[i]
  <2>1. CASE Created(i)
    <3>1. PICK s \in Slots : tid[s] = i
      BY <2>1 DEF Created
    <3>2. tid[s] # 0 /\ tid'[s] = tid[s]
      BY <3>1
    <3>3. /\ PhaseOf[i] = Phase(s) /\ PhaseOf'[i] = Phase(s)'
          /\ AwaitsOf[i] = Awaits(s) /\ AwaitsOf'[i] = Awaits(s)'
          /\ ResultOf[i] = ret[s] /\ ResultOf'[i] = ret'[s]
      BY <1>1, <3>1, <3>2 DEF Mapped
    <3>4. CASE s = c
      BY <3>1, <3>3, <3>4
    <3>5. CASE s # c /\ s = t
      <4>1. i # tid[c]
        BY <1>3, <3>1, <3>5
      <4> QED
        BY <3>1, <3>3, <3>5, <4>1
    <3>6. CASE s # c /\ s # t
      <4>1. i # tid[c] /\ i # tid[t]
        BY <1>3, <1>4, <3>1, <3>6
      <4>2. Phase(s)' = Phase(s) /\ Awaits(s)' = Awaits(s) /\ ret'[s] = ret[s]
        BY <1>2, <3>6
      <4> QED
        BY <3>3, <4>1, <4>2
    <3> QED
      BY <3>4, <3>5, <3>6
  <2>2. CASE ~Created(i)
    <3>1. i # tid[c] /\ i # tid[t] /\ ~Created(i)'
      BY <2>2 DEF Created
    <3> QED
      BY <2>2, <3>1 DEF PhaseOf, AwaitsOf, ResultOf
  <2> QED
    BY <2>1, <2>2
<1>6. /\ PhaseOf = [i \in 1..MaxTid |-> PhaseOf[i]]
      /\ AwaitsOf = [i \in 1..MaxTid |-> AwaitsOf[i]]
      /\ ResultOf = [i \in 1..MaxTid |-> ResultOf[i]]
  BY Pictures
<1>7. /\ PhaseOf' = [i \in 1..MaxTid |-> PhaseOf'[i]]
      /\ AwaitsOf' = [i \in 1..MaxTid |-> AwaitsOf'[i]]
      /\ ResultOf' = [i \in 1..MaxTid |-> ResultOf'[i]]
  BY DEF PhaseOf, AwaitsOf, ResultOf
<1>8. tid[c] \in 1..MaxTid /\ tid[t] \in 1..MaxTid
  BY <1>1 DEF Mapped
<1>9. PhaseOf' = [PhaseOf EXCEPT ![tid[t]] = Phase(t)', ![tid[c]] = Phase(c)']
  BY <1>5, <1>6, <1>7, <1>8
<1>10. AwaitsOf' = [AwaitsOf EXCEPT ![tid[t]] = Awaits(t)', ![tid[c]] = Awaits(c)']
  BY <1>5, <1>6, <1>7, <1>8
<1>11. ResultOf' = [ResultOf EXCEPT ![tid[t]] = ret'[t], ![tid[c]] = ret'[c]]
  BY <1>5, <1>6, <1>7, <1>8
<1> QED
  BY <1>9, <1>10, <1>11

\* The same when only c changes.
LEMMA RepaintOne ==
    ASSUME MapInv, MapInv', tid' = tid, NEW c \in Slots, tid[c] # 0,
           \A s \in Slots \ {c} :
               /\ pc'[s] = pc[s] /\ flag'[s] = flag[s]
               /\ s \in live' <=> s \in live
               /\ joiningto'[s] = joiningto[s] /\ ret'[s] = ret[s]
    PROVE  /\ PhaseOf' = [PhaseOf EXCEPT ![tid[c]] = Phase(c)']
           /\ AwaitsOf' = [AwaitsOf EXCEPT ![tid[c]] = Awaits(c)']
           /\ ResultOf' = [ResultOf EXCEPT ![tid[c]] = ret'[c]]
<1>1. /\ PhaseOf' = [PhaseOf EXCEPT ![tid[c]] = Phase(c)', ![tid[c]] = Phase(c)']
      /\ AwaitsOf' = [AwaitsOf EXCEPT ![tid[c]] = Awaits(c)', ![tid[c]] = Awaits(c)']
      /\ ResultOf' = [ResultOf EXCEPT ![tid[c]] = ret'[c], ![tid[c]] = ret'[c]]
  BY Repaint
<1>2. tid[c] \in 1..MaxTid
  BY MappedOK DEF Mapped
<1> QED
  BY <1>1, <1>2 DEF PhaseOf, AwaitsOf, ResultOf

FJStep == FJ!Next \/ UNCHANGED FJ!vars

\* The current thread takes the result of a thread that ended.
LEMMA ReapCollects ==
    ASSUME MapInv, MapInv', NEW t \in Slots, t \in live, owner[t] = ring[1],
           flag[t] = "DEFAULT", state[t] = "DEAD", Reap(t),
           pc[ring[1]] = "user" \/ (pc[ring[1]] = "joining" /\ joiningto[ring[1]] = t),
           pc' = [pc EXCEPT ![ring[1]] = "user"],
           \A u \in Slots : u # ring[1] => joiningto'[u] = joiningto[u],
           UNCHANGED <<flag, tid, ret>>
    PROVE  FJStep
<1> USE DEF current_thread
<1> PICK c \in Slots : c = ring[1]
  BY CurrentCanRun DEF CurrentGoes
<1> DEFINE i == tid[t]
<1>1. TypeOK /\ RInv /\ RingMatches /\ OwnerOK
  BY DEF MapInv, Base, RInv, GoInv, CpuOK, RingExact
<1>2. /\ c \in live /\ c \in Slots /\ tid[c] # 0 /\ tid[c] \in 1..MaxTid
      /\ pc[c] = "user" => PhaseOf[tid[c]] = "ready"
      /\ pc[c] = "joining" => PhaseOf[tid[c]] = "waiting"
      /\ AwaitsOf[tid[c]] = Awaits(c)
  BY CurrentCanRun, MappedOK DEF CurrentGoes, Mapped
<1>3. /\ i # 0 /\ PhaseOf[i] = "done" /\ i \in 1..MaxTid /\ ResultOf[i] = ret[t]
      /\ AwaitsOf[i] = Awaits(t)
  BY DeadIsDone, MappedOK DEF Mapped
<1>4. t # c /\ pc[t] = "exited"
  BY <1>1, DeadNotJoining DEF MapInv, OwnerOK
<1>5. live' = live \ {t} /\ joined' = [joined EXCEPT ![i] = ret[t]]
  BY DEF Reap
<1>6. /\ PhaseOf' = [PhaseOf EXCEPT ![i] = Phase(t)', ![tid[c]] = Phase(c)']
      /\ AwaitsOf' = [AwaitsOf EXCEPT ![i] = Awaits(t)', ![tid[c]] = Awaits(c)']
      /\ ResultOf' = [ResultOf EXCEPT ![i] = ret'[t], ![tid[c]] = ret'[c]]
  <2>1. \A s \in Slots \ {c, t} :
            /\ pc'[s] = pc[s] /\ flag'[s] = flag[s]
            /\ s \in live' <=> s \in live
            /\ joiningto'[s] = joiningto[s] /\ ret'[s] = ret[s]
    BY <1>1, <1>5 DEF TypeOK
  <2>2. tid' = tid
    OBVIOUS
  <2> QED
    BY ONLY <1>2, <1>3, <2>1, <2>2, MapInv, MapInv', c \in Slots, t \in Slots, Repaint
<1>7. Phase(t)' = "joined" /\ Phase(c)' = "ready"
  BY <1>1, <1>2, <1>4, <1>5 DEF Phase, TypeOK
<1>8. Awaits(t)' = 0 /\ Awaits(c)' = 0 /\ Awaits(t) = 0
  BY <1>1, <1>2, <1>4 DEF Awaits, TypeOK
<1>9. AwaitsOf' = [AwaitsOf EXCEPT ![tid[c]] = 0]
  <2>1. [AwaitsOf EXCEPT ![i] = 0] = AwaitsOf
    BY <1>3, <1>8, SameValue
  <2> QED
    BY <1>6, <1>8, <2>1, Pictures
<1>10. ResultOf' = ResultOf
  <2>1. [ResultOf EXCEPT ![i] = ret[t]] = ResultOf
    BY <1>3, SameValue
  <2>2. ResultOf[tid[c]] = ret[c]
    BY <1>2, MappedOK DEF Mapped
  <2>3. [ResultOf EXCEPT ![tid[c]] = ret[c]] = ResultOf
    BY <2>2, SameValue
  <2> QED
    BY <1>6, <2>1, <2>3, Pictures
<1>11. tid'[ring'[1]] = tid[c]
  <2>1. Occurs(t, ring)
    BY <1>1 DEF RingMatches, InRing
  <2> QED
    BY <1>1, <1>4, <2>1, ReapUnlinks
<1>12. \/ PhaseOf[tid[c]] = "ready"
       \/ PhaseOf[tid[c]] = "waiting" /\ AwaitsOf[tid[c]] = i
  BY <1>2 DEF Awaits
<1>13. FJ!Collect(i)
  BY <1>3, <1>5, <1>6, <1>7, <1>9, <1>10, <1>11, <1>12
     DEF FJ!Collect, FJ!Ready
<1> QED
  BY <1>3, <1>13 DEF FJStep, FJ!Next, FJ!Tids

LEMMA JoinDeadCollects ==
    ASSUME MapInv, MapInv', NEW t \in Slots, JoinDead(t)
    PROVE  FJStep
<1> USE DEF current_thread
<1>1. TypeOK /\ ring[1] \in Slots
  BY CurrentCanRun DEF MapInv, Base, RInv, CurrentGoes
<1>2. /\ t \in live /\ owner[t] = ring[1] /\ flag[t] = "DEFAULT"
      /\ state[t] = "DEAD" /\ Reap(t) /\ pc[ring[1]] = "user"
      /\ UNCHANGED <<flag, tid, ret>>
  BY DEF JoinDead, MayJoin, Running, born
<1>3. pc' = [pc EXCEPT ![ring[1]] = "user"]
  BY <1>1, <1>2 DEF JoinDead, TypeOK
<1>4. \A u \in Slots : u # ring[1] => joiningto'[u] = joiningto[u]
  BY <1>1 DEF JoinDead, SetRelation, TypeOK
<1> QED
  BY <1>2, <1>3, <1>4, ReapCollects

LEMMA JoinReturnCollects ==
    ASSUME MapInv, MapInv', JoinReturn
    PROVE  FJStep
<1> USE DEF current_thread
<1> DEFINE t == joiningto[ring[1]]
<1>1. RInv /\ LinkInv /\ TypeOK /\ OwnerOK
  BY DEF MapInv, Base, RInv
<1>2. /\ pc[ring[1]] = "joining" /\ Reap(t)
      /\ pc' = [pc EXCEPT ![ring[1]] = "user"]
      /\ UNCHANGED <<flag, tid, ret, joiningto>>
  BY DEF JoinReturn, Running, born, links
<1>3. /\ t \in live /\ t \in Slots /\ owner[t] = ring[1] /\ state[t] = "DEAD"
      /\ ring[1] \in live
  BY <1>1, JoinReturnChildDead DEF TypeOK
<1>4. flag[t] = "DEFAULT"
  BY <1>1, <1>2, <1>3 DEF OwnerOK
<1> QED
  BY <1>2, <1>3, <1>4, ReapCollects

LEMMA JoinWaitWaits ==
    ASSUME ~JoinBlocked, MapInv, MapInv', NEW t \in Slots, JoinWait(t)
    PROVE  FJStep
<1> USE DEF current_thread
<1> PICK c \in Slots : c = ring[1]
  BY CurrentCanRun DEF CurrentGoes
<1> DEFINE i == tid[t]
<1>1. TypeOK /\ OwnerOK /\ LinkInv /\ IdOK
  BY DEF MapInv, Base, RInv
<1>2. /\ c \in live /\ c \in Slots /\ tid[c] # 0 /\ tid[c] \in 1..MaxTid
      /\ pc[c] = "user" /\ PhaseOf[tid[c]] = "ready"
  BY CurrentCanRun DEF CurrentGoes, JoinWait, MayJoin, Running
<1>3. /\ t \in live /\ t # c /\ flag[t] = "DEFAULT" /\ state[t] = "RUNNABLE"
  BY <1>1, <1>2 DEF JoinWait, MayJoin, OwnerOK, TypeOK
<1>4. /\ i # 0 /\ i \in 1..MaxTid /\ i # tid[c] /\ PhaseOf[i] = Phase(t)
  BY <1>1, <1>2, <1>3, MappedOK DEF LinkInv, FreshOK, IdOK, Mapped
<1>5. PhaseOf[i] \in {"ready", "waiting"}
  BY <1>1, <1>3, <1>4 DEF Phase, LinkInv, StateOK, TypeOK
<1>6. /\ pc' = [pc EXCEPT ![c] = "joining"]
      /\ joiningto' = [joiningto EXCEPT ![c] = t]
      /\ UNCHANGED <<live, ret, flag, tid, joined>>
  BY DEF JoinWait, SetRelation, born
<1>7. /\ PhaseOf' = [PhaseOf EXCEPT ![tid[c]] = Phase(c)']
      /\ AwaitsOf' = [AwaitsOf EXCEPT ![tid[c]] = Awaits(c)']
      /\ ResultOf' = [ResultOf EXCEPT ![tid[c]] = ret'[c]]
  BY <1>1, <1>2, <1>6, RepaintOne DEF TypeOK
<1>8. Phase(c)' = "waiting" /\ Awaits(c)' = i
  BY <1>1, <1>2, <1>6 DEF Phase, Awaits, TypeOK
<1>9. ResultOf' = ResultOf
  <2>1. ResultOf[tid[c]] = ret[c]
    BY <1>2, MappedOK DEF Mapped
  <2> QED
    BY <1>6, <1>7, <2>1, SameValue
<1>10. FJ!Wait(i)
  BY <1>2, <1>4, <1>5, <1>6, <1>7, <1>8, <1>9, SwitchOK DEF FJ!Wait, FJ!Ready
<1> QED
  BY <1>4, <1>10 DEF FJStep, FJ!Next, FJ!Tids

LEMMA DieJoinableFinishes ==
    ASSUME MapInv, MapInv', DieJoinable
    PROVE  FJStep
<1> USE DEF current_thread
<1> PICK c \in Slots : c = ring[1]
  BY CurrentCanRun DEF CurrentGoes
<1>1. TypeOK
  BY DEF MapInv, Base, RInv
<1>2. /\ c \in live /\ c \in Slots /\ tid[c] # 0 /\ tid[c] \in 1..MaxTid
      /\ pc[c] = "user" /\ PhaseOf[tid[c]] = "ready" /\ flag[c] = "DEFAULT"
      /\ AwaitsOf[tid[c]] = Awaits(c)
  BY CurrentCanRun, MappedOK DEF CurrentGoes, DieJoinable, Running, Mapped
<1>3. /\ pc' = [pc EXCEPT ![c] = "exited"]
      /\ ret' = [ret EXCEPT ![c] = tid[c]]
      /\ UNCHANGED <<live, joiningto, flag, tid, joined>>
  BY DEF DieJoinable, born, links
<1>4. /\ PhaseOf' = [PhaseOf EXCEPT ![tid[c]] = Phase(c)']
      /\ AwaitsOf' = [AwaitsOf EXCEPT ![tid[c]] = Awaits(c)']
      /\ ResultOf' = [ResultOf EXCEPT ![tid[c]] = ret'[c]]
  BY <1>1, <1>2, <1>3, RepaintOne DEF TypeOK
<1>5. Phase(c)' = "done" /\ Awaits(c)' = 0 /\ Awaits(c) = 0 /\ ret'[c] = tid[c]
  BY <1>1, <1>2, <1>3 DEF Phase, Awaits, TypeOK
<1>6. AwaitsOf' = AwaitsOf
  BY <1>2, <1>4, <1>5, SameValue
<1>7. FJ!Finish
  BY <1>2, <1>3, <1>4, <1>5, <1>6, SwitchOK DEF FJ!Finish, FJ!Ready, FJ!Tids
<1> QED
  BY <1>7 DEF FJStep, FJ!Next

LEMMA DieDetachedLeaves ==
    ASSUME MapInv, MapInv', DieDetached
    PROVE  FJStep
<1> USE DEF current_thread
<1> PICK c \in Slots : c = ring[1]
  BY CurrentCanRun DEF CurrentGoes
<1>1. TypeOK
  BY DEF MapInv, Base, RInv
<1>2. /\ c \in live /\ c \in Slots /\ tid[c] # 0 /\ tid[c] \in 1..MaxTid
      /\ pc[c] = "user" /\ PhaseOf[tid[c]] = "ready" /\ flag[c] = "NOJOIN"
      /\ AwaitsOf[tid[c]] = Awaits(c)
  BY CurrentCanRun, MappedOK DEF CurrentGoes, DieDetached, Running, Mapped
<1>3. /\ pc' = [pc EXCEPT ![c] = "exited"]
      /\ UNCHANGED <<live, ret, joiningto, flag, tid, joined>>
  BY DEF DieDetached, born, links
<1>4. /\ PhaseOf' = [PhaseOf EXCEPT ![tid[c]] = Phase(c)']
      /\ AwaitsOf' = [AwaitsOf EXCEPT ![tid[c]] = Awaits(c)']
      /\ ResultOf' = [ResultOf EXCEPT ![tid[c]] = ret'[c]]
  BY <1>1, <1>2, <1>3, RepaintOne DEF TypeOK
<1>5. Phase(c)' = "gone" /\ Awaits(c)' = 0 /\ Awaits(c) = 0
  BY <1>1, <1>2, <1>3 DEF Phase, Awaits, TypeOK
<1>6. AwaitsOf' = AwaitsOf /\ ResultOf' = ResultOf
  <2>1. ResultOf[tid[c]] = ret[c]
    BY <1>2, MappedOK DEF Mapped
  <2> QED
    BY <1>2, <1>3, <1>4, <1>5, <2>1, SameValue
<1>7. FJ!Leave
  BY <1>2, <1>3, <1>4, <1>5, <1>6, SwitchOK DEF FJ!Leave, FJ!Ready
<1> QED
  BY <1>7 DEF FJStep, FJ!Next

\* A yield gives the processor to a thread that can go on.
LEMMA TurnIsHand ==
    ASSUME MapInv, MapInv', pc[ring[1]] = "user",
           UNCHANGED <<live, pc, flag, tid, ret, joiningto, joined>>
    PROVE  FJStep
<1> USE DEF current_thread
<1>1. PhaseOf[tid[ring[1]]] = "ready"
  BY CurrentCanRun DEF CurrentGoes
<1>2. PhaseOf' = PhaseOf /\ AwaitsOf' = AwaitsOf /\ ResultOf' = ResultOf
  BY DEF PhaseOf, AwaitsOf, ResultOf, Created, Desc, Phase, Awaits
<1>3. FJ!Hand
  BY <1>1, <1>2, SwitchOK DEF FJ!Hand, FJ!Ready
<1> QED
  BY <1>3 DEF FJStep, FJ!Next

LEMMA CreateForks ==
    ASSUME ~Recycle, MapInv, MapInv', NEW s \in Slots,
           NEW f \in {"DEFAULT", "NOJOIN"}, NEW h \in Slots \union {NULL},
           Create(s, f, h)
    PROVE  FJStep
<1> USE DEF current_thread
<1> PICK i \in Nat : i = lwt_tid_counter + 1
  BY LwtAssumption DEF MapInv, Base, RInv, TypeOK
<1>1. /\ TypeOK /\ IdOK /\ Mapped /\ Mapped' /\ MaxTid \in Nat
      /\ ring \in Seq(Slots) /\ Len(ring) >= 1
  BY MappedOK, MappedNext, LwtAssumption DEF MapInv, Base, RInv, TypeOK
<1>2. /\ tid[s] = 0 /\ i \in 1..MaxTid /\ i # 0
      /\ tid' = [tid EXCEPT ![s] = i] /\ live' = live \union {s}
      /\ flag' = [flag EXCEPT ![s] = f] /\ pc' = [pc EXCEPT ![s] = "user"]
      /\ UNCHANGED <<joiningto, ret, joined>>
      /\ ring' = Append(ring, s) /\ pc[ring[1]] = "user"
  BY <1>1 DEF Create, Allocatable, Running, KeepLinks, links, TypeOK
<1>3. \A u \in Slots : tid[u] # i
  BY <1>1, <1>2 DEF IdOK, TypeOK
<1>4. PhaseOf[i] = "none" /\ AwaitsOf[i] = 0 /\ ResultOf[i] = 0
  BY <1>2, <1>3 DEF PhaseOf, AwaitsOf, ResultOf, Created
<1>5. tid'[s] = i /\ \A u \in Slots \ {s} : tid'[u] = tid[u]
  BY <1>1, <1>2 DEF TypeOK
<1>6. PhaseOf'[i] = "ready" /\ AwaitsOf'[i] = 0 /\ ResultOf'[i] = 0
  <2>1. Phase(s)' = "ready" /\ Awaits(s)' = 0 /\ ret'[s] = 0
    BY <1>1, <1>2 DEF Phase, Awaits, IdOK, TypeOK
  <2>2. PhaseOf'[i] = Phase(s)' /\ AwaitsOf'[i] = Awaits(s)' /\ ResultOf'[i] = ret'[s]
    BY <1>1, <1>2, <1>5 DEF Mapped
  <2> QED
    BY <2>1, <2>2
<1>7. ASSUME NEW j \in 1..MaxTid, j # i
      PROVE  PhaseOf'[j] = PhaseOf[j] /\ AwaitsOf'[j] = AwaitsOf[j]
             /\ ResultOf'[j] = ResultOf[j]
  <2>1. CASE Created(j)
    <3>1. PICK u \in Slots : tid[u] = j
      BY <2>1 DEF Created
    <3>2. u # s /\ tid[u] # 0 /\ tid'[u] = j
      BY <1>2, <1>5, <3>1
    <3>3. Phase(u)' = Phase(u) /\ ret'[u] = ret[u]
      BY <1>1, <1>2, <3>2 DEF Phase, TypeOK
    <3>4. Awaits(u)' = Awaits(u)
      <4>1. pc'[u] = pc[u] /\ joiningto' = joiningto
        BY <1>1, <1>2, <3>2 DEF TypeOK
      <4>2. CASE pc[u] = "joining"
        <5>1. u \in live
          BY <1>1, <4>2 DEF IdOK
        <5>2. joiningto[u] \in live /\ tid[joiningto[u]] # 0
              /\ joiningto[u] \in Slots
          BY <1>1, <4>2, <5>1 DEF MapInv, Base, RInv, OwnerOK, LinkInv, FreshOK, TypeOK
        <5>3. tid'[joiningto[u]] = tid[joiningto[u]]
          BY <1>2, <1>5, <5>2
        <5> QED
          BY <4>1, <4>2, <5>3 DEF Awaits
      <4> QED
        BY <4>1, <4>2 DEF Awaits
    <3> QED
      BY <1>1, <3>1, <3>2, <3>3, <3>4 DEF Mapped
  <2>2. CASE ~Created(j)
    <3>1. ~Created(j)'
      <4>1. \A u \in Slots : tid'[u] # j
        BY <1>5, <1>7, <2>2 DEF Created
      <4> QED
        BY <4>1 DEF Created
    <3> QED
      BY <2>2, <3>1 DEF PhaseOf, AwaitsOf, ResultOf
  <2> QED
    BY <2>1, <2>2
<1>8. PhaseOf' = [PhaseOf EXCEPT ![i] = "ready"] /\ AwaitsOf' = AwaitsOf
      /\ ResultOf' = ResultOf
  <2>1. /\ PhaseOf = [j \in 1..MaxTid |-> PhaseOf[j]]
        /\ PhaseOf' = [j \in 1..MaxTid |-> PhaseOf'[j]]
    BY DEF PhaseOf
  <2>2. /\ AwaitsOf = [j \in 1..MaxTid |-> AwaitsOf[j]]
        /\ AwaitsOf' = [j \in 1..MaxTid |-> AwaitsOf'[j]]
    BY DEF AwaitsOf
  <2>3. /\ ResultOf = [j \in 1..MaxTid |-> ResultOf[j]]
        /\ ResultOf' = [j \in 1..MaxTid |-> ResultOf'[j]]
    BY DEF ResultOf
  <2>4. PhaseOf' = [PhaseOf EXCEPT ![i] = "ready"]
    BY <1>6, <1>7, <2>1
  <2>5. AwaitsOf' = AwaitsOf
    BY <1>4, <1>6, <1>7, <2>2
  <2>6. ResultOf' = ResultOf
    BY <1>4, <1>6, <1>7, <2>3
  <2> QED
    BY <2>4, <2>5, <2>6
<1>9. PhaseOf[tid[ring[1]]] = "ready" /\ tid'[ring'[1]] = tid[ring[1]]
  <2>1. ring[1] \in Slots /\ tid[ring[1]] # 0 /\ PhaseOf[tid[ring[1]]] = "ready"
    BY <1>2, CurrentCanRun DEF CurrentGoes
  <2>2. ring'[1] = ring[1]
    BY <1>1, <1>2
  <2>3. ring[1] # s
    BY <1>2, <2>1
  <2> QED
    BY <1>5, <2>1, <2>2, <2>3
<1>10. FJ!Fork
  BY <1>2, <1>4, <1>8, <1>9 DEF FJ!Fork, FJ!Ready, FJ!Tids
<1> QED
  BY <1>10 DEF FJStep, FJ!Next

LEMMA NextIsForkJoin ==
    ASSUME ~Recycle, ~JoinBlocked, MapInv, MapInv', [Next]_vars
    PROVE  FJStep
<1> USE DEF current_thread
<1>1. ASSUME NEW s \in Slots, NEW f \in {"DEFAULT", "NOJOIN"},
             NEW h \in Slots \union {NULL}, Create(s, f, h)
      PROVE  FJStep
  BY <1>1, CreateForks
<1>2. ASSUME NEW t \in Slots, JoinDead(t) \/ JoinWait(t)
      PROVE  FJStep
  BY <1>2, JoinDeadCollects, JoinWaitWaits
<1>3. CASE JoinReturn
  BY <1>3, JoinReturnCollects
<1>4. CASE DieJoinable
  BY <1>4, DieJoinableFinishes
<1>5. CASE DieDetached
  BY <1>5, DieDetachedLeaves
<1>6. CASE JoinSpin \/ ReturnFromDie
  BY <1>6 DEF MapInv, GoInv, CpuOK, JoinSpin, ReturnFromDie, Running
<1>7. CASE Yield \/ \E t \in Slots : YieldTo(t)
  <2>1. pc[ring[1]] = "user"
        /\ UNCHANGED <<live, pc, flag, tid, ret, joiningto, joined>>
    BY <1>7 DEF Yield, YieldTo, Running, links, born
  <2> QED
    BY <2>1, TurnIsHand
<1>8. CASE UNCHANGED vars
  BY <1>8 DEF FJStep, FJ!vars, vars, links, born, PhaseOf, AwaitsOf, ResultOf,
              Created, Desc, Phase, Awaits
<1> QED
  BY <1>1, <1>2, <1>3, <1>4, <1>5, <1>6, <1>7, <1>8 DEF Next

LEMMA InitIsForkJoin == Init => FJ!Init
<1> SUFFICES ASSUME Init
             PROVE  FJ!Init
  OBVIOUS
<1>1. /\ Main \in Slots /\ MaxTid \in Nat /\ MaxTid >= 2
      /\ live = {Main} /\ tid = [s \in Slots |-> IF s = Main THEN 1 ELSE 0]
      /\ pc = [s \in Slots |-> "user"] /\ ret = [s \in Slots |-> 0]
      /\ joined = [i \in 1..MaxTid |-> 0] /\ ring = <<Main>>
  BY LwtAssumption DEF Init
<1>2. Created(1) /\ Desc(1) = Main
  BY <1>1 DEF Created, Desc
<1>3. \A i \in 1..MaxTid : i # 1 => ~Created(i)
  BY <1>1 DEF Created
<1>4. PhaseOf = [i \in 1..MaxTid |-> IF i = 1 THEN "ready" ELSE "none"]
  BY <1>1, <1>2, <1>3 DEF PhaseOf, Phase
<1>5. AwaitsOf = [i \in 1..MaxTid |-> 0] /\ ResultOf = [i \in 1..MaxTid |-> 0]
  BY <1>1, <1>2, <1>3 DEF AwaitsOf, ResultOf, Awaits
<1> QED
  BY <1>1, <1>4, <1>5 DEF FJ!Init, FJ!Tids, current_thread

\* If the allocator reuses no descriptor and the client joins no thread that
\* is BLOCKED, lwt.c implements ForkJoin: lwt_create, lwt_join, lwt_die and
\* lwt_yield are its steps, a thread inside lwt_join never gets the processor
\* before its child has ended, and lwt_join returns what lwt_die was given.
THEOREM LwtIsForkJoin ==
    ASSUME ~Recycle, ~JoinBlocked
    PROVE  Spec => ForkJoinSpec
<1>1. MapInv /\ MapInv' /\ [Next]_vars => [FJ!Next]_FJ!vars
  BY NextIsForkJoin DEF FJStep
<1> QED
  BY <1>1, InitIsForkJoin, MapInvariant, PTL DEF Spec, ForkJoinSpec, FJ!Spec
============================================================================
