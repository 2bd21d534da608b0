------------------------------ MODULE SlProofs ------------------------------
(***************************************************************************)
(* Proofs about Sl, for any number of threads and priorities and a timer   *)
(* that may strike anywhere:                                               *)
(*   - types and mutual exclusion of the critical section (IInv);          *)
(*   - sl_thd_block and sl_thd_wakeup implement Parking (KInv, PInv);      *)
(*   - without directed yields threads take turns (TurnOK);                *)
(*   - the run queues hold exactly the threads that can run (Reverse);     *)
(*   - no assertion fails (FInv).                                          *)
(* The later parts rest on one fact about the kernel's tokens (OrderOK): a *)
(* switch that is made uses up every token that another thread still has.  *)
(***************************************************************************)
EXTENDS Sl, SequenceTheorems, FiniteSetTheorems, WellFoundedInduction, TLAPS

\* Only threads of the client call the library, and they wake up and yield
\* to threads of the client.
CallOK ==
    \A t \in Everyone :
        /\ op[t].what # "schedule" => t \in Thread
        /\ op[t].what \in {"wakeup", "yieldto"} => op[t].whom \in Thread

\* What a thread has read or chosen on its way to where it is.
PlaceOK ==
    \A t \in Everyone :
        /\ pc[t] = "take" => cached[t].owner = None
        /\ pc[t] \in {"mark", "help"} => cached[t].owner \in Everyone
        /\ pc[t] = "switch" => to[t] \in Thread

IInv == TypeOK /\ CallOK /\ PlaceOK /\ OwnerInside

-----------------------------------------------------------------------------
(* The run queues stay sequences of threads.                               *)

\* Taking the element x out of a list moves those behind it up by one.
Place(s, x) == CHOOSE j \in DOMAIN s : s[j] = x

LEMMA WithoutElements ==
    ASSUME NEW S, NEW s \in Seq(S), NEW x, x \in Members(s)
    PROVE  /\ Without(s, x) \in Seq(S)
           /\ Len(s) >= 1 /\ Len(Without(s, x)) = Len(s) - 1
           /\ Place(s, x) \in 1..Len(s) /\ s[Place(s, x)] = x
           /\ \A j \in 1..(Len(s) - 1) :
                 /\ j < Place(s, x) => Without(s, x)[j] = s[j]
                 /\ j >= Place(s, x) => Without(s, x)[j] = s[j + 1]
<1> DEFINE i == Place(s, x)
           f == SubSeq(s, 1, i - 1)
           b == SubSeq(s, i + 1, Len(s))
<1>1. i \in DOMAIN s /\ s[i] = x
  BY DEF Place, Members
<1>2. Without(s, x) = f \o b
  BY DEF Without, Place
<1> HIDE DEF i
<1>3. Len(s) \in Nat /\ i \in 1..Len(s) /\ \A j \in 1..Len(s) : s[j] \in S
  BY <1>1, LenProperties, ElementOfSeq
<1>4. f \in Seq(S) /\ Len(f) = i - 1 /\ \A j \in 1..(i - 1) : f[j] = s[j]
  <2>1. i - 1 \in Int /\ \A j \in 1..(i - 1) : s[j] \in S
    BY <1>3
  <2>2. /\ f \in Seq(S) /\ Len(f) = IF 1 <= i - 1 THEN i - 1 - 1 + 1 ELSE 0
        /\ \A j \in 1..(i - 1 - 1 + 1) : f[j] = s[1 + j - 1]
    BY <2>1, SubSeqProperties
  <2> HIDE DEF f
  <2> QED
    BY <2>2, <1>3
<1>5. b \in Seq(S) /\ Len(b) = Len(s) - i /\ \A j \in 1..(Len(s) - i) : b[j] = s[i + j]
  <2>1. i + 1 \in Int /\ \A j \in (i + 1)..Len(s) : s[j] \in S
    BY <1>3
  <2>2. /\ b \in Seq(S) /\ Len(b) = IF i + 1 <= Len(s) THEN Len(s) - (i + 1) + 1 ELSE 0
        /\ \A j \in 1..(Len(s) - (i + 1) + 1) : b[j] = s[i + 1 + j - 1]
    BY <1>3, <2>1, SubSeqProperties
  <2> HIDE DEF b
  <2> QED
    BY <2>2, <1>3
<1> HIDE DEF f, b
<1>6. /\ f \o b \in Seq(S) /\ Len(f \o b) = Len(f) + Len(b)
      /\ \A j \in 1..(Len(f) + Len(b)) : (f \o b)[j] = IF j <= Len(f) THEN f[j] ELSE b[j - Len(f)]
  BY <1>4, <1>5, ConcatProperties
<1>7. ASSUME NEW j \in 1..(Len(s) - 1)
      PROVE  (j < i => (f \o b)[j] = s[j]) /\ (j >= i => (f \o b)[j] = s[j + 1])
  <2>1. ASSUME j < i PROVE (f \o b)[j] = s[j]
    BY <1>3, <1>4, <1>5, <1>6, <2>1
  <2>2. ASSUME j >= i PROVE (f \o b)[j] = s[j + 1]
    <3> DEFINE k == j - (i - 1)
    <3>1. k \in 1..(Len(s) - i) /\ i + k = j + 1 /\ j - Len(f) = k
          /\ j \in 1..(Len(f) + Len(b)) /\ ~(j <= Len(f))
      BY <1>3, <1>4, <1>5, <2>2
    <3> HIDE DEF k
    <3>2. (f \o b)[j] = b[k]
      BY <1>6, <3>1
    <3>3. b[k] = s[i + k]
      BY <1>5, <3>1
    <3> QED
      BY <3>1, <3>2, <3>3
  <2> QED
    BY <2>1, <2>2
<1>8. Len(s) >= 1 /\ Len(f \o b) = Len(s) - 1 /\ f \o b \in Seq(S)
  BY <1>3, <1>4, <1>5, <1>6
<1>9. \A j \in 1..(Len(s) - 1) :
        (j < i => (f \o b)[j] = s[j]) /\ (j >= i => (f \o b)[j] = s[j + 1])
  BY <1>7
<1>10. i = Place(s, x)
  BY DEF i
<1> HIDE DEF f, b
<1>11. Without(s, x) = f \o b
  BY <1>2
<1> QED
  BY <1>1, <1>3, <1>8, <1>9, <1>10, <1>11

LEMMA WithoutType ==
    ASSUME NEW S, NEW s \in Seq(S), NEW x
    PROVE  Without(s, x) \in Seq(S)
<1>1. CASE x \notin Members(s)
  BY <1>1 DEF Without
<1>2. CASE x \in Members(s)
  BY <1>2, WithoutElements
<1> QED
  BY <1>1, <1>2

LEMMA QueueTypes ==
    ASSUME threads \in [Prios -> Seq(Thread)], NEW t \in Thread
    PROVE  /\ Remove(t) => threads' \in [Prios -> Seq(Thread)]
           /\ AddLast(t) => threads' \in [Prios -> Seq(Thread)]
           /\ \A p : ToBack(t, p) => threads' \in [Prios -> Seq(Thread)]
<1>1. \A p \in Prios : Without(threads[p], t) \in Seq(Thread)
  BY WithoutType
<1>2. \A s \in Seq(Thread) : Append(s, t) \in Seq(Thread)
  BY AppendProperties
<1>3. Remove(t) => threads' \in [Prios -> Seq(Thread)]
  BY <1>1 DEF Remove
<1>4. AddLast(t) => threads' \in [Prios -> Seq(Thread)]
  BY <1>2 DEF AddLast
<1>5. \A p : ToBack(t, p) => threads' \in [Prios -> Seq(Thread)]
  BY <1>1, <1>2 DEF ToBack
<1> QED
  BY <1>3, <1>4, <1>5

\* What the policy picks is a thread of the client.
LEMMA FirstType ==
    ASSUME threads \in [Prios -> Seq(Thread)], Best # {}
    PROVE  First \in Thread
<1> DEFINE p == CHOOSE q \in Best : TRUE
<1>1. p \in Best
  OBVIOUS
<1>2. p \in Prios /\ threads[p] # <<>>
  BY <1>1 DEF Best
<1>3. Head(threads[p]) \in Thread
  BY <1>2, HeadTailProperties
<1> QED
  BY <1>3 DEF First

\* The kernel's own bookkeeping.
LEMMA TokenTypes ==
    ASSUME fresh \subseteq Tokens, later \in [Tokens -> SUBSET Tokens]
    PROVE  /\ \A T : Forget(T) => /\ fresh' \subseteq Tokens
                                  /\ later' \in [Tokens -> SUBSET Tokens]
           /\ \A tok \in Tokens : Sync(tok) => /\ fresh' \subseteq Tokens
                                               /\ later' \in [Tokens -> SUBSET Tokens]
<1>1. \A T : Forget(T) => /\ fresh' \subseteq Tokens
                          /\ later' \in [Tokens -> SUBSET Tokens]
  BY DEF Forget
<1>2. \A tok \in Tokens : Sync(tok) => /\ fresh' \subseteq Tokens
                                       /\ later' \in [Tokens -> SUBSET Tokens]
  BY DEF Sync
<1> QED
  BY <1>1, <1>2

LEMMA SwitchTypes ==
    ASSUME TypeOK, NEW u \in Everyone, NEW tok, Switch(u, tok) \/ Refused(tok)
    PROVE  /\ cpu' \in Everyone /\ strikes' \in 0..MaxStrikes
           /\ fresh' \subseteq Tokens /\ later' \in [Tokens -> SUBSET Tokens]
<1>1. fresh \subseteq Tokens /\ later \in [Tokens -> SUBSET Tokens]
  BY DEF TypeOK
<1>2. CASE Switch(u, tok)
  BY <1>1, <1>2, TokenTypes DEF Switch, TypeOK
<1>3. CASE Refused(tok)
  BY <1>3 DEF Refused, TypeOK, kernel
<1> QED
  BY <1>2, <1>3

-----------------------------------------------------------------------------
(* Every step keeps the invariant.                                         *)

LEMMA InitOK == Init => IInv
<1> SUFFICES ASSUME Init PROVE IInv
  OBVIOUS
<1> USE SlAssumption DEF Init, Everyone
<1>1. TypeOK
  BY EmptySeq DEF TypeOK, Words, Free, Nothing, Call, Tokens, Places, Lowest
<1>2. CallOK
  BY DEF CallOK, Nothing, Call
<1>3. PlaceOK
  BY DEF PlaceOK
<1>4. OwnerInside
  BY DEF OwnerInside, Holding, Free
<1> QED
  BY <1>1, <1>2, <1>3, <1>4 DEF IInv

LEMMA StutterOK == IInv /\ UNCHANGED vars => IInv'
BY DEF IInv, TypeOK, CallOK, PlaceOK, OwnerInside, vars, data, kernel, local

\* The start, and the timer: nobody enters or leaves the critical section.
LEMMA BootOK == IInv /\ (Boot \/ Timer) => IInv'
<1> SUFFICES ASSUME IInv, Boot \/ Timer PROVE IInv'
  OBVIOUS
<1> USE SlAssumption DEF IInv, data, kernel, local
<1>1. CASE StartLoop
  BY <1>1 DEF StartLoop, At, Goto, TypeOK, Places, CallOK, PlaceOK, OwnerInside, Holding, Everyone
<1>2. ASSUME NEW t \in Thread, Alloc(t) PROVE IInv'
  BY <1>2 DEF Alloc, TypeOK, CallOK, PlaceOK, OwnerInside
<1>3. ASSUME NEW t \in Thread, NEW p \in Prios, ParamSet(t, p) PROVE IInv'
  <2>1. threads' \in [Prios -> Seq(Thread)]
    BY <1>3, QueueTypes DEF ParamSet, TypeOK
  <2>2. TypeOK'
    BY <1>3, <2>1 DEF ParamSet, TypeOK
  <2> QED
    BY <1>3, <2>2 DEF ParamSet, CallOK, PlaceOK, OwnerInside
<1>4. CASE Timer
  BY <1>4 DEF Timer, TypeOK, CallOK, PlaceOK, OwnerInside, Everyone
<1> QED
  BY <1>1, <1>2, <1>3, <1>4 DEF Boot

\* The client's own code is outside of the critical section.
LEMMA ClientOK ==
    ASSUME IInv, NEW t \in Everyone, Returned(t) \/ ClientCall(t)
    PROVE  IInv'
<1> USE SlAssumption DEF IInv, data, kernel, local, At, Goto
<1>1. CASE Returned(t)
  BY <1>1 DEF Returned, TypeOK, Places, CallOK, PlaceOK, OwnerInside, Holding
<1>2. CASE ClientCall(t)
  <2>1. PICK what \in {"block", "yield", "yieldto", "wakeup"}, u \in Thread \union {None} :
          MayCall(t, what, u) /\ op' = [op EXCEPT ![t] = Call(what, u)]
    BY <1>2 DEF ClientCall
  <2>2. what \in {"wakeup", "yieldto"} => u \in Thread
    BY <2>1 DEF MayCall
  <2>3. TypeOK'
    BY <1>2, <2>1 DEF ClientCall, TypeOK, Places, Call
  <2>4. CallOK'
    BY <1>2, <2>1, <2>2 DEF ClientCall, CallOK, Call, TypeOK
  <2>5. PlaceOK' /\ OwnerInside'
    BY <1>2 DEF ClientCall, PlaceOK, OwnerInside, Holding, TypeOK
  <2> QED
    BY <2>3, <2>4, <2>5
<1> QED
  BY <1>1, <1>2

\* sl_cs_enter: the compare-and-swap succeeds on a lock word that nobody owns,
\* and setting the contention bit leaves the owner who it is.
LEMMA EnterOK ==
    ASSUME IInv, NEW t \in Everyone,
           TakeToken(t) \/ ReadLock(t) \/ TakeLock(t) \/ MarkContention(t) \/ HelpOwner(t)
    PROVE  IInv'
<1> USE SlAssumption DEF IInv, data, kernel, local, At, Goto
<1>1. fresh \subseteq Tokens /\ later \in [Tokens -> SUBSET Tokens] /\ <<t, "lock">> \in Tokens
  BY DEF TypeOK, Tokens
<1>2. CASE TakeToken(t)
  <2>1. fresh' \subseteq Tokens /\ later' \in [Tokens -> SUBSET Tokens]
    BY <1>1, <1>2, TokenTypes DEF TakeToken
  <2> QED
    BY <1>2, <2>1 DEF TakeToken, TypeOK, Places, CallOK, PlaceOK, OwnerInside, Holding
<1>3. CASE ReadLock(t)
  <2>1. lock.owner \in Everyone \union {None}
    BY DEF TypeOK, Words
  <2>2. TypeOK' /\ CallOK'
    BY <1>3 DEF ReadLock, TypeOK, Places, CallOK
  <2>3. PlaceOK'
    <3>1. \A u \in Everyone : u # t => pc'[u] = pc[u] /\ cached'[u] = cached[u]
      BY <1>3 DEF ReadLock, TypeOK
    <3>2. cached'[t] = lock /\ to' = to
      BY <1>3 DEF ReadLock, TypeOK
    <3>3. \/ pc'[t] = "read"
          \/ pc'[t] = "take" /\ lock.owner = None
          \/ pc'[t] \in {"help", "mark"} /\ lock.owner # None
      <4>1. CASE lock.owner = t
        BY <1>3, <4>1 DEF ReadLock
      <4>2. CASE lock.owner # t /\ lock.owner = None
        BY <1>3, <4>2 DEF ReadLock, TypeOK
      <4>3. CASE lock.owner # t /\ lock.owner # None /\ lock.contention
        BY <1>3, <4>3 DEF ReadLock, TypeOK
      <4>4. CASE lock.owner # t /\ lock.owner # None /\ ~lock.contention
        BY <1>3, <4>4 DEF ReadLock, TypeOK
      <4> QED
        BY <4>1, <4>2, <4>3, <4>4
    <3> QED
      BY <2>1, <3>1, <3>2, <3>3 DEF PlaceOK
  <2>4. OwnerInside'
    <3>1. /\ \A u \in Everyone : u # t => pc'[u] = pc[u]
          /\ pc'[t] \in {"read", "take", "help", "mark"}
          /\ pc[t] = "read" /\ lock' = lock
      BY <1>3 DEF ReadLock, TypeOK
    <3> QED
      BY <3>1 DEF OwnerInside, Holding
  <2> QED
    BY <2>2, <2>3, <2>4
<1>4. CASE TakeLock(t)
  <2>1. fresh' \subseteq Tokens /\ later' \in [Tokens -> SUBSET Tokens]
    BY <1>1, <1>4, TokenTypes DEF TakeLock
  <2>2. Inside(t) \in {"body", "list", "pick"}
    BY DEF Inside
  <2>3. lock = cached[t] => \A u \in Everyone : lock.owner # u /\ pc[u] \notin Holding
    BY <1>4 DEF TakeLock, PlaceOK, OwnerInside, Everyone
  <2>4. cached[t] \in Words /\ Free \in Words /\ [cached[t] EXCEPT !.owner = t] \in Words
    BY DEF TypeOK, Words, Free
  <2>5. TypeOK'
    BY <1>4, <2>1, <2>2, <2>4 DEF TakeLock, TypeOK, Places
  <2>6. CallOK' /\ PlaceOK'
    BY <1>4, <2>2 DEF TakeLock, TypeOK, CallOK, PlaceOK
  <2>7. OwnerInside'
    <3>1. CASE lock = cached[t]
      <4>1. lock'.owner = t /\ pc' = [pc EXCEPT ![t] = Inside(t)]
        BY <1>4, <2>4, <3>1 DEF TakeLock, Words
      <4>2. pc'[t] \in Holding /\ \A u \in Everyone \ {t} : pc'[u] = pc[u]
        BY <2>2, <4>1 DEF Holding, TypeOK
      <4>3. \A u \in Everyone : pc'[u] \in Holding <=> u = t
        BY <2>3, <3>1, <4>2
      <4> QED
        BY ONLY <4>1, <4>3 DEF OwnerInside
    <3>2. CASE lock # cached[t]
      BY <1>4, <3>2 DEF TakeLock, OwnerInside, Holding, TypeOK
    <3> QED
      BY <3>1, <3>2
  <2> QED
    BY <2>5, <2>6, <2>7
<1>5. CASE MarkContention(t)
  <2>1. lock' \in Words /\ lock'.owner = lock.owner
    BY <1>5 DEF MarkContention, TypeOK, Words
  <2>2. TypeOK' /\ CallOK'
    BY <1>5, <2>1 DEF MarkContention, TypeOK, Places, CallOK
  <2>3. \E there \in {"help", "sync"} : pc' = [pc EXCEPT ![t] = there]
    BY <1>5 DEF MarkContention
  <2>4. PlaceOK'
    BY <1>5, <2>3 DEF MarkContention, TypeOK, PlaceOK
  <2>5. OwnerInside'
    BY <1>5, <2>1, <2>3 DEF MarkContention, TypeOK, OwnerInside, Holding
  <2> QED
    BY <2>2, <2>4, <2>5
<1>6. CASE HelpOwner(t)
  <2>1. cached[t].owner \in Everyone
    BY <1>6 DEF HelpOwner, PlaceOK
  <2>2. /\ cpu' \in Everyone /\ strikes' \in 0..MaxStrikes
        /\ fresh' \subseteq Tokens /\ later' \in [Tokens -> SUBSET Tokens]
    BY <1>6, <2>1, SwitchTypes DEF HelpOwner
  <2>3. Free \in Words
    BY DEF Words, Free
  <2> QED
    BY <1>6, <2>2, <2>3 DEF HelpOwner, TypeOK, Places, CallOK, PlaceOK, OwnerInside, Holding
<1> QED
  BY <1>2, <1>3, <1>4, <1>5, <1>6

\* Inside of the critical section a thread stays inside, and owns the lock.
LEMMA BodyOK ==
    ASSUME IInv, NEW t \in Everyone,
           BlockState(t) \/ WakeupState(t) \/ UpdateQueue(t) \/ Pick(t) \/ ReadToExit(t)
    PROVE  IInv'
<1> USE SlAssumption DEF IInv, data, kernel, local, At, Goto
<1>1. fresh \subseteq Tokens /\ later \in [Tokens -> SUBSET Tokens]
      /\ <<t, "lock">> \in Tokens /\ <<t, "pick">> \in Tokens
  BY DEF TypeOK, Tokens
<1>2. PICK there \in Holding : pc' = [pc EXCEPT ![t] = there]
  <2>1. pc[t] \in Holding /\ pc = [pc EXCEPT ![t] = pc[t]]
    BY DEF BlockState, WakeupState, UpdateQueue, Pick, ReadToExit, Holding, TypeOK
  <2>2. CASE pc' = pc
    BY <2>1, <2>2
  <2>3. CASE \E there \in {"list", "pick", "exit", "release"} : Goto(t, there)
    BY <2>3 DEF Holding
  <2> QED
    BY <2>2, <2>3 DEF BlockState, WakeupState, UpdateQueue, Pick, ReadToExit
<1>3. OwnerInside'
  <2>1. pc[t] \in Holding /\ lock' = lock
    BY DEF BlockState, WakeupState, UpdateQueue, Pick, ReadToExit, Holding
  <2> QED
    BY <1>2, <2>1 DEF OwnerInside, TypeOK
<1>4. CallOK' /\ PlaceOK'
  <2>1. op' = op
    BY DEF BlockState, WakeupState, UpdateQueue, Pick, ReadToExit
  <2>2. \A u \in Everyone : u # t => cached'[u] = cached[u] /\ to'[u] = to[u]
    BY DEF BlockState, WakeupState, UpdateQueue, Pick, ReadToExit, TypeOK
  <2>3. pc'[t] \notin {"take", "mark", "help", "switch"}
        /\ \A u \in Everyone : u # t => pc'[u] = pc[u]
    BY <1>2 DEF Holding, TypeOK
  <2> QED
    BY <2>1, <2>2, <2>3 DEF CallOK, PlaceOK
<1>5. pc' \in [Everyone -> Places]
  BY <1>2 DEF Holding, Places, TypeOK
<1>6. CASE BlockState(t)
  BY <1>3, <1>4, <1>5, <1>6 DEF BlockState, TypeOK
<1>7. CASE WakeupState(t)
  <2>1. op[t].whom \in Thread
    BY <1>7 DEF WakeupState, CallOK
  <2>2. TypeOK'
    BY <1>5, <1>7, <2>1 DEF WakeupState, TypeOK
  <2> QED
    BY <1>3, <1>4, <2>2
<1>8. CASE UpdateQueue(t)
  <2>1. op[t].what \in {"block", "yield"} => t \in Thread
    BY DEF CallOK
  <2>2. op[t].what = "wakeup" => op[t].whom \in Thread
    BY DEF CallOK
  <2>3. threads' \in [Prios -> Seq(Thread)]
    BY <1>8, <2>1, <2>2, QueueTypes DEF UpdateQueue, TypeOK
  <2>4. TypeOK'
    BY <1>5, <1>8, <2>3 DEF UpdateQueue, TypeOK
  <2> QED
    BY <1>3, <1>4, <2>4
<1>9. CASE Pick(t)
  <2>1. fresh' \subseteq Tokens /\ later' \in [Tokens -> SUBSET Tokens]
    BY <1>1, <1>9, TokenTypes DEF Pick
  <2>2. to' \in [Everyone -> Thread \union {None}]
    BY <1>9, FirstType DEF Pick, CallOK, TypeOK
  <2>3. TypeOK'
    BY <1>5, <1>9, <2>1, <2>2 DEF Pick, TypeOK
  <2> QED
    BY <1>3, <1>4, <2>3
<1>10. CASE ReadToExit(t)
  <2>1. fresh' \subseteq Tokens /\ later' \in [Tokens -> SUBSET Tokens]
    BY <1>1, <1>10, TokenTypes DEF ReadToExit
  <2>2. TypeOK'
    BY <1>5, <1>10, <2>1 DEF ReadToExit, TypeOK
  <2> QED
    BY <1>3, <1>4, <2>2
<1> QED
  BY <1>6, <1>7, <1>8, <1>9, <1>10

\* The way out: only the owner stores Free, on its way out.
LEMMA ExitOK ==
    ASSUME IInv, NEW t \in Everyone,
           Release(t) \/ Defer(t) \/ SwitchMade(t) \/ SwitchRefused(t)
    PROVE  IInv'
<1> USE SlAssumption DEF IInv, data, kernel, local, At, Goto
<1>1. fresh \subseteq Tokens /\ later \in [Tokens -> SUBSET Tokens]
  BY DEF TypeOK
<1>2. AfterExit(t) \in {"back", "switch"} /\ (AfterExit(t) = "switch" => to[t] \in Thread)
  BY DEF AfterExit, TypeOK
<1>3. Free \in Words /\ Free.owner = None
  BY DEF Words, Free
<1>4. CASE Release(t)
  <2>1. fresh' \subseteq Tokens /\ later' \in [Tokens -> SUBSET Tokens]
    BY <1>1, <1>4, TokenTypes DEF Release
  <2>2. TypeOK'
    BY <1>2, <1>3, <1>4, <2>1 DEF Release, TypeOK, Places
  <2>3. CallOK' /\ PlaceOK'
    BY <1>2, <1>4 DEF Release, TypeOK, CallOK, PlaceOK
  <2>4. lock.owner = t /\ \A u \in Everyone \ {t} : pc[u] \notin Holding
    BY <1>4 DEF Release, OwnerInside, Holding
  <2>5. OwnerInside'
    BY <1>2, <1>3, <1>4, <2>4 DEF Release, TypeOK, OwnerInside, Holding, Everyone
  <2> QED
    BY <2>2, <2>3, <2>5
<1>5. CASE Defer(t)
  <2>1. /\ cpu' \in Everyone /\ strikes' \in 0..MaxStrikes
        /\ fresh' \subseteq Tokens /\ later' \in [Tokens -> SUBSET Tokens]
    BY <1>5, SwitchTypes DEF Defer, Everyone
  <2> QED
    BY <1>2, <1>5, <2>1 DEF Defer, TypeOK, Places, CallOK, PlaceOK, OwnerInside, Holding
<1>6. CASE SwitchMade(t) \/ SwitchRefused(t)
  <2>1. to[t] \in Everyone
    BY <1>6 DEF SwitchMade, SwitchRefused, PlaceOK, Everyone
  <2>2. /\ cpu' \in Everyone /\ strikes' \in 0..MaxStrikes
        /\ fresh' \subseteq Tokens /\ later' \in [Tokens -> SUBSET Tokens]
    BY <1>6, <2>1, SwitchTypes DEF SwitchMade, SwitchRefused
  <2>3. /\ \E there \in {"sync", "back"} : pc' = [pc EXCEPT ![t] = there]
        /\ to' = [to EXCEPT ![t] = None] /\ op' = [op EXCEPT ![t] = Nothing]
        /\ UNCHANGED <<lock, state, prio, threads, cached, fault>>
    BY <1>6 DEF SwitchMade, SwitchRefused
  <2>4. pc[t] = "switch"
    BY <1>6 DEF SwitchMade, SwitchRefused
  <2>5. TypeOK'
    <3>1. pc' \in [Everyone -> Places] /\ to' \in [Everyone -> Thread \union {None}]
      BY <2>3 DEF TypeOK, Places
    <3>2. op' \in [Everyone -> [what : {"schedule", "block", "wakeup", "yield", "yieldto"},
                                whom : Thread \union {None}]]
      BY <2>3 DEF TypeOK, Nothing, Call
    <3>3. /\ lock' \in Words /\ cached' \in [Everyone -> Words]
          /\ state' \in [Thread -> {"FREE", "BLOCKED", "WOKEN", "RUNNABLE"}]
          /\ prio' \in [Thread -> Prios \union {Lowest}]
          /\ threads' \in [Prios -> Seq(Thread)]
          /\ fault' \in {"none", "recursive lock", "woken twice", "listed twice",
                          "nobody to run"}
      BY <2>3 DEF TypeOK
    <3> QED
      BY ONLY <2>2, <3>1, <3>2, <3>3 DEF TypeOK
  <2>6. CallOK'
    BY <2>3 DEF TypeOK, CallOK, Nothing, Call
  <2>7. /\ \A u \in Everyone : u # t => pc'[u] = pc[u] /\ to'[u] = to[u]
        /\ pc'[t] \in {"sync", "back"}
    BY <2>3 DEF TypeOK
  <2>8. PlaceOK'
    BY <2>3, <2>7 DEF PlaceOK
  <2>9. OwnerInside'
    BY <2>3, <2>4, <2>7 DEF OwnerInside, Holding
  <2> QED
    BY <2>5, <2>6, <2>8, <2>9
<1> QED
  BY <1>4, <1>5, <1>6

LEMMA Invariance == Spec => []IInv
<1>1. IInv /\ [Next]_vars => IInv'
  <2> SUFFICES ASSUME IInv, [Next]_vars PROVE IInv'
    OBVIOUS
  <2>1. CASE Boot \/ Timer
    BY <2>1, BootOK
  <2>2. ASSUME NEW t \in Everyone, Step(t) PROVE IInv'
    BY <2>2, ClientOK, EnterOK, BodyOK, ExitOK DEF Step
  <2>3. CASE UNCHANGED vars
    BY <2>3, StutterOK
  <2> QED
    BY <2>1, <2>2, <2>3 DEF Next
<1> QED
  BY InitOK, <1>1, PTL DEF Spec

-----------------------------------------------------------------------------

\* Every variable of the scheduler library keeps its type.
THEOREM SlTypes == Spec => []TypeOK
<1>1. IInv => TypeOK
  BY DEF IInv
<1> QED
  BY <1>1, Invariance, PTL

\* The critical section of sl.h:50 is one: who is inside is the owner in the
\* lock word, so two threads are never inside together, however often and
\* wherever the timer strikes.
THEOREM SlExclusion == Spec => []OwnerInside
<1>1. IInv => OwnerInside
  BY DEF IInv
<1> QED
  BY <1>1, Invariance, PTL

-----------------------------------------------------------------------------
(* The tokens.  When a thread of the client runs, only its own tokens can  *)
(* be accepted; the scheduler thread may have interrupted one whose tokens *)
(* are older than its own.  So a switch that is made uses up every token:  *)
(* what was read or chosen before it can no longer lead to a switch.       *)

Own(t) == {<<t, "lock">>, <<t, "pick">>}

Entering == {"sync", "read", "take", "mark", "help"}
Leaving == {"exit", "release", "defer"}

OrderOK ==
    /\ cpu \in Thread => fresh \subseteq Own(cpu)
    /\ \A x \in fresh \ Own(cpu), y \in fresh \intersect Own(cpu) : y \in later[x]
    /\ <<cpu, "pick">> \in fresh /\ <<cpu, "lock">> \in fresh
          => <<cpu, "lock">> \in later[<<cpu, "pick">>]

\* Where a thread may have a token that is accepted, and a thread to switch to.
TokenOK ==
    \A t \in Everyone :
        /\ <<t, "pick">> \in fresh => pc[t] = "pick" \/ to[t] # None
        /\ <<t, "lock">> \in fresh => pc[t] \in Entering \union Leaving
        /\ to[t] # None => pc[t] \in {"switch"} \union Leaving

\* While the scheduler thread starts the others, none of them runs.
StartOK ==
    pc[Sched] = "init" =>
        /\ cpu = Sched
        /\ \A t \in Thread : pc[t] = "back" /\ state[t] # "BLOCKED"

KInv == IInv /\ OrderOK /\ TokenOK /\ StartOK

LEMMA OwnFirst == \A t : \A x \in Own(t) : x[1] = t
<1> SUFFICES ASSUME NEW t, NEW x \in Own(t) PROVE x[1] = t
  OBVIOUS
<1>1. CASE x = <<t, "lock">>
  BY <1>1
<1>2. CASE x = <<t, "pick">>
  BY <1>2
<1> QED
  BY <1>1, <1>2 DEF Own

\* A step of a thread leaves the others where they are.
LEMMA StepFrame ==
    ASSUME TypeOK, NEW t \in Everyone, Step(t)
    PROVE  /\ cpu = t /\ fault = "none" /\ prio' = prio
           /\ \A u \in Everyone \ {t} : /\ pc'[u] = pc[u] /\ op'[u] = op[u]
                                        /\ to'[u] = to[u] /\ cached'[u] = cached[u]
           /\ pc[t] # "init" /\ pc'[t] # "init"
<1> USE DEF At, Goto, data, local, kernel, TypeOK
<1>1. CASE Returned(t) \/ ClientCall(t)
  BY <1>1 DEF Returned, ClientCall
<1>2. CASE TakeToken(t) \/ ReadLock(t) \/ MarkContention(t) \/ HelpOwner(t)
  BY <1>2 DEF TakeToken, ReadLock, MarkContention, HelpOwner
<1>3. CASE TakeLock(t)
  BY <1>3 DEF TakeLock, Inside
<1>4. CASE BlockState(t) \/ WakeupState(t) \/ UpdateQueue(t) \/ Pick(t)
  BY <1>4 DEF BlockState, WakeupState, UpdateQueue, Pick
<1>5. CASE ReadToExit(t) \/ Release(t) \/ Defer(t)
  BY <1>5 DEF ReadToExit, Release, Defer, AfterExit
<1>6. CASE SwitchMade(t) \/ SwitchRefused(t)
  BY <1>6 DEF SwitchMade, SwitchRefused
<1> QED
  BY <1>1, <1>2, <1>3, <1>4, <1>5, <1>6 DEF Step

\* A new token is later than all the others.
LEMMA SyncOrder ==
    ASSUME TypeOK, OrderOK, NEW t \in Everyone, cpu = t, cpu' = t, NEW tok \in Own(t), Sync(tok),
           tok = <<t, "pick">> => <<t, "lock">> \notin fresh
    PROVE  OrderOK' /\ fresh' = fresh \union {tok}
<1>1. fresh' = fresh \union {tok} /\ fresh \subseteq Tokens
  BY DEF Sync, TypeOK
<1>2. \A x \in fresh \ {tok} : later'[x] = later[x] \union {tok}
  BY <1>1 DEF Sync
<1>3. t \in Thread => fresh' \subseteq Own(t)
  BY <1>1 DEF OrderOK
<1>4. \A x \in fresh' \ Own(t), y \in fresh' \intersect Own(t) : y \in later'[x]
  BY <1>1, <1>2 DEF OrderOK
<1>5. <<t, "pick">> \in fresh' /\ <<t, "lock">> \in fresh'
          => <<t, "lock">> \in later'[<<t, "pick">>]
  <2> SUFFICES ASSUME <<t, "pick">> \in fresh', <<t, "lock">> \in fresh'
               PROVE  <<t, "lock">> \in later'[<<t, "pick">>]
    OBVIOUS
  <2>1. <<t, "lock">> # <<t, "pick">>
    OBVIOUS
  <2>2. tok = <<t, "lock">> /\ <<t, "pick">> \in fresh \ {tok}
    BY <1>1, <2>1 DEF Own
  <2> QED
    BY <1>2, <2>2
<1> QED
  BY <1>1, <1>3, <1>4, <1>5 DEF OrderOK

LEMMA ForgetOrder ==
    ASSUME TypeOK, OrderOK, cpu' = cpu, NEW T, Forget(T)
    PROVE  OrderOK' /\ fresh' = fresh \ T
<1>1. fresh' = fresh \ T /\ fresh \subseteq Tokens /\ \A x \in fresh' : later'[x] = later[x] \ T
  BY DEF Forget, TypeOK
<1> QED
  BY <1>1 DEF OrderOK, Own

\* A switch that is made, whichever of the three, uses up every token.
LEMMA SwitchOrder ==
    ASSUME KInv, NEW t \in Everyone, cpu = t, NEW u, NEW tok, Switch(u, tok),
           \/ tok = <<t, "lock">> /\ pc[t] \in {"help", "defer"}
           \/ tok = <<t, "pick">> /\ pc[t] = "switch"
    PROVE  OrderOK' /\ fresh' = {} /\ cpu' = u
<1>1. cpu' = u /\ tok \in fresh /\ Forget({tok} \union {x \in fresh : tok \in later[x]})
  BY DEF Switch
<1>2. fresh' = fresh \ ({tok} \union {x \in fresh : tok \in later[x]})
  BY <1>1 DEF Forget
<1>3. tok \in Own(t)
  BY DEF Own
<1>4. \A x \in fresh \ Own(t) : tok \in later[x]
  BY <1>1, <1>3 DEF KInv, OrderOK
<1>5. ASSUME NEW x \in fresh \intersect Own(t), x # tok PROVE tok \in later[x]
  <2>1. CASE tok = <<t, "lock">>
    <3>1. x = <<t, "pick">> /\ pc[t] \in {"help", "defer"}
      BY <1>5, <2>1 DEF Own
    <3> QED
      BY <1>1, <2>1, <3>1 DEF KInv, TokenOK, OrderOK
  <2>2. CASE tok = <<t, "pick">>
    <3>1. x = <<t, "lock">> /\ pc[t] = "switch"
      BY <1>5, <2>2 DEF Own
    <3> QED
      BY <3>1 DEF KInv, TokenOK, Entering, Leaving
  <2> QED
    BY <2>1, <2>2
<1>6. fresh' = {}
  BY <1>2, <1>4, <1>5
<1> QED
  BY <1>1, <1>6 DEF OrderOK

LEMMA KInit == Init => OrderOK /\ TokenOK /\ StartOK
BY SlAssumption DEF Init, OrderOK, TokenOK, StartOK, Everyone

LEMMA KStutter == KInv /\ UNCHANGED vars => (OrderOK /\ TokenOK /\ StartOK)'
BY DEF KInv, OrderOK, TokenOK, StartOK, vars, data, kernel, local

LEMMA KBoot == KInv /\ (Boot \/ Timer) => (OrderOK /\ TokenOK /\ StartOK)'
<1> SUFFICES ASSUME KInv, Boot \/ Timer PROVE (OrderOK /\ TokenOK /\ StartOK)'
  OBVIOUS
<1> USE SlAssumption DEF KInv, IInv, data, kernel, local, TypeOK, At
<1>1. CASE StartLoop
  BY <1>1 DEF StartLoop, Goto, OrderOK, TokenOK, StartOK, Leaving, Entering
<1>2. ASSUME NEW t \in Thread, Alloc(t) \/ \E p \in Prios : ParamSet(t, p)
      PROVE  (OrderOK /\ TokenOK /\ StartOK)'
  BY <1>2 DEF Alloc, ParamSet, OrderOK, TokenOK, StartOK
<1>3. CASE Timer
  <2>1. fresh' = fresh /\ later' = later /\ cpu' = Sched /\ pc' = pc /\ to' = to
        /\ state' = state
    BY <1>3 DEF Timer
  <2>2. cpu \in Thread /\ Sched \notin Thread
    BY <1>3 DEF Timer, Everyone
  <2>3. fresh \intersect Own(Sched) = {}
    <3>1. \A x \in fresh : x[1] # Sched
      BY <2>2, OwnFirst DEF OrderOK
    <3> QED
      BY <3>1, OwnFirst
  <2>4. OrderOK'
    BY <2>1, <2>2, <2>3 DEF OrderOK, Own
  <2> QED
    BY <2>1, <2>4 DEF TokenOK, StartOK
<1> QED
  BY <1>1, <1>2, <1>3 DEF Boot

\* The step of a thread keeps the places of its own tokens, and makes none
\* for another.
LEMMA TokenStep ==
    ASSUME KInv, NEW t \in Everyone, Step(t), fresh' \subseteq fresh \union Own(t),
           <<t, "pick">> \in fresh' => pc'[t] = "pick" \/ to'[t] # None,
           <<t, "lock">> \in fresh' => pc'[t] \in Entering \union Leaving,
           to'[t] # None => pc'[t] \in {"switch"} \union Leaving
    PROVE  TokenOK'
<1>1. TypeOK
  BY DEF KInv, IInv
<1>2. \A u \in Everyone \ {t} : pc'[u] = pc[u] /\ to'[u] = to[u]
  BY <1>1, StepFrame
<1>3. \A u \in Everyone \ {t} : /\ <<u, "pick">> \in fresh' => <<u, "pick">> \in fresh
                                /\ <<u, "lock">> \in fresh' => <<u, "lock">> \in fresh
  BY DEF Own
<1> QED
  BY <1>2, <1>3 DEF KInv, TokenOK

LEMMA KStart ==
    ASSUME KInv, NEW t \in Everyone, Step(t)
    PROVE  StartOK'
<1>1. cpu = t /\ pc[t] # "init" /\ pc'[t] # "init" /\ \A u \in Everyone \ {t} : pc'[u] = pc[u]
  BY StepFrame DEF KInv, IInv
<1>2. pc[Sched] # "init"
  BY <1>1 DEF KInv, StartOK
<1>3. pc'[Sched] # "init"
  BY <1>1, <1>2 DEF Everyone
<1> QED
  BY <1>3 DEF StartOK

LEMMA KEnter ==
    ASSUME KInv, NEW t \in Everyone,
           \/ Returned(t) \/ ClientCall(t)
           \/ TakeToken(t) \/ ReadLock(t) \/ TakeLock(t) \/ MarkContention(t) \/ HelpOwner(t)
    PROVE  OrderOK' /\ TokenOK'
<1> USE DEF data, kernel, local, At, Goto
<1>1. TypeOK /\ OrderOK /\ Step(t)
  BY DEF KInv, IInv, Step
<1>2. /\ <<t, "pick">> \in fresh => pc[t] = "pick" \/ to[t] # None
      /\ <<t, "lock">> \in fresh => pc[t] \in Entering \union Leaving
      /\ to[t] # None => pc[t] \in {"switch"} \union Leaving
  BY DEF KInv, TokenOK
<1>3. CASE Returned(t) \/ ClientCall(t)
  <2>1. UNCHANGED <<cpu, fresh, later, to>> /\ pc[t] \in {"back", "run"}
    BY <1>3 DEF Returned, ClientCall
  <2>2. OrderOK'
    BY <1>1, <2>1 DEF OrderOK
  <2> QED
    BY <1>1, <1>2, <2>1, <2>2, TokenStep DEF Leaving, Entering
<1>4. CASE TakeToken(t)
  <2>1. cpu = t /\ cpu' = t /\ Sync(<<t, "lock">>) /\ <<t, "lock">> \in Own(t)
        /\ pc[t] = "sync" /\ pc'[t] = "read" /\ to' = to
    BY <1>1, <1>4 DEF TakeToken, Own, TypeOK
  <2>2. OrderOK' /\ fresh' = fresh \union {<<t, "lock">>}
    BY <1>1, <2>1, SyncOrder
  <2>3. fresh' \subseteq fresh \union Own(t) /\ (<<t, "pick">> \in fresh' => <<t, "pick">> \in fresh)
    BY <2>1, <2>2
  <2> QED
    BY <1>1, <1>2, <2>1, <2>2, <2>3, TokenStep DEF Leaving, Entering
<1>5. CASE ReadLock(t)
  <2>1. UNCHANGED <<cpu, fresh, later, to>> /\ pc[t] = "read"
        /\ pc'[t] \in {"read", "take", "help", "mark"}
    BY <1>1, <1>5 DEF ReadLock, TypeOK
  <2>2. OrderOK'
    BY <1>1, <2>1 DEF OrderOK
  <2> QED
    BY <1>1, <1>2, <2>1, <2>2, TokenStep DEF Leaving, Entering
<1>6. CASE TakeLock(t)
  <2>1. cpu' = cpu /\ to' = to /\ pc[t] = "take"
    BY <1>6 DEF TakeLock
  <2>2. CASE lock = cached[t]
    <3>1. Forget({<<t, "lock">>}) /\ pc'[t] \in {"body", "list", "pick"}
      BY <1>1, <1>6, <2>2 DEF TakeLock, Inside, TypeOK
    <3>2. OrderOK' /\ fresh' = fresh \ {<<t, "lock">>}
      BY <1>1, <2>1, <3>1, ForgetOrder
    <3> QED
      BY <1>1, <1>2, <2>1, <3>1, <3>2, TokenStep DEF Leaving, Entering
  <2>3. CASE lock # cached[t]
    <3>1. UNCHANGED <<fresh, later>> /\ pc'[t] = "sync"
      BY <1>1, <1>6, <2>3 DEF TakeLock, TypeOK
    <3>2. OrderOK'
      BY <1>1, <2>1, <3>1 DEF OrderOK
    <3> QED
      BY <1>1, <1>2, <2>1, <3>1, <3>2, TokenStep DEF Leaving, Entering
  <2> QED
    BY <2>2, <2>3
<1>7. CASE MarkContention(t)
  <2>1. UNCHANGED <<cpu, fresh, later, to>> /\ pc[t] = "mark" /\ pc'[t] \in {"help", "sync"}
    BY <1>1, <1>7 DEF MarkContention, TypeOK
  <2>2. OrderOK'
    BY <1>1, <2>1 DEF OrderOK
  <2> QED
    BY <1>1, <1>2, <2>1, <2>2, TokenStep DEF Leaving, Entering
<1>8. CASE HelpOwner(t)
  <2>1. cpu = t /\ to' = to /\ pc[t] = "help" /\ pc'[t] = "sync"
    BY <1>1, <1>8 DEF HelpOwner, TypeOK
  <2>2. OrderOK' /\ fresh' \subseteq fresh
    <3>1. CASE Switch(cached[t].owner, <<t, "lock">>)
      BY <2>1, <3>1, SwitchOrder
    <3>2. CASE Refused(<<t, "lock">>)
      BY <1>1, <3>2 DEF Refused, OrderOK
    <3> QED
      BY <1>8, <3>1, <3>2 DEF HelpOwner
  <2> QED
    BY <1>1, <1>2, <2>1, <2>2, TokenStep DEF Leaving, Entering
<1> QED
  BY <1>3, <1>4, <1>5, <1>6, <1>7, <1>8

LEMMA KBody ==
    ASSUME KInv, NEW t \in Everyone,
           \/ BlockState(t) \/ WakeupState(t) \/ UpdateQueue(t) \/ Pick(t) \/ ReadToExit(t)
           \/ Release(t) \/ Defer(t) \/ SwitchMade(t) \/ SwitchRefused(t)
    PROVE  OrderOK' /\ TokenOK'
<1> USE DEF data, kernel, local, At, Goto
<1>1. TypeOK /\ OrderOK /\ Step(t)
  BY DEF KInv, IInv, Step
<1>2. /\ <<t, "pick">> \in fresh => pc[t] = "pick" \/ to[t] # None
      /\ <<t, "lock">> \in fresh => pc[t] \in Entering \union Leaving
      /\ to[t] # None => pc[t] \in {"switch"} \union Leaving
  BY DEF KInv, TokenOK
<1>3. CASE BlockState(t) \/ WakeupState(t) \/ UpdateQueue(t)
  <2>1. UNCHANGED <<cpu, fresh, later, to>> /\ pc[t] \in {"body", "list"}
    BY <1>3 DEF BlockState, WakeupState, UpdateQueue
  <2>2. OrderOK'
    BY <1>1, <2>1 DEF OrderOK
  <2> QED
    BY <1>1, <1>2, <2>1, <2>2, TokenStep DEF Leaving, Entering
<1>4. CASE Pick(t)
  <2>1. cpu = t /\ cpu' = t /\ Sync(<<t, "pick">>) /\ <<t, "pick">> \in Own(t) /\ pc[t] = "pick"
    BY <1>1, <1>4 DEF Pick, Own
  <2>2. <<t, "lock">> \notin fresh
    BY <1>2, <2>1 DEF Entering, Leaving
  <2>3. OrderOK' /\ fresh' = fresh \union {<<t, "pick">>}
    BY <1>1, <2>1, <2>2, SyncOrder
  <2>4. (pc'[t] = "exit" /\ to'[t] # None) \/ (pc'[t] = "pick" /\ to' = to)
    <3>1. Best # {} => First \in Thread
      BY <1>1, FirstType DEF TypeOK
    <3>2. op[t].what = "yieldto" => op[t].whom \in Thread
      BY DEF KInv, IInv, CallOK
    <3>3. None \notin Thread
      BY SlAssumption DEF Everyone
    <3>4. CASE Best = {} /\ ~(op[t].what = "yieldto" /\ state[op[t].whom] = "RUNNABLE")
      BY <1>1, <1>4, <3>4 DEF Pick, TypeOK
    <3>5. CASE op[t].what = "yieldto" /\ state[op[t].whom] = "RUNNABLE"
      BY <1>1, <1>4, <3>2, <3>3, <3>5 DEF Pick, TypeOK
    <3>6. CASE Best # {} /\ ~(op[t].what = "yieldto" /\ state[op[t].whom] = "RUNNABLE")
      BY <1>1, <1>4, <3>1, <3>3, <3>6 DEF Pick, TypeOK
    <3> QED
      BY <3>4, <3>5, <3>6
  <2>5. fresh' \subseteq fresh \union Own(t) /\ <<t, "lock">> \notin fresh'
    BY <2>1, <2>2, <2>3
  <2> QED
    BY <1>1, <1>2, <2>1, <2>3, <2>4, <2>5, TokenStep DEF Leaving, Entering
<1>5. CASE ReadToExit(t)
  <2>1. cpu = t /\ cpu' = t /\ Sync(<<t, "lock">>) /\ <<t, "lock">> \in Own(t)
        /\ <<t, "lock">> # <<t, "pick">> /\ pc[t] = "exit" /\ pc'[t] = "release"
        /\ to' = to
    BY <1>1, <1>5 DEF ReadToExit, Own, TypeOK
  <2>2. OrderOK' /\ fresh' = fresh \union {<<t, "lock">>}
    BY <1>1, <2>1, SyncOrder
  <2>3. fresh' \subseteq fresh \union Own(t) /\ (<<t, "pick">> \in fresh' => <<t, "pick">> \in fresh)
    BY <2>1, <2>2
  <2> QED
    BY <1>1, <1>2, <2>1, <2>2, <2>3, TokenStep DEF Leaving, Entering
<1>6. CASE Release(t)
  <2>1. cpu' = cpu /\ to' = to /\ pc[t] = "release"
    BY <1>6 DEF Release
  <2>2. CASE UNCHANGED <<fresh, later>> /\ pc'[t] \in {"exit", "defer"}
    <3>1. OrderOK'
      BY <1>1, <2>1, <2>2 DEF OrderOK
    <3> QED
      BY <1>1, <1>2, <2>1, <2>2, <3>1, TokenStep DEF Leaving, Entering
  <2>3. CASE Forget({<<t, "lock">>}) /\ pc'[t] = AfterExit(t)
    <3>1. OrderOK' /\ fresh' = fresh \ {<<t, "lock">>}
      BY <1>1, <2>1, <2>3, ForgetOrder
    <3>2. pc'[t] = "switch" \/ (pc'[t] = "back" /\ to[t] = None)
      BY <2>3 DEF AfterExit
    <3>3. CASE pc'[t] = "switch"
      BY <1>1, <1>2, <2>1, <3>1, <3>3, TokenStep DEF Leaving, Entering
    <3>4. CASE pc'[t] = "back" /\ to[t] = None
      BY <1>1, <1>2, <2>1, <3>1, <3>4, TokenStep DEF Leaving, Entering
    <3> QED
      BY <3>2, <3>3, <3>4
  <2>4. CASE lock # cached[t]
    BY <1>1, <1>6, <2>2, <2>4 DEF Release, TypeOK
  <2>5. CASE lock = cached[t] /\ cached[t].contention
    BY <1>1, <1>6, <2>2, <2>5 DEF Release, TypeOK
  <2>6. CASE lock = cached[t] /\ ~cached[t].contention
    BY <1>1, <1>6, <2>3, <2>6 DEF Release, TypeOK
  <2> QED
    BY <2>4, <2>5, <2>6
<1>7. CASE Defer(t)
  <2>1. cpu = t /\ to' = to /\ pc[t] = "defer" /\ pc'[t] = AfterExit(t)
    BY <1>1, <1>7 DEF Defer, TypeOK
  <2>2. OrderOK' /\ fresh' \subseteq fresh /\ <<t, "lock">> \notin fresh'
    <3>1. CASE Switch(Sched, <<t, "lock">>)
      BY <2>1, <3>1, SwitchOrder
    <3>2. CASE Refused(<<t, "lock">>)
      BY <1>1, <3>2 DEF Refused, OrderOK
    <3> QED
      BY <1>7, <3>1, <3>2 DEF Defer
  <2>3. \/ pc'[t] = "switch" /\ to[t] # None
        \/ pc'[t] = "back" /\ to[t] = None
    BY <2>1 DEF AfterExit
  <2> QED
    BY <1>1, <1>2, <2>1, <2>2, <2>3, TokenStep DEF Leaving, Entering
<1>8. CASE SwitchMade(t) \/ SwitchRefused(t)
  <2>1. cpu = t /\ to'[t] = None /\ pc[t] = "switch"
    BY <1>1, <1>8 DEF SwitchMade, SwitchRefused, TypeOK
  <2>2. OrderOK' /\ fresh' \subseteq fresh /\ <<t, "pick">> \notin fresh'
    <3>1. CASE SwitchMade(t)
      BY <2>1, <3>1, SwitchOrder DEF SwitchMade
    <3>2. CASE SwitchRefused(t)
      BY <1>1, <3>2 DEF SwitchRefused, Refused, OrderOK
    <3> QED
      BY <1>8, <3>1, <3>2
  <2>3. <<t, "lock">> \notin fresh'
    BY <1>2, <2>1, <2>2 DEF Leaving, Entering
  <2> QED
    BY <1>1, <2>1, <2>2, <2>3, TokenStep
<1> QED
  BY <1>3, <1>4, <1>5, <1>6, <1>7, <1>8

-----------------------------------------------------------------------------
(* The run queues.                                                         *)

\* Nobody is in a queue twice.
Once(s) == \A i, j \in DOMAIN s : s[i] = s[j] => i = j

LEMMA WithoutOnce ==
    ASSUME NEW S, NEW s \in Seq(S), NEW x, Once(s)
    PROVE  Members(Without(s, x)) = Members(s) \ {x} /\ Once(Without(s, x))
<1>1. CASE x \notin Members(s)
  BY <1>1 DEF Without
<1>2. CASE x \in Members(s)
  <2> DEFINE r == Without(s, x)
             i == Place(s, x)
             from(j) == IF j < i THEN j ELSE j + 1
  <2>1. r \in Seq(S) /\ Len(s) >= 1 /\ Len(r) = Len(s) - 1 /\ i \in 1..Len(s) /\ s[i] = x
    BY <1>2, WithoutElements
  <2>2. \A j \in 1..(Len(s) - 1) : (j < i => r[j] = s[j]) /\ (j >= i => r[j] = s[j + 1])
    BY <1>2, WithoutElements
  <2> HIDE DEF r, i
  <2>3. Len(s) \in Nat /\ DOMAIN s = 1..Len(s) /\ DOMAIN r = 1..(Len(s) - 1)
    BY <2>1, LenProperties
  <2>4. ASSUME NEW j \in DOMAIN r
        PROVE  from(j) \in DOMAIN s /\ r[j] = s[from(j)] /\ from(j) # i
    BY <2>1, <2>2, <2>3
  <2>5. Once(r)
    <3> SUFFICES ASSUME NEW j \in DOMAIN r, NEW k \in DOMAIN r, r[j] = r[k] PROVE j = k
      BY DEF Once
    <3>1. from(j) = from(k)
      BY <2>4 DEF Once
    <3> QED
      BY <2>1, <2>3, <3>1
  <2>6. ASSUME NEW y \in Members(r) PROVE y \in Members(s) \ {x}
    <3>1. PICK j \in DOMAIN r : r[j] = y
      BY <2>6 DEF Members
    <3>2. s[from(j)] # x
      BY <2>1, <2>3, <2>4 DEF Once
    <3> QED
      BY <2>4, <3>1, <3>2 DEF Members
  <2>7. ASSUME NEW y \in Members(s), y # x PROVE y \in Members(r)
    <3>1. PICK k \in DOMAIN s : s[k] = y
      BY <2>7 DEF Members
    <3>2. k # i
      BY <2>1, <2>7, <3>1
    <3>3. CASE k < i
      <4>1. k \in DOMAIN r /\ r[k] = y
        BY <2>1, <2>2, <2>3, <3>1, <3>3
      <4> QED
        BY <4>1 DEF Members
    <3>4. CASE k > i
      <4>1. k - 1 \in DOMAIN r /\ r[k - 1] = y
        BY <2>1, <2>2, <2>3, <3>1, <3>4
      <4> QED
        BY <4>1 DEF Members
    <3> QED
      BY <2>1, <2>3, <3>2, <3>3, <3>4
  <2>8. Members(r) = Members(s) \ {x}
    BY <2>6, <2>7
  <2> QED
    BY <2>5, <2>8 DEF r
<1> QED
  BY <1>1, <1>2

LEMMA AppendOnce ==
    ASSUME NEW S, NEW s \in Seq(S), NEW x \in S
    PROVE  /\ Members(Append(s, x)) = Members(s) \union {x}
           /\ Once(s) /\ x \notin Members(s) => Once(Append(s, x))
<1> DEFINE r == Append(s, x)
<1>1. r \in Seq(S) /\ Len(r) = Len(s) + 1 /\ r[Len(s) + 1] = x
      /\ \A j \in 1..Len(s) : r[j] = s[j]
  BY AppendProperties
<1> HIDE DEF r
<1>2. Len(s) \in Nat /\ DOMAIN s = 1..Len(s) /\ DOMAIN r = 1..(Len(s) + 1)
  BY <1>1, LenProperties
<1>3. Members(r) = Members(s) \union {x}
  <2>1. ASSUME NEW y \in Members(r) PROVE y \in Members(s) \union {x}
    BY <1>1, <1>2, <2>1 DEF Members
  <2>2. x \in Members(r)
    <3>1. Len(s) + 1 \in DOMAIN r
      BY <1>2
    <3> QED
      BY <1>1, <3>1 DEF Members
  <2>3. ASSUME NEW y \in Members(s) PROVE y \in Members(r)
    BY <1>1, <1>2, <2>3 DEF Members
  <2> QED
    BY <2>1, <2>2, <2>3
<1>4. Once(s) /\ x \notin Members(s) => Once(r)
  <2> SUFFICES ASSUME Once(s), x \notin Members(s), NEW j \in DOMAIN r, NEW k \in DOMAIN r,
                      r[j] = r[k]
               PROVE  j = k
    BY DEF Once
  <2>1. CASE j \in DOMAIN s /\ k \in DOMAIN s
    BY <1>1, <1>2, <2>1 DEF Once
  <2>2. CASE j \in DOMAIN s /\ k = Len(s) + 1
    BY <1>1, <1>2, <2>2 DEF Members
  <2>3. CASE j = Len(s) + 1 /\ k \in DOMAIN s
    BY <1>1, <1>2, <2>3 DEF Members
  <2> QED
    BY <1>2, <2>1, <2>2, <2>3
<1> QED
  BY <1>3, <1>4 DEF r

\* What the operations of the policy do to the queues.
LEMMA QueueMembers ==
    ASSUME threads \in [Prios -> Seq(Thread)], \A p \in Prios : Once(threads[p]),
           NEW t \in Thread
    PROVE  /\ Remove(t) =>
                 \A p \in Prios : /\ Members(threads'[p]) = Members(threads[p]) \ {t}
                                  /\ Once(threads'[p])
           /\ AddLast(t) /\ ~Listed(t) =>
                 \A p \in Prios :
                    /\ p = prio[t] => Members(threads'[p]) = Members(threads[p]) \union {t}
                    /\ p # prio[t] => Members(threads'[p]) = Members(threads[p])
                    /\ Once(threads'[p])
           /\ \A q : ToBack(t, q) =>
                 \A p \in Prios :
                    /\ p = q => Members(threads'[p]) = Members(threads[p]) \union {t}
                    /\ p # q => Members(threads'[p]) = Members(threads[p]) \ {t}
                    /\ Once(threads'[p])
<1>1. ASSUME NEW p \in Prios
      PROVE  /\ Without(threads[p], t) \in Seq(Thread)
             /\ Members(Without(threads[p], t)) = Members(threads[p]) \ {t}
             /\ Once(Without(threads[p], t))
  BY WithoutType, WithoutOnce
<1>2. ASSUME Remove(t), NEW p \in Prios
      PROVE  Members(threads'[p]) = Members(threads[p]) \ {t} /\ Once(threads'[p])
  <2>1. threads'[p] = Without(threads[p], t)
    BY <1>2 DEF Remove
  <2> QED
    BY <1>1, <2>1
<1>3. ASSUME AddLast(t), ~Listed(t), NEW p \in Prios
      PROVE  /\ p = prio[t] => Members(threads'[p]) = Members(threads[p]) \union {t}
             /\ p # prio[t] => Members(threads'[p]) = Members(threads[p])
             /\ Once(threads'[p])
  <2>1. t \notin Members(threads[p])
    BY <1>3 DEF Listed
  <2>2. CASE p = prio[t]
    <3>1. threads'[p] = Append(threads[p], t)
      BY <1>3, <2>2 DEF AddLast
    <3> QED
      BY <2>1, <2>2, <3>1, AppendOnce
  <2>3. CASE p # prio[t]
    <3>1. threads'[p] = threads[p]
      BY <1>3, <2>3 DEF AddLast
    <3> QED
      BY <2>3, <3>1
  <2> QED
    BY <2>2, <2>3
<1>4. ASSUME NEW q, ToBack(t, q), NEW p \in Prios
      PROVE  /\ p = q => Members(threads'[p]) = Members(threads[p]) \union {t}
             /\ p # q => Members(threads'[p]) = Members(threads[p]) \ {t}
             /\ Once(threads'[p])
  <2> DEFINE w == Without(threads[p], t)
  <2>1. w \in Seq(Thread) /\ Members(w) = Members(threads[p]) \ {t} /\ Once(w)
    BY <1>1
  <2>2. CASE p = q
    <3>1. threads'[p] = Append(w, t)
      BY <1>4, <2>2 DEF ToBack
    <3> HIDE DEF w
    <3>2. Members(Append(w, t)) = Members(w) \union {t} /\ Once(Append(w, t))
      BY <2>1, AppendOnce
    <3> QED
      BY <2>1, <2>2, <3>1, <3>2
  <2>3. CASE p # q
    <3>1. threads'[p] = w
      BY <1>4, <2>3 DEF ToBack
    <3> QED
      BY <2>1, <2>3, <3>1
  <2> QED
    BY <2>2, <2>3
<1> QED
  BY <1>2, <1>3, <1>4

\* u is about to change the place of x in the queues.
By(u, x) ==
    /\ pc[u] = "list"
    /\ \/ op[u].what = "block" /\ u = x
       \/ op[u].what = "wakeup" /\ op[u].whom = x

\* What a thread has found out before it changes the queues.
ListOK ==
    \A t \in Everyone : pc[t] = "list" =>
        /\ op[t].what \in {"block", "wakeup", "yield"}
        /\ op[t].what = "block" => state[t] = "BLOCKED"
        /\ op[t].what = "wakeup" => state[op[t].whom] = "RUNNABLE"

\* QueuesExact without its claim that every such thread is listed.
ListedOnce ==
    /\ \A t \in Thread, p \in Prios :
        t \in Members(threads[p])
            => p = prio[t] /\ (state[t] # "BLOCKED" <=> ~Pending(t))
    /\ \A p \in Prios : Once(threads[p])

\* A thread on its way from code of its own into the library, as far as it
\* has not blocked, and on its way back if the library lets it go on.
Awake(t) ==
    \/ pc[t] = "run"
    \/ pc[t] = "back" /\ cpu = t
    \/ pc[t] \in Entering \union {"body"} /\ op[t].what # "schedule"
    \/ pc[t] = "list" /\ op[t].what # "block"
    \/ pc[t] \in Leaving /\ to[t] = None

AwakeOK == \A t \in Thread : Awake(t) => state[t] # "BLOCKED"

\* As long as its token is accepted, a switch leads to a thread that is not
\* blocked, or to one inside of the critical section.
ChosenOK ==
    \A t \in Everyone :
        <<t, "pick">> \in fresh /\ to[t] \in Thread => state[to[t]] # "BLOCKED"
HelpedOK ==
    \A t \in Everyone :
        <<t, "lock">> \in fresh /\ pc[t] \in {"mark", "help"} /\ cached[t].owner \in Thread
            => pc[cached[t].owner] \in Holding

PInv == KInv /\ ListOK /\ ListedOnce /\ AwakeOK /\ ChosenOK /\ HelpedOK

\* Only one thread is inside.
LEMMA Alone ==
    ASSUME KInv, NEW t \in Everyone, pc[t] \in Holding
    PROVE  \A u \in Everyone \ {t} : pc[u] \notin Holding
BY DEF KInv, IInv, OwnerInside

LEMMA PendingBy == \A x : Pending(x) <=> \E u \in Thread : By(u, x)
BY DEF Pending, By

LEMMA PendingByNext == \A x : Pending(x)' <=> \E u \in Thread : By(u, x)'
BY DEF Pending, By

LEMMA ByFrame ==
    ASSUME TypeOK, NEW t \in Everyone, Step(t)
    PROVE  \A u \in Everyone \ {t}, x \in Thread : By(u, x)' <=> By(u, x)
BY StepFrame DEF By

\* Inside, only the thread itself has a change to make.
LEMMA PendingInside ==
    ASSUME KInv, NEW t \in Everyone, pc[t] \in Holding, Step(t)
    PROVE  \A x \in Thread : /\ Pending(x) <=> t \in Thread /\ By(t, x)
                             /\ Pending(x)' <=> t \in Thread /\ By(t, x)'
<1>1. \A u \in Everyone \ {t}, x \in Thread : ~By(u, x)
  BY Alone DEF By, Holding
<1>2. \A u \in Everyone \ {t}, x \in Thread : ~By(u, x)'
  BY <1>1, ByFrame DEF KInv, IInv
<1> QED
  BY <1>1, <1>2, PendingBy, PendingByNext DEF Everyone

\* A step that leaves the data alone, and is not the change of the queues.
LEMMA QuietStep ==
    ASSUME PInv, NEW t \in Everyone, Step(t), UNCHANGED data, pc[t] # "list",
           pc'[t] = "list" => op'[t].what = "yield"
    PROVE  ListOK' /\ ListedOnce'
<1>1. TypeOK /\ state' = state /\ prio' = prio /\ threads' = threads
  BY DEF PInv, KInv, IInv, data
<1>2. \A u \in Everyone \ {t} : pc'[u] = pc[u] /\ op'[u] = op[u]
  BY <1>1, StepFrame
<1>3. ListOK'
  BY <1>1, <1>2 DEF PInv, ListOK
<1>4. \A x \in Thread : ~By(t, x) /\ ~By(t, x)'
  BY DEF By
<1>5. \A u \in Everyone \ {t}, x \in Thread : By(u, x)' <=> By(u, x)
  BY <1>1, ByFrame
<1>6. \A x \in Thread : Pending(x)' <=> Pending(x)
  BY <1>4, <1>5, PendingBy, PendingByNext DEF Everyone
<1>7. ListedOnce'
  BY <1>1, <1>6 DEF PInv, ListedOnce, Once
<1> QED
  BY <1>3, <1>7

\* The three steps that change a state or a queue inside of the section.
LEMMA BlockLists ==
    ASSUME PInv, NEW t \in Everyone, BlockState(t)
    PROVE  ListOK' /\ ListedOnce'
<1> USE DEF At, Goto
<1>1. TypeOK /\ KInv /\ CallOK /\ Step(t) /\ t \in Thread
  BY DEF PInv, KInv, IInv, CallOK, Step, BlockState
<1>2. /\ pc[t] = "body" /\ op[t].what = "block" /\ prio' = prio /\ threads' = threads /\ op' = op
      /\ \/ state' = [state EXCEPT ![t] = "RUNNABLE"] /\ state[t] = "WOKEN" /\ pc'[t] = "exit"
         \/ state' = [state EXCEPT ![t] = "BLOCKED"] /\ state[t] = "RUNNABLE" /\ pc'[t] = "list"
  BY <1>1 DEF BlockState, TypeOK
<1>3. \A u \in Everyone \ {t} : pc'[u] = pc[u] /\ pc[u] \notin Holding
  BY <1>1, <1>2, StepFrame, Alone DEF Holding
<1>4. \A x \in Thread : ~Pending(x) /\ (Pending(x)' <=> By(t, x)')
  BY <1>1, <1>2, PendingInside DEF By, Holding
<1>5. \A x \in Thread : By(t, x)' <=> pc'[t] = "list" /\ x = t
  BY <1>2 DEF By
<1>6. ListOK'
  <2>1. \A u \in Everyone : pc'[u] = "list" => u = t
    BY <1>3 DEF Holding
  <2>2. pc'[t] = "list" => state'[t] = "BLOCKED"
    BY <1>1, <1>2 DEF TypeOK
  <2> QED
    BY <1>2, <2>1, <2>2 DEF ListOK
<1>7. ASSUME NEW x \in Thread, NEW p \in Prios, x \in Members(threads'[p])
      PROVE  p = prio'[x] /\ (state'[x] # "BLOCKED" <=> ~Pending(x)')
  <2>1. p = prio[x] /\ state[x] # "BLOCKED"
    BY <1>2, <1>4, <1>7 DEF PInv, ListedOnce
  <2>2. CASE x # t
    BY <1>1, <1>2, <1>4, <1>5, <2>1, <2>2 DEF TypeOK
  <2>3. CASE x = t
    BY <1>1, <1>2, <1>4, <1>5, <2>1, <2>3 DEF TypeOK
  <2> QED
    BY <2>2, <2>3
<1>8. \A p \in Prios : Once(threads'[p])
  BY <1>2 DEF PInv, ListedOnce
<1>9. ListedOnce'
  BY <1>7, <1>8 DEF ListedOnce, Once
<1> QED
  BY <1>6, <1>9

LEMMA WakeupLists ==
    ASSUME PInv, NEW t \in Everyone, WakeupState(t)
    PROVE  ListOK' /\ ListedOnce'
<1> USE DEF At, Goto
<1> DEFINE w == op[t].whom
<1>1. TypeOK /\ KInv /\ Step(t) /\ t \in Thread /\ w \in Thread
  BY DEF PInv, KInv, IInv, CallOK, Step, WakeupState
<1>2. /\ pc[t] = "body" /\ op[t].what = "wakeup" /\ prio' = prio /\ threads' = threads /\ op' = op
      /\ \/ state' = [state EXCEPT ![w] = "WOKEN"] /\ state[w] = "RUNNABLE" /\ pc'[t] = "exit"
         \/ state' = [state EXCEPT ![w] = "RUNNABLE"] /\ state[w] = "BLOCKED" /\ pc'[t] = "list"
         \/ state' = state /\ pc' = pc
  BY <1>1 DEF WakeupState, TypeOK
<1> HIDE DEF w
<1>3. \A u \in Everyone \ {t} : pc'[u] = pc[u] /\ pc[u] \notin Holding
  BY <1>1, <1>2, StepFrame, Alone DEF Holding
<1>4. \A x \in Thread : ~Pending(x) /\ (Pending(x)' <=> By(t, x)')
  BY <1>1, <1>2, PendingInside DEF By, Holding
<1>5. \A x \in Thread : By(t, x)' <=> pc'[t] = "list" /\ x = w
  BY <1>2 DEF By, w
<1>6. ListOK'
  <2>1. \A u \in Everyone : pc'[u] = "list" => u = t
    BY <1>3 DEF Holding
  <2>2. pc'[t] = "list" => state'[w] = "RUNNABLE"
    BY <1>1, <1>2 DEF TypeOK
  <2> QED
    BY <1>2, <2>1, <2>2 DEF ListOK, w
<1>7. ASSUME NEW x \in Thread, NEW p \in Prios, x \in Members(threads'[p])
      PROVE  p = prio'[x] /\ (state'[x] # "BLOCKED" <=> ~Pending(x)')
  <2>1. p = prio[x] /\ state[x] # "BLOCKED"
    BY <1>2, <1>4, <1>7 DEF PInv, ListedOnce
  <2>2. CASE x # w
    BY <1>1, <1>2, <1>4, <1>5, <2>1, <2>2 DEF TypeOK
  <2>3. CASE x = w
    BY <1>1, <1>2, <1>4, <1>5, <2>1, <2>3 DEF TypeOK
  <2> QED
    BY <2>2, <2>3
<1>8. \A p \in Prios : Once(threads'[p])
  BY <1>2 DEF PInv, ListedOnce
<1>9. ListedOnce'
  BY <1>7, <1>8 DEF ListedOnce, Once
<1> QED
  BY <1>6, <1>9

LEMMA UpdateLists ==
    ASSUME PInv, NEW t \in Everyone, UpdateQueue(t)
    PROVE  ListOK' /\ ListedOnce'
<1> USE DEF At, Goto
<1> DEFINE w == op[t].whom
<1>1. TypeOK /\ KInv /\ Step(t) /\ pc[t] = "list"
  BY DEF PInv, KInv, IInv, Step, UpdateQueue
<1>2. t \in Thread /\ (op[t].what = "wakeup" => w \in Thread)
      /\ (op[t].what = "block" => state[t] = "BLOCKED")
      /\ (op[t].what = "wakeup" => state[w] = "RUNNABLE")
  BY <1>1 DEF PInv, KInv, IInv, CallOK, ListOK, UpdateQueue
<1>3. UNCHANGED <<state, prio, op>>
  BY DEF UpdateQueue
<1>4. \A u \in Everyone \ {t} : pc'[u] = pc[u] /\ pc[u] \notin Holding
  BY <1>1, StepFrame, Alone DEF Holding
<1>5. \A x \in Thread : (Pending(x) <=> By(t, x)) /\ (Pending(x)' <=> By(t, x)')
  BY <1>1, <1>2, PendingInside DEF Holding
<1>6. threads \in [Prios -> Seq(Thread)] /\ \A p \in Prios : Once(threads[p])
  BY <1>1 DEF PInv, ListedOnce, TypeOK
<1>7. ASSUME NEW x \in Thread, NEW p \in Prios, x \in Members(threads[p])
      PROVE  p = prio[x] /\ (state[x] # "BLOCKED" <=> ~Pending(x))
  BY <1>7 DEF PInv, ListedOnce
<1>8. CASE op[t].what = "block"
  <2>1. Remove(t) /\ pc'[t] = "pick"
    BY <1>1, <1>8 DEF UpdateQueue, TypeOK
  <2>2. \A p \in Prios : Members(threads'[p]) = Members(threads[p]) \ {t} /\ Once(threads'[p])
    BY <1>2, <1>6, <2>1, QueueMembers
  <2>3. \A x \in Thread : (Pending(x) <=> x = t) /\ ~Pending(x)'
    BY <1>1, <1>5, <1>8, <2>1 DEF By
  <2>4. ListOK'
    BY <1>4, <2>1 DEF ListOK, Holding
  <2>5. ListedOnce'
    BY <1>3, <1>7, <2>2, <2>3 DEF ListedOnce, Once
  <2> QED
    BY <2>4, <2>5
<1>9. CASE op[t].what = "yield"
  <2>1. ToBack(t, prio[t]) /\ pc'[t] = "pick"
    BY <1>1, <1>9 DEF UpdateQueue, TypeOK
  <2>2. \A p \in Prios :
          /\ p = prio[t] => Members(threads'[p]) = Members(threads[p]) \union {t}
          /\ p # prio[t] => Members(threads'[p]) = Members(threads[p]) \ {t}
          /\ Once(threads'[p])
    BY <1>2, <1>6, <2>1, QueueMembers
  <2>3. \A x \in Thread : ~Pending(x) /\ ~Pending(x)'
    BY <1>5, <1>9, <2>1 DEF By
  <2>4. state[t] # "BLOCKED"
    BY <1>1, <1>2, <1>9 DEF PInv, AwakeOK, Awake
  <2>5. ListOK'
    BY <1>4, <2>1 DEF ListOK, Holding
  <2>6. ListedOnce'
    BY <1>3, <1>7, <2>2, <2>3, <2>4 DEF ListedOnce, Once
  <2> QED
    BY <2>5, <2>6
<1>10. CASE op[t].what = "wakeup" /\ ~Listed(w)
  <2>1. AddLast(w) /\ pc'[t] = "pick"
    BY <1>1, <1>10 DEF UpdateQueue, TypeOK
  <2>2. \A p \in Prios :
          /\ p = prio[w] => Members(threads'[p]) = Members(threads[p]) \union {w}
          /\ p # prio[w] => Members(threads'[p]) = Members(threads[p])
          /\ Once(threads'[p])
    BY <1>2, <1>6, <1>10, <2>1, QueueMembers
  <2>3. \A x \in Thread : (Pending(x) <=> x = w) /\ ~Pending(x)'
    BY <1>1, <1>5, <1>10, <2>1 DEF By
  <2>4. ListOK'
    BY <1>4, <2>1 DEF ListOK, Holding
  <2> HIDE DEF w
  <2>5. \A p \in Prios : w \notin Members(threads[p])
    BY <1>10 DEF Listed
  <2>6. ListedOnce'
    BY <1>2, <1>3, <1>7, <1>10, <2>2, <2>3, <2>5 DEF ListedOnce, Once
  <2> QED
    BY <2>4, <2>6
<1>11. CASE op[t].what = "wakeup" /\ Listed(w)
  <2>1. UNCHANGED <<threads, pc>>
    BY <1>11 DEF UpdateQueue
  <2>2. ListOK' /\ \A x \in Thread : Pending(x)' <=> Pending(x)
    BY <1>3, <2>1 DEF PInv, ListOK, Pending
  <2> QED
    BY <1>3, <2>1, <2>2 DEF PInv, ListedOnce, Once
<1> QED
  BY <1>8, <1>9, <1>10, <1>11 DEF UpdateQueue

\* The start of a thread.
LEMMA BootLists ==
    ASSUME PInv, Boot \/ Timer
    PROVE  ListOK' /\ ListedOnce'
<1> USE DEF data, kernel, local, At, Goto
<1>1. TypeOK
  BY DEF PInv, KInv, IInv
<1>2. op' = op /\ \A u \in Everyone : pc'[u] = "list" <=> pc[u] = "list"
  BY <1>1 DEF Boot, Timer, StartLoop, Alloc, ParamSet, TypeOK
<1>3. \A x : Pending(x)' <=> Pending(x)
  BY <1>2, PendingBy, PendingByNext DEF By, Everyone
<1>4. CASE StartLoop \/ Timer
  <2>1. UNCHANGED data
    BY <1>4 DEF StartLoop, Timer
  <2> QED
    BY <1>2, <1>3, <2>1 DEF PInv, ListOK, ListedOnce, Once
<1>5. CASE \E t \in Thread : Alloc(t) \/ \E p \in Prios : ParamSet(t, p)
  <2>1. pc[Sched] = "init"
    BY <1>5 DEF Alloc, ParamSet
  <2>2. /\ \A u \in Everyone : pc[u] # "list"
        /\ \A x \in Thread : ~Pending(x) /\ state[x] # "BLOCKED"
    BY <2>1 DEF PInv, KInv, StartOK, Pending, Everyone
  <2>3. ListOK'
    BY <1>2, <2>2 DEF ListOK
  <2>4. ASSUME NEW t \in Thread, Alloc(t) PROVE ListedOnce'
    <3>1. prio' = prio /\ threads' = threads /\ \A x \in Thread : state'[x] # "BLOCKED"
      BY <1>1, <2>2, <2>4 DEF Alloc, TypeOK
    <3> QED
      BY <1>3, <2>2, <3>1 DEF PInv, ListedOnce, Once
  <2>5. ASSUME NEW t \in Thread, NEW q \in Prios, ParamSet(t, q) PROVE ListedOnce'
    <3>1. ToBack(t, q) /\ state' = state /\ prio'[t] = q
          /\ \A x \in Thread \ {t} : prio'[x] = prio[x]
      BY <1>1, <2>5 DEF ParamSet, TypeOK
    <3>2. threads \in [Prios -> Seq(Thread)] /\ \A p \in Prios : Once(threads[p])
      BY <1>1 DEF PInv, ListedOnce, TypeOK
    <3>3. \A p \in Prios :
            /\ p = q => Members(threads'[p]) = Members(threads[p]) \union {t}
            /\ p # q => Members(threads'[p]) = Members(threads[p]) \ {t}
            /\ Once(threads'[p])
      BY <3>1, <3>2, QueueMembers
    <3>4. \A x \in Thread, p \in Prios : x \in Members(threads[p]) => p = prio[x]
      BY DEF PInv, ListedOnce
    <3>5. \A x \in Thread, p \in Prios : x \in Members(threads'[p]) => p = prio'[x]
      BY <3>1, <3>3, <3>4
    <3> QED
      BY <1>3, <2>2, <3>1, <3>3, <3>5 DEF ListedOnce, Once
  <2> QED
    BY <1>5, <2>3, <2>4, <2>5
<1> QED
  BY <1>4, <1>5 DEF Boot

-----------------------------------------------------------------------------
(* No switch brings back a blocked thread.                                 *)

LEMMA FreshStep ==
    ASSUME KInv, NEW t \in Everyone, Step(t)
    PROVE  /\ fresh' \subseteq fresh \union Own(t)
           /\ <<t, "pick">> \in fresh' => Pick(t) \/ <<t, "pick">> \in fresh
           /\ <<t, "lock">> \in fresh' => TakeToken(t) \/ ReadToExit(t) \/ <<t, "lock">> \in fresh
<1> USE DEF kernel, At, Own
<1>1. \A T : Forget(T) => fresh' \subseteq fresh
  BY DEF Forget
<1>2. \A u, tok : Switch(u, tok) \/ Refused(tok) => fresh' \subseteq fresh
  BY <1>1 DEF Switch, Refused
<1>3. \A tok : Sync(tok) => fresh' = fresh \union {tok}
  BY DEF Sync
<1>4. <<t, "pick">> # <<t, "lock">>
  OBVIOUS
<1>5. CASE Returned(t) \/ ClientCall(t) \/ ReadLock(t) \/ MarkContention(t)
           \/ BlockState(t) \/ WakeupState(t) \/ UpdateQueue(t)
  BY <1>5 DEF Returned, ClientCall, ReadLock, MarkContention, BlockState, WakeupState, UpdateQueue
<1>6. CASE TakeLock(t) \/ Release(t)
  BY <1>1, <1>6 DEF TakeLock, Release
<1>7. CASE HelpOwner(t) \/ Defer(t) \/ SwitchMade(t) \/ SwitchRefused(t)
  <2>1. fresh' \subseteq fresh
    <3>1. CASE HelpOwner(t)
      BY <1>2, <3>1 DEF HelpOwner
    <3>2. CASE Defer(t)
      BY <1>2, <3>2 DEF Defer
    <3>3. CASE SwitchMade(t)
      BY <1>2, <3>3 DEF SwitchMade
    <3>4. CASE SwitchRefused(t)
      BY <1>2, <3>4 DEF SwitchRefused
    <3> QED
      BY <1>7, <3>1, <3>2, <3>3, <3>4
  <2> QED
    BY <2>1
<1>8. CASE TakeToken(t) \/ ReadToExit(t) \/ Pick(t)
  <2>1. CASE TakeToken(t) \/ ReadToExit(t)
    <3>1. Sync(<<t, "lock">>)
      BY <2>1 DEF TakeToken, ReadToExit
    <3>2. fresh' = fresh \union {<<t, "lock">>}
      BY <1>3, <3>1
    <3> QED
      BY <1>4, <2>1, <3>2
  <2>2. CASE Pick(t)
    <3>1. fresh' = fresh \union {<<t, "pick">>}
      BY <1>3, <2>2 DEF Pick
    <3> QED
      BY <1>4, <2>2, <3>1
  <2> QED
    BY <1>8, <2>1, <2>2
<1> QED
  BY <1>5, <1>6, <1>7, <1>8 DEF Step

\* A step keeps the others awake that are.
LEMMA AwakeStep ==
    ASSUME KInv, AwakeOK, NEW t \in Everyone, Step(t),
           \A u \in Thread \ {t} : state'[u] = "BLOCKED" => state[u] = "BLOCKED",
           \/ cpu' \in {cpu, Sched}
           \/ pc'[cpu'] = "back" => state'[cpu'] # "BLOCKED",
           t \in Thread /\ Awake(t)' => state'[t] # "BLOCKED"
    PROVE  AwakeOK'
<1> SUFFICES ASSUME NEW u \in Thread \ {t}, Awake(u)' PROVE state'[u] # "BLOCKED"
  BY DEF AwakeOK
<1>1. cpu = t /\ pc'[u] = pc[u] /\ op'[u] = op[u] /\ to'[u] = to[u]
  BY StepFrame, SlAssumption DEF KInv, IInv, Everyone
<1>2. u # Sched
  BY SlAssumption
<1>3. CASE Awake(u)
  BY <1>3 DEF AwakeOK
<1>4. CASE pc'[u] = "back" /\ cpu' = u
  BY <1>1, <1>2, <1>4
<1>5. Awake(u) \/ (pc'[u] = "back" /\ cpu' = u)
  BY <1>1 DEF Awake
<1> QED
  BY <1>3, <1>4, <1>5

\* The owner that a thread helps is inside as long as the token is accepted.
LEMMA HelpedStep ==
    ASSUME KInv, HelpedOK, NEW t \in Everyone, Step(t),
           <<t, "lock">> \in fresh' /\ pc'[t] \in {"mark", "help"} /\ cached'[t].owner \in Thread
              => pc'[cached'[t].owner] \in Holding
    PROVE  HelpedOK'
<1> SUFFICES ASSUME NEW u \in Everyone \ {t}, <<u, "lock">> \in fresh',
                    pc'[u] \in {"mark", "help"}, cached'[u].owner \in Thread
             PROVE  pc'[cached'[u].owner] \in Holding
  BY DEF HelpedOK
<1>1. cpu = t /\ pc'[u] = pc[u] /\ cached'[u] = cached[u]
  BY StepFrame DEF KInv, IInv
<1>2. <<u, "lock">> \in fresh
  <2>1. <<u, "lock">> \notin Own(t)
    BY DEF Own
  <2> QED
    BY <2>1, FreshStep
<1>3. pc[cached[u].owner] \in Holding
  BY <1>1, <1>2 DEF HelpedOK
<1>4. t \notin Thread
  BY <1>1, <1>2 DEF KInv, OrderOK, Own
<1>5. cached[u].owner \in Everyone \ {t}
  BY <1>1, <1>4 DEF Everyone
<1> QED
  BY <1>1, <1>3, <1>5, StepFrame DEF KInv, IInv

\* A change of the states uses no old choice.
LEMMA ChosenStep ==
    ASSUME KInv, ChosenOK, NEW t \in Everyone, Step(t),
           state' = state \/ (t \in Thread /\ pc[t] \in {"body", "list"}),
           <<t, "pick">> \in fresh' /\ to'[t] \in Thread => state'[to'[t]] # "BLOCKED"
    PROVE  ChosenOK'
<1> SUFFICES ASSUME NEW u \in Everyone \ {t}, <<u, "pick">> \in fresh', to'[u] \in Thread
             PROVE  state'[to'[u]] # "BLOCKED"
  BY DEF ChosenOK
<1>1. cpu = t /\ to'[u] = to[u]
  BY StepFrame DEF KInv, IInv
<1>2. <<u, "pick">> \in fresh
  <2>1. <<u, "pick">> \notin Own(t)
    BY DEF Own
  <2> QED
    BY <2>1, FreshStep
<1>3. t \notin Thread
  BY <1>1, <1>2 DEF KInv, OrderOK, Own
<1> QED
  BY <1>1, <1>2, <1>3 DEF ChosenOK

PNext == (ListOK /\ ListedOnce /\ AwakeOK /\ ChosenOK /\ HelpedOK)'

LEMMA PInit == Init => ListOK /\ ListedOnce /\ AwakeOK /\ ChosenOK /\ HelpedOK
<1> SUFFICES ASSUME Init PROVE ListOK /\ ListedOnce /\ AwakeOK /\ ChosenOK /\ HelpedOK
  OBVIOUS
<1>1. /\ \A t \in Thread : pc[t] = "back" /\ state[t] = "FREE" /\ cpu # t
      /\ \A t \in Everyone : pc[t] \in {"init", "back"} /\ to[t] = None
      /\ fresh = {} /\ \A p \in Prios : threads[p] = <<>>
  BY SlAssumption DEF Init, Everyone
<1>2. ListOK /\ AwakeOK /\ ChosenOK /\ HelpedOK
  BY <1>1 DEF ListOK, AwakeOK, Awake, Entering, Leaving, ChosenOK, HelpedOK, Everyone
<1>3. Members(<<>>) = {} /\ Once(<<>>)
  BY EmptySeq DEF Members, Once
<1>4. ListedOnce
  BY <1>1, <1>3 DEF ListedOnce
<1> QED
  BY <1>2, <1>4

LEMMA PStutter == PInv /\ UNCHANGED vars => PNext
BY DEF PInv, PNext, ListOK, ListedOnce, Pending, Once, AwakeOK, Awake, ChosenOK, HelpedOK,
       vars, data, kernel, local

LEMMA PBoot == PInv /\ (Boot \/ Timer) => PNext
<1> SUFFICES ASSUME PInv, Boot \/ Timer PROVE PNext
  OBVIOUS
<1> USE DEF data, kernel, local, At, Goto
<1>1. TypeOK
  BY DEF PInv, KInv, IInv
<1>2. /\ UNCHANGED <<op, to, cached, fresh>>
      /\ \A u \in Thread : pc'[u] = pc[u]
      /\ \A u \in Everyone : pc'[u] = pc[u] \/ pc'[u] = "sync"
  BY <1>1, SlAssumption DEF Boot, Timer, StartLoop, Alloc, ParamSet, TypeOK, Everyone
<1>3. \A u \in Thread : state'[u] = "BLOCKED" => state[u] = "BLOCKED"
  BY <1>1 DEF Boot, Timer, StartLoop, Alloc, ParamSet, TypeOK
<1>4. cpu' = cpu \/ cpu' = Sched
  BY DEF Boot, Timer, StartLoop, Alloc, ParamSet
<1>5. \A u \in Thread : u # Sched
  BY SlAssumption
<1>6. AwakeOK'
  BY <1>2, <1>3, <1>4, <1>5 DEF PInv, AwakeOK, Awake
<1>7. ChosenOK' /\ HelpedOK'
  BY <1>2, <1>3 DEF PInv, ChosenOK, HelpedOK
<1> QED
  BY <1>6, <1>7, BootLists DEF PNext

\* A step that leaves the data alone.
LEMMA PQuiet ==
    ASSUME PInv, NEW t \in Everyone, Step(t), UNCHANGED data, pc[t] # "list",
           pc'[t] = "list" => op'[t].what = "yield",
           \/ cpu' \in {cpu, Sched}
           \/ pc'[cpu'] = "back" => state[cpu'] # "BLOCKED",
           t \in Thread /\ Awake(t)' => state[t] # "BLOCKED",
           <<t, "pick">> \in fresh' /\ to'[t] \in Thread => state[to'[t]] # "BLOCKED",
           <<t, "lock">> \in fresh' /\ pc'[t] \in {"mark", "help"} /\ cached'[t].owner \in Thread
              => pc'[cached'[t].owner] \in Holding
    PROVE  PNext
<1>1. KInv /\ AwakeOK /\ ChosenOK /\ HelpedOK /\ state' = state
  BY DEF PInv, data
<1>2. ListOK' /\ ListedOnce'
  BY QuietStep
<1>3. AwakeOK'
  BY <1>1, AwakeStep
<1>4. ChosenOK'
  BY <1>1, ChosenStep
<1>5. HelpedOK'
  BY <1>1, HelpedStep
<1> QED
  BY <1>2, <1>3, <1>4, <1>5 DEF PNext

LEMMA PEnter ==
    ASSUME PInv, NEW t \in Everyone,
           \/ Returned(t) \/ ClientCall(t)
           \/ TakeToken(t) \/ ReadLock(t) \/ TakeLock(t) \/ MarkContention(t) \/ HelpOwner(t)
    PROVE  PNext
<1> USE DEF data, kernel, local, At, Goto
<1>1. TypeOK /\ KInv /\ OwnerInside /\ Step(t) /\ cpu = t
  BY DEF PInv, KInv, IInv, Step, Returned, ClientCall, TakeToken, ReadLock, TakeLock,
         MarkContention, HelpOwner
<1>2. UNCHANGED data /\ to' = to /\ pc[t] \in {"back", "run"} \union Entering
  BY DEF Returned, ClientCall, TakeToken, ReadLock, TakeLock, MarkContention, HelpOwner, Entering
<1>3. to[t] = None /\ None \notin Thread
  BY <1>1, <1>2, SlAssumption DEF KInv, TokenOK, Leaving, Entering, Everyone
<1>4. <<t, "pick">> \in fresh' /\ to'[t] \in Thread => state[to'[t]] # "BLOCKED"
  BY <1>2, <1>3
<1>5. ASSUME t \in Thread, Awake(t) PROVE state[t] # "BLOCKED"
  BY <1>5 DEF PInv, AwakeOK
<1>6. pc[t] # "list"
  BY <1>2 DEF Entering
<1>7. CASE Returned(t) \/ ClientCall(t)
  <2>1. cpu' = cpu /\ pc'[t] \in {"run", "sync"} /\ pc[t] \in {"back", "run"}
    BY <1>1, <1>7 DEF Returned, ClientCall, TypeOK
  <2>2. Awake(t)
    BY <1>1, <2>1 DEF Awake
  <2>3. t \in Thread /\ Awake(t)' => state[t] # "BLOCKED"
    BY <1>5, <2>2
  <2> QED
    BY <1>1, <1>2, <1>4, <1>6, <2>1, <2>3, PQuiet
<1>8. CASE TakeToken(t) \/ ReadLock(t) \/ MarkContention(t)
  <2>1. /\ cpu' = cpu /\ op' = op /\ pc[t] \in Entering /\ pc'[t] \in Entering
        /\ pc'[t] \in {"mark", "help"} => ReadLock(t) \/ (MarkContention(t) /\ pc[t] = "mark")
    BY <1>1, <1>8 DEF TakeToken, ReadLock, MarkContention, TypeOK, Entering
  <2>2. Awake(t)' => Awake(t)
    BY <2>1 DEF Awake, Entering, Leaving
  <2>3. t \in Thread /\ Awake(t)' => state[t] # "BLOCKED"
    BY <1>5, <2>2
  <2>4. ASSUME <<t, "lock">> \in fresh', pc'[t] \in {"mark", "help"}, cached'[t].owner \in Thread
        PROVE  pc'[cached'[t].owner] \in Holding
    <3>1. CASE ReadLock(t)
      <4>1. cached'[t] = lock /\ lock.owner # t
        BY <1>1, <2>4, <3>1 DEF ReadLock, TypeOK
      <4>2. lock.owner \in Everyone \ {t}
        BY <2>4, <4>1 DEF Everyone
      <4>3. pc[lock.owner] \in Holding
        BY <1>1, <4>2 DEF OwnerInside
      <4> QED
        BY <1>1, <4>1, <4>2, <4>3, StepFrame
    <3>2. CASE MarkContention(t) /\ pc[t] = "mark"
      <4>1. fresh' = fresh /\ cached' = cached
        BY <3>2 DEF MarkContention
      <4>2. pc[cached[t].owner] \in Holding
        BY <2>4, <3>2, <4>1 DEF PInv, HelpedOK
      <4>3. cached[t].owner \in Everyone \ {t}
        BY <2>4, <3>2, <4>1, <4>2 DEF Everyone, Holding
      <4> QED
        BY <1>1, <4>1, <4>2, <4>3, StepFrame
    <3> QED
      BY <2>1, <2>4, <3>1, <3>2
  <2> QED
    BY <1>1, <1>2, <1>4, <1>6, <2>1, <2>3, <2>4, PQuiet DEF Entering
<1>9. CASE TakeLock(t)
  <2>1. /\ cpu' = cpu /\ op' = op /\ pc[t] \in Entering
        /\ pc'[t] \in {"sync", "body", "list", "pick"}
        /\ pc'[t] = "list" => op[t].what = "yield"
        /\ pc'[t] = "body" => op[t].what \in {"block", "wakeup"}
    BY <1>1, <1>9 DEF TakeLock, TypeOK, Entering, Inside
  <2>2. Awake(t)' => Awake(t)
    BY <2>1 DEF Awake, Entering, Leaving
  <2>3. t \in Thread /\ Awake(t)' => state[t] # "BLOCKED"
    BY <1>5, <2>2
  <2> QED
    BY <1>1, <1>2, <1>4, <1>6, <2>1, <2>3, PQuiet
<1>10. CASE HelpOwner(t)
  <2>1. op' = op /\ pc[t] = "help" /\ pc'[t] = "sync" /\ <<t, "lock">> \notin fresh'
    BY <1>1, <1>10, SwitchOrder DEF HelpOwner, TypeOK, Refused
  <2>2. Awake(t)' => Awake(t)
    BY <2>1 DEF Awake, Entering, Leaving
  <2>3. t \in Thread /\ Awake(t)' => state[t] # "BLOCKED"
    BY <1>5, <2>2
  <2>4. cpu' \in {cpu, Sched} \/ (pc'[cpu'] = "back" => state[cpu'] # "BLOCKED")
    <3>1. CASE Refused(<<t, "lock">>)
      BY <3>1 DEF Refused
    <3>2. CASE Switch(cached[t].owner, <<t, "lock">>)
      <4>1. cpu' = cached[t].owner /\ <<t, "lock">> \in fresh
        BY <3>2 DEF Switch
      <4>2. cached[t].owner \in Everyone
        BY <2>1 DEF PInv, KInv, IInv, PlaceOK
      <4>3. CASE cached[t].owner \in Thread
        <5>1. pc[cached[t].owner] \in Holding
          BY <2>1, <4>1, <4>3 DEF PInv, HelpedOK
        <5>2. cached[t].owner # t
          BY <2>1, <5>1 DEF Holding
        <5>3. pc'[cached[t].owner] \in Holding
          BY <1>1, <4>2, <5>1, <5>2, StepFrame
        <5> QED
          BY <4>1, <5>3 DEF Holding
      <4> QED
        BY <4>1, <4>2, <4>3 DEF Everyone
    <3> QED
      BY <1>10, <3>1, <3>2 DEF HelpOwner
  <2> QED
    BY <1>1, <1>2, <1>4, <1>6, <2>1, <2>3, <2>4, PQuiet
<1> QED
  BY <1>7, <1>8, <1>9, <1>10

\* The three steps that change the data change no queue behind a choice.
LEMMA PData ==
    ASSUME PInv, NEW t \in Everyone, BlockState(t) \/ WakeupState(t) \/ UpdateQueue(t)
    PROVE  PNext
<1> USE DEF At, Goto
<1>1. TypeOK /\ KInv /\ AwakeOK /\ ChosenOK /\ HelpedOK /\ Step(t) /\ cpu = t
  BY DEF PInv, KInv, IInv, Step, BlockState, WakeupState, UpdateQueue
<1>2. t \in Thread /\ UNCHANGED <<kernel, op, to, cached>> /\ pc[t] \in {"body", "list"}
  BY DEF PInv, KInv, IInv, CallOK, BlockState, WakeupState, UpdateQueue
<1>3. to[t] = None /\ None \notin Thread
  BY <1>1, <1>2, SlAssumption DEF KInv, TokenOK, Leaving, Everyone
<1>4. <<t, "pick">> \in fresh' /\ to'[t] \in Thread => state'[to'[t]] # "BLOCKED"
  BY <1>2, <1>3
<1>5. ASSUME Awake(t) PROVE state[t] # "BLOCKED"
  BY <1>2, <1>5 DEF PInv, AwakeOK
<1>6. pc'[t] \in {"body", "list", "exit", "pick"}
  BY <1>1, <1>2 DEF BlockState, WakeupState, UpdateQueue, TypeOK
<1>7. /\ \A u \in Thread \ {t} : state'[u] = "BLOCKED" => state[u] = "BLOCKED"
      /\ Awake(t)' => state'[t] # "BLOCKED"
  <2>1. CASE BlockState(t)
    <3>1. op[t].what = "block"
      BY <2>1 DEF BlockState
    <3>2. \/ state' = [state EXCEPT ![t] = "RUNNABLE"]
          \/ state' = [state EXCEPT ![t] = "BLOCKED"] /\ pc'[t] = "list"
      BY <1>1, <2>1 DEF BlockState, TypeOK
    <3>3. pc'[t] = "list" => ~Awake(t)'
      BY <1>2, <3>1 DEF Awake, Entering, Leaving
    <3> QED
      BY <1>1, <1>2, <3>2, <3>3 DEF TypeOK
  <2>2. CASE WakeupState(t)
    <3>1. Awake(t)
      BY <2>2 DEF WakeupState, Awake
    <3>2. \A u \in Thread : state'[u] = "BLOCKED" => state[u] = "BLOCKED"
      BY <1>1, <2>2 DEF WakeupState, TypeOK
    <3> QED
      BY <1>2, <1>5, <3>1, <3>2
  <2>3. CASE UpdateQueue(t)
    <3>1. state' = state /\ (pc' = pc \/ pc'[t] = "pick")
      BY <1>1, <2>3 DEF UpdateQueue, TypeOK
    <3>2. Awake(t)' => Awake(t)
      BY <1>2, <3>1 DEF Awake, Entering, Leaving, kernel
    <3> QED
      BY <1>5, <3>1, <3>2
  <2> QED
    BY <2>1, <2>2, <2>3
<1>8. cpu' = cpu
  BY <1>2 DEF kernel
<1>9. ListOK' /\ ListedOnce'
  BY BlockLists, WakeupLists, UpdateLists
<1>10. AwakeOK'
  BY <1>1, <1>2, <1>7, <1>8, AwakeStep
<1>11. ChosenOK'
  BY <1>1, <1>2, <1>4, ChosenStep
<1>12. HelpedOK'
  BY <1>1, <1>6, HelpedStep
<1> QED
  BY <1>9, <1>10, <1>11, <1>12 DEF PNext

\* Inside, when no change of a queue is half done, who is listed may run.
LEMMA FirstAwake ==
    ASSUME PInv, NEW t \in Everyone, pc[t] = "pick", Best # {}
    PROVE  First \in Thread /\ state[First] # "BLOCKED"
<1> DEFINE q == CHOOSE p \in Best : TRUE
<1>1. KInv /\ threads \in [Prios -> Seq(Thread)]
  BY DEF PInv, KInv, IInv, TypeOK
<1>2. q \in Prios /\ threads[q] # <<>> /\ First = Head(threads[q])
  BY DEF Best, First
<1> HIDE DEF q
<1>3. First \in Thread /\ First \in Members(threads[q])
  <2>1. threads[q] \in Seq(Thread) /\ Len(threads[q]) \in Nat /\ Len(threads[q]) # 0
    BY <1>1, <1>2, EmptySeq, LenProperties
  <2>2. 1 \in DOMAIN threads[q] /\ First = threads[q][1]
    BY <1>2, <2>1, LenProperties, HeadTailProperties
  <2> QED
    BY <1>1, <1>2, <2>1, <2>2, ElementOfSeq DEF Members
<1>4. \A u \in Everyone : pc[u] # "list"
  BY <1>1, Alone DEF Holding
<1>5. ~Pending(First)
  BY <1>4 DEF Pending, Everyone
<1> QED
  BY <1>2, <1>3, <1>5 DEF PInv, ListedOnce

LEMMA PExit ==
    ASSUME PInv, NEW t \in Everyone,
           Pick(t) \/ ReadToExit(t) \/ Release(t) \/ Defer(t) \/ SwitchMade(t) \/ SwitchRefused(t)
    PROVE  PNext
<1> USE DEF data, kernel, local, At, Goto
<1>1. TypeOK /\ KInv /\ Step(t) /\ cpu = t /\ UNCHANGED data
  BY DEF PInv, KInv, IInv, Step, Pick, ReadToExit, Release, Defer, SwitchMade, SwitchRefused
<1>2. pc[t] \in {"pick", "switch"} \union Leaving
  BY DEF Pick, ReadToExit, Release, Defer, SwitchMade, SwitchRefused, Leaving
<1>3. pc[t] # "list" /\ pc'[t] \notin {"list", "mark", "help"}
  BY <1>1, <1>2 DEF Pick, ReadToExit, Release, Defer, SwitchMade, SwitchRefused, Leaving,
                    AfterExit, TypeOK
<1>4. ASSUME t \in Thread, Awake(t) PROVE state[t] # "BLOCKED"
  BY <1>4 DEF PInv, AwakeOK
<1>5. <<t, "pick">> \in fresh /\ to[t] \in Thread => state[to[t]] # "BLOCKED"
  BY DEF PInv, ChosenOK
<1>6. CASE Pick(t)
  <2>1. cpu' = cpu /\ pc[t] = "pick" /\ None \notin Thread
    BY <1>6, SlAssumption DEF Pick, Everyone
  <2>2. to[t] = None
    BY <1>1, <2>1 DEF KInv, TokenOK, Leaving
  <2>3. op[t].what = "yieldto" => op[t].whom \in Thread
    BY DEF PInv, KInv, IInv, CallOK
  <2>4. \/ to'[t] = None /\ pc'[t] = "pick"
        \/ to'[t] \in Thread /\ state[to'[t]] # "BLOCKED" /\ pc'[t] = "exit"
    <3>1. CASE op[t].what = "yieldto" /\ state[op[t].whom] = "RUNNABLE"
      BY <1>1, <1>6, <2>3, <3>1 DEF Pick, TypeOK
    <3>2. CASE ~(op[t].what = "yieldto" /\ state[op[t].whom] = "RUNNABLE") /\ Best = {}
      BY <1>1, <1>6, <2>1, <2>2, <3>2 DEF Pick, TypeOK
    <3>3. CASE ~(op[t].what = "yieldto" /\ state[op[t].whom] = "RUNNABLE") /\ Best # {}
      <4>1. to'[t] = First /\ pc'[t] = "exit"
        BY <1>1, <1>6, <3>3 DEF Pick, TypeOK
      <4> QED
        BY <2>1, <3>3, <4>1, FirstAwake
    <3> QED
      BY <3>1, <3>2, <3>3
  <2>5. ~Awake(t)'
    BY <2>1, <2>4 DEF Awake, Entering, Leaving
  <2>6. <<t, "pick">> \in fresh' /\ to'[t] \in Thread => state[to'[t]] # "BLOCKED"
    BY <2>1, <2>4
  <2> QED
    BY <1>1, <1>3, <2>1, <2>5, <2>6, PQuiet
<1>7. CASE ReadToExit(t) \/ Release(t) \/ Defer(t)
  <2>1. to' = to /\ op' = op /\ cpu' \in {cpu, Sched} /\ pc[t] \in Leaving
    BY <1>7 DEF ReadToExit, Release, Defer, Leaving, Switch, Refused
  <2>2. pc'[t] \in Leaving \union {"switch"} \/ (pc'[t] = "back" /\ to[t] = None)
    BY <1>1, <1>7 DEF ReadToExit, Release, Defer, Leaving, AfterExit, TypeOK
  <2>3. Awake(t)' => Awake(t)
    BY <2>1, <2>2 DEF Awake, Entering, Leaving
  <2>4. t \in Thread /\ Awake(t)' => state[t] # "BLOCKED"
    BY <1>4, <2>3
  <2>5. <<t, "pick">> \in fresh' => <<t, "pick">> \in fresh
    BY <1>1, <1>7, FreshStep DEF Pick, ReadToExit, Release, Defer
  <2>6. <<t, "pick">> \in fresh' /\ to'[t] \in Thread => state[to'[t]] # "BLOCKED"
    BY <1>5, <2>1, <2>5
  <2> QED
    BY <1>1, <1>3, <2>1, <2>4, <2>6, PQuiet
<1>8. CASE SwitchMade(t)
  <2>1. /\ pc[t] = "switch" /\ to'[t] = None /\ cpu' = to[t] /\ <<t, "pick">> \in fresh
        /\ op'[t].what = "schedule"
        /\ t # Sched => pc'[t] = "back"
    BY <1>1, <1>8 DEF SwitchMade, Switch, TypeOK, Nothing, Call
  <2>2. to[t] \in Thread
    BY <2>1 DEF PInv, KInv, IInv, PlaceOK
  <2>3. state[cpu'] # "BLOCKED"
    BY <1>5, <2>1, <2>2
  <2>4. ASSUME t \in Thread, Awake(t)' PROVE state[t] # "BLOCKED"
    <3>1. t # Sched
      BY <2>4, SlAssumption
    <3>2. cpu' = t
      BY <2>1, <2>4, <3>1 DEF Awake, Entering, Leaving
    <3> QED
      BY <2>3, <3>2
  <2>5. to'[t] \notin Thread
    BY <2>1, SlAssumption DEF Everyone
  <2> QED
    BY <1>1, <1>3, <2>3, <2>4, <2>5, PQuiet
<1>9. CASE SwitchRefused(t)
  <2>1. cpu' = cpu /\ to'[t] = None /\ pc'[t] = "sync" /\ op'[t].what = "schedule"
    BY <1>1, <1>9 DEF SwitchRefused, Refused, TypeOK, Nothing, Call
  <2>2. ~Awake(t)'
    BY <2>1 DEF Awake, Entering, Leaving
  <2>3. to'[t] \notin Thread
    BY <2>1, SlAssumption DEF Everyone
  <2> QED
    BY <1>1, <1>3, <2>1, <2>2, <2>3, PQuiet
<1> QED
  BY <1>6, <1>7, <1>8, <1>9

\* A step keeps KInv.
LEMMA KNext == KInv /\ [Next]_vars => KInv'
<1> SUFFICES ASSUME KInv, [Next]_vars PROVE KInv'
  OBVIOUS
<1>1. CASE Boot \/ Timer
  BY <1>1, BootOK, KBoot DEF KInv
<1>2. ASSUME NEW t \in Everyone, Step(t) PROVE KInv'
  <2>1. IInv'
    BY <1>2, ClientOK, EnterOK, BodyOK, ExitOK DEF Step, KInv
  <2> QED
    BY <1>2, <2>1, KEnter, KBody, KStart DEF Step, KInv
<1>3. CASE UNCHANGED vars
  BY <1>3, StutterOK, KStutter DEF KInv
<1> QED
  BY <1>1, <1>2, <1>3 DEF Next

LEMMA PStep == PInv /\ [Next]_vars => PInv'
<1> SUFFICES ASSUME PInv, [Next]_vars PROVE PNext
  BY KNext DEF PInv, PNext
<1>1. CASE Boot \/ Timer
  BY <1>1, PBoot
<1>2. ASSUME NEW t \in Everyone, Step(t) PROVE PNext
  BY <1>2, PEnter, PData, PExit DEF Step
<1>3. CASE UNCHANGED vars
  BY <1>3, PStutter
<1> QED
  BY <1>1, <1>2, <1>3 DEF Next

LEMMA PInvariance == Spec => []PInv
<1>1. Init => PInv
  BY InitOK, KInit, PInit DEF PInv, KInv
<1> QED
  BY <1>1, PStep, PTL DEF Spec

-----------------------------------------------------------------------------
(* block and wakeup implement Parking.                                     *)

Parked == {t \in Thread : state[t] = "BLOCKED"}
Permit == {t \in Thread : state[t] = "WOKEN"}
Active == IF cpu # Sched /\ pc[cpu] = "run" THEN cpu ELSE None

ParkVars == <<Parked, Permit, Active>>
ParkNext == Park!Next \/ UNCHANGED ParkVars

\* Code of the client is left, or the processor comes to it.
LEMMA LeaveEnter ==
    ASSUME PInv', NEW t \in Everyone, Active \in {None, t}, cpu' \in Everyone,
           UNCHANGED <<Parked, Permit>>, Active = None \/ Active' = None
    PROVE  ParkNext
<1> USE DEF Parked, Permit, Active
<1>1. CASE Active' = Active
  BY <1>1 DEF ParkNext, ParkVars
<1>2. CASE Active # None /\ Active' = None
  <2>1. Park!Leave
    BY <1>2 DEF Park!Leave
  <2> QED
    BY <2>1 DEF ParkNext, Park!Next
<1>3. CASE Active = None /\ Active' # None
  <2>1. cpu' \in Thread /\ pc'[cpu'] = "run" /\ Active' = cpu'
    BY <1>3 DEF Everyone
  <2>2. state'[cpu'] # "BLOCKED"
    BY <2>1 DEF PInv, AwakeOK, Awake
  <2>3. cpu' \notin Parked
    BY <2>1, <2>2
  <2>4. Park!Enter(cpu')
    BY <1>3, <2>1, <2>3 DEF Park!Enter
  <2> QED
    BY <2>1, <2>4 DEF ParkNext, Park!Next
<1> QED
  BY <1>1, <1>2, <1>3

LEMMA BlockIsPark ==
    ASSUME PInv, NEW t \in Everyone, BlockState(t)
    PROVE  ParkNext
<1> USE DEF At, Goto
<1>1. TypeOK /\ t \in Thread /\ cpu = t /\ cpu' = t /\ None # t
  BY SlAssumption DEF PInv, KInv, IInv, CallOK, BlockState, kernel, Everyone
<1>2. pc[t] = "body" /\ pc'[t] # "run"
  BY <1>1 DEF BlockState, TypeOK
<1>3. Active = None /\ Active' = None
  BY <1>1, <1>2 DEF Active
<1>4. CASE state[t] = "WOKEN" /\ state' = [state EXCEPT ![t] = "RUNNABLE"]
  <2>1. t \notin Parked /\ t \in Permit /\ Permit' = Permit \ {t} /\ Parked' = Parked
    BY <1>1, <1>4 DEF Parked, Permit, TypeOK
  <2>2. Park!Park(t)
    BY <1>3, <2>1 DEF Park!Park, Parked, Permit, Active
  <2> QED
    BY <1>1, <2>2 DEF ParkNext, Park!Next
<1>5. CASE state[t] = "RUNNABLE" /\ state' = [state EXCEPT ![t] = "BLOCKED"]
  <2>1. t \notin Parked /\ t \notin Permit /\ Parked' = Parked \union {t} /\ Permit' = Permit
    BY <1>1, <1>5 DEF Parked, Permit, TypeOK
  <2>2. Park!Park(t)
    BY <1>3, <2>1 DEF Park!Park, Parked, Permit, Active
  <2> QED
    BY <1>1, <2>2 DEF ParkNext, Park!Next
<1> QED
  BY <1>4, <1>5 DEF BlockState

LEMMA WakeupIsUnpark ==
    ASSUME PInv, NEW t \in Everyone, WakeupState(t)
    PROVE  ParkNext
<1> USE DEF At, Goto
<1>1. TypeOK /\ t \in Thread /\ op[t].whom \in Thread /\ cpu = t /\ cpu' = t /\ None # t
  BY SlAssumption DEF PInv, KInv, IInv, CallOK, WakeupState, kernel, Everyone
<1> PICK u \in Thread : u = op[t].whom
  BY <1>1
<1>2. pc[t] = "body" /\ pc'[t] # "run"
  BY <1>1 DEF WakeupState, TypeOK
<1>3. Active = None /\ Active' = None
  BY <1>1, <1>2 DEF Active
<1>4. \/ state[u] = "RUNNABLE" /\ state' = [state EXCEPT ![u] = "WOKEN"]
      \/ state[u] = "BLOCKED" /\ state' = [state EXCEPT ![u] = "RUNNABLE"]
      \/ state' = state
  BY DEF WakeupState
<1>5. CASE state[u] = "RUNNABLE" /\ state' = [state EXCEPT ![u] = "WOKEN"]
  <2>1. state'[u] = "WOKEN" /\ \A x \in Thread \ {u} : state'[x] = state[x]
    BY <1>1, <1>5 DEF TypeOK
  <2>2. u \notin Parked /\ u \notin Permit /\ Permit' = Permit \union {u}
    BY <1>5, <2>1 DEF Parked, Permit
  <2>3. Parked' = Parked
    BY <1>5, <2>1 DEF Parked
  <2>4. Park!Unpark(u)
    BY ONLY <1>3, <2>2, <2>3 DEF Park!Unpark, Parked, Permit, Active
  <2> QED
    BY <1>1, <2>4 DEF ParkNext, Park!Next
<1>6. CASE state[u] = "BLOCKED" /\ state' = [state EXCEPT ![u] = "RUNNABLE"]
  <2>1. u \in Parked /\ u \notin Permit /\ Parked' = Parked \ {u} /\ Permit' = Permit
    BY <1>1, <1>6 DEF Parked, Permit, TypeOK
  <2>2. Park!Unpark(u)
    BY ONLY <1>3, <2>1 DEF Park!Unpark, Parked, Permit, Active
  <2> QED
    BY <1>1, <2>2 DEF ParkNext, Park!Next
<1>7. CASE state' = state
  BY <1>3, <1>7 DEF ParkNext, ParkVars, Parked, Permit
<1> QED
  BY <1>4, <1>5, <1>6, <1>7

\* All the other steps.
LEMMA OthersAreParking ==
    ASSUME PInv, PInv', NEW t \in Everyone, Step(t), UNCHANGED state
    PROVE  ParkNext
<1> USE DEF At, Goto
<1>1. TypeOK /\ TypeOK' /\ cpu = t /\ UNCHANGED <<Parked, Permit>>
  BY StepFrame DEF PInv, KInv, IInv, Parked, Permit
<1>2. cpu' \in Everyone
  BY <1>1 DEF TypeOK
<1>3. Active \in {None, t}
  BY <1>1 DEF Active
<1>4. CASE pc[t] = "run"
  <2>1. ClientCall(t) /\ t \in Thread
    BY <1>4 DEF Step, Returned, ClientCall, TakeToken, ReadLock, TakeLock, MarkContention,
          HelpOwner, BlockState, WakeupState, UpdateQueue, Pick, ReadToExit, Release, Defer,
          SwitchMade, SwitchRefused
  <2>2. cpu' = t /\ pc'[t] = "sync"
    BY <1>1, <2>1 DEF ClientCall, TypeOK
  <2>3. Active' = None
    BY <2>2 DEF Active
  <2> QED
    BY <1>1, <1>2, <1>3, <2>3, LeaveEnter
<1>5. CASE pc[t] # "run"
  <2>1. Active = None
    BY <1>1, <1>5 DEF Active
  <2> QED
    BY <1>1, <1>2, <1>3, <2>1, LeaveEnter
<1> QED
  BY <1>4, <1>5

LEMMA BootIsParking ==
    ASSUME PInv, PInv', Boot \/ Timer
    PROVE  ParkNext
<1> USE DEF At, Goto
<1>1. TypeOK /\ TypeOK' /\ cpu \in Everyone /\ cpu' = Sched /\ Active' = None
  BY DEF Active, PInv, KInv, IInv, TypeOK, kernel, Boot, StartLoop, Alloc, ParamSet, Timer
<1>2. \A x \in Thread : state'[x] = state[x] \/ (state[x] = "FREE" /\ state'[x] = "RUNNABLE")
  BY <1>1 DEF Boot, StartLoop, Alloc, ParamSet, Timer, data, TypeOK
<1>3. UNCHANGED <<Parked, Permit>>
  BY <1>2 DEF Parked, Permit
<1> PICK t \in Everyone : t = cpu
  BY <1>1
<1>4. Active \in {None, t} /\ cpu' \in Everyone
  BY <1>1 DEF Active, Everyone
<1> QED
  BY <1>1, <1>3, <1>4, LeaveEnter

LEMMA ParkStep ==
    ASSUME PInv, PInv', [Next]_vars
    PROVE  ParkNext
<1>1. CASE Boot \/ Timer
  BY <1>1, BootIsParking
<1>2. ASSUME NEW t \in Everyone, Step(t) PROVE ParkNext
  <2>1. CASE BlockState(t) \/ WakeupState(t)
    BY <2>1, BlockIsPark, WakeupIsUnpark
  <2>2. CASE ~(BlockState(t) \/ WakeupState(t))
    <3>1. UNCHANGED state
      BY <1>2, <2>2 DEF Step, Returned, ClientCall, TakeToken, ReadLock, TakeLock,
         MarkContention, HelpOwner, UpdateQueue, Pick, ReadToExit, Release, Defer,
         SwitchMade, SwitchRefused, data
    <3> QED
      BY <1>2, <3>1, OthersAreParking
  <2> QED
    BY <2>1, <2>2
<1>3. CASE UNCHANGED vars
  BY <1>3 DEF ParkNext, ParkVars, Parked, Permit, Active, vars, data, kernel, local
<1> QED
  BY <1>1, <1>2, <1>3 DEF Next

\* What sl_thd_block and sl_thd_wakeup (sl.c:51-101) promise, for any number
\* of threads and any client: a wake-up is neither lost nor counted twice,
\* and no switch, however old the decision behind it, brings a blocked thread
\* back to its own code.
THEOREM SlRefinesParking == Spec => ParkingSpec
<1>1. Init => Park!Init
  BY SlAssumption DEF Init, Park!Init
<1>2. PInv /\ PInv' /\ [Next]_vars => ParkNext
  BY ParkStep
<1>3. ParkNext => [Park!Next]_ParkVars
  BY DEF ParkNext
<1> QED
  BY <1>1, <1>2, <1>3, PInvariance, PTL
     DEF Spec, ParkingSpec, Park!Spec, ParkVars, Parked, Permit, Active

-----------------------------------------------------------------------------
(* Taking turns.  Without directed yields, the thread that is on its way   *)
(* between its own code and the queues is the first of the best queue, and *)
(* stays it until it changes the queues itself.                            *)

InTurn(t) == Awake(t) \/ pc[t] = "list"

TurnOK ==
    /\ \A t \in Thread : InTurn(t) => First = t
    /\ \A t \in Everyone : <<t, "pick">> \in fresh /\ to[t] \in Thread => First = to[t]
    /\ \A t \in Everyone : op[t].what # "yieldto"

\* A thread comes into its turn only by a switch.
LEMMA TurnBack ==
    ASSUME PInv, NEW t \in Everyone, Step(t), ~SwitchMade(t)
    PROVE  InTurn(t)' => InTurn(t)
<1> USE DEF At, Goto
<1>1. TypeOK /\ KInv /\ cpu = t
  BY StepFrame DEF PInv, KInv, IInv
<1>2. CASE Returned(t) \/ ClientCall(t)
  BY <1>1, <1>2 DEF Returned, ClientCall, InTurn, Awake
<1>3. CASE TakeToken(t) \/ ReadLock(t) \/ MarkContention(t) \/ HelpOwner(t)
  <2>1. pc[t] \in Entering /\ pc'[t] \in Entering /\ op' = op
    BY <1>1, <1>3 DEF TakeToken, ReadLock, MarkContention, HelpOwner, Entering, TypeOK
  <2> QED
    BY <2>1 DEF InTurn, Awake, Entering, Leaving
<1>4. CASE TakeLock(t)
  <2>1. /\ op' = op /\ pc[t] \in Entering
        /\ pc'[t] \in {"sync", "body", "list", "pick"}
        /\ pc'[t] = "list" => op[t].what = "yield"
    BY <1>1, <1>4 DEF TakeLock, TypeOK, Entering, Inside
  <2> QED
    BY <2>1 DEF InTurn, Awake, Entering, Leaving
<1>5. CASE BlockState(t) \/ WakeupState(t)
  BY <1>5 DEF BlockState, WakeupState, InTurn, Awake
<1>6. CASE UpdateQueue(t)
  BY <1>6 DEF UpdateQueue, InTurn
<1>7. CASE Pick(t)
  <2>1. pc[t] = "pick" /\ to[t] = None /\ None \notin Thread
    BY <1>1, <1>7, SlAssumption DEF Pick, KInv, TokenOK, Leaving, Everyone
  <2>2. op[t].what = "yieldto" => op[t].whom \in Thread
    BY DEF PInv, KInv, IInv, CallOK
  <2>3. Best # {} => First \in Thread
    BY <1>1, FirstType DEF TypeOK
  <2>4. pc'[t] = "pick" \/ (pc'[t] = "exit" /\ to'[t] # None)
    BY <1>1, <1>7, <2>1, <2>2, <2>3 DEF Pick, TypeOK
  <2> QED
    BY <2>4 DEF InTurn, Awake, Entering, Leaving
<1>8. CASE ReadToExit(t) \/ Release(t) \/ Defer(t)
  <2>1. to' = to /\ op' = op /\ pc[t] \in Leaving
        /\ \/ pc'[t] \in Leaving \union {"switch"}
           \/ pc'[t] = "back" /\ to[t] = None
    BY <1>1, <1>8 DEF ReadToExit, Release, Defer, Leaving, AfterExit, TypeOK
  <2> QED
    BY <2>1 DEF InTurn, Awake, Entering, Leaving
<1>9. CASE SwitchRefused(t)
  <2>1. pc'[t] = "sync" /\ op'[t].what = "schedule"
    BY <1>1, <1>9 DEF SwitchRefused, Refused, TypeOK, Nothing, Call
  <2> QED
    BY <2>1 DEF InTurn, Awake, Entering, Leaving
<1> QED
  BY <1>2, <1>3, <1>4, <1>5, <1>6, <1>7, <1>8, <1>9 DEF Step

\* A step that leaves the queues alone.
LEMMA TurnQuiet ==
    ASSUME PInv, TurnOK, NEW t \in Everyone, Step(t), threads' = threads,
           \/ cpu' \in {cpu, Sched}
           \/ pc'[cpu'] = "back" => First = cpu',
           t \in Thread /\ InTurn(t)' => First = t,
           <<t, "pick">> \in fresh' /\ to'[t] \in Thread => First = to'[t],
           op'[t].what # "yieldto"
    PROVE  TurnOK'
<1>1. TypeOK /\ KInv /\ First' = First
  BY DEF PInv, KInv, IInv, First, Best
<1>2. cpu = t /\ \A u \in Everyone \ {t} : pc'[u] = pc[u] /\ op'[u] = op[u] /\ to'[u] = to[u]
  BY <1>1, StepFrame
<1>3. ASSUME NEW u \in Thread \ {t}, InTurn(u)' PROVE First = u
  <2>1. u \in Everyone \ {t} /\ u # Sched
    BY SlAssumption DEF Everyone
  <2>2. InTurn(u) \/ (pc'[u] = "back" /\ cpu' = u)
    BY <1>2, <1>3, <2>1 DEF InTurn, Awake
  <2> QED
    BY <1>2, <2>1, <2>2 DEF TurnOK
<1>4. ASSUME NEW u \in Everyone \ {t}, <<u, "pick">> \in fresh', to'[u] \in Thread
      PROVE  First = to'[u]
  <2>1. <<u, "pick">> \notin Own(t)
    BY DEF Own
  <2>2. <<u, "pick">> \in fresh
    BY <1>1, <1>4, <2>1, FreshStep
  <2> QED
    BY <1>2, <1>4, <2>2 DEF TurnOK
<1>5. \A u \in Everyone : op'[u].what # "yieldto"
  BY <1>2 DEF TurnOK
<1>6. \A u \in Thread : InTurn(u)' => First' = u
  BY <1>1, <1>3
<1>7. \A u \in Everyone : <<u, "pick">> \in fresh' /\ to'[u] \in Thread => First' = to'[u]
  BY <1>1, <1>4
<1> QED
  BY <1>5, <1>6, <1>7 DEF TurnOK

\* A thread changes the queues in its turn, and nobody is in turn after that.
LEMMA TurnUpdate ==
    ASSUME PInv, TurnOK, NEW t \in Everyone, UpdateQueue(t)
    PROVE  TurnOK'
<1> USE DEF At, Goto
<1>1. TypeOK /\ KInv /\ Step(t) /\ cpu = t /\ pc[t] = "list" /\ t \in Thread
      /\ UNCHANGED <<kernel, op, to>>
  BY DEF PInv, KInv, IInv, CallOK, Step, UpdateQueue
<1>2. \A u \in Everyone \ {t} : pc'[u] = pc[u]
  BY <1>1, StepFrame
<1>3. \A u \in Everyone : <<u, "pick">> \in fresh' => u = t
  <2>1. fresh \subseteq Own(t) /\ fresh' = fresh
    BY <1>1 DEF KInv, OrderOK, kernel
  <2> QED
    BY <2>1 DEF Own
<1>4. to'[t] = None /\ None \notin Thread
  BY <1>1, SlAssumption DEF KInv, TokenOK, Leaving, Everyone
<1>5. \A u \in Thread \ {t} : ~InTurn(u)
  <2>1. First = t
    BY <1>1 DEF TurnOK, InTurn
  <2> QED
    BY <2>1 DEF TurnOK
<1>6. \A u \in Thread \ {t} : ~InTurn(u)'
  BY <1>1, <1>2, <1>5 DEF InTurn, Awake, kernel, Everyone
<1>7. CASE pc'[t] = "pick"
  <2>1. ~InTurn(t)'
    BY <1>7 DEF InTurn, Awake, Entering, Leaving
  <2>2. /\ \A u \in Thread : ~InTurn(u)'
        /\ \A u \in Everyone : ~(<<u, "pick">> \in fresh' /\ to'[u] \in Thread)
    BY <1>3, <1>4, <1>6, <2>1
  <2> QED
    BY <1>1, <2>2 DEF TurnOK
<1>8. CASE UNCHANGED <<threads, pc>>
  BY <1>1, <1>8 DEF TurnOK, InTurn, Awake, First, Best, kernel
<1> QED
  BY <1>1, <1>7, <1>8 DEF UpdateQueue, TypeOK

LEMMA TurnStep ==
    ASSUME ~Directed, PInv, TurnOK, NEW t \in Everyone, Step(t)
    PROVE  TurnOK'
<1> USE DEF At, Goto
<1>1. TypeOK /\ KInv /\ cpu = t
  BY StepFrame DEF PInv, KInv, IInv
<1>2. op[t].what # "yieldto"
  BY DEF TurnOK
<1>3. t \in Thread /\ InTurn(t) => First = t
  BY DEF TurnOK
<1>4. CASE UpdateQueue(t)
  BY <1>4, TurnUpdate
<1>5. CASE Pick(t)
  <2>1. cpu' = cpu /\ threads' = threads /\ op' = op /\ pc[t] = "pick"
    BY <1>5 DEF Pick, data
  <2>2. to[t] = None /\ None \notin Thread
    BY <1>1, <2>1, SlAssumption DEF KInv, TokenOK, Leaving, Everyone
  <2>3. to'[t] \in Thread => First = to'[t]
    BY <1>1, <1>2, <1>5, <2>2 DEF Pick, TypeOK
  <2>4. InTurn(t)' => InTurn(t)
    <3>1. ~SwitchMade(t)
      BY <2>1 DEF SwitchMade
    <3> QED
      BY <3>1, TurnBack
  <2> QED
    BY <1>2, <1>3, <2>1, <2>3, <2>4, TurnQuiet
<1>6. CASE SwitchMade(t)
  <2>1. /\ pc[t] = "switch" /\ to'[t] = None /\ cpu' = to[t] /\ <<t, "pick">> \in fresh
        /\ op'[t].what = "schedule" /\ threads' = threads
        /\ t # Sched => pc'[t] = "back"
    BY <1>1, <1>6 DEF SwitchMade, Switch, TypeOK, Nothing, Call, data
  <2>2. to[t] \in Thread
    BY <2>1 DEF PInv, KInv, IInv, PlaceOK
  <2>3. First = cpu'
    BY <2>1, <2>2 DEF TurnOK
  <2>4. ASSUME t \in Thread, InTurn(t)' PROVE First = t
    <3>1. t # Sched
      BY <2>4, SlAssumption
    <3>2. cpu' = t
      BY <2>1, <2>4, <3>1 DEF InTurn, Awake, Entering, Leaving
    <3> QED
      BY <2>3, <3>2
  <2>5. to'[t] \notin Thread
    BY <2>1, SlAssumption DEF Everyone
  <2> QED
    BY <2>1, <2>3, <2>4, <2>5, TurnQuiet
<1>7. CASE HelpOwner(t)
  <2>1. /\ threads' = threads /\ op' = op /\ to' = to /\ pc[t] = "help"
        /\ <<t, "pick">> \in fresh' => <<t, "pick">> \in fresh
    BY <1>1, <1>7, FreshStep DEF HelpOwner, data, Pick
  <2>2. InTurn(t)' => InTurn(t)
    <3>1. ~SwitchMade(t)
      BY <2>1 DEF SwitchMade
    <3> QED
      BY <3>1, TurnBack
  <2>3. cpu' \in {cpu, Sched} \/ pc'[cpu'] # "back"
    <3>1. CASE Refused(<<t, "lock">>)
      BY <3>1 DEF Refused, kernel
    <3>2. CASE Switch(cached[t].owner, <<t, "lock">>)
      <4>1. cpu' = cached[t].owner /\ <<t, "lock">> \in fresh
        BY <3>2 DEF Switch
      <4>2. cached[t].owner \in Everyone
        BY <2>1 DEF PInv, KInv, IInv, PlaceOK
      <4>3. CASE cached[t].owner \in Thread
        <5>1. pc[cached[t].owner] \in Holding
          BY <2>1, <4>1, <4>3 DEF PInv, HelpedOK
        <5>2. cached[t].owner # t
          BY <2>1, <5>1 DEF Holding
        <5>3. pc'[cached[t].owner] \in Holding
          BY <1>1, <4>2, <5>1, <5>2, StepFrame
        <5> QED
          BY <4>1, <5>3 DEF Holding
      <4> QED
        BY <4>1, <4>2, <4>3 DEF Everyone
    <3> QED
      BY <1>7, <3>1, <3>2 DEF HelpOwner
  <2>4. <<t, "pick">> \in fresh' /\ to'[t] \in Thread => First = to'[t]
    BY <2>1 DEF TurnOK
  <2> QED
    BY <1>2, <1>3, <2>1, <2>2, <2>3, <2>4, TurnQuiet
<1>8. CASE ~(UpdateQueue(t) \/ Pick(t) \/ SwitchMade(t) \/ HelpOwner(t))
  <2>1. threads' = threads
    BY <1>8 DEF Step, Returned, ClientCall, TakeToken, ReadLock, TakeLock,
         MarkContention, BlockState, WakeupState, ReadToExit, Release, Defer,
         SwitchRefused, data
  <2>2. cpu' \in {cpu, Sched}
    BY <1>8 DEF Step, Returned, ClientCall, TakeToken, ReadLock, TakeLock,
         MarkContention, BlockState, WakeupState, ReadToExit, Release, Defer,
         SwitchRefused, kernel, Switch, Refused
  <2>3. to'[t] \in {to[t], None}
    BY <1>1, <1>8 DEF Step, Returned, ClientCall, TakeToken, ReadLock, TakeLock,
         MarkContention, BlockState, WakeupState, ReadToExit, Release, Defer,
         SwitchRefused, local, TypeOK
  <2>4. op'[t].what # "yieldto"
    <3>1. CASE ClientCall(t)
      BY <1>1, <3>1 DEF ClientCall, MayCall, Call, TypeOK
    <3>2. CASE SwitchRefused(t)
      BY <1>1, <3>2 DEF SwitchRefused, Nothing, Call, TypeOK
    <3>3. CASE ~(ClientCall(t) \/ SwitchRefused(t))
      BY <1>2, <1>8, <3>3 DEF Step, Returned, TakeToken, ReadLock, TakeLock,
         MarkContention, BlockState, WakeupState, ReadToExit, Release, Defer
    <3> QED
      BY <3>1, <3>2, <3>3
  <2>5. InTurn(t)' => InTurn(t)
    BY <1>8, TurnBack
  <2>6. <<t, "pick">> \in fresh' => <<t, "pick">> \in fresh
    BY <1>1, <1>8, FreshStep
  <2>7. <<t, "pick">> \in fresh' /\ to'[t] \in Thread => First = to'[t]
    BY <2>3, <2>6, SlAssumption DEF TurnOK, Everyone
  <2> QED
    BY <1>3, <2>1, <2>2, <2>4, <2>5, <2>7, TurnQuiet
<1> QED
  BY <1>4, <1>5, <1>6, <1>7, <1>8

LEMMA TurnInit == Init => TurnOK
<1> SUFFICES ASSUME Init PROVE TurnOK
  OBVIOUS
<1>1. /\ \A t \in Thread : pc[t] = "back" /\ cpu # t
      /\ \A t \in Everyone : op[t].what = "schedule"
      /\ fresh = {}
  BY SlAssumption DEF Init, Everyone, Nothing, Call
<1> QED
  BY <1>1 DEF TurnOK, InTurn, Awake, Entering, Leaving

LEMMA TurnBoot == PInv /\ TurnOK /\ (Boot \/ Timer) => TurnOK'
<1> SUFFICES ASSUME PInv, TurnOK, Boot \/ Timer PROVE TurnOK'
  OBVIOUS
<1> USE DEF data, kernel, local, At, Goto
<1>1. TypeOK
  BY DEF PInv, KInv, IInv
<1>2. UNCHANGED <<op, to, fresh>> /\ \A u \in Thread : pc'[u] = pc[u]
  <2>1. CASE StartLoop
    BY <1>1, <2>1, SlAssumption DEF StartLoop, TypeOK
  <2>2. CASE ~StartLoop
    BY <2>2 DEF Boot, Timer, Alloc, ParamSet
  <2> QED
    BY <2>1, <2>2
<1>3. cpu' = cpu \/ cpu' = Sched
  BY DEF Boot, Timer, StartLoop, Alloc, ParamSet
<1>4. \A u \in Thread : u # Sched
  BY SlAssumption
<1>5. \A u \in Thread : InTurn(u)' => InTurn(u)
  BY <1>2, <1>3, <1>4 DEF InTurn, Awake
<1>6. CASE StartLoop \/ Timer
  <2>1. First' = First
    BY <1>6 DEF StartLoop, Timer, First, Best
  <2> QED
    BY <1>2, <1>5, <2>1 DEF TurnOK
<1>7. CASE ~(StartLoop \/ Timer)
  <2>1. pc[Sched] = "init"
    BY <1>7 DEF Boot, Alloc, ParamSet
  <2>2. cpu = Sched /\ \A u \in Everyone : pc[u] \in {"init", "back"}
    BY <2>1 DEF PInv, KInv, StartOK, Everyone
  <2>3. \A u \in Thread : ~InTurn(u)
    BY <1>4, <2>2 DEF InTurn, Awake, Entering, Leaving, Everyone
  <2>4. \A u \in Everyone : <<u, "pick">> \notin fresh
    BY <2>2 DEF PInv, KInv, TokenOK, Leaving
  <2> QED
    BY <1>2, <1>5, <2>3, <2>4 DEF TurnOK
<1> QED
  BY <1>6, <1>7

\* Without directed yields, for any number of threads and priorities, the
\* kthds of a program take turns as its lwts do: a thread that the timer
\* takes out of its own code is resumed before any other runs code of its own
\* (sl_sched_loop, sl.c:232-266, chooses the first of the best queue again).
THEOREM SlTakeTurns ==
    ASSUME ~Directed
    PROVE  Spec => []TakeTurns
<1>1. Init => TurnOK
  BY TurnInit
<1>2. PInv /\ TurnOK /\ [Next]_vars => TurnOK'
  <2> SUFFICES ASSUME PInv, TurnOK, [Next]_vars PROVE TurnOK'
    OBVIOUS
  <2>1. CASE Boot \/ Timer
    BY <2>1, TurnBoot
  <2>2. ASSUME NEW t \in Everyone, Step(t) PROVE TurnOK'
    BY <2>2, TurnStep
  <2>3. CASE UNCHANGED vars
    BY <2>3 DEF TurnOK, InTurn, Awake, First, Best, vars, data, kernel, local
  <2> QED
    BY <2>1, <2>2, <2>3 DEF Next
<1>3. TurnOK => TakeTurns
  <2> SUFFICES ASSUME TurnOK PROVE TakeTurns
    OBVIOUS
  <2> DEFINE R == {t \in Thread : pc[t] = "run"}
  <2>1. \A t \in R : t = First
    BY DEF TurnOK, InTurn, Awake
  <2>2. R = {} \/ R = {First}
    BY <2>1
  <2> HIDE DEF R
  <2>3. Cardinality({}) = 0 /\ Cardinality({First}) = 1
    BY FS_EmptySet, FS_Singleton
  <2>4. Cardinality(R) <= 1
    BY <2>2, <2>3
  <2> QED
    BY <2>4 DEF TakeTurns, R
<1> QED
  BY <1>1, <1>2, <1>3, PInvariance, PTL DEF Spec

-----------------------------------------------------------------------------
(* The other half of the queues: whoever can run is listed.                *)

Reverse ==
    \A t \in Thread :
        Started(t) /\ (state[t] # "BLOCKED" <=> ~Pending(t)) => t \in Members(threads[prio[t]])

\* Whether t should be in a queue.
Due(t) == state[t] # "BLOCKED" <=> ~Pending(t)

LEMMA ReverseInit == Lowest \notin Prios /\ Init => Reverse
BY DEF Init, Reverse, Started

\* A step that changes no queue, and of no thread whether it should be in one.
LEMMA ReverseQuiet ==
    ASSUME Reverse, threads' = threads, prio' = prio, \A x \in Thread : Due(x)' => Due(x)
    PROVE  Reverse'
BY DEF Reverse, Due, Started

LEMMA ReverseUpdate ==
    ASSUME PInv, Reverse, NEW t \in Everyone, UpdateQueue(t)
    PROVE  Reverse'
<1> USE DEF At, Goto
<1>1. TypeOK /\ KInv /\ Step(t) /\ pc[t] = "list" /\ t \in Thread /\ UNCHANGED <<state, prio, op>>
      /\ threads \in [Prios -> Seq(Thread)] /\ \A p \in Prios : Once(threads[p])
  BY DEF PInv, KInv, IInv, TypeOK, CallOK, Step, UpdateQueue, ListedOnce
<1>2. \A x \in Thread : (Pending(x) <=> By(t, x)) /\ (Pending(x)' <=> By(t, x)')
  BY <1>1, PendingInside DEF Holding
<1>3. \A x \in Thread : Started(x)' <=> Started(x)
  BY <1>1 DEF Started
<1>4. CASE op[t].what = "block"
  <2>1. Remove(t) /\ pc'[t] = "pick" /\ state[t] = "BLOCKED"
    BY <1>1, <1>4 DEF UpdateQueue, TypeOK, PInv, ListOK
  <2>2. \A p \in Prios : Members(threads'[p]) = Members(threads[p]) \ {t}
    BY <1>1, <2>1, QueueMembers
  <2>3. \A x \in Thread : (Pending(x) <=> x = t) /\ ~Pending(x)'
    BY <1>1, <1>2, <1>4, <2>1 DEF By
  <2>4. ASSUME NEW x \in Thread, Started(x)', state'[x] # "BLOCKED"
        PROVE  x \in Members(threads'[prio'[x]])
    <3>1. x # t /\ Started(x) /\ ~Pending(x) /\ state[x] # "BLOCKED"
      BY <1>1, <1>3, <2>1, <2>3, <2>4
    <3>2. x \in Members(threads[prio[x]]) /\ prio[x] \in Prios
      BY <3>1 DEF Reverse, Started
    <3> QED
      BY <1>1, <2>2, <3>1, <3>2
  <2> QED
    BY <2>3, <2>4 DEF Reverse
<1>5. CASE op[t].what = "yield"
  <2>1. ToBack(t, prio[t]) /\ pc'[t] = "pick"
    BY <1>1, <1>5 DEF UpdateQueue, TypeOK
  <2>2. \A p \in Prios :
          /\ p = prio[t] => Members(threads'[p]) = Members(threads[p]) \union {t}
          /\ p # prio[t] => Members(threads'[p]) = Members(threads[p]) \ {t}
    BY <1>1, <2>1, QueueMembers
  <2>3. \A x \in Thread : ~Pending(x) /\ ~Pending(x)'
    BY <1>2, <1>5, <2>1 DEF By
  <2>4. ASSUME NEW x \in Thread, Started(x)', state'[x] # "BLOCKED"
        PROVE  x \in Members(threads'[prio'[x]])
    <3>1. x \in Members(threads[prio[x]]) /\ prio[x] \in Prios
      BY <1>1, <1>3, <2>3, <2>4 DEF Reverse, Started
    <3>2. CASE x = t
      BY <1>1, <2>2, <3>1, <3>2
    <3>3. CASE x # t
      BY <1>1, <2>2, <3>1, <3>3
    <3> QED
      BY <3>2, <3>3
  <2> QED
    BY <2>3, <2>4 DEF Reverse
<1>6. CASE op[t].what = "wakeup" /\ ~Listed(op[t].whom)
  <2>1. AddLast(op[t].whom) /\ pc'[t] = "pick" /\ op[t].whom \in Thread
    BY <1>1, <1>6 DEF UpdateQueue, TypeOK, PInv, KInv, IInv, CallOK
  <2> PICK w \in Thread : w = op[t].whom
    BY <2>1
  <2>2. \A p \in Prios :
          /\ p = prio[w] => Members(threads'[p]) = Members(threads[p]) \union {w}
          /\ p # prio[w] => Members(threads'[p]) = Members(threads[p])
    BY <1>1, <1>6, <2>1, QueueMembers
  <2>3. \A x \in Thread : (Pending(x) <=> x = w) /\ ~Pending(x)'
    BY <1>1, <1>2, <1>6, <2>1 DEF By
  <2>4. ASSUME NEW x \in Thread, Started(x)', state'[x] # "BLOCKED"
        PROVE  x \in Members(threads'[prio'[x]])
    <3>1. prio[x] \in Prios /\ prio' = prio
      BY <1>1, <1>3, <2>4 DEF Started
    <3>2. CASE x = w
      BY <2>2, <3>1, <3>2
    <3>3. CASE x # w
      <4>1. x \in Members(threads[prio[x]])
        BY <1>1, <1>3, <2>3, <2>4, <3>3 DEF Reverse
      <4> QED
        BY <2>2, <3>1, <4>1
    <3> QED
      BY <3>2, <3>3
  <2> QED
    BY <2>3, <2>4 DEF Reverse
<1>7. CASE op[t].what = "wakeup" /\ Listed(op[t].whom)
  <2>1. UNCHANGED <<threads, pc>>
    BY <1>7 DEF UpdateQueue
  <2>2. \A x \in Thread : Due(x)' => Due(x)
    BY <1>1, <2>1 DEF Due, Pending
  <2> QED
    BY <1>1, <2>1, <2>2, ReverseQuiet
<1> QED
  BY <1>4, <1>5, <1>6, <1>7 DEF UpdateQueue

LEMMA ReverseStep ==
    ASSUME PInv, Reverse, NEW t \in Everyone, Step(t)
    PROVE  Reverse'
<1> USE DEF At, Goto
<1>1. TypeOK /\ KInv /\ prio' = prio
  BY StepFrame DEF PInv, KInv, IInv
<1>2. CASE UpdateQueue(t)
  BY <1>2, ReverseUpdate
<1>3. CASE BlockState(t)
  <2>1. /\ pc[t] = "body" /\ op[t].what = "block" /\ op' = op /\ threads' = threads /\ t \in Thread
        /\ \/ state' = [state EXCEPT ![t] = "RUNNABLE"] /\ state[t] = "WOKEN" /\ pc'[t] = "exit"
           \/ state' = [state EXCEPT ![t] = "BLOCKED"] /\ state[t] = "RUNNABLE" /\ pc'[t] = "list"
    BY <1>1, <1>3 DEF BlockState, TypeOK, PInv, KInv, IInv, CallOK
  <2>2. \A x \in Thread : ~Pending(x) /\ (Pending(x)' <=> By(t, x)')
    BY <1>1, <1>3, <2>1, PendingInside DEF By, Holding, Step
  <2>3. \A x \in Thread : By(t, x)' <=> pc'[t] = "list" /\ x = t
    BY <2>1 DEF By
  <2>4. \A x \in Thread : Due(x)' => Due(x)
    BY <1>1, <2>1, <2>2, <2>3 DEF Due, TypeOK
  <2> QED
    BY <1>1, <2>1, <2>4, ReverseQuiet
<1>4. CASE WakeupState(t)
  <2>1. op[t].whom \in Thread /\ t \in Thread
    BY <1>4 DEF WakeupState, PInv, KInv, IInv, CallOK
  <2> PICK w \in Thread : w = op[t].whom
    BY <2>1
  <2>2. /\ pc[t] = "body" /\ op[t].what = "wakeup" /\ op' = op /\ threads' = threads
        /\ \/ state' = [state EXCEPT ![w] = "WOKEN"] /\ state[w] = "RUNNABLE" /\ pc'[t] = "exit"
           \/ state' = [state EXCEPT ![w] = "RUNNABLE"] /\ state[w] = "BLOCKED" /\ pc'[t] = "list"
           \/ state' = state /\ pc' = pc
    BY <1>1, <1>4 DEF WakeupState, TypeOK
  <2>3. \A x \in Thread : ~Pending(x) /\ (Pending(x)' <=> By(t, x)')
    BY <1>1, <1>4, <2>1, <2>2, PendingInside DEF By, Holding, Step
  <2>4. \A x \in Thread : By(t, x)' <=> pc'[t] = "list" /\ x = w
    BY <2>2 DEF By
  <2>5. \A x \in Thread : Due(x)' => Due(x)
    BY <1>1, <2>2, <2>3, <2>4 DEF Due, TypeOK
  <2> QED
    BY <1>1, <2>2, <2>5, ReverseQuiet
<1>5. CASE ~(UpdateQueue(t) \/ BlockState(t) \/ WakeupState(t))
  <2>1. UNCHANGED <<threads, state>> /\ pc[t] # "list"
    BY <1>5 DEF Step, Returned, ClientCall, TakeToken, ReadLock, TakeLock, MarkContention,
         HelpOwner, Pick, ReadToExit, Release, Defer, SwitchMade, SwitchRefused, data
  <2>2. pc'[t] = "list" => op'[t].what = "yield"
    <3>1. CASE TakeLock(t)
      BY <1>1, <3>1 DEF TakeLock, Inside, TypeOK
    <3>2. CASE ~TakeLock(t)
      BY <1>1, <1>5, <3>2 DEF Step, Returned, ClientCall, TakeToken, ReadLock, MarkContention,
         HelpOwner, Pick, ReadToExit, Release, AfterExit, Defer, SwitchMade, SwitchRefused, TypeOK
    <3> QED
      BY <3>1, <3>2
  <2>3. \A x \in Thread : ~By(t, x) /\ ~By(t, x)'
    BY <2>1, <2>2 DEF By
  <2>4. \A u \in Everyone \ {t}, x \in Thread : By(u, x)' <=> By(u, x)
    BY <1>1, ByFrame
  <2>5. \A x \in Thread : Pending(x)' <=> Pending(x)
    BY <2>3, <2>4, PendingBy, PendingByNext DEF Everyone
  <2>6. \A x \in Thread : Due(x)' => Due(x)
    BY <2>1, <2>5 DEF Due
  <2> QED
    BY <1>1, <2>1, <2>6, ReverseQuiet
<1> QED
  BY <1>2, <1>3, <1>4, <1>5

LEMMA ReverseBoot ==
    ASSUME PInv, Reverse, Boot \/ Timer
    PROVE  Reverse'
<1> USE DEF data, kernel, local, At, Goto
<1>1. TypeOK
  BY DEF PInv, KInv, IInv
<1>2. op' = op /\ \A u \in Everyone : pc'[u] = "list" <=> pc[u] = "list"
  BY <1>1 DEF Boot, Timer, StartLoop, Alloc, ParamSet, TypeOK
<1>3. \A x : Pending(x)' <=> Pending(x)
  BY <1>2, PendingBy, PendingByNext DEF By, Everyone
<1>4. CASE StartLoop \/ Timer
  BY <1>3, <1>4, ReverseQuiet DEF StartLoop, Timer, Due
<1>5. CASE \E t \in Thread : Alloc(t) \/ \E p \in Prios : ParamSet(t, p)
  <2>1. pc[Sched] = "init"
    BY <1>5 DEF Alloc, ParamSet
  <2>2. \A x \in Thread : ~Pending(x) /\ state[x] # "BLOCKED"
    BY <2>1 DEF PInv, KInv, StartOK, Pending, Everyone
  <2>3. ASSUME NEW t \in Thread, Alloc(t) PROVE Reverse'
    <3>1. threads' = threads /\ prio' = prio /\ \A x \in Thread : Due(x)
      BY <2>2, <2>3 DEF Alloc, Due
    <3> QED
      BY <3>1, ReverseQuiet
  <2>4. ASSUME NEW t \in Thread, NEW q \in Prios, ParamSet(t, q) PROVE Reverse'
    <3>1. ToBack(t, q) /\ prio'[t] = q /\ \A x \in Thread \ {t} : prio'[x] = prio[x]
      BY <1>1, <2>4 DEF ParamSet, TypeOK
    <3>2. threads \in [Prios -> Seq(Thread)] /\ \A p \in Prios : Once(threads[p])
      BY <1>1 DEF PInv, ListedOnce, TypeOK
    <3>3. \A p \in Prios :
            /\ p = q => Members(threads'[p]) = Members(threads[p]) \union {t}
            /\ p # q => Members(threads'[p]) = Members(threads[p]) \ {t}
      BY <3>1, <3>2, QueueMembers
    <3>4. \A x \in Thread : prio[x] \in Prios => x \in Members(threads[prio[x]])
      BY <2>2 DEF Reverse, Started
    <3>5. ASSUME NEW x \in Thread, prio'[x] \in Prios PROVE x \in Members(threads'[prio'[x]])
      BY <3>1, <3>3, <3>4, <3>5
    <3> QED
      BY <3>5 DEF Reverse, Started
  <2> QED
    BY <1>5, <2>3, <2>4
<1> QED
  BY <1>4, <1>5 DEF Boot

LEMMA ReverseNext == PInv /\ Reverse /\ [Next]_vars => Reverse'
<1> SUFFICES ASSUME PInv, Reverse, [Next]_vars PROVE Reverse'
  OBVIOUS
<1>1. CASE Boot \/ Timer
  BY <1>1, ReverseBoot
<1>2. ASSUME NEW t \in Everyone, Step(t) PROVE Reverse'
  BY <1>2, ReverseStep
<1>3. CASE UNCHANGED vars
  BY <1>3 DEF Reverse, Started, Pending, vars, data, local
<1> QED
  BY <1>1, <1>2, <1>3 DEF Next

\* The run queues of sl_mod_fprr.c:34-55 hold each started thread that is not
\* BLOCKED, once and at its priority, and nobody else, for any number of
\* threads and any client that leaves the lowest priority to the threads it
\* has not started.
THEOREM SlQueues ==
    ASSUME Lowest \notin Prios
    PROVE  Spec => []QueuesExact
<1>1. Init => Reverse
  BY ReverseInit
<1>2. PInv /\ Reverse => QueuesExact
  <2> SUFFICES ASSUME PInv, Reverse PROVE QueuesExact
    OBVIOUS
  <2>1. ASSUME NEW t \in Thread, NEW p \in Prios
        PROVE  t \in Members(threads[p])
                  <=> Started(t) /\ p = prio[t] /\ (state[t] # "BLOCKED" <=> ~Pending(t))
    BY DEF PInv, ListedOnce, Reverse, Started
  <2> QED
    BY <2>1 DEF QueuesExact, PInv, ListedOnce, Once
<1> QED
  BY <1>1, <1>2, ReverseNext, PInvariance, PTL DEF Spec

-----------------------------------------------------------------------------
(* The assertions.                                                         *)

\* Of each call what the client keeps to; a thread that waits to wake up
\* another is the only one that will, so that one is not woken meanwhile.
CallerOK ==
    \A t \in Everyone :
        /\ op[t].what = "block" => t \in Blocks
        /\ op[t].what = "wakeup" => <<t, op[t].whom>> \in Wakes
        /\ op[t].what = "wakeup" /\ pc[t] \in Entering \union {"body"}
              => state[op[t].whom] \in {"RUNNABLE", "BLOCKED"}

\* Only threads that block are ever blocked, and one of the others is started.
BlockedOK == \A t \in Thread : state[t] = "BLOCKED" => t \in Blocks
KeptOne == pc[Sched] # "init" => \E t \in Thread \ Blocks : Started(t)

FInv == PInv /\ Reverse /\ CallerOK /\ BlockedOK /\ KeptOne /\ NoFault

LEMMA OneWaker ==
    ASSUME NEW t, NEW u, NEW x, <<t, x>> \in Wakes, <<u, x>> \in Wakes
    PROVE  t = u
<1>1. <<t, x>>[2] = x /\ <<u, x>>[2] = x
  OBVIOUS
<1>2. <<t, x>> = <<u, x>>
  BY <1>1, SlAssumption
<1> QED
  BY <1>2

LEMMA CallerStep ==
    ASSUME FInv, NEW t \in Everyone, Step(t)
    PROVE  CallerOK'
<1> USE DEF At, Goto
<1>1. TypeOK /\ cpu = t
      /\ \A u \in Everyone \ {t} : pc'[u] = pc[u] /\ op'[u] = op[u]
  BY StepFrame DEF FInv, PInv, KInv, IInv
<1>2. \A u \in Everyone : op[u].what \in {"wakeup", "yieldto"} => op[u].whom \in Thread
  BY DEF FInv, PInv, KInv, IInv, CallOK
<1>3. ASSUME NEW u \in Everyone, u # t, op[u].what = "wakeup", pc[u] \in Entering \union {"body"}
      PROVE  state'[op[u].whom] \in {"RUNNABLE", "BLOCKED"}
  <2>1. PICK x \in Thread : x = op[u].whom
    BY <1>2, <1>3
  <2>2. state[x] \in {"RUNNABLE", "BLOCKED"} /\ <<u, x>> \in Wakes
    BY <1>3, <2>1 DEF FInv, CallerOK
  <2>3. CASE BlockState(t)
    BY <1>1, <2>1, <2>2, <2>3 DEF BlockState, TypeOK
  <2>4. CASE WakeupState(t)
    <3>1. <<t, op[t].whom>> \in Wakes /\ op[t].whom \in Thread
      BY <1>2, <2>4 DEF WakeupState, FInv, CallerOK
    <3>2. op[t].whom # x
      BY <1>3, <2>2, <3>1, OneWaker
    <3>3. state'[x] = state[x]
      BY <1>1, <2>4, <3>1, <3>2 DEF WakeupState, TypeOK
    <3> QED
      BY <2>1, <2>2, <3>3
  <2>5. CASE ~(BlockState(t) \/ WakeupState(t))
    <3>1. UNCHANGED state
      BY <2>5 DEF Step, Returned, ClientCall, TakeToken, ReadLock, TakeLock,
         MarkContention, HelpOwner, UpdateQueue, Pick, ReadToExit, Release, Defer,
         SwitchMade, SwitchRefused, data
    <3> QED
      BY <2>1, <2>2, <3>1
  <2> QED
    BY <2>3, <2>4, <2>5
<1>4. /\ op'[t].what = "block" => t \in Blocks
      /\ op'[t].what = "wakeup" => <<t, op'[t].whom>> \in Wakes
      /\ op'[t].what = "wakeup" /\ pc'[t] \in Entering \union {"body"}
            => state'[op'[t].whom] \in {"RUNNABLE", "BLOCKED"}
  <2>1. CASE Returned(t)
    BY <1>1, <2>1 DEF Returned, TypeOK, Entering, FInv, CallerOK
  <2>2. CASE ClientCall(t)
    <3>1. PICK what \in {"block", "yield", "yieldto", "wakeup"}, u \in Thread \union {None} :
            MayCall(t, what, u) /\ op' = [op EXCEPT ![t] = Call(what, u)]
      BY <2>2 DEF ClientCall
    <3>2. op'[t].what = what /\ op'[t].whom = u /\ state' = state
      BY <1>1, <2>2, <3>1 DEF ClientCall, Call, TypeOK, data
    <3> QED
      BY <3>1, <3>2 DEF MayCall
  <2>3. CASE TakeToken(t) \/ ReadLock(t) \/ TakeLock(t) \/ MarkContention(t) \/ HelpOwner(t)
    <3>1. op' = op /\ state' = state /\ pc[t] \in Entering
      BY <2>3 DEF TakeToken, ReadLock, TakeLock, MarkContention, HelpOwner, data, Entering
    <3> QED
      BY <3>1 DEF FInv, CallerOK
  <2>4. CASE SwitchMade(t) \/ SwitchRefused(t)
    <3>1. op' = [op EXCEPT ![t] = Nothing]
      BY <2>4 DEF SwitchMade, SwitchRefused
    <3>2. op'[t].what = "schedule"
      BY <1>1, <3>1 DEF Nothing, Call, TypeOK
    <3> QED
      BY <3>2
  <2>5. CASE BlockState(t) \/ UpdateQueue(t) \/ Pick(t) \/ ReadToExit(t) \/ Release(t) \/ Defer(t)
    <3>1. op' = op /\ (op[t].what = "wakeup" => pc'[t] \notin Entering \union {"body"})
      BY <1>1, <2>5 DEF BlockState, UpdateQueue, Pick, ReadToExit, Release, Defer, AfterExit,
                        Entering, TypeOK
    <3> QED
      BY <3>1 DEF FInv, CallerOK
  <2>6. CASE WakeupState(t)
    <3>1. op' = op /\ pc[t] = "body" /\ op[t].what = "wakeup"
      BY <2>6 DEF WakeupState
    <3>2. state[op[t].whom] \in {"RUNNABLE", "BLOCKED"}
      BY <3>1 DEF FInv, CallerOK
    <3>3. pc'[t] \in {"exit", "list"}
      BY <1>1, <2>6, <3>2 DEF WakeupState, TypeOK
    <3> QED
      BY <3>1, <3>3 DEF FInv, CallerOK, Entering
  <2> QED
    BY <2>1, <2>2, <2>3, <2>4, <2>5, <2>6 DEF Step
<1> QED
  BY <1>1, <1>3, <1>4 DEF FInv, CallerOK

LEMMA BlockedStep ==
    ASSUME FInv, NEW t \in Everyone, Step(t)
    PROVE  BlockedOK' /\ KeptOne'
<1> USE DEF At, Goto
<1>1. TypeOK /\ prio' = prio
  BY StepFrame DEF FInv, PInv, KInv, IInv
<1>2. KeptOne'
  <2>1. pc[Sched] # "init"
    BY StepFrame DEF FInv, PInv, KInv, IInv, StartOK
  <2> QED
    BY <1>1, <2>1 DEF FInv, KeptOne, Started
<1>3. CASE BlockState(t)
  <2>1. t \in Blocks
    BY <1>3 DEF BlockState, FInv, CallerOK
  <2>2. \A x \in Thread : state'[x] = "BLOCKED" => state[x] = "BLOCKED" \/ x = t
    BY <1>1, <1>3 DEF BlockState, TypeOK
  <2> QED
    BY <1>2, <2>1, <2>2 DEF FInv, BlockedOK
<1>4. CASE WakeupState(t)
  <2>1. \A x \in Thread : state'[x] = "BLOCKED" => state[x] = "BLOCKED"
    BY <1>1, <1>4 DEF WakeupState, TypeOK
  <2> QED
    BY <1>2, <2>1 DEF FInv, BlockedOK
<1>5. CASE ~(BlockState(t) \/ WakeupState(t))
  <2>1. UNCHANGED state
    BY <1>5 DEF Step, Returned, ClientCall, TakeToken, ReadLock, TakeLock,
       MarkContention, HelpOwner, UpdateQueue, Pick, ReadToExit, Release, Defer,
       SwitchMade, SwitchRefused, data
  <2> QED
    BY <1>2, <2>1 DEF FInv, BlockedOK
<1> QED
  BY <1>3, <1>4, <1>5

LEMMA FBoot ==
    ASSUME Blocks # Thread, FInv, Boot \/ Timer
    PROVE  (CallerOK /\ BlockedOK /\ KeptOne /\ NoFault)'
<1> USE DEF data, kernel, local, At, Goto
<1>1. TypeOK
  BY DEF FInv, PInv, KInv, IInv
<1>2. op' = op /\ fault' = fault
  BY DEF Boot, Timer, StartLoop, Alloc, ParamSet
<1>3. \A x \in Thread : /\ state'[x] = "BLOCKED" => state[x] = "BLOCKED"
                        /\ state[x] \in {"RUNNABLE", "BLOCKED"} => state'[x] = state[x]
  BY <1>1 DEF Boot, Timer, StartLoop, Alloc, ParamSet, TypeOK
<1>4. \A u \in Thread : pc'[u] = pc[u]
  <2>1. CASE StartLoop
    BY <1>1, <2>1, SlAssumption DEF StartLoop, TypeOK
  <2>2. CASE ~StartLoop
    BY <2>2 DEF Boot, Timer, Alloc, ParamSet
  <2> QED
    BY <2>1, <2>2
<1>5. \A u \in Everyone : op[u].what = "wakeup" => u \in Thread /\ op[u].whom \in Thread
  BY DEF FInv, PInv, KInv, IInv, CallOK
<1>6. CallerOK'
  BY <1>2, <1>3, <1>4, <1>5 DEF FInv, CallerOK
<1>7. BlockedOK' /\ NoFault'
  BY <1>2, <1>3 DEF FInv, BlockedOK, NoFault
<1>8. KeptOne'
  <2>1. CASE StartLoop
    <3>1. PICK t \in Thread : Listed(t) /\ t \notin Blocks
      BY <2>1 DEF StartLoop
    <3>2. Started(t) /\ prio' = prio
      BY <2>1, <3>1 DEF StartLoop, Listed, Started, FInv, PInv, ListedOnce
    <3> QED
      BY <3>1, <3>2 DEF KeptOne, Started
  <2>2. CASE Timer
    BY <2>2 DEF Timer, FInv, KeptOne, Started
  <2>3. CASE \E t \in Thread : Alloc(t) \/ \E p \in Prios : ParamSet(t, p)
    BY <2>3 DEF Alloc, ParamSet, KeptOne
  <2> QED
    BY <2>1, <2>2, <2>3 DEF Boot
<1> QED
  BY <1>6, <1>7, <1>8

LEMMA LeastNatural ==
    ASSUME NEW T \in SUBSET Nat, T # {}
    PROVE  \E m \in T : \A j \in T : m <= j
<1>1. PICK m \in T : \A j \in T : <<j, m>> \notin OpToRel(<, Nat)
  BY NatLessThanWellFounded, WFMin
<1>2. \A j \in T : ~(j < m)
  BY <1>1 DEF OpToRel
<1> QED
  BY <1>2

\* When a thread is listed, the policy finds one.
LEMMA BestExists ==
    ASSUME NEW p \in Prios, NEW t \in Thread, t \in Members(threads[p])
    PROVE  Best # {}
<1> DEFINE T == {q \in Prios : threads[q] # <<>>}
<1>1. Prios \subseteq Nat
  BY SlAssumption DEF Lowest
<1>2. threads[p] # <<>>
  BY EmptySeq DEF Members
<1>3. T \in SUBSET Nat /\ T # {}
  BY <1>1, <1>2
<1> HIDE DEF T
<1>4. PICK m \in T : \A j \in T : m <= j
  BY <1>3, LeastNatural
<1> USE DEF T
<1>5. m \in Prios /\ threads[m] # <<>>
  OBVIOUS
<1>6. ASSUME NEW q \in Prios, q < m PROVE threads[q] = <<>>
  <2>1. ~(m <= q)
    BY <1>1, <1>5, <1>6
  <2> QED
    BY <1>4, <2>1
<1>7. m \in Best
  BY <1>5, <1>6 DEF Best
<1> QED
  BY <1>7

LEMMA NoFaultStep ==
    ASSUME FInv, NEW t \in Everyone, Step(t)
    PROVE  NoFault'
<1> USE DEF At, Goto
<1>1. TypeOK /\ KInv /\ OwnerInside /\ fault = "none"
  BY DEF FInv, PInv, KInv, IInv, NoFault
<1>2. CASE ReadLock(t)
  <2>1. lock.owner # t
    BY <1>1, <1>2 DEF ReadLock, OwnerInside, Holding
  <2> QED
    BY <1>1, <1>2, <2>1 DEF ReadLock, NoFault
<1>3. CASE WakeupState(t)
  <2>1. state[op[t].whom] \in {"RUNNABLE", "BLOCKED"}
    BY <1>3 DEF WakeupState, FInv, CallerOK
  <2> QED
    BY <1>1, <1>3, <2>1 DEF WakeupState, NoFault
<1>4. CASE UpdateQueue(t)
  <2>1. ~(op[t].what = "wakeup" /\ Listed(op[t].whom))
    <3> SUFFICES ASSUME op[t].what = "wakeup", Listed(op[t].whom) PROVE FALSE
      OBVIOUS
    <3>1. op[t].whom \in Thread /\ t \in Thread /\ pc[t] = "list"
          /\ state[op[t].whom] = "RUNNABLE"
      BY <1>4 DEF UpdateQueue, FInv, PInv, KInv, IInv, CallOK, ListOK
    <3>2. Pending(op[t].whom)
      BY <3>1 DEF Pending
    <3> QED
      BY <3>1, <3>2 DEF Listed, FInv, PInv, ListedOnce
  <2> QED
    BY <1>1, <1>4, <2>1 DEF UpdateQueue, NoFault
<1>5. CASE Pick(t)
  <2>1. pc[Sched] # "init" /\ pc[t] = "pick"
    BY <1>1, <1>5, StepFrame DEF KInv, StartOK, Pick
  <2>2. PICK x \in Thread \ Blocks : Started(x)
    BY <2>1 DEF FInv, KeptOne
  <2>3. state[x] # "BLOCKED"
    BY DEF FInv, BlockedOK
  <2>4. \A u \in Everyone : pc[u] # "list"
    BY <1>1, <2>1, Alone DEF Holding
  <2>5. ~Pending(x)
    BY <2>4 DEF Pending, Everyone
  <2>6. x \in Members(threads[prio[x]]) /\ prio[x] \in Prios
    BY <2>2, <2>3, <2>5 DEF FInv, Reverse, Started
  <2>7. Best # {}
    BY <2>6, BestExists
  <2> QED
    BY <1>1, <1>5, <2>7 DEF Pick, NoFault
<1>6. CASE ~(ReadLock(t) \/ WakeupState(t) \/ UpdateQueue(t) \/ Pick(t))
  BY <1>1, <1>6 DEF Step, Returned, ClientCall, TakeToken, TakeLock, MarkContention,
       HelpOwner, BlockState, ReadToExit, Release, Defer, SwitchMade, SwitchRefused, NoFault
<1> QED
  BY <1>2, <1>3, <1>4, <1>5, <1>6

LEMMA FInit == Lowest \notin Prios /\ Init => FInv
<1> SUFFICES ASSUME Lowest \notin Prios, Init PROVE FInv
  OBVIOUS
<1>1. PInv /\ Reverse
  BY InitOK, KInit, PInit, ReverseInit DEF PInv, KInv
<1>2. /\ \A t \in Everyone : op[t].what = "schedule"
      /\ \A t \in Thread : state[t] = "FREE"
      /\ pc[Sched] = "init" /\ fault = "none"
  BY DEF Init, Everyone, Nothing, Call
<1>3. CallerOK /\ BlockedOK /\ KeptOne /\ NoFault
  BY <1>2 DEF CallerOK, BlockedOK, KeptOne, NoFault
<1> QED
  BY <1>1, <1>3 DEF FInv

\* No assertion of the library (sl.c:25, sl.c:92, sl_mod_fprr.c:29 and 43)
\* fails: no lock is taken twice, nobody is woken or listed twice, and the
\* policy always finds a thread to run.  This holds for any number of threads
\* of which one that never blocks is started, when each has at most one other
\* that wakes it up and the lowest priority is left to those not started.
THEOREM SlNoFault ==
    ASSUME Lowest \notin Prios, Blocks # Thread
    PROVE  Spec => []NoFault
<1>1. Init => FInv
  BY FInit
<1>2. FInv /\ [Next]_vars => FInv'
  <2> SUFFICES ASSUME FInv, [Next]_vars PROVE FInv'
    OBVIOUS
  <2>1. PInv' /\ Reverse'
    BY PStep, ReverseNext DEF FInv
  <2>2. CASE Boot \/ Timer
    BY <2>1, <2>2, FBoot DEF FInv
  <2>3. ASSUME NEW t \in Everyone, Step(t) PROVE FInv'
    BY <2>1, <2>3, CallerStep, BlockedStep, NoFaultStep DEF FInv
  <2>4. CASE UNCHANGED vars
    BY <2>1, <2>4 DEF FInv, CallerOK, BlockedOK, KeptOne, Started, NoFault,
                      vars, data, kernel, local
  <2> QED
    BY <2>2, <2>3, <2>4 DEF Next
<1>3. FInv => NoFault
  BY DEF FInv
<1> QED
  BY <1>1, <1>2, <1>3, PTL DEF Spec
=============================================================================
