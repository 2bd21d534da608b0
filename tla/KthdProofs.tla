----------------------------- MODULE KthdProofs -----------------------------
(***************************************************************************)
(* Proofs about Kthd, for any number of kthds, lwts and channels of any    *)
(* size: its safety properties hold.  They hold together only: a kthd      *)
(* finds the main lwt of its ring because no thread is in two rings, and   *)
(* no thread is put into a ring twice because a thread on its way is       *)
(* stopped and in one buffer.                                              *)
(***************************************************************************)
EXTENDS Kthd, PsListProofs, FiniteSetTheorems

----------------------------------------------------------------------------
(* The inductive invariant.                                               *)

\* Main lwts, the boot lwt and the others keep to the places of their kind.
Kinds ==
    /\ \A k \in Kthd : /\ kid[k] = k /\ state[k] = "RUNNABLE"
                       /\ pc[k] \in {"new", "loop", "count"}
    /\ kid[Boot] = Boot /\ state[Boot] = "RUNNABLE" /\ pc[Boot] = "boot"
    /\ \A l \in Lwts : /\ pc[l] \notin {"boot", "loop", "count"}
                       /\ Linked(l) => kid[l] \in Kthd
                       /\ pc[l] = "new" <=> l > born
                       /\ state[l] = "DEAD" => pc[l] \in {"dead", "gone"}

\* Every element is linked, the ones outside of the rings to themselves, and
\* each ring leads to the main lwt of its kthd.
Linkage == Rings(list, Members, kid, Elems)

\* What the scan of an lwt that dies has met so far: nobody who can run, but
\* for that lwt, which nobody has sent away or joins.
Passed(V) ==
    /\ state[on] = "RUNNABLE" /\ flag[on] = "NOJOIN"
    /\ on \in V /\ current_thread \in V
    /\ \A e \in V : e # current_thread => list.n[e] \in V
    /\ \A e \in V : e # on => state[e] # "RUNNABLE"

\* RunsAtHome, between two rounds of a scan, too.
Home ==
    /\ on = Boot => current_thread = Boot /\ ~scanning /\ \A k \in Kthd : pc[k] = "new"
    /\ on = NULL => ~scanning
    /\ on \in Lwts \union Kthd => runq # <<>> /\ kid[on] = Head(runq)
    /\ on \in Lwts => Linked(on)
    /\ on \in Lwts /\ ~scanning => on = current_thread /\ state[on] = "RUNNABLE"
    /\ \A k \in Kthd : pc[k] = "count" => runq # <<>> /\ k = Head(runq)
    /\ on \in Kthd /\ pc[on] = "count" /\ ~scanning => current_thread = on
    /\ scanning => /\ on # Boot /\ Linked(on)
                   /\ Linked(current_thread) /\ kid[current_thread] = kid[on]
    /\ scanning /\ pc[on] = "dying" => \E V \in SUBSET Elems : Passed(V)

\* What the waiting lwts and the channels hold.
Calls ==
    /\ \A l \in Lwts : /\ pc[l] = "snd" => at[l] \in Chan /\ load[l] # NULL
                       /\ pc[l] # "snd" => load[l] = NULL
                       /\ pc[l] = "rcv" => at[l] \in Chan
                       /\ load[l] # NULL => (load[l] \in Lwts <=> at[l] \in ThdChan)
    /\ \A c \in Chan : queue[c] \in IF c \in ThdChan THEN Seq(Lwts) ELSE Seq({Data})

\* The threads on their way.
Transit ==
    /\ OnePlace
    /\ \A l \in Lwts : Sent(l) =>
          Linked(l) /\ state[l] = "BLOCKED" /\ flag[l] = "NOJOIN"

\* The joins: a waiting joiner and its child know each other until the child
\* has died.
Waiting(l) == state[l] = "BLOCKED" /\ ~Sent(l)
Joins ==
    /\ \A t \in Lwts : joinedfrom[t] # NULL => flag[t] = "DEFAULT"
    /\ \A l \in Lwts : pc[l] = "join" =>
          LET t == joiningto[l] IN
          /\ t \in Lwts /\ t # l /\ joinedfrom[t] = l
          /\ IF Waiting(l) THEN state[t] # "DEAD" /\ Linked(t) /\ kid[t] = kid[l]
                           ELSE state[t] = "DEAD"
    /\ \A l \in Lwts : Waiting(l) => pc[l] = "join"
    /\ \A t \in Lwts : joinedfrom[t] # NULL /\ Linked(t) /\ state[t] # "DEAD" =>
          LET l == joinedfrom[t] IN
          pc[l] = "join" /\ joiningto[l] = t /\ Waiting(l)

\* LWT_INFO_NTHD_RUNNABLE counts the lwts that nobody has joined, at least,
\* and never gets to 0.
Unjoined == {l \in Lwts : pc[l] # "new" /\ joinedfrom[l] = NULL}
Counted ==
    /\ \A l \in Lwts : pc[l] = "new" => joinedfrom[l] = NULL
    /\ nRunnable > Cardinality(Unjoined)

KInv ==
    /\ TypeOK /\ Kinds /\ Linkage /\ Home /\ Calls /\ Transit /\ Joins /\ Counted
    /\ NoneForgotten
----------------------------------------------------------------------------
(* Facts that many steps need.                                            *)

\* The kinds of elements do not overlap.
LEMMA Sorts ==
    /\ \A l \in Lwts : l \in Elems /\ l \notin Kthd /\ l # Boot /\ l # NULL /\ l # Data
    /\ \A k \in Kthd : k \in Elems /\ k \notin Lwts /\ k # Boot /\ k # NULL
    /\ Boot \in Elems /\ Boot \notin Lwts /\ Boot \notin Kthd /\ Boot # NULL
    /\ NULL \notin Elems /\ NULL \notin Lwts /\ NULL \notin Kthd /\ NULL \notin Chan
    /\ Data \notin Lwts /\ Data # NULL
    /\ Elems = Lwts \union Kthd \union {Boot}
  BY KthdAssumption DEF Elems

\* Lengths, domains and elements of the queues after an operation.
LEMMA AppendFacts ==
    ASSUME NEW S, NEW q \in Seq(S), NEW m \in S
    PROVE  /\ Append(q, m) \in Seq(S) /\ Append(q, m) # <<>>
           /\ Len(q) \in Nat /\ DOMAIN q = 1..Len(q)
           /\ DOMAIN Append(q, m) = 1..(Len(q) + 1)
           /\ \A i \in 1..Len(q) : Append(q, m)[i] = q[i] /\ q[i] \in S
           /\ Append(q, m)[Len(q) + 1] = m
  OBVIOUS

LEMMA TailFacts ==
    ASSUME NEW S, NEW q \in Seq(S), q # <<>>
    PROVE  /\ Tail(q) \in Seq(S) /\ Head(q) \in S /\ Head(q) = q[1]
           /\ Len(q) \in Nat /\ Len(q) > 0 /\ DOMAIN q = 1..Len(q)
           /\ DOMAIN Tail(q) = 1..(Len(q) - 1)
           /\ \A i \in 1..(Len(q) - 1) : Tail(q)[i] = q[i + 1] /\ i + 1 \in DOMAIN q
  OBVIOUS

\* Where on runs code of an lwt.
LEMMA RunningLwt ==
    ASSUME KInv, on \in Lwts, ~scanning
    PROVE  /\ on = current_thread /\ on \in Elems /\ Linked(on) /\ state[on] = "RUNNABLE"
           /\ kid[on] \in Kthd /\ runq # <<>> /\ kid[on] = Head(runq)
  BY Sorts DEF KInv, Kinds, Home

\* The main lwts.
LEMMA RunningMain ==
    ASSUME KInv, on \in Kthd
    PROVE  /\ on \in Elems /\ on \notin Lwts /\ on # Boot /\ on # NULL
           /\ kid[on] = on /\ runq # <<>> /\ on = Head(runq)
  BY Sorts DEF KInv, Kinds, Home

\* Only the boot lwt is at "boot".
LEMMA RunningBoot ==
    ASSUME KInv, At("boot")
    PROVE  on = Boot /\ current_thread = Boot
  BY Sorts DEF KInv, TypeOK, Kinds, Home, At

\* The neighbour in front belongs to the same kthd.
LEMMA Before ==
    ASSUME KInv, NEW e \in Elems, Linked(e)
    PROVE  /\ list.p[e] \in Elems /\ Linked(list.p[e]) /\ kid[list.p[e]] = kid[e]
           /\ list.n[list.p[e]] = e
  BY DEF KInv, Linkage, Rings, WellLinked, Members

LEMMA Behind ==
    ASSUME KInv, NEW e \in Elems, Linked(e)
    PROVE  /\ list.n[e] \in Elems /\ Linked(list.n[e]) /\ kid[list.n[e]] = kid[e]
           /\ list.p[list.n[e]] = e
  BY DEF KInv, Linkage, Rings, WellLinked, Members

LEMMA Alone ==
    ASSUME KInv, NEW e \in Elems, ~Linked(e)
    PROVE  list.n[e] = e /\ list.p[e] = e
  BY DEF KInv, Linkage, Rings, WellLinked, Members

LEMMA ListType == TypeOK => list \in Lists(Elems)
  BY DEF TypeOK, Lists

----------------------------------------------------------------------------
(* What the steps do to the rings.                                        *)

\* Nothing.
SameLinks ==
    list' = list /\ kid' = kid /\ \A e \in Elems : Linked(e)' <=> Linked(e)

\* t joins the ring of c, which may be the start of that ring.
Enters(t, c) ==
    /\ t \in Lwts /\ ~Linked(t) /\ c \in Lwts \union Kthd /\ c # t /\ kid[c] \in Kthd
    /\ Linked(c) \/ kid[c] = c
    /\ list' = ps_list_add(list, list.p[c], t)
    /\ kid' = [kid EXCEPT ![t] = kid[c]]
    /\ \A e \in Elems : Linked(e)' <=> (Linked(e) \/ e = t \/ e = c)

\* t is unlinked, if it is not already.
Leaves(t) ==
    /\ t \in Lwts
    /\ list' = ps_list_rem(list, t) /\ kid' = kid
    /\ \A e \in Elems : Linked(e)' <=> (Linked(e) /\ e # t)

\* t goes from its ring to that of c.
Moves(t, c) ==
    /\ t \in Lwts /\ c \in Lwts /\ t # c /\ Linked(t) /\ Linked(c) /\ kid[c] \in Kthd
    /\ LET ls == ps_list_rem(list, t) IN list' = ps_list_add(ls, ls.p[c], t)
    /\ kid' = [kid EXCEPT ![t] = kid[c]]
    /\ \A e \in Elems : Linked(e)' <=> Linked(e)

\* Setting the pointers of an element that is linked to itself.
LEMMA InitAlone ==
    ASSUME TypeOK, NEW e \in Elems, list.n[e] = e, list.p[e] = e
    PROVE  ps_list_init(list, e) = list
<1>1. list \in [n : [Elems -> Elems], p : [Elems -> Elems]]
  BY DEF TypeOK
<1>2. [list.n EXCEPT ![e] = e] = list.n
  BY <1>1
<1>3. [list.p EXCEPT ![e] = e] = list.p
  BY <1>1
<1>4. list = [n |-> list.n, p |-> list.p]
  BY <1>1
<1> QED
  BY <1>2, <1>3, <1>4 DEF ps_list_init

\* A place for an lwt that keeps it in its ring.
LEMMA GotoLinked ==
    ASSUME TypeOK, Linked(on), NEW p, Goto(p), p \notin {"new", "gone"}
    PROVE  \A e \in Elems : Linked(e)' <=> Linked(e)
  BY DEF TypeOK, Goto, Linked

LEMMA SameLinked ==
    ASSUME pc' = pc
    PROVE  \A e \in Elems : Linked(e)' <=> Linked(e)
  BY DEF Linked

LEMMA SendLinks ==
    ASSUME KInv, on \in Lwts, ~scanning, NEW c, NEW m, Send(c, m)
    PROVE  \A e \in Elems : Linked(e)' <=> Linked(e)
<1>1. Linked(on) /\ TypeOK
  BY RunningLwt DEF KInv
<1>2. Goto("snd") \/ Goto("user")
  BY DEF Send
<1> QED
  BY <1>1, <1>2, GotoLinked

LEMMA ReapLeaves ==
    ASSUME KInv, on \in Lwts, ~scanning, NEW t \in Lwts, t # on, Reap(t), kid' = kid
    PROVE  Leaves(t)
<1>1. \A e \in Elems : Linked(e)' <=> (Linked(e) /\ e # t)
  <2>1. on \in Elems /\ Linked(on) /\ pc \in [Elems -> Places]
    BY RunningLwt DEF KInv, TypeOK
  <2> QED
    BY <2>1, Sorts DEF Reap, Linked
<1> QED
  BY <1>1 DEF Leaves, Reap

LEMMA BornEnters ==
    ASSUME KInv, NEW c \in Elems, c \in Lwts \union Kthd, kid[c] \in Kthd,
           Linked(c) \/ kid[c] = c, NEW f, NEW function, Born(born + 1, c, list, f, function),
           \A e \in Elems : Linked(e)' <=> (Linked(e) \/ e = born + 1 \/ e = c)
    PROVE  Enters(born + 1, c) /\ pc[born + 1] = "new"
<1>1. born + 1 \in Lwts /\ pc[born + 1] = "new"
  BY DEF KInv, Kinds, Born, Lwts, TypeOK
<1>2. c # born + 1
  BY <1>1, Sorts DEF Linked
<1> QED
  BY <1>1, <1>2 DEF Enters, Born, Linked, ps_list_prev

LEMMA LinkCases ==
    ASSUME Careful, KInv, Next
    PROVE  \/ SameLinks
           \/ \E t \in Lwts : \E c \in Elems : Enters(t, c)
           \/ \E t \in Lwts : Leaves(t)
           \/ \E t \in Lwts : \E c \in Lwts : Moves(t, c)
<1> USE KthdAssumption
<1>0. TypeOK
  BY DEF KInv
<1>1. ASSUME NEW k \in Kthd, lwt_kthd_create(k) PROVE SameLinks
  BY <1>1, SameLinked DEF lwt_kthd_create, SameLinks
<1>2. CASE StartLoop
  BY <1>2, SameLinked DEF StartLoop, SameLinks
<1>3. CASE Scan
  <2>1. CASE pc[on] = "dying" /\ state[ps_list_next(list, current_thread)] = "RUNNABLE"
    <3>1. on \in Lwts
      BY <1>3, Sorts, <2>1 DEF KInv, Kinds, Home, Scan, TypeOK
    <3>2. list' = ps_list_rem(list, on) /\ kid' = kid /\ pc' = [pc EXCEPT ![on] = "gone"]
      BY <1>3, <2>1 DEF Scan, Goto
    <3>3. \A e \in Elems : Linked(e)' <=> (Linked(e) /\ e # on)
      BY <3>1, <3>2, <1>0, Sorts DEF Linked, TypeOK
    <3> QED
      BY <3>1, <3>2, <3>3 DEF Leaves
  <2>2. CASE ~(pc[on] = "dying" /\ state[ps_list_next(list, current_thread)] = "RUNNABLE")
    <3>1. list' = list /\ kid' = kid /\ pc' = pc
      BY <1>3, <2>2 DEF Scan
    <3> QED
      BY <3>1, SameLinked DEF SameLinks
  <2> QED
    BY <2>1, <2>2
<1>4. ASSUME NEW k \in Kthd, KthdStart(k)
      PROVE  \E t \in Lwts : \E c \in Elems : Enters(t, c)
  <2>1. on = k /\ pc[k] = "new" /\ kid[k] = k /\ k \in Elems
    BY <1>4, Sorts DEF KthdStart, At, KInv, Kinds
  <2>2. list.n[k] = k /\ list.p[k] = k
    BY <2>1, Alone DEF Linked
  <2>3. ps_list_init(list, k) = list
    BY <2>1, <2>2, <1>0, InitAlone
  <2>4. Born(born + 1, k, list, "NOJOIN", k)
    BY <2>3, <1>4 DEF KthdStart
  <2>5. born + 1 \in Lwts /\ pc' = [pc EXCEPT ![k] = "loop", ![born + 1] = "user"]
    BY <1>4 DEF KthdStart, Born
  <2>6. \A e \in Elems : Linked(e)' <=> (Linked(e) \/ e = born + 1 \/ e = k)
    BY <2>1, <2>5, <1>0, Sorts DEF Linked, TypeOK
  <2>7. Enters(born + 1, k)
    BY <2>1, <2>4, <2>6, BornEnters
  <2> QED
    BY <2>1, <2>5, <2>7
<1>5. ASSUME NEW k \in Kthd, KthdLoop(k) \/ KthdCount(k) PROVE SameLinks
  <2>1. on = k /\ Linked(on) /\ list' = list /\ kid' = kid /\ (Goto("loop") \/ Goto("count"))
    BY <1>5 DEF KthdLoop, KthdCount, At, Linked, GiveWay
  <2> QED
    BY <2>1, <1>0, GotoLinked DEF SameLinks
<1>6. ASSUME NEW f \in {"DEFAULT", "NOJOIN"}, lwt_create(f)
      PROVE  \E t \in Lwts : \E c \in Elems : Enters(t, c)
  <2>1. /\ on \in Lwts /\ on = current_thread /\ on \in Elems /\ Linked(on) /\ kid[on] \in Kthd
    BY <1>6, RunningLwt DEF lwt_create, User, At
  <2>2. Born(born + 1, on, list, f, NULL) /\ pc' = [pc EXCEPT ![born + 1] = "user"]
    BY <1>6, <2>1 DEF lwt_create
  <2>3. born + 1 \in Lwts
    BY <2>2 DEF Born
  <2>4. \A e \in Elems : Linked(e)' <=> (Linked(e) \/ e = born + 1 \/ e = on)
    BY <2>1, <2>2, <2>3, <1>0, Sorts DEF Linked, TypeOK
  <2> QED
    BY <2>1, <2>2, <2>3, <2>4, BornEnters
<1>7. CASE lwt_yield
  BY <1>7, SameLinked DEF lwt_yield, SameLinks
<1>8. CASE DieJoinable \/ DieDetached
  <2>1. User /\ list' = list /\ kid' = kid /\ (Goto("dead") \/ Goto("dying"))
    BY <1>8 DEF DieJoinable, DieDetached
  <2> QED
    BY <2>1, <1>0, RunningLwt, GotoLinked DEF SameLinks, User, At
<1>9. CASE JoinResume
  <2>1. on \in Lwts /\ ~scanning /\ pc[on] = "join" /\ Reap(joiningto[on]) /\ kid' = kid
    BY <1>9 DEF JoinResume, At
  <2>2. joiningto[on] \in Lwts /\ joiningto[on] # on
    BY <2>1 DEF KInv, Joins, Waiting
  <2> QED
    BY <2>1, <2>2, ReapLeaves
<1>10. ASSUME NEW t \in Lwts, JoinDead(t) PROVE Leaves(t)
  <2>1. User /\ t # current_thread /\ Reap(t) /\ kid' = kid
    BY <1>10 DEF JoinDead, MayJoin
  <2> QED
    BY <2>1, ReapLeaves, RunningLwt DEF User, At
<1>11. ASSUME NEW t \in Lwts, JoinWait(t) PROVE SameLinks
  <2>1. User /\ Goto("join") /\ list' = list /\ kid' = kid
    BY <1>11 DEF JoinWait, MayJoin
  <2> QED
    BY <2>1, <1>0, RunningLwt, GotoLinked DEF SameLinks, User, At
<1>12. CASE lwt_cgrp_wait
  <2>1. User /\ Goto("grp") /\ list' = list /\ kid' = kid
    BY <1>12 DEF lwt_cgrp_wait
  <2> QED
    BY <2>1, <1>0, RunningLwt, GotoLinked DEF SameLinks, User, At
<1>13. CASE GrpResume
  <2>1. on \in Lwts /\ ~scanning /\ list' = list /\ kid' = kid /\ (Goto("user") \/ pc' = pc)
    BY <1>13 DEF GrpResume, At
  <2> QED
    BY <2>1, <1>0, RunningLwt, GotoLinked, SameLinked DEF SameLinks
<1>14. ASSUME NEW c \in Chan, lwt_chan(c) PROVE SameLinks
  BY <1>14, SameLinked DEF lwt_chan, SameLinks
<1>15. ASSUME NEW c \in Chan, NEW t \in Lwts, lwt_snd(c) \/ lwt_snd_thd(c, t) PROVE SameLinks
  BY <1>15, SendLinks DEF lwt_snd, lwt_snd_thd, SameLinks, MaySend, User, At
<1>15a. ASSUME NEW c \in Chan, lwt_snd(c) PROVE SameLinks
  BY <1>15a, SendLinks DEF lwt_snd, SameLinks, MaySend, User, At
<1>16. CASE SndResume
  BY <1>16, SendLinks DEF SndResume, SameLinks, At
<1>17. ASSUME NEW c \in Chan, on \in Lwts, ~scanning, Receive(c)
       PROVE  SameLinks \/ \E t \in Lwts : Moves(t, on)
  <2>1. Linked(on) /\ kid[on] \in Kthd /\ on = current_thread
    BY <1>17, RunningLwt
  <2>2. Goto("rcv") \/ Goto("user")
    BY <1>17 DEF Receive
  <2>3. \A e \in Elems : Linked(e)' <=> Linked(e)
    BY <2>1, <2>2, <1>0, GotoLinked
  <2>4. CASE queue[c] = <<>> \/ c \notin ThdChan
    BY <2>3, <2>4, <1>17 DEF Receive, SameLinks
  <2>5. CASE queue[c] # <<>> /\ c \in ThdChan
    <3>1. queue[c] \in Seq(Lwts)
      BY <2>5 DEF KInv, Calls
    <3> DEFINE t == Head(queue[c])
    <3>2. t \in Lwts /\ t = queue[c][1] /\ 1 \in DOMAIN queue[c]
      BY <3>1, <2>5, TailFacts
    <3>3. Sent(t)
      BY <3>2 DEF Sent
    <3>4. Linked(t) /\ state[t] = "BLOCKED"
      BY <3>2, <3>3 DEF KInv, Transit
    <3>5. t # on
      BY <3>4, <1>17, RunningLwt
    <3>6. Adopt(t)
      BY <2>5, <1>17 DEF Receive
    <3>7. Moves(t, on)
      BY <3>2, <3>4, <3>5, <3>6, <2>1, <2>3, <1>17 DEF Moves, Adopt, ps_list_prev
    <3> QED
      BY <3>2, <3>7
  <2> QED
    BY <2>4, <2>5
<1>18. ASSUME NEW c \in Chan, lwt_rcv(c)
       PROVE  SameLinks \/ \E t \in Lwts : Moves(t, on)
  BY <1>17, <1>18 DEF lwt_rcv, User, At
<1>19. CASE RcvResume
  <2>1. on \in Lwts /\ ~scanning /\ pc[on] = "rcv" /\ Receive(at[on])
    BY <1>19 DEF RcvResume, At
  <2>2. at[on] \in Chan
    BY <2>1 DEF KInv, Calls
  <2> QED
    BY <1>17, <2>1, <2>2
<1> QED
  BY <1>1, <1>2, <1>3, <1>4, <1>5, <1>6, <1>7, <1>8, <1>9, <1>10, <1>11, <1>12, <1>13,
     <1>14, <1>15, <1>15a, <1>16, <1>18, <1>19
  DEF Next, KthdStep, LwtStep, ChanStep, lwt_rcv, User

LEMMA LinkageStep == ASSUME Careful PROVE KInv /\ Next => Linkage'
<1>1. SUFFICES ASSUME KInv, Next PROVE Linkage'
  OBVIOUS
<1>2. Rings(list, Members, kid, Elems) /\ kid \in [Elems -> Kthd \union {Boot, NULL}]
  BY <1>1 DEF KInv, TypeOK, Linkage
<1>3. \A d \in Members : kid[d] \in Kthd \union {Boot}
  BY <1>1, Sorts DEF KInv, Kinds, Members
<1>4. \A d \in Members, t \in Lwts : kid[d] # t
  BY <1>3, Sorts
<1>5. CASE SameLinks
  <2>1. Members' = Members
    BY <1>5 DEF SameLinks, Members
  <2> QED
    BY <1>2, <1>5, <2>1 DEF SameLinks, Linkage
<1>6. ASSUME NEW t \in Lwts, NEW c \in Elems, Enters(t, c) PROVE Linkage'
  <2>1. t \in Elems /\ t \notin Members /\ c # t /\ (c \in Members \/ kid[c] = c)
    BY <1>6, Sorts DEF Enters, Members
  <2>2. /\ list' = ps_list_add(list, list.p[c], t)
        /\ \A d \in Elems : d # t => kid'[d] = kid[d]
        /\ kid'[t] = kid[c]
    BY <1>2, <1>6, <2>1 DEF Enters
  <2>3. Members' = Members \union {t, c}
    BY <1>6, <2>1 DEF Enters, Members
  <2>4. Rings(ps_list_add(list, list.p[c], t), Members \union {t, c}, kid', Elems)
    BY <1>2, <2>1, <2>2, InsertRings
  <2> QED
    BY <2>2, <2>3, <2>4 DEF Linkage
<1>7. ASSUME NEW t \in Lwts, Leaves(t) PROVE Linkage'
  <2>1. t \in Elems /\ list' = ps_list_rem(list, t) /\ kid' = kid
    BY <1>7, Sorts DEF Leaves
  <2>2. Members' = Members \ {t}
    BY <1>7 DEF Leaves, Members
  <2>3. Rings(ps_list_rem(list, t), Members \ {t}, kid, Elems)
    BY <1>2, <1>4, <2>1, RemoveRings
  <2> QED
    BY <2>1, <2>2, <2>3 DEF Linkage
<1>8. ASSUME NEW t \in Lwts, NEW c \in Lwts, Moves(t, c) PROVE Linkage'
  <2> DEFINE ls == ps_list_rem(list, t)
             M == Members \ {t}
  <2>1. t \in Elems /\ c \in Elems /\ c # t /\ c \in M /\ t \notin M
    BY <1>8, Sorts DEF Moves, Members
  <2>2. /\ list' = ps_list_add(ls, ls.p[c], t)
        /\ \A d \in Elems : d # t => kid'[d] = kid[d]
        /\ kid'[t] = kid[c]
    BY <1>2, <1>8, <2>1 DEF Moves
  <2>3. Members' = M \union {t, c}
    BY <1>8, <2>1 DEF Moves, Members
  <2>4. Rings(ls, M, kid, Elems)
    BY <1>2, <1>4, <2>1, RemoveRings
  <2> HIDE DEF ls, M
  <2>5. Rings(ps_list_add(ls, ls.p[c], t), M \union {t, c}, kid', Elems)
    BY <2>1, <2>2, <2>4, InsertRings
  <2> QED
    BY <2>2, <2>3, <2>5 DEF Linkage
<1> QED
  BY <1>1, <1>5, <1>6, <1>7, <1>8, LinkCases

----------------------------------------------------------------------------
(* Types.                                                                 *)

\* A queue without duplicates stays so: who is first may go, and who is not
\* in it may be put behind.
Once(q) == \A i, j \in DOMAIN q : q[i] = q[j] => i = j

LEMMA TailOnce ==
    ASSUME NEW S, NEW q \in Seq(S), q # <<>>, Once(q)
    PROVE  Once(Tail(q)) /\ \A i \in DOMAIN Tail(q) : Tail(q)[i] # Head(q)
<1>1. /\ Len(q) \in Nat /\ Len(q) > 0 /\ DOMAIN q = 1..Len(q) /\ Head(q) = q[1]
      /\ DOMAIN Tail(q) = 1..(Len(q) - 1)
      /\ \A i \in 1..(Len(q) - 1) : Tail(q)[i] = q[i + 1] /\ i + 1 \in DOMAIN q
  BY TailFacts
<1>2. ASSUME NEW i \in DOMAIN Tail(q), NEW j \in DOMAIN Tail(q), Tail(q)[i] = Tail(q)[j]
      PROVE  i = j
  <2>1. q[i + 1] = q[j + 1] /\ i + 1 \in DOMAIN q /\ j + 1 \in DOMAIN q
    BY <1>1, <1>2
  <2>2. i + 1 = j + 1
    BY <2>1 DEF Once
  <2> QED
    BY <1>1, <2>2
<1>3. ASSUME NEW i \in DOMAIN Tail(q), Tail(q)[i] = Head(q)
      PROVE  FALSE
  <2>1. q[i + 1] = q[1] /\ i + 1 \in DOMAIN q /\ 1 \in DOMAIN q
    BY <1>1, <1>3
  <2>2. i + 1 = 1
    BY <2>1 DEF Once
  <2> QED
    BY <1>1, <2>2
<1> QED
  BY <1>2, <1>3 DEF Once

LEMMA AppendOnce ==
    ASSUME NEW S, NEW q \in Seq(S), NEW m \in S, Once(q), \A i \in DOMAIN q : q[i] # m
    PROVE  Once(Append(q, m))
<1>1. /\ Len(q) \in Nat /\ DOMAIN q = 1..Len(q)
      /\ DOMAIN Append(q, m) = 1..(Len(q) + 1)
      /\ \A i \in 1..Len(q) : Append(q, m)[i] = q[i]
      /\ Append(q, m)[Len(q) + 1] = m
  BY AppendFacts
<1> DEFINE a == Append(q, m)
<1> SUFFICES ASSUME NEW i \in DOMAIN a, NEW j \in DOMAIN a, a[i] = a[j]
             PROVE  i = j
  BY DEF Once
<1>2. CASE i \in DOMAIN q /\ j \in DOMAIN q
  BY <1>1, <1>2 DEF Once
<1>3. CASE i \notin DOMAIN q
  <2>1. i = Len(q) + 1 /\ a[i] = m
    BY <1>1, <1>3
  <2> QED
    BY <1>1, <2>1
<1>4. CASE j \notin DOMAIN q
  <2>1. j = Len(q) + 1 /\ a[j] = m
    BY <1>1, <1>4
  <2> QED
    BY <1>1, <2>1
<1> QED
  BY <1>2, <1>3, <1>4

\* The head of runq leaves it or goes to its end.
LEMMA QueueTurns ==
    ASSUME TypeOK, runq # <<>>
    PROVE  LET k == Head(runq)
               q == Append(Tail(runq), k)
           IN  /\ k \in Kthd /\ Tail(runq) \in Seq(Kthd) /\ Once(Tail(runq))
               /\ \A i \in DOMAIN Tail(runq) : Tail(runq)[i] # k
               /\ q \in Seq(Kthd) /\ Once(q) /\ q # <<>>
<1>1. runq \in Seq(Kthd) /\ Once(runq)
  BY DEF TypeOK, Once
<1>2. Head(runq) \in Kthd /\ Tail(runq) \in Seq(Kthd)
  BY <1>1, TailFacts
<1>3. Once(Tail(runq)) /\ \A i \in DOMAIN Tail(runq) : Tail(runq)[i] # Head(runq)
  BY <1>1, TailOnce
<1>4. Append(Tail(runq), Head(runq)) \in Seq(Kthd) /\ Append(Tail(runq), Head(runq)) # <<>>
  BY <1>2, AppendFacts
<1>5. Once(Append(Tail(runq), Head(runq)))
  BY <1>2, <1>3, AppendOnce
<1> QED
  BY <1>2, <1>3, <1>4, <1>5

\* A kthd that is not in runq goes to its end.
LEMMA QueueGrows ==
    ASSUME TypeOK, NEW k \in Kthd, \A i \in DOMAIN runq : runq[i] # k
    PROVE  LET q == Append(runq, k)
           IN  /\ q \in Seq(Kthd) /\ Once(q) /\ q # <<>>
               /\ runq # <<>> => Head(q) = Head(runq)
<1>1. runq \in Seq(Kthd) /\ Once(runq)
  BY DEF TypeOK, Once
<1>2. runq # <<>> => Head(Append(runq, k)) = Head(runq)
  BY <1>1
<1> QED
  BY <1>1, <1>2, AppendOnce, AppendFacts

\* The types in three parts, but for that of list.
PlaceTypes ==
    /\ runq \in Seq(Kthd) /\ Once(runq)
    /\ on \in Elems \union {NULL} /\ current_thread \in Elems
    /\ scanning \in BOOLEAN /\ nRunnable \in Int

LwtTypes ==
    /\ born \in 0..MaxLwt
    /\ state \in [Elems -> {"RUNNABLE", "BLOCKED", "DEAD"}]
    /\ flag \in [Lwts -> {"DEFAULT", "NOJOIN"}]
    /\ kid \in [Elems -> Kthd \union {Boot, NULL}]
    /\ fn \in [Lwts -> Kthd \union {NULL}]
    /\ joinedfrom \in [Lwts -> Lwts \union {NULL}]
    /\ joiningto \in [Lwts -> Lwts \union {NULL}]
    /\ pc \in [Elems -> Places]

ChanTypes ==
    /\ rcv_thd \in [Chan -> Lwts \union {Boot, NULL}]
    /\ queue \in [Chan -> Seq(Lwts \union {Data})]
    /\ at \in [Lwts -> Chan \union {NULL}]
    /\ load \in [Lwts -> Lwts \union {Data, NULL}]

LEMMA TypeParts ==
    TypeOK <=> PlaceTypes /\ LwtTypes /\ ChanTypes /\ list \in Lists(Elems)
  BY DEF TypeOK, PlaceTypes, LwtTypes, ChanTypes, Lists, Once

LEMMA SendTypes ==
    ASSUME KInv, on \in Lwts, ~scanning, NEW c \in Chan, NEW m \in Lwts \union {Data},
           Send(c, m), nRunnable' = nRunnable, rcv_thd' = rcv_thd
    PROVE  /\ PlaceTypes' /\ pc' \in [Elems -> Places]
           /\ ChanTypes'
<1>1. PlaceTypes /\ LwtTypes /\ ChanTypes /\ TypeOK
  BY TypeParts DEF KInv
<1>2. on \in Elems
  BY Sorts
<1>3. CASE IsFull(c)
  <2>1. /\ Goto("snd") /\ lwt_schedule /\ queue' = queue
        /\ at' = [at EXCEPT ![on] = c] /\ load' = [load EXCEPT ![on] = m]
    BY <1>3 DEF Send
  <2>2. PlaceTypes'
    BY <1>1, <2>1 DEF PlaceTypes, lwt_schedule, Once
  <2>3. pc' \in [Elems -> Places]
    BY <1>1, <1>2, <2>1 DEF LwtTypes, Goto, Places
  <2>4. ChanTypes'
    BY <1>1, <2>1 DEF ChanTypes
  <2> QED
    BY <2>2, <2>3, <2>4
<1>4. CASE ~IsFull(c)
  <2>1. /\ queue' = [queue EXCEPT ![c] = Append(queue[c], m)]
        /\ Wake(c) /\ UNCHANGED <<on, current_thread, scanning>>
        /\ Goto("user")
        /\ at' = [at EXCEPT ![on] = NULL] /\ load' = [load EXCEPT ![on] = NULL]
    BY <1>4 DEF Send
  <2>2. runq' \in Seq(Kthd) /\ Once(runq')
    BY <1>1, <2>1, QueueGrows DEF PlaceTypes, Wake
  <2>3. PlaceTypes'
    BY <1>1, <2>1, <2>2 DEF PlaceTypes, Once
  <2>4. pc' \in [Elems -> Places]
    BY <1>1, <1>2, <2>1 DEF LwtTypes, Goto, Places
  <2>5. Append(queue[c], m) \in Seq(Lwts \union {Data})
    BY <1>1, AppendFacts DEF ChanTypes
  <2>6. ChanTypes'
    BY <1>1, <2>1, <2>5 DEF ChanTypes
  <2> QED
    BY <2>3, <2>4, <2>6
<1> QED
  BY <1>3, <1>4

LEMMA ReceiveTypes ==
    ASSUME KInv, on \in Lwts, ~scanning, NEW c \in Chan, Receive(c),
           UNCHANGED <<nRunnable, links, fields, rcv_thd, load>>
    PROVE  PlaceTypes' /\ LwtTypes' /\ ChanTypes'
<1>1. PlaceTypes /\ LwtTypes /\ ChanTypes
  BY TypeParts DEF KInv
<1>2. on \in Elems /\ on = current_thread /\ kid[on] \in Kthd
  BY Sorts, RunningLwt
<1>3. CASE queue[c] = <<>>
  <2>1. /\ Goto("rcv") /\ lwt_schedule /\ at' = [at EXCEPT ![on] = c]
        /\ UNCHANGED <<queue, list, state, kid>>
    BY <1>3 DEF Receive
  <2>2. PlaceTypes'
    BY <1>1, <2>1 DEF PlaceTypes, lwt_schedule, Once
  <2>3. pc' \in [Elems -> Places]
    BY <1>1, <1>2, <2>1 DEF LwtTypes, Goto, Places
  <2>4. ChanTypes'
    BY <1>1, <2>1 DEF ChanTypes
  <2> QED
    BY <1>1, <2>1, <2>2, <2>3, <2>4 DEF LwtTypes, links, fields
<1>4. CASE queue[c] # <<>>
  <2> DEFINE t == Head(queue[c])
  <2>1. /\ queue' = [queue EXCEPT ![c] = Tail(queue[c])]
        /\ IF c \in ThdChan THEN Adopt(t) ELSE UNCHANGED <<list, state, kid>>
        /\ Goto("user") /\ UNCHANGED place /\ at' = [at EXCEPT ![on] = NULL]
    BY <1>4 DEF Receive
  <2>2. PlaceTypes'
    BY <1>1, <2>1 DEF PlaceTypes, place, Once
  <2>3. pc' \in [Elems -> Places]
    BY <1>1, <1>2, <2>1 DEF LwtTypes, Goto, Places
  <2>4. Tail(queue[c]) \in Seq(Lwts \union {Data})
    BY <1>1, <1>4, TailFacts DEF ChanTypes
  <2>5. ChanTypes'
    BY <1>1, <2>1, <2>4 DEF ChanTypes
  <2>6. /\ state' \in [Elems -> {"RUNNABLE", "BLOCKED", "DEAD"}]
        /\ kid' \in [Elems -> Kthd \union {Boot, NULL}]
    BY <1>1, <1>2, <2>1 DEF LwtTypes, Adopt
  <2> QED
    BY <1>1, <2>2, <2>3, <2>5, <2>6 DEF LwtTypes, links, fields
<1> QED
  BY <1>3, <1>4

LEMMA BornTypes ==
    ASSUME LwtTypes, NEW c \in Elems, c \notin Lwts \/ pc[c] # "new", NEW ls, NEW f \in {"DEFAULT", "NOJOIN"},
           NEW function \in Kthd \union {NULL}, Born(born + 1, c, ls, f, function)
    PROVE  /\ born + 1 \in Lwts /\ born' \in 0..MaxLwt
           /\ flag' \in [Lwts -> {"DEFAULT", "NOJOIN"}]
           /\ kid' \in [Elems -> Kthd \union {Boot, NULL}]
           /\ fn' \in [Lwts -> Kthd \union {NULL}]
<1>1. born + 1 \in Lwts /\ born' = born + 1
  BY DEF Born
<1>2. born + 1 \in 0..MaxLwt
  BY <1>1, KthdAssumption DEF Lwts, LwtTypes
<1>3. kid[c] \in Kthd \union {Boot, NULL}
  BY DEF LwtTypes
<1> QED
  BY <1>1, <1>2, <1>3 DEF LwtTypes, Born

LEMMA TypeStep == ASSUME Careful PROVE KInv /\ Next => TypeOK'
<1> USE DEF Places
<1>1. SUFFICES ASSUME KInv, Next PROVE PlaceTypes' /\ LwtTypes' /\ ChanTypes'
  BY LinkageStep DEF Linkage, Rings, TypeOK, PlaceTypes, LwtTypes, ChanTypes, Lists, Once
<1>0. PlaceTypes /\ LwtTypes /\ ChanTypes /\ TypeOK
  BY <1>1, TypeParts DEF KInv
<1> DEFINE Goal == PlaceTypes' /\ LwtTypes' /\ ChanTypes'
<1>2. ASSUME NEW k \in Kthd, lwt_kthd_create(k) PROVE Goal
  <2>1. runq' \in Seq(Kthd) /\ Once(runq')
    BY <1>0, <1>2, QueueGrows DEF lwt_kthd_create
  <2> QED
    BY <1>0, <1>2, <2>1 DEF lwt_kthd_create, PlaceTypes, LwtTypes, ChanTypes, Once,
                            links, fields, chans, waits
<1>3. CASE StartLoop
  <2>1. Head(runq) \in Kthd
    <3>1. Cardinality(Kthd) # 0
      BY FS_EmptySet, KthdAssumption
    <3>2. runq # <<>>
      BY <1>3, <3>1 DEF StartLoop
    <3> QED
      BY <1>0, <3>2, TailFacts DEF PlaceTypes
  <2> QED
    BY <1>0, <1>3, <2>1 DEF StartLoop, PlaceTypes, LwtTypes, ChanTypes, Once, Elems,
                            links, fields, chans, waits
<1>4. CASE Scan
  <2>1. ps_list_next(list, current_thread) \in Elems
    BY <1>0 DEF PlaceTypes, TypeOK, ps_list_next
  <2> QED
    BY <1>0, <1>4, <2>1 DEF Scan, Goto, PlaceTypes, LwtTypes, ChanTypes, Once,
                            links, fields, chans, waits
<1>5. ASSUME NEW k \in Kthd, KthdStart(k) PROVE Goal
  <2>1. k \in Elems /\ k \notin Lwts
    BY Sorts
  <2>2. /\ born + 1 \in Lwts /\ born' \in 0..MaxLwt
        /\ flag' \in [Lwts -> {"DEFAULT", "NOJOIN"}]
        /\ kid' \in [Elems -> Kthd \union {Boot, NULL}]
        /\ fn' \in [Lwts -> Kthd \union {NULL}]
    BY <1>0, <1>5, <2>1, BornTypes DEF KthdStart
  <2> QED
    <3>1. pc' \in [Elems -> Places]
      BY <1>0, <1>5 DEF KthdStart, LwtTypes
    <3>2. PlaceTypes'
      BY <1>0, <1>5, <2>1 DEF KthdStart, PlaceTypes, Once
    <3> QED
      BY <1>0, <1>5, <2>2, <3>1, <3>2 DEF KthdStart, LwtTypes, ChanTypes, links, chans, waits
<1>6. ASSUME NEW k \in Kthd, KthdLoop(k) PROVE Goal
  BY <1>0, <1>6, Sorts DEF KthdLoop, Goto, PlaceTypes, LwtTypes, ChanTypes, Once,
                           links, fields, chans, waits
<1>7. ASSUME NEW k \in Kthd, KthdCount(k) PROVE Goal
  <2>1. on = k /\ runq # <<>> /\ k = Head(runq)
    BY <1>1, <1>7, RunningMain DEF KthdCount
  <2>2. runq' \in Seq(Kthd) /\ Once(runq')
    BY <1>0, <1>7, <2>1, QueueTurns DEF KthdCount, GiveWay
  <2>3. on' \in Elems \union {NULL}
    <3>1. on' = IF runq' = <<>> THEN NULL ELSE Head(runq')
      BY <1>7 DEF KthdCount, GiveWay
    <3>2. runq' # <<>> => Head(runq') \in Kthd
      BY <2>2, TailFacts
    <3> QED
      BY <3>1, <3>2, Sorts
  <2> QED
    BY <1>0, <1>7, <2>2, <2>3 DEF KthdCount, GiveWay, Goto, PlaceTypes, LwtTypes, ChanTypes,
                                  Once, links, fields, chans, waits
<1>8. ASSUME NEW f \in {"DEFAULT", "NOJOIN"}, lwt_create(f) PROVE Goal
  <2>1. current_thread \in Elems /\ (current_thread \notin Lwts \/ pc[current_thread] # "new")
    BY <1>1, <1>8, RunningLwt DEF lwt_create, User, At, Linked
  <2>2. /\ born + 1 \in Lwts /\ born' \in 0..MaxLwt
        /\ flag' \in [Lwts -> {"DEFAULT", "NOJOIN"}]
        /\ kid' \in [Elems -> Kthd \union {Boot, NULL}]
        /\ fn' \in [Lwts -> Kthd \union {NULL}]
    BY <1>0, <1>8, <2>1, BornTypes DEF lwt_create
  <2> QED
    <3>1. pc' \in [Elems -> Places]
      BY <1>0, <1>8 DEF lwt_create, LwtTypes
    <3>2. PlaceTypes'
      BY <1>0, <1>8 DEF lwt_create, PlaceTypes, Once, place
    <3> QED
      BY <1>0, <1>8, <2>2, <3>1, <3>2 DEF lwt_create, LwtTypes, ChanTypes, links, chans, waits
<1>9. CASE lwt_yield
  BY <1>0, <1>9 DEF lwt_yield, lwt_schedule, PlaceTypes, LwtTypes, ChanTypes, Once,
                    links, fields, chans, waits
<1>10. CASE DieJoinable
  BY <1>0, <1>10, Sorts DEF DieJoinable, User, Goto, lwt_schedule, PlaceTypes, LwtTypes,
                    ChanTypes, Once, links, fields, chans, waits
<1>11. CASE DieDetached
  BY <1>0, <1>11, Sorts DEF DieDetached, User, Goto, PlaceTypes, LwtTypes,
                    ChanTypes, Once, links, fields, chans, waits
<1>12. CASE JoinResume
  BY <1>0, <1>12, Sorts DEF JoinResume, Reap, PlaceTypes, LwtTypes,
                    ChanTypes, Once, place, links, fields, chans, waits
<1>13. ASSUME NEW t \in Lwts, JoinDead(t) \/ JoinWait(t) PROVE Goal
  <2>1. on \in Lwts /\ on = current_thread /\ t \in Elems /\ on \in Elems
    BY <1>1, <1>13, RunningLwt, Sorts DEF JoinDead, JoinWait, MayJoin, User, At
  <2>2. /\ joiningto' \in [Lwts -> Lwts \union {NULL}]
        /\ joinedfrom' \in [Lwts -> Lwts \union {NULL}]
    BY <1>0, <1>13, <2>1 DEF JoinDead, JoinWait, Relate, LwtTypes
  <2>3. CASE JoinDead(t)
    <3>1. /\ pc' = [pc EXCEPT ![t] = "gone", ![on] = "user"] /\ nRunnable' = nRunnable - 1
          /\ UNCHANGED <<place, state, kid, fields, chans, waits>>
      BY <2>3 DEF JoinDead, Reap
    <3>2. pc' \in [Elems -> Places]
      BY <1>0, <2>1, <3>1 DEF LwtTypes
    <3>3. PlaceTypes'
      BY <1>0, <3>1 DEF PlaceTypes, Once, place
    <3> QED
      BY <1>0, <2>2, <3>1, <3>2, <3>3 DEF LwtTypes, ChanTypes, fields, chans, waits
  <2>4. CASE JoinWait(t)
    BY <1>0, <2>1, <2>2, <2>4 DEF JoinWait, Goto, PlaceTypes, LwtTypes,
                    ChanTypes, Once, fields, chans, waits
  <2> QED
    BY <1>13, <2>3, <2>4
<1>14. CASE lwt_cgrp_wait
  <2>1. /\ pc' = [pc EXCEPT ![on] = "grp"] /\ scanning' \in BOOLEAN
        /\ UNCHANGED <<runq, on, current_thread>>
    BY <1>14 DEF lwt_cgrp_wait, Goto, lwt_schedule
  <2>2. UNCHANGED <<nRunnable, list, state, kid, links, fields, chans, waits>>
    BY <1>14 DEF lwt_cgrp_wait
  <2>3. PlaceTypes'
    BY <1>0, <2>1, <2>2 DEF PlaceTypes, Once
  <2> QED
    BY <1>0, <2>1, <2>2, <2>3 DEF LwtTypes, ChanTypes, links, fields, chans, waits
<1>15. CASE GrpResume
  BY <1>0, <1>15, Sorts DEF GrpResume, Goto, lwt_schedule, PlaceTypes, LwtTypes,
                    ChanTypes, Once, place, links, fields, chans, waits
<1>16. ASSUME NEW c \in Chan, lwt_chan(c) PROVE Goal
  <2>1. current_thread \in Lwts \union {Boot}
    BY <1>1, <1>16, RunningLwt, RunningBoot DEF lwt_chan, User, At
  <2> QED
    BY <1>0, <1>16, <2>1 DEF lwt_chan, PlaceTypes, LwtTypes, ChanTypes, Once,
                             place, links, fields, waits
<1>17. ASSUME NEW c \in Chan, lwt_snd(c) PROVE Goal
  <2>1. on \in Lwts /\ ~scanning /\ Send(c, Data) /\ nRunnable' = nRunnable /\ rcv_thd' = rcv_thd
    BY <1>17 DEF lwt_snd, MaySend, User, At
  <2>2. PlaceTypes' /\ pc' \in [Elems -> Places] /\ ChanTypes'
    BY <1>1, <2>1, SendTypes
  <2> QED
    BY <1>0, <1>17, <2>2 DEF lwt_snd, LwtTypes, links, fields
<1>18. ASSUME NEW c \in Chan, NEW t \in Lwts, lwt_snd_thd(c, t) PROVE Goal
  <2>1. on \in Lwts /\ ~scanning /\ Send(c, t) /\ nRunnable' = nRunnable /\ rcv_thd' = rcv_thd
    BY <1>18 DEF lwt_snd_thd, MaySend, User, At
  <2>2. PlaceTypes' /\ pc' \in [Elems -> Places] /\ ChanTypes'
    BY <1>1, <2>1, SendTypes
  <2> QED
    BY <1>0, <1>18, <2>2 DEF lwt_snd_thd, LwtTypes, links, fields
<1>19. CASE SndResume
  <2>1. on \in Lwts /\ ~scanning /\ pc[on] = "snd" /\ Send(at[on], load[on])
        /\ nRunnable' = nRunnable /\ rcv_thd' = rcv_thd
    BY <1>19 DEF SndResume, At
  <2>2. at[on] \in Chan /\ load[on] \in Lwts \union {Data}
    BY <1>0, <1>1, <2>1 DEF KInv, Calls, ChanTypes
  <2>3. PlaceTypes' /\ pc' \in [Elems -> Places] /\ ChanTypes'
    BY <1>1, <2>1, <2>2, SendTypes
  <2> QED
    BY <1>0, <1>19, <2>3 DEF SndResume, LwtTypes, links, fields
<1>20. ASSUME NEW c \in Chan, lwt_rcv(c) PROVE Goal
  BY <1>1, <1>20, ReceiveTypes DEF lwt_rcv, User, At
<1>21. CASE RcvResume
  <2>1. on \in Lwts /\ ~scanning /\ pc[on] = "rcv" /\ Receive(at[on])
    BY <1>21 DEF RcvResume, At
  <2>2. at[on] \in Chan
    BY <1>1, <2>1 DEF KInv, Calls
  <2> QED
    BY <1>1, <1>21, <2>1, <2>2, ReceiveTypes DEF RcvResume
<1> QED
  BY <1>1, <1>2, <1>3, <1>4, <1>5, <1>6, <1>7, <1>8, <1>9, <1>10, <1>11, <1>12, <1>13,
     <1>14, <1>15, <1>16, <1>17, <1>18, <1>19, <1>20, <1>21
  DEF Next, KthdStep, LwtStep, ChanStep

----------------------------------------------------------------------------
(* The other parts of the invariant.                                      *)

\* A step of an lwt that only goes somewhere, and may change the states of
\* other lwts, not to DEAD.
\* Where Goto leads.
LEMMA GotoAt ==
    ASSUME TypeOK, on \in Elems, NEW p, Goto(p)
    PROVE  pc'[on] = p /\ \A e \in Elems : e # on => pc'[e] = pc[e]
<1>1. pc \in [Elems -> Places] /\ pc' = [pc EXCEPT ![on] = p]
  BY DEF TypeOK, Goto
<1> QED
  BY <1>1

LEMMA KindsGoto ==
    ASSUME KInv, on \in Lwts, ~scanning, born' = born,
           \A e \in Elems : e # on => pc'[e] = pc[e],
           \/ pc'[on] = pc[on]
           \/ pc'[on] \in {"user", "join", "dead", "dying", "snd", "rcv", "grp"},
           \A e \in Elems : e \notin Lwts => state'[e] = state[e] /\ kid'[e] = kid[e],
           \A l \in Lwts : kid'[l] = kid[l] \/ kid'[l] \in Kthd,
           \A l \in Lwts : state'[l] = "DEAD" =>
                   (state[l] = "DEAD" /\ l # on) \/ (l = on /\ pc'[l] = "dead")
    PROVE  Kinds'
<1>1. on \in Elems /\ Linked(on) /\ Kinds /\ pc \in [Elems -> Places]
  BY RunningLwt DEF KInv, TypeOK
<1>3. \A k \in Kthd : /\ kid'[k] = k /\ state'[k] = "RUNNABLE"
                      /\ pc'[k] \in {"new", "loop", "count"}
  BY <1>1, Sorts DEF Kinds
<1>4. kid'[Boot] = Boot /\ state'[Boot] = "RUNNABLE" /\ pc'[Boot] = "boot"
  BY <1>1, Sorts DEF Kinds
<1>5. ASSUME NEW l \in Lwts
      PROVE  /\ pc'[l] \notin {"boot", "loop", "count"}
             /\ Linked(l)' => kid'[l] \in Kthd
             /\ pc'[l] = "new" <=> l > born'
             /\ state'[l] = "DEAD" => pc'[l] \in {"dead", "gone"}
  <2>1. CASE l = on
    BY <1>1, <2>1 DEF Kinds, Linked
  <2>2. CASE l # on
    BY <1>1, <2>2, Sorts DEF Kinds, Linked
  <2> QED
    BY <2>1, <2>2
<1> QED
  BY <1>3, <1>4, <1>5 DEF Kinds

LEMMA KindsStep == ASSUME Careful PROVE KInv /\ Next => Kinds'
<1>1. SUFFICES ASSUME KInv, Next PROVE Kinds'
  OBVIOUS
<1>0. Kinds /\ TypeOK
  BY <1>1 DEF KInv
<1>a. /\ pc \in [Elems -> Places] /\ born \in 0..MaxLwt
      /\ state \in [Elems -> {"RUNNABLE", "BLOCKED", "DEAD"}]
      /\ kid \in [Elems -> Kthd \union {Boot, NULL}]
  BY <1>0 DEF TypeOK
<1>2. CASE (\E k \in Kthd : lwt_kthd_create(k)) \/ StartLoop \/ \E c \in Chan : lwt_chan(c)
  BY <1>0, <1>2 DEF lwt_kthd_create, StartLoop, lwt_chan, Kinds, Linked, fields
<1>3. CASE Scan
  <2>1. CASE pc[on] = "dying"
    <3>1. on \in Lwts
      BY <1>0, <1>1, <1>3, <2>1, Sorts DEF KInv, Kinds, Scan, TypeOK, Home
    <3>2. pc' = pc \/ pc' = [pc EXCEPT ![on] = "gone"]
      BY <1>3 DEF Scan, Goto
    <3>3. UNCHANGED <<state, kid, born>>
      BY <1>3 DEF Scan, fields
    <3>4. \A e \in Elems : pc'[e] = pc[e] \/ (e \in Lwts /\ pc[e] = "dying" /\ pc'[e] = "gone")
      BY <1>a, <2>1, <3>1, <3>2
    <3>5. ASSUME NEW l \in Lwts
          PROVE  /\ pc'[l] \notin {"boot", "loop", "count"}
                 /\ Linked(l)' => kid'[l] \in Kthd
                 /\ pc'[l] = "new" <=> l > born'
                 /\ state'[l] = "DEAD" => pc'[l] \in {"dead", "gone"}
      BY <1>0, <3>3, <3>4, Sorts DEF Kinds, Linked
    <3> QED
      <4>1. \A e \in Elems : e \notin Lwts => pc'[e] = pc[e] /\ state'[e] = state[e] /\ kid'[e] = kid[e]
        BY <3>3, <3>4
      <4>2. /\ \A k \in Kthd : /\ kid'[k] = k /\ state'[k] = "RUNNABLE"
                                /\ pc'[k] \in {"new", "loop", "count"}
            /\ kid'[Boot] = Boot /\ state'[Boot] = "RUNNABLE" /\ pc'[Boot] = "boot"
        BY <1>0, <4>1, Sorts DEF Kinds
      <4> QED
        BY <3>5, <4>2 DEF Kinds, Linked
  <2>2. CASE pc[on] # "dying"
    <3>1. pc' = pc /\ UNCHANGED <<state, kid, born>>
      BY <1>3, <2>2 DEF Scan, fields
    <3> QED
      BY <1>0, <3>1 DEF Kinds, Linked
  <2> QED
    BY <2>1, <2>2
<1>4. ASSUME NEW k \in Kthd, KthdStart(k) PROVE Kinds'
  <2>1. born + 1 \in Lwts /\ born' = born + 1 /\ kid' = [kid EXCEPT ![born + 1] = kid[k]]
    BY <1>4 DEF KthdStart, Born
  <2>2. pc' = [pc EXCEPT ![k] = "loop", ![born + 1] = "user"] /\ state' = state
    BY <1>4 DEF KthdStart
  <2>3. \A l \in Lwts : l # born + 1 => (l > born <=> l > born + 1)
    BY <1>a DEF Lwts
  <2>4. pc[born + 1] = "new" /\ state[born + 1] # "DEAD" /\ kid[k] = k
    BY <1>0, <1>a, <2>1 DEF Kinds, Lwts
  <2>5. ~(born + 1 > born + 1)
    BY <2>1 DEF Lwts
  <2> QED
    BY <1>0, <1>a, <2>1, <2>2, <2>3, <2>4, <2>5, Sorts DEF Kinds, Linked
<1>5. ASSUME NEW k \in Kthd, KthdLoop(k) \/ KthdCount(k) PROVE Kinds'
  <2>1. /\ pc' = [pc EXCEPT ![k] = "count"] \/ pc' = [pc EXCEPT ![k] = "loop"]
        /\ UNCHANGED <<state, kid, born>>
    BY <1>5 DEF KthdLoop, KthdCount, GiveWay, Goto, fields
  <2> QED
    BY <1>0, <1>a, <2>1, <1>5, Sorts DEF Kinds, Linked
<1>6. ASSUME NEW f \in {"DEFAULT", "NOJOIN"}, lwt_create(f) PROVE Kinds'
  <2>1. /\ born + 1 \in Lwts /\ born' = born + 1
        /\ kid' = [kid EXCEPT ![born + 1] = kid[current_thread]]
    BY <1>6 DEF lwt_create, Born
  <2>2. pc' = [pc EXCEPT ![born + 1] = "user"] /\ state' = state
    BY <1>6 DEF lwt_create
  <2>3. \A l \in Lwts : l # born + 1 => (l > born <=> l > born + 1)
    BY <1>a DEF Lwts
  <2>4. pc[born + 1] = "new" /\ state[born + 1] # "DEAD" /\ kid[current_thread] \in Kthd
    BY <1>0, <1>1, <1>6, <1>a, <2>1, RunningLwt DEF Kinds, Lwts, lwt_create, User, At
  <2>5. ~(born + 1 > born + 1)
    BY <2>1 DEF Lwts
  <2> QED
    BY <1>0, <1>a, <2>1, <2>2, <2>3, <2>4, <2>5, Sorts DEF Kinds, Linked
<1>7. CASE lwt_yield \/ lwt_cgrp_wait \/ GrpResume
  <2>1. /\ on \in Lwts /\ ~scanning /\ UNCHANGED <<state, kid, born>>
        /\ pc' = pc \/ Goto("grp") \/ Goto("user")
    BY <1>7 DEF lwt_yield, lwt_cgrp_wait, GrpResume, User, At, fields
  <2>2. \A l \in Lwts : state[l] = "DEAD" => l # on
    BY <1>1, <2>1, RunningLwt
  <2> QED
    BY <1>0, <1>1, <2>1, <2>2, KindsGoto, GotoAt, Sorts
<1>8. CASE DieJoinable \/ DieDetached
  <2>1. /\ on \in Lwts /\ on = current_thread /\ ~scanning /\ state[on] = "RUNNABLE"
        /\ UNCHANGED <<kid, born>>
    BY <1>1, <1>8, RunningLwt DEF DieJoinable, DieDetached, User, At, fields
  <2>2. CASE DieDetached
    BY <1>0, <1>1, <2>1, <2>2, KindsGoto, GotoAt, Sorts DEF DieDetached
  <2>3. CASE DieJoinable
    <3>1. joinedfrom[on] \in Lwts \union {NULL}
      BY <1>0, <2>1 DEF TypeOK
    <3>2. \A e \in Elems : state'[e] = IF e = joinedfrom[on] THEN "RUNNABLE"
                                       ELSE IF e = on THEN "DEAD" ELSE state[e]
      BY <2>1, <2>3 DEF DieJoinable
    <3>3. \A e \in Elems : e \notin Lwts => state'[e] = state[e]
      BY <3>1, <3>2, <2>1, Sorts
    <3>4. pc'[on] = "dead" /\ Goto("dead")
      BY <1>0, <2>1, <2>3, Sorts, GotoAt DEF DieJoinable
    <3> QED
      BY <1>0, <1>1, <2>1, <3>2, <3>3, <3>4, Sorts, KindsGoto, GotoAt
  <2> QED
    BY <1>8, <2>2, <2>3
<1>9. CASE JoinResume \/ \E t \in Lwts : JoinDead(t)
  <2>1. PICK t \in Lwts : Reap(t) /\ t # on /\ state[t] = "DEAD" /\ on \in Lwts /\ ~scanning
    <3>1. CASE JoinResume
      <4>1. on \in Lwts /\ ~scanning /\ pc[on] = "join" /\ state[on] = "RUNNABLE"
        BY <1>1, <3>1, RunningLwt DEF JoinResume, At
      <4>2. /\ joiningto[on] \in Lwts /\ joiningto[on] # on
            /\ state[joiningto[on]] = "DEAD"
        BY <1>1, <4>1 DEF KInv, Joins, Waiting
      <4> QED
        BY <3>1, <4>1, <4>2 DEF JoinResume
    <3>2. ASSUME NEW t \in Lwts, JoinDead(t)
          PROVE  Reap(t) /\ t # on /\ state[t] = "DEAD" /\ on \in Lwts /\ ~scanning
      BY <1>1, <3>2, RunningLwt DEF JoinDead, MayJoin, User, At
    <3> QED
      BY <1>9, <3>1, <3>2
  <2>2. pc' = [pc EXCEPT ![t] = "gone", ![on] = "user"] /\ UNCHANGED <<state, kid, born>>
    BY <1>9, <2>1 DEF JoinResume, JoinDead, Reap, fields
  <2>3. pc[t] # "new" /\ pc[on] # "new" /\ state[on] # "DEAD" /\ kid[on] \in Kthd
    BY <1>0, <1>1, <2>1, RunningLwt DEF Kinds, Linked
  <2> QED
    BY <1>0, <1>a, <2>1, <2>2, <2>3, Sorts DEF Kinds, Linked
<1>10. ASSUME NEW t \in Lwts, JoinWait(t) PROVE Kinds'
  <2>1. /\ on \in Lwts /\ on = current_thread /\ ~scanning /\ state[on] = "RUNNABLE"
        /\ UNCHANGED <<kid, born>> /\ Goto("join")
        /\ state' = [state EXCEPT ![on] = "BLOCKED"]
    BY <1>1, <1>10, RunningLwt DEF JoinWait, MayJoin, User, At, fields
  <2>2. \A e \in Elems : state'[e] = IF e = on THEN "BLOCKED" ELSE state[e]
    BY <1>a, <2>1
  <2> QED
    BY <1>0, <1>1, <2>1, <2>2, KindsGoto, GotoAt, Sorts
<1>11. ASSUME NEW c, NEW t, lwt_snd(c) \/ (lwt_snd_thd(c, t) /\ t \in Lwts) \/ SndResume
       PROVE  Kinds'
  <2>1. /\ on \in Lwts /\ ~scanning /\ UNCHANGED <<kid, born>>
        /\ Goto("snd") \/ Goto("user")
    BY <1>11 DEF lwt_snd, lwt_snd_thd, SndResume, MaySend, User, At, fields, Send
  <2>2. state' = state \/ (t \in Lwts /\ state' = [state EXCEPT ![t] = "BLOCKED"])
    BY <1>11 DEF lwt_snd, lwt_snd_thd, SndResume
  <2>3. \A e \in Elems : state'[e] = state[e] \/ (e \in Lwts /\ state'[e] = "BLOCKED")
    BY <1>a, <2>2
  <2>4. state[on] = "RUNNABLE"
    BY <1>1, <2>1, RunningLwt
  <2>5. \A l \in Lwts : state'[l] = "DEAD" => state[l] = "DEAD" /\ l # on
    BY <2>3, <2>4, Sorts
  <2> QED
    BY <1>0, <1>1, <2>1, <2>3, <2>5, KindsGoto, GotoAt, Sorts
<1>12. ASSUME NEW c \in Chan, on \in Lwts, ~scanning, Receive(c), born' = born PROVE Kinds'
  <2>1. (Goto("rcv") \/ Goto("user")) /\ on = current_thread /\ kid[on] \in Kthd
        /\ state[on] = "RUNNABLE"
    BY <1>0, <1>1, <1>12, RunningLwt DEF Receive
  <2>2. CASE queue[c] = <<>> \/ c \notin ThdChan
    <3>1. UNCHANGED <<state, kid>>
      BY <1>12, <2>2 DEF Receive
    <3>2. \A l \in Lwts : state[l] = "DEAD" => l # on
      BY <2>1
    <3> QED
      BY <1>0, <1>1, <1>12, <2>1, <3>1, <3>2, KindsGoto, GotoAt, Sorts
  <2>3. CASE queue[c] # <<>> /\ c \in ThdChan
    <3>1. queue[c] \in Seq(Lwts)
      BY <1>1, <2>3 DEF KInv, Calls
    <3>2. PICK t \in Lwts : Adopt(t)
      BY <1>12, <2>3, <3>1, TailFacts DEF Receive
    <3>3. /\ kid' = [kid EXCEPT ![t] = kid[on]] /\ state' = [state EXCEPT ![t] = "RUNNABLE"]
      BY <2>1, <3>2 DEF Adopt
    <3>4. \A e \in Elems : /\ e # t => kid'[e] = kid[e] /\ state'[e] = state[e]
                           /\ e = t => kid'[e] = kid[on] /\ state'[e] = "RUNNABLE"
      BY <1>a, <3>3
    <3>5. \A l \in Lwts : state'[l] = "DEAD" => state[l] = "DEAD" /\ l # on
      BY <2>1, <3>4, Sorts
    <3>6. \A e \in Elems : e \notin Lwts => state'[e] = state[e] /\ kid'[e] = kid[e]
      BY <3>2, <3>4
    <3>7. \A l \in Lwts : kid'[l] = kid[l] \/ kid'[l] \in Kthd
      BY <2>1, <3>4, Sorts
    <3> QED
      BY <1>0, <1>1, <1>12, <2>1, <3>5, <3>6, <3>7, KindsGoto, GotoAt, Sorts
  <2> QED
    BY <2>2, <2>3
<1>13. ASSUME NEW c \in Chan, lwt_rcv(c) PROVE Kinds'
  BY <1>12, <1>13 DEF lwt_rcv, User, At, fields
<1>14. CASE RcvResume
  <2>1. on \in Lwts /\ ~scanning /\ pc[on] = "rcv" /\ Receive(at[on]) /\ born' = born
    BY <1>14 DEF RcvResume, At, fields
  <2>2. at[on] \in Chan
    BY <1>1, <2>1 DEF KInv, Calls
  <2> QED
    BY <1>12, <2>1, <2>2
<1> QED
  BY <1>1, <1>2, <1>3, <1>4, <1>5, <1>6, <1>7, <1>8, <1>9, <1>10, <1>11, <1>13, <1>14
  DEF Next, KthdStep, LwtStep, ChanStep

\* The counter stays above 0, so that every lwt that waits looks for another.
LEMMA UnjoinedFinite ==
    /\ IsFiniteSet(Unjoined) /\ Cardinality(Unjoined) \in Nat
<1>1. IsFiniteSet(Lwts)
  BY FS_Interval, KthdAssumption DEF Lwts
<1>2. IsFiniteSet(Unjoined)
  BY <1>1, FS_Subset DEF Unjoined
<1> QED
  BY <1>2, FS_CardinalityType

LEMMA AlwaysRunnable ==
    ASSUME KInv
    PROVE  nRunnable # 0 /\ (lwt_schedule => scanning' = TRUE)
<1>1. nRunnable \in Int /\ nRunnable > Cardinality(Unjoined)
  BY DEF KInv, Counted, TypeOK
<1>2. nRunnable # 0
  BY <1>1, UnjoinedFinite
<1> QED
  BY <1>2 DEF lwt_schedule

LEMMA CountedStep == ASSUME Careful PROVE KInv /\ Next => Counted'
<1>1. SUFFICES ASSUME KInv, Next PROVE Counted'
  OBVIOUS
<1>0. /\ Counted /\ pc \in [Elems -> Places] /\ nRunnable \in Int
      /\ joinedfrom \in [Lwts -> Lwts \union {NULL}]
  BY <1>1 DEF KInv, TypeOK
<1>2. ASSUME joinedfrom' = joinedfrom, nRunnable' = nRunnable,
             \A l \in Lwts : pc'[l] = "new" <=> pc[l] = "new"
      PROVE  Counted'
  <2>1. Unjoined' = Unjoined
    BY <1>2 DEF Unjoined
  <2> QED
    BY <1>0, <1>2, <2>1 DEF Counted
<1>3. ASSUME NEW c, NEW ls, NEW f, NEW function,
             Born(born + 1, c, ls, f, function), joinedfrom' = joinedfrom,
             \A l \in Lwts : pc'[l] = IF l = born + 1 THEN "user" ELSE pc[l],
             nRunnable' = nRunnable + 1 \/ nRunnable' = nRunnable + 2
      PROVE  Counted'
  <2>1. born + 1 \in Lwts
    BY <1>3 DEF Born
  <2>2. pc[born + 1] = "new" /\ joinedfrom[born + 1] = NULL
    BY <1>0, <1>1, <2>1 DEF KInv, Kinds, TypeOK, Lwts, Counted
  <2>3. Unjoined' = Unjoined \union {born + 1}
    BY <1>3, <2>1, <2>2 DEF Unjoined
  <2>4. born + 1 \notin Unjoined
    BY <2>2 DEF Unjoined
  <2>5. Cardinality(Unjoined') = Cardinality(Unjoined) + 1
    BY <2>3, <2>4, UnjoinedFinite, FS_AddElement
  <2> HIDE DEF Unjoined
  <2>6. nRunnable' > Cardinality(Unjoined')
    BY <1>0, <1>3, <2>5, UnjoinedFinite DEF Counted
  <2> QED
    BY <1>0, <1>3, <2>6 DEF Counted
<1>4. ASSUME NEW t \in Lwts, MayJoin(t), Relate(t), nRunnable' = nRunnable - 1,
             \A l \in Lwts : pc'[l] = "new" <=> pc[l] = "new"
      PROVE  Counted'
  <2>1. /\ joinedfrom' = [joinedfrom EXCEPT ![t] = current_thread] /\ current_thread # NULL
        /\ pc[t] # "new" /\ joinedfrom[t] = NULL
    BY <1>1, <1>4, RunningLwt, Sorts DEF MayJoin, Relate, User, At, Linked
  <2>2. Unjoined' = Unjoined \ {t} /\ t \in Unjoined
    BY <1>0, <1>4, <2>1 DEF Unjoined
  <2>3. Cardinality(Unjoined') = Cardinality(Unjoined) - 1
    BY <2>2, UnjoinedFinite, FS_RemoveElement
  <2>4. nRunnable' > Cardinality(Unjoined')
    BY <1>0, <1>4, <2>3, UnjoinedFinite DEF Counted
  <2>5. \A l \in Lwts : pc'[l] = "new" => joinedfrom'[l] = NULL
    BY <1>0, <1>4, <2>1 DEF Counted
  <2> QED
    BY <2>4, <2>5 DEF Counted
<1>5. ASSUME Linked(on), on \in Elems, NEW p, p # "new", pc' = pc \/ Goto(p)
      PROVE  \A l \in Lwts : pc'[l] = "new" <=> pc[l] = "new"
  BY <1>0, <1>5, Sorts DEF Goto, Linked
<1>6. ASSUME on \in Lwts, ~scanning, NEW p, p # "new", pc' = pc \/ Goto(p)
      PROVE  \A l \in Lwts : pc'[l] = "new" <=> pc[l] = "new"
  BY <1>1, <1>5, <1>6, RunningLwt
<1>7. CASE (\E k \in Kthd : lwt_kthd_create(k)) \/ StartLoop \/ \E c \in Chan : lwt_chan(c)
  BY <1>2, <1>7 DEF lwt_kthd_create, StartLoop, lwt_chan, links
<1>8. CASE Scan
  <2>1. joinedfrom' = joinedfrom /\ nRunnable' = nRunnable /\ (pc' = pc \/ Goto("gone"))
    BY <1>8 DEF Scan, links
  <2>2. scanning /\ Linked(on) /\ on # NULL /\ on \in Elems
    BY <1>1, <1>8 DEF KInv, Home, Scan, TypeOK
  <2> QED
    BY <1>2, <1>5, <2>1, <2>2
<1>9. ASSUME NEW k \in Kthd, KthdStart(k) PROVE Counted'
  <2>1. born + 1 \in Lwts
    BY <1>9 DEF KthdStart, Born
  <2> QED
    BY <1>0, <1>3, <1>9, <2>1, Sorts DEF KthdStart, links
<1>10. ASSUME NEW k \in Kthd, KthdLoop(k) \/ KthdCount(k) PROVE Counted'
  <2>1. /\ joinedfrom' = joinedfrom /\ nRunnable' = nRunnable /\ on = k
        /\ Goto("loop") \/ Goto("count")
    BY <1>10 DEF KthdLoop, KthdCount, GiveWay, links
  <2> QED
    BY <1>0, <1>2, <2>1, Sorts DEF Goto
<1>11. ASSUME NEW f \in {"DEFAULT", "NOJOIN"}, lwt_create(f) PROVE Counted'
  <2>1. born + 1 \in Lwts
    BY <1>11 DEF lwt_create, Born
  <2> QED
    BY <1>0, <1>3, <1>11, <2>1, Sorts DEF lwt_create, links
<1>12. CASE \/ lwt_yield \/ lwt_cgrp_wait \/ GrpResume \/ DieJoinable \/ DieDetached
            \/ SndResume \/ RcvResume
            \/ \E c \in Chan : lwt_snd(c) \/ lwt_rcv(c)
            \/ \E c \in Chan, t \in Lwts : lwt_snd_thd(c, t)
  <2>1. on \in Lwts /\ ~scanning /\ joinedfrom' = joinedfrom /\ nRunnable' = nRunnable
    BY <1>12 DEF lwt_yield, lwt_cgrp_wait, GrpResume, DieJoinable, DieDetached, SndResume,
                 RcvResume, lwt_snd, lwt_rcv, lwt_snd_thd, MaySend, User, At, links
  <2>2. PICK p \in {"user", "snd", "rcv", "grp", "dead", "dying"} : pc' = pc \/ Goto(p)
    BY <1>12 DEF lwt_yield, lwt_cgrp_wait, GrpResume, DieJoinable, DieDetached, SndResume,
                 RcvResume, lwt_snd, lwt_rcv, lwt_snd_thd, Send, Receive
  <2> QED
    BY <1>2, <1>6, <2>1, <2>2
<1>13. CASE JoinResume
  <2>1. /\ on \in Lwts /\ ~scanning /\ pc[on] = "join" /\ state[on] = "RUNNABLE"
        /\ joinedfrom' = joinedfrom /\ nRunnable' = nRunnable
        /\ pc' = [pc EXCEPT ![joiningto[on]] = "gone", ![on] = "user"]
    BY <1>1, <1>13, RunningLwt DEF JoinResume, At, Reap, links
  <2>2. joiningto[on] \in Lwts /\ state[joiningto[on]] = "DEAD"
    BY <1>1, <2>1 DEF KInv, Joins, Waiting
  <2>3. pc[joiningto[on]] # "new"
    BY <1>1, <2>2 DEF KInv, Kinds
  <2> QED
    BY <1>0, <1>2, <2>1, <2>2, <2>3, Sorts
<1>14. ASSUME NEW t \in Lwts, JoinDead(t) \/ JoinWait(t) PROVE Counted'
  <2>1. /\ MayJoin(t) /\ Relate(t) /\ nRunnable' = nRunnable - 1 /\ on \in Lwts
        /\ pc[t] # "new" /\ pc[on] # "new"
        /\ \/ pc' = [pc EXCEPT ![t] = "gone", ![on] = "user"]
           \/ pc' = [pc EXCEPT ![on] = "join"]
    BY <1>1, <1>14, RunningLwt DEF JoinDead, JoinWait, Reap, Goto, MayJoin, User, At, Linked
  <2>2. \A l \in Lwts : pc'[l] = "new" <=> pc[l] = "new"
    BY <1>0, <2>1, Sorts
  <2> QED
    BY <1>4, <2>1, <2>2
<1> QED
  BY <1>1, <1>7, <1>8, <1>9, <1>10, <1>11, <1>12, <1>13, <1>14
  DEF Next, KthdStep, LwtStep, ChanStep

\* A step of an lwt that stays on the processor, to go on or to scan.
LEMMA HomeKeeps ==
    ASSUME KInv, Kinds', on \in Lwts, ~scanning, on' = on, current_thread' = current_thread,
           runq' # <<>>, Head(runq') = Head(runq), kid'[on] = kid[on], Linked(on)',
           \A k \in Kthd : pc'[k] = pc[k],
           \/ scanning' = TRUE /\ pc'[on] # "dying"
           \/ scanning' = FALSE /\ state'[on] = "RUNNABLE"
    PROVE  Home'
<1>1. on = current_thread /\ on \in Elems /\ kid[on] = Head(runq)
  BY RunningLwt
<1>2. \A k \in Kthd : pc[k] = "count" => runq # <<>> /\ k = Head(runq)
  BY DEF KInv, Home
<1> QED
  BY <1>1, <1>2, Sorts DEF Home

\* A kthd at the end of its turn.
LEMMA HomeTurn ==
    ASSUME KInv, Kinds', on' = NULL \/ on' \in Kthd, scanning' = FALSE,
           on' \in Kthd => runq' # <<>> /\ on' = Head(runq'),
           \A k \in Kthd : pc'[k] # "count"
    PROVE  Home'
  BY Sorts DEF Home, Kinds

LEMMA SendHome ==
    ASSUME KInv, Kinds', on \in Lwts, ~scanning, NEW c \in Chan, NEW m, Send(c, m),
           UNCHANGED kid, state'[on] = state[on]
    PROVE  Home'
<1>1. /\ on \in Elems /\ Linked(on) /\ on = current_thread /\ state[on] = "RUNNABLE"
      /\ runq # <<>> /\ TypeOK
  BY RunningLwt DEF KInv
<1>2. CASE IsFull(c)
  <2>1. scanning' = TRUE /\ UNCHANGED <<runq, on, current_thread>> /\ Goto("snd")
    BY <1>2, AlwaysRunnable DEF Send, lwt_schedule
  <2>2. pc'[on] = "snd" /\ Linked(on)' /\ \A k \in Kthd : pc'[k] = pc[k]
    BY <1>1, <2>1, GotoAt, Sorts DEF Linked
  <2> QED
    BY <1>1, <2>1, <2>2, HomeKeeps
<1>3. CASE ~IsFull(c)
  <2>1. UNCHANGED <<on, current_thread, scanning>> /\ Goto("user") /\ Wake(c)
    BY <1>3 DEF Send
  <2>2. pc'[on] = "user" /\ Linked(on)' /\ \A k \in Kthd : pc'[k] = pc[k]
    BY <1>1, <2>1, GotoAt, Sorts DEF Linked
  <2>3. runq' # <<>> /\ Head(runq') = Head(runq)
    BY <1>1, <2>1, QueueGrows DEF Wake
  <2>4. scanning' = FALSE
    BY <1>1, <2>1 DEF TypeOK
  <2> QED
    BY <1>1, <2>1, <2>2, <2>3, <2>4, HomeKeeps
<1> QED
  BY <1>2, <1>3

\* A thread that can be received is on its way, and not on.
LEMMA Received ==
    ASSUME KInv, on \in Lwts, ~scanning, NEW c \in Chan, c \in ThdChan, queue[c] # <<>>
    PROVE  LET t == Head(queue[c])
           IN  /\ t \in Lwts /\ t = queue[c][1] /\ 1 \in DOMAIN queue[c]
               /\ Sent(t) /\ Linked(t) /\ state[t] = "BLOCKED" /\ flag[t] = "NOJOIN" /\ t # on
<1>1. queue[c] \in Seq(Lwts)
  BY DEF KInv, Calls
<1> DEFINE t == Head(queue[c])
<1>2. t \in Lwts /\ t = queue[c][1] /\ 1 \in DOMAIN queue[c]
  BY <1>1, TailFacts
<1>3. Sent(t)
  BY <1>2 DEF Sent
<1>4. Linked(t) /\ state[t] = "BLOCKED" /\ flag[t] = "NOJOIN"
  BY <1>2, <1>3 DEF KInv, Transit
<1> QED
  BY <1>2, <1>3, <1>4, RunningLwt

LEMMA ReceiveHome ==
    ASSUME KInv, Kinds', on \in Lwts, ~scanning, NEW c \in Chan, Receive(c)
    PROVE  Home'
<1>1. /\ on \in Elems /\ Linked(on) /\ on = current_thread /\ state[on] = "RUNNABLE"
      /\ runq # <<>> /\ TypeOK
  BY RunningLwt DEF KInv
<1>2. CASE queue[c] = <<>>
  <2>1. scanning' = TRUE /\ UNCHANGED <<runq, on, current_thread, kid>> /\ Goto("rcv")
    BY <1>2, AlwaysRunnable DEF Receive, lwt_schedule
  <2>2. pc'[on] = "rcv" /\ Linked(on)' /\ \A k \in Kthd : pc'[k] = pc[k]
    BY <1>1, <2>1, GotoAt, Sorts DEF Linked
  <2> QED
    BY <1>1, <2>1, <2>2, HomeKeeps
<1>3. CASE queue[c] # <<>>
  <2>1. UNCHANGED <<runq, on, current_thread, scanning>> /\ Goto("user")
    BY <1>3 DEF Receive, place
  <2>2. pc'[on] = "user" /\ Linked(on)' /\ \A k \in Kthd : pc'[k] = pc[k]
    BY <1>1, <2>1, GotoAt, Sorts DEF Linked
  <2>3. kid'[on] = kid[on] /\ state'[on] = state[on]
    <3>1. CASE c \notin ThdChan
      BY <1>3, <3>1 DEF Receive
    <3>2. CASE c \in ThdChan
      <4>1. Adopt(Head(queue[c])) /\ Head(queue[c]) # on
        BY <1>3, <3>2, Received DEF Receive
      <4>2. /\ kid' = [kid EXCEPT ![Head(queue[c])] = kid[current_thread]]
            /\ state' = [state EXCEPT ![Head(queue[c])] = "RUNNABLE"]
        BY <4>1 DEF Adopt
      <4> QED
        BY <1>1, <4>1, <4>2 DEF TypeOK
    <3> QED
      BY <3>1, <3>2
  <2>4. scanning' = FALSE
    BY <1>1, <2>1 DEF TypeOK
  <2> QED
    BY <1>1, <2>1, <2>2, <2>3, <2>4, HomeKeeps
<1> QED
  BY <1>2, <1>3

\* A scan goes on.
LEMMA ScanOn ==
    ASSUME KInv, Scan, state[ps_list_next(list, current_thread)] # "RUNNABLE"
    PROVE  Home'
<1>p. PICK next : next = list.n[current_thread]
  OBVIOUS
<1>1. /\ scanning /\ scanning' = scanning /\ current_thread' = next
      /\ UNCHANGED <<runq, on, list, pc, state, kid, flag>> /\ state[next] # "RUNNABLE"
  BY <1>p DEF Scan, ps_list_next, fields
<1>2. /\ Home /\ Linked(current_thread) /\ current_thread \in Elems /\ on # Boot /\ Linked(on)
      /\ kid[current_thread] = kid[on] /\ TypeOK
  BY <1>1 DEF KInv, Home, TypeOK
<1>3. next \in Elems /\ Linked(next) /\ kid[next] = kid[on]
  BY <1>2, <1>p, Behind
<1>4. pc[on] = "dying" => \E V \in SUBSET Elems : Passed(V)'
  <2>1. SUFFICES ASSUME pc[on] = "dying" PROVE \E V \in SUBSET Elems : Passed(V)'
    OBVIOUS
  <2>2. PICK V \in SUBSET Elems : Passed(V)
    BY <1>1, <1>2, <2>1 DEF Home
  <2>3. Passed(V \union {next})'
    BY <1>1, <1>3, <1>p, <2>2 DEF Passed
  <2>4. V \union {next} \in SUBSET Elems
    BY <1>3
  <2> QED
    BY <2>3, <2>4
<1>6. /\ Linked(on)' /\ Linked(current_thread)' /\ kid'[current_thread'] = kid'[on']
  BY <1>1, <1>2, <1>3 DEF Linked
<1>7. scanning = TRUE
  BY <1>1, <1>2 DEF TypeOK
<1> QED
  BY <1>1, <1>2, <1>4, <1>6, <1>7 DEF Home

\* A scan ends: an lwt that dies detached has met its main lwt before it comes
\* back to itself.
LEMMA ScanEnd ==
    ASSUME KInv, Kinds', Scan, state[ps_list_next(list, current_thread)] = "RUNNABLE"
    PROVE  Home'
<1>p. PICK next : next = list.n[current_thread]
  OBVIOUS
<1>1. /\ scanning /\ scanning' = FALSE /\ current_thread' = next /\ on' = next
      /\ UNCHANGED <<runq, state, kid>> /\ state[next] = "RUNNABLE"
  BY <1>p DEF Scan, ps_list_next
<1>2. /\ Home /\ Linked(current_thread) /\ current_thread \in Elems /\ on # Boot /\ Linked(on)
      /\ kid[current_thread] = kid[on] /\ TypeOK /\ Kinds
  BY <1>1 DEF KInv, Home, TypeOK
<1>3. next \in Elems /\ Linked(next) /\ kid[next] = kid[on]
  BY <1>2, <1>p, Behind
<1>4. on \in Lwts \union Kthd /\ on \in Elems
  BY <1>1, <1>2, Sorts DEF Home, TypeOK
<1>5. kid[on] \in Kthd /\ kid[on] = Head(runq) /\ runq # <<>>
  BY <1>2, <1>4 DEF Home, Kinds
<1>6. next # Boot /\ next # NULL
  BY <1>2, <1>3, <1>5, Sorts DEF Kinds
<1>7. CASE pc[on] = "dying"
  <2>1. PICK V \in SUBSET Elems : Passed(V)
    BY <1>1, <1>2, <1>7 DEF Home
  <2>2. on \in Lwts
    BY <1>2, <1>4, <1>7 DEF Kinds
  <2>3. next # on
    <3>1. SUFFICES ASSUME next = on PROVE FALSE
      OBVIOUS
    <3>2. \A e \in V : list.n[e] \in V
      BY <2>1, <3>1, <1>p DEF Passed
    <3>3. kid[on] \in V
      <4>1. Reaches(list.n, kid, Members, Elems)
        BY DEF KInv, Linkage, Rings
      <4>2. on \in V /\ on \in Members
        BY <1>2, <1>4, <2>1 DEF Passed, Members
      <4> QED
        BY <3>2, <4>1, <4>2 DEF Reaches
    <3>4. kid[on] # on /\ state[kid[on]] = "RUNNABLE"
      BY <1>2, <1>5, <2>2, Sorts DEF Kinds
    <3> QED
      BY <2>1, <3>3, <3>4 DEF Passed
  <2>4. pc' = [pc EXCEPT ![on] = "gone"] /\ pc \in [Elems -> Places]
    BY <1>2, <1>7, <1>p DEF Scan, Goto, ps_list_next, TypeOK
  <2>5. Linked(next)' /\ \A k \in Kthd : pc'[k] = pc[k]
    BY <1>3, <2>2, <2>3, <2>4, Sorts DEF Linked
  <2> QED
    BY <1>1, <1>2, <1>3, <1>5, <1>6, <2>5 DEF Home
<1>8. CASE pc[on] # "dying"
  <2>1. pc' = pc
    BY <1>8 DEF Scan
  <2>2. Linked(next)'
    BY <1>3, <2>1 DEF Linked
  <2> QED
    BY <1>1, <1>2, <1>3, <1>5, <1>6, <2>1, <2>2 DEF Home
<1> QED
  BY <1>7, <1>8

LEMMA HomeStep == ASSUME Careful PROVE KInv /\ Next => Home'
<1>1. SUFFICES ASSUME KInv, Next PROVE Home'
  OBVIOUS
<1>0. Kinds' /\ Home /\ TypeOK /\ Kinds
  BY <1>1, KindsStep DEF KInv
<1>a. pc \in [Elems -> Places] /\ state \in [Elems -> {"RUNNABLE", "BLOCKED", "DEAD"}]
  BY <1>0 DEF TypeOK
<1>2. CASE (\E k \in Kthd : lwt_kthd_create(k)) \/ \E c \in Chan : At("boot") /\ lwt_chan(c)
  <2>1. on = Boot
    BY <1>1, <1>2, RunningBoot DEF lwt_kthd_create
  <2>2. UNCHANGED <<on, current_thread, scanning, pc>>
    BY <1>2 DEF lwt_kthd_create, lwt_chan, place
  <2> QED
    BY <1>0, <2>1, <2>2, Sorts DEF Home
<1>3. CASE StartLoop
  <2>1. on = Boot /\ ~scanning /\ \A k \in Kthd : pc[k] = "new"
    BY <1>0, <1>1, <1>3, RunningBoot DEF StartLoop, Home
  <2>2. Head(runq) \in Kthd /\ runq # <<>>
    <3>1. Cardinality(Kthd) # 0
      BY FS_EmptySet, KthdAssumption
    <3>2. runq # <<>>
      BY <1>3, <3>1 DEF StartLoop
    <3> QED
      BY <1>0, <3>2, TailFacts DEF TypeOK
  <2>3. on' = Head(runq) /\ UNCHANGED <<runq, scanning, pc>>
    BY <1>3 DEF StartLoop
  <2>4. scanning' = FALSE
    BY <1>0, <2>1, <2>3 DEF TypeOK
  <2> QED
    BY <1>0, <1>1, <2>1, <2>2, <2>3, <2>4, HomeTurn
<1>4. CASE Scan
  BY <1>0, <1>1, <1>4, ScanOn, ScanEnd
<1>5. ASSUME NEW k \in Kthd, KthdStart(k) PROVE Home'
  <2>1. /\ on = k /\ k = Head(runq) /\ runq # <<>> /\ pc[k] = "new" /\ ~scanning
        /\ UNCHANGED <<runq, on, scanning>>
    BY <1>1, <1>5, RunningMain DEF KthdStart, At
  <2>2. pc' = [pc EXCEPT ![k] = "loop", ![born + 1] = "user"] /\ born + 1 \in Lwts
    BY <1>5 DEF KthdStart, Born
  <2>3. \A j \in Kthd : pc'[j] # "count"
    BY <1>0, <1>a, <2>1, <2>2, Sorts DEF Home
  <2>4. scanning' = FALSE
    BY <1>0, <2>1 DEF TypeOK
  <2> QED
    BY <1>0, <1>1, <2>1, <2>3, <2>4, HomeTurn
<1>6. ASSUME NEW k \in Kthd, KthdLoop(k) PROVE Home'
  <2>1. /\ on = k /\ k = Head(runq) /\ runq # <<>> /\ pc[k] = "loop" /\ k \in Elems
        /\ UNCHANGED <<runq, on, kid>> /\ current_thread' = k /\ Goto("count")
    BY <1>1, <1>6, RunningMain DEF KthdLoop, At
  <2>2. scanning' = TRUE
    BY <1>1, <1>6, AlwaysRunnable DEF KthdLoop
  <2>3. pc'[k] = "count" /\ Linked(k)' /\ \A j \in Kthd : j # k => pc'[j] = pc[j]
    BY <1>0, <2>1, GotoAt, Sorts DEF Linked
  <2> QED
    BY <1>0, <2>1, <2>2, <2>3, Sorts DEF Home, Kinds
<1>7. ASSUME NEW k \in Kthd, KthdCount(k) PROVE Home'
  <2>1. /\ on = k /\ k = Head(runq) /\ runq # <<>> /\ k \in Elems /\ ~scanning
        /\ scanning' = scanning /\ Goto("loop")
    BY <1>1, <1>7, RunningMain DEF KthdCount, GiveWay, At
  <2>2. PICK q \in {Tail(runq), Append(Tail(runq), k)} :
           runq' = q /\ on' = IF q = <<>> THEN NULL ELSE Head(q)
    BY <1>7 DEF KthdCount, GiveWay
  <2>3. q \in Seq(Kthd)
    BY <1>0, <2>1, <2>2, QueueTurns
  <2>4. on' = NULL \/ (on' \in Kthd /\ runq' # <<>> /\ on' = Head(runq'))
    BY <2>2, <2>3, TailFacts
  <2>5. \A j \in Kthd : pc'[j] # "count"
    BY <1>0, <2>1, GotoAt, Sorts DEF Home
  <2>6. scanning' = FALSE
    BY <1>0, <2>1 DEF TypeOK
  <2>7. on' \in Kthd => runq' # <<>> /\ on' = Head(runq')
    BY <2>4, Sorts
  <2> QED
    BY <1>0, <1>1, <2>4, <2>5, <2>6, <2>7, HomeTurn
<1>8. ASSUME NEW f \in {"DEFAULT", "NOJOIN"}, lwt_create(f) PROVE Home'
  <2>1. /\ on \in Lwts /\ ~scanning /\ UNCHANGED <<runq, on, current_thread, scanning, state>>
        /\ on \in Elems /\ Linked(on) /\ state[on] = "RUNNABLE" /\ runq # <<>>
    BY <1>1, <1>8, RunningLwt DEF lwt_create, User, At, place
  <2>2. /\ pc' = [pc EXCEPT ![born + 1] = "user"] /\ born + 1 \in Lwts
        /\ kid' = [kid EXCEPT ![born + 1] = kid[current_thread]]
    BY <1>8 DEF lwt_create, Born
  <2>3. pc[born + 1] = "new"
    BY <1>0, <2>2 DEF Kinds, TypeOK, Lwts
  <2>4. Linked(on)' /\ kid'[on] = kid[on] /\ \A k \in Kthd : pc'[k] = pc[k]
    BY <1>0, <1>a, <2>1, <2>2, <2>3, Sorts DEF Linked, TypeOK
  <2>5. scanning' = FALSE
    BY <1>0, <2>1 DEF TypeOK
  <2> QED
    BY <1>0, <1>1, <2>1, <2>4, <2>5, HomeKeeps
<1>9. CASE lwt_yield \/ lwt_cgrp_wait \/ (GrpResume /\ ~Pending(on)) \/ DieJoinable
  <2>1. /\ on \in Lwts /\ ~scanning /\ UNCHANGED <<runq, on, current_thread, kid>>
        /\ scanning' = TRUE /\ on \in Elems /\ Linked(on) /\ runq # <<>>
        /\ pc[on] \in {"user", "grp"}
    BY <1>1, <1>9, RunningLwt, AlwaysRunnable
    DEF lwt_yield, lwt_cgrp_wait, GrpResume, DieJoinable, User, At, lwt_schedule
  <2>2. pc' = pc \/ Goto("grp") \/ Goto("dead")
    BY <1>9 DEF lwt_yield, lwt_cgrp_wait, GrpResume, DieJoinable
  <2>3. /\ Linked(on)' /\ \A k \in Kthd : pc'[k] = pc[k]
        /\ pc'[on] # "dying"
    BY <1>0, <2>1, <2>2, GotoAt, Sorts DEF Linked
  <2> QED
    BY <1>0, <1>1, <2>1, <2>3, HomeKeeps
<1>10. CASE GrpResume /\ Pending(on)
  <2>1. /\ on \in Lwts /\ ~scanning /\ UNCHANGED <<runq, on, current_thread, scanning, state, kid>>
        /\ on \in Elems /\ Linked(on) /\ state[on] = "RUNNABLE" /\ runq # <<>> /\ Goto("user")
    BY <1>1, <1>10, RunningLwt DEF GrpResume, At, place
  <2>2. Linked(on)' /\ \A k \in Kthd : pc'[k] = pc[k]
    BY <1>0, <2>1, GotoAt, Sorts DEF Linked
  <2>3. scanning' = FALSE
    BY <1>0, <2>1 DEF TypeOK
  <2> QED
    BY <1>0, <1>1, <2>1, <2>2, <2>3, HomeKeeps
<1>11. CASE DieDetached
  <2>1. /\ on \in Lwts /\ ~scanning /\ scanning' = TRUE /\ on = current_thread
        /\ UNCHANGED <<runq, on, current_thread, kid, list, state, flag>>
        /\ on \in Elems /\ Linked(on) /\ runq # <<>> /\ Goto("dying") /\ kid[on] = Head(runq)
        /\ state[on] = "RUNNABLE" /\ flag[on] = "NOJOIN"
    BY <1>1, <1>11, RunningLwt DEF DieDetached, User, At, fields
  <2>2. pc'[on] = "dying" /\ Linked(on)' /\ \A k \in Kthd : pc'[k] = pc[k]
    BY <1>0, <2>1, GotoAt, Sorts DEF Linked
  <2>3. PICK V : V = {on}
    OBVIOUS
  <2>4. V \in SUBSET Elems /\ Passed(V)'
    BY <2>1, <2>3 DEF Passed
  <2>5. \E W \in SUBSET Elems : Passed(W)'
    BY <2>4
  <2>6. \A k \in Kthd : pc[k] = "count" => k = Head(runq)
    BY <1>0 DEF Home
  <2> QED
    BY <2>1, <2>2, <2>5, <2>6, Sorts DEF Home
<1>12. CASE JoinResume
  <2>1. /\ on \in Lwts /\ ~scanning /\ UNCHANGED <<runq, on, current_thread, scanning, state, kid>>
        /\ on \in Elems /\ Linked(on) /\ state[on] = "RUNNABLE" /\ runq # <<>> /\ pc[on] = "join"
        /\ pc' = [pc EXCEPT ![joiningto[on]] = "gone", ![on] = "user"]
    BY <1>1, <1>12, RunningLwt DEF JoinResume, At, place, Reap
  <2>2. joiningto[on] \in Lwts
    BY <1>1, <2>1 DEF KInv, Joins, Waiting
  <2>3. Linked(on)' /\ \A k \in Kthd : pc'[k] = pc[k]
    BY <1>a, <2>1, <2>2, Sorts DEF Linked
  <2>4. scanning' = FALSE
    BY <1>0, <2>1 DEF TypeOK
  <2> QED
    BY <1>0, <1>1, <2>1, <2>3, <2>4, HomeKeeps
<1>13. ASSUME NEW t \in Lwts, JoinDead(t) PROVE Home'
  <2>1. /\ on \in Lwts /\ ~scanning /\ UNCHANGED <<runq, on, current_thread, scanning, state, kid>>
        /\ on \in Elems /\ Linked(on) /\ state[on] = "RUNNABLE" /\ runq # <<>>
        /\ pc' = [pc EXCEPT ![t] = "gone", ![on] = "user"]
    BY <1>1, <1>13, RunningLwt DEF JoinDead, MayJoin, User, At, place, Reap
  <2>2. Linked(on)' /\ \A k \in Kthd : pc'[k] = pc[k]
    BY <1>a, <2>1, Sorts DEF Linked
  <2>3. scanning' = FALSE
    BY <1>0, <2>1 DEF TypeOK
  <2> QED
    BY <1>0, <1>1, <2>1, <2>2, <2>3, HomeKeeps
<1>14. ASSUME NEW t \in Lwts, JoinWait(t) PROVE Home'
  <2>1. /\ on \in Lwts /\ ~scanning /\ UNCHANGED <<runq, scanning, kid>> /\ on \in Elems
        /\ runq # <<>> /\ kid[on] = Head(runq) /\ on = current_thread
    BY <1>1, <1>14, RunningLwt DEF JoinWait, MayJoin, User, At
  <2>2. /\ on' = t /\ current_thread' = t /\ Linked(t) /\ kid[t] = kid[on] /\ t # on
        /\ Goto("join") /\ state[t] = "RUNNABLE" /\ state' = [state EXCEPT ![on] = "BLOCKED"]
    BY <1>14, <2>1 DEF JoinWait, MayJoin
  <2>3. Linked(t)' /\ state'[t] = "RUNNABLE" /\ \A k \in Kthd : pc'[k] = pc[k]
    BY <1>0, <1>a, <2>1, <2>2, GotoAt, Sorts DEF Linked
  <2>4. \A k \in Kthd : pc[k] = "count" => k = Head(runq)
    BY <1>0 DEF Home
  <2> QED
    BY <2>1, <2>2, <2>3, <2>4, Sorts DEF Home
<1>15. ASSUME NEW c \in Chan, User, lwt_chan(c) PROVE Home'
  <2>1. /\ on \in Lwts /\ ~scanning
        /\ UNCHANGED <<runq, on, current_thread, scanning, state, kid, pc>>
        /\ Linked(on) /\ state[on] = "RUNNABLE" /\ runq # <<>>
    BY <1>1, <1>15, RunningLwt DEF lwt_chan, User, At, place
  <2>2. Linked(on)' /\ scanning' = FALSE
    BY <1>0, <2>1 DEF TypeOK, Linked
  <2> QED
    BY <1>0, <1>1, <2>1, <2>2, HomeKeeps
<1>16. ASSUME NEW c \in Chan, lwt_snd(c) PROVE Home'
  BY <1>0, <1>1, <1>16, SendHome DEF lwt_snd, MaySend, User, At
<1>17. ASSUME NEW c \in Chan, NEW t \in Lwts, lwt_snd_thd(c, t) PROVE Home'
  <2>1. /\ on \in Lwts /\ ~scanning /\ Send(c, t) /\ kid' = kid /\ t # on
        /\ state' = [state EXCEPT ![t] = "BLOCKED"]
    BY <1>1, <1>17, RunningLwt DEF lwt_snd_thd, MaySend, User, At
  <2>2. state'[on] = state[on]
    BY <1>a, <2>1, Sorts
  <2> QED
    BY <1>0, <1>1, <2>1, <2>2, SendHome
<1>18. CASE SndResume
  <2>1. on \in Lwts /\ ~scanning /\ pc[on] = "snd" /\ Send(at[on], load[on]) /\ UNCHANGED <<kid, state>>
    BY <1>18 DEF SndResume, At
  <2>2. at[on] \in Chan
    BY <1>1, <2>1 DEF KInv, Calls
  <2> QED
    BY <1>0, <1>1, <2>1, <2>2, SendHome
<1>19. ASSUME NEW c \in Chan, lwt_rcv(c) PROVE Home'
  BY <1>0, <1>1, <1>19, ReceiveHome DEF lwt_rcv, User, At
<1>20. CASE RcvResume
  <2>1. on \in Lwts /\ ~scanning /\ pc[on] = "rcv" /\ Receive(at[on])
    BY <1>20 DEF RcvResume, At
  <2>2. at[on] \in Chan
    BY <1>1, <2>1 DEF KInv, Calls
  <2> QED
    BY <1>0, <1>1, <2>1, <2>2, ReceiveHome
<1>21. ASSUME NEW c \in Chan, lwt_chan(c) PROVE Home'
  BY <1>2, <1>15, <1>21 DEF lwt_chan
<1> QED
  BY <1>1, <1>2, <1>3, <1>4, <1>5, <1>6, <1>7, <1>8, <1>9, <1>10, <1>11, <1>12, <1>13, <1>14,
     <1>16, <1>17, <1>18, <1>19, <1>20, <1>21
  DEF Next, KthdStep, LwtStep, ChanStep

\* The steps that leave the channels and the waiting senders alone.
LEMMA CallsQuiet ==
    ASSUME KInv, queue' = queue, UNCHANGED waits,
           \A l \in Lwts : pc'[l] = pc[l] \/ (pc[l] # "snd" /\ pc'[l] \notin {"snd", "rcv"})
    PROVE  Calls'
  BY DEF KInv, Calls, waits

\* An lwt that sends: c takes m, or the lwt waits there with it.
LEMMA SendCalls ==
    ASSUME KInv, on \in Lwts, ~scanning, NEW c \in Chan, NEW m, m # NULL, Send(c, m),
           IF c \in ThdChan THEN m \in Lwts ELSE m = Data
    PROVE  Calls'
<1>1. /\ Calls /\ on \in Elems /\ TypeOK
      /\ at \in [Lwts -> Chan \union {NULL}] /\ load \in [Lwts -> Lwts \union {Data, NULL}]
      /\ queue \in [Chan -> Seq(Lwts \union {Data})]
  BY RunningLwt DEF KInv, TypeOK
<1>2. m \in Lwts <=> c \in ThdChan
  BY Sorts
<1>3. CASE IsFull(c)
  <2>1. /\ Goto("snd") /\ queue' = queue
        /\ at' = [at EXCEPT ![on] = c] /\ load' = [load EXCEPT ![on] = m]
    BY <1>3 DEF Send
  <2>2. pc'[on] = "snd" /\ \A l \in Lwts : l # on => pc'[l] = pc[l]
    BY <1>1, <2>1, GotoAt, Sorts
  <2> QED
    BY <1>1, <1>2, <2>1, <2>2 DEF Calls
<1>4. CASE ~IsFull(c)
  <2>1. /\ Goto("user") /\ queue' = [queue EXCEPT ![c] = Append(queue[c], m)]
        /\ at' = [at EXCEPT ![on] = NULL] /\ load' = [load EXCEPT ![on] = NULL]
    BY <1>4 DEF Send
  <2>2. pc'[on] = "user" /\ \A l \in Lwts : l # on => pc'[l] = pc[l]
    BY <1>1, <2>1, GotoAt, Sorts
  <2>3. \A d \in Chan : queue'[d] \in IF d \in ThdChan THEN Seq(Lwts) ELSE Seq({Data})
    <3>1. queue'[c] = Append(queue[c], m) /\ \A d \in Chan : d # c => queue'[d] = queue[d]
      BY <1>1, <2>1
    <3>0. ASSUME NEW d \in Chan
          PROVE  queue[d] \in IF d \in ThdChan THEN Seq(Lwts) ELSE Seq({Data})
      BY <1>1 DEF Calls
    <3>2. ASSUME c \in ThdChan PROVE queue'[c] \in Seq(Lwts)
      <4>1. queue[c] \in Seq(Lwts) /\ m \in Lwts
        BY <1>2, <3>0, <3>2
      <4>2. Append(queue[c], m) \in Seq(Lwts)
        BY <4>1, AppendFacts
      <4> QED
        BY <3>1, <4>2
    <3>3. ASSUME c \notin ThdChan PROVE queue'[c] \in Seq({Data})
      <4>1. queue[c] \in Seq({Data}) /\ m \in {Data}
        BY <1>2, <3>0, <3>3
      <4>2. Append(queue[c], m) \in Seq({Data})
        BY <4>1, AppendFacts
      <4> QED
        BY <3>1, <4>2
    <3>4. ASSUME NEW d \in Chan
          PROVE  queue'[d] \in IF d \in ThdChan THEN Seq(Lwts) ELSE Seq({Data})
      <4>1. CASE d = c
        BY <3>2, <3>3, <4>1
      <4>2. CASE d # c
        BY <3>0, <3>1, <4>2
      <4> QED
        BY <4>1, <4>2
    <3> QED
      BY <3>4
  <2> QED
    BY <1>1, <2>1, <2>2, <2>3 DEF Calls
<1> QED
  BY <1>3, <1>4

LEMMA ReceiveCalls ==
    ASSUME KInv, on \in Lwts, ~scanning, NEW c \in Chan, pc[on] # "snd", Receive(c),
           load' = load
    PROVE  Calls'
<1>1. /\ Calls /\ on \in Elems /\ TypeOK
      /\ at \in [Lwts -> Chan \union {NULL}]
      /\ queue \in [Chan -> Seq(Lwts \union {Data})]
  BY RunningLwt DEF KInv, TypeOK
<1>2. load[on] = NULL
  BY <1>1 DEF Calls
<1>3. CASE queue[c] = <<>>
  <2>1. Goto("rcv") /\ queue' = queue /\ at' = [at EXCEPT ![on] = c]
    BY <1>3 DEF Receive
  <2>2. pc'[on] = "rcv" /\ \A l \in Lwts : l # on => pc'[l] = pc[l]
    BY <1>1, <2>1, GotoAt, Sorts
  <2> QED
    BY <1>1, <1>2, <2>1, <2>2 DEF Calls
<1>4. CASE queue[c] # <<>>
  <2>1. /\ Goto("user") /\ queue' = [queue EXCEPT ![c] = Tail(queue[c])]
        /\ at' = [at EXCEPT ![on] = NULL]
    BY <1>4 DEF Receive
  <2>2. pc'[on] = "user" /\ \A l \in Lwts : l # on => pc'[l] = pc[l]
    BY <1>1, <2>1, GotoAt, Sorts
  <2>3. \A d \in Chan : queue'[d] \in IF d \in ThdChan THEN Seq(Lwts) ELSE Seq({Data})
    <3>1. queue'[c] = Tail(queue[c]) /\ \A d \in Chan : d # c => queue'[d] = queue[d]
      BY <1>1, <2>1
    <3>2. ASSUME NEW S, queue[c] \in Seq(S) PROVE Tail(queue[c]) \in Seq(S)
      BY <1>4, <3>2, TailFacts
    <3>3. Tail(queue[c]) \in IF c \in ThdChan THEN Seq(Lwts) ELSE Seq({Data})
      BY <1>1, <3>2 DEF Calls
    <3>4. ASSUME NEW d \in Chan
          PROVE  queue[d] \in IF d \in ThdChan THEN Seq(Lwts) ELSE Seq({Data})
      BY <1>1 DEF Calls
    <3>5. ASSUME NEW d \in Chan
          PROVE  queue'[d] \in IF d \in ThdChan THEN Seq(Lwts) ELSE Seq({Data})
      <4>1. CASE d = c
        BY <3>1, <3>3, <4>1
      <4>2. CASE d # c
        BY <3>1, <3>4, <4>2
      <4> QED
        BY <4>1, <4>2
    <3> QED
      BY <3>5
  <2> QED
    BY <1>1, <1>2, <2>1, <2>2, <2>3 DEF Calls
<1> QED
  BY <1>3, <1>4

LEMMA CallsStep == ASSUME Careful PROVE KInv /\ Next => Calls'
<1>1. SUFFICES ASSUME KInv, Next PROVE Calls'
  OBVIOUS
<1>0. TypeOK /\ pc \in [Elems -> Places] /\ Calls /\ Kinds
  BY <1>1 DEF KInv, TypeOK
<1>2. CASE (\E k \in Kthd : lwt_kthd_create(k)) \/ StartLoop \/ lwt_yield \/ (\E c \in Chan : lwt_chan(c))
  BY <1>1, <1>2, CallsQuiet DEF lwt_kthd_create, StartLoop, lwt_yield, lwt_chan, chans
<1>3. CASE Scan
  <2>1. queue' = queue /\ UNCHANGED waits /\ (pc' = pc \/ (pc[on] = "dying" /\ Goto("gone")))
    BY <1>3 DEF Scan, chans
  <2>2. \A l \in Lwts : pc'[l] = pc[l] \/ (pc[l] = "dying" /\ pc'[l] = "gone")
    BY <1>0, <2>1, Sorts DEF Goto
  <2> QED
    BY <1>1, <2>1, <2>2, CallsQuiet
<1>4. ASSUME NEW k \in Kthd, KthdStart(k) \/ KthdLoop(k) \/ KthdCount(k) PROVE Calls'
  <2>1. queue' = queue /\ UNCHANGED waits
    BY <1>4 DEF KthdStart, KthdLoop, KthdCount, chans
  <2>2. CASE KthdStart(k)
    <3>1. /\ born + 1 \in Lwts /\ pc' = [pc EXCEPT ![k] = "loop", ![born + 1] = "user"]
      BY <2>2 DEF KthdStart, Born
    <3>2. pc[born + 1] = "new"
      BY <1>0, <3>1 DEF Kinds, TypeOK, Lwts
    <3>3. \A l \in Lwts : pc'[l] = pc[l] \/ (pc[l] = "new" /\ pc'[l] = "user")
      BY <1>0, <3>1, <3>2, Sorts
    <3> QED
      BY <1>1, <2>1, <3>3, CallsQuiet
  <2>3. CASE KthdLoop(k) \/ KthdCount(k)
    <3>1. on = k /\ (Goto("loop") \/ Goto("count"))
      BY <2>3 DEF KthdLoop, KthdCount, GiveWay
    <3>2. \A l \in Lwts : pc'[l] = pc[l]
      BY <1>0, <3>1, Sorts DEF Goto
    <3> QED
      BY <1>1, <2>1, <3>2, CallsQuiet
  <2> QED
    BY <1>4, <2>2, <2>3
<1>5. ASSUME NEW f \in {"DEFAULT", "NOJOIN"}, lwt_create(f) PROVE Calls'
  <2>1. /\ born + 1 \in Lwts /\ pc' = [pc EXCEPT ![born + 1] = "user"]
        /\ queue' = queue /\ UNCHANGED waits
    BY <1>5 DEF lwt_create, Born, chans
  <2>2. pc[born + 1] = "new"
    BY <1>0, <2>1 DEF Kinds, TypeOK, Lwts
  <2>3. \A l \in Lwts : pc'[l] = pc[l] \/ (pc[l] = "new" /\ pc'[l] = "user")
    BY <1>0, <2>1, <2>2, Sorts
  <2> QED
    BY <1>1, <2>1, <2>3, CallsQuiet
<1>6. ASSUME on \in Lwts, pc[on] \in {"user", "join", "grp"}, UNCHANGED waits, queue' = queue,
             NEW p \in {"user", "join", "grp", "dead", "dying"}, pc' = pc \/ Goto(p)
      PROVE  Calls'
  <2>1. \A l \in Lwts : pc'[l] = pc[l] \/ (pc[l] # "snd" /\ pc'[l] \notin {"snd", "rcv"})
    BY <1>0, <1>6, Sorts DEF Goto
  <2> QED
    BY <1>1, <1>6, <2>1, CallsQuiet
<1>7. CASE \/ lwt_cgrp_wait \/ GrpResume \/ DieJoinable \/ DieDetached
           \/ \E t \in Lwts : JoinWait(t)
  <2>1. /\ on \in Lwts /\ pc[on] \in {"user", "join", "grp"} /\ UNCHANGED waits /\ queue' = queue
    BY <1>7 DEF lwt_cgrp_wait, GrpResume, DieJoinable, DieDetached, JoinWait, MayJoin, User, At, chans
  <2>2. PICK p \in {"user", "join", "grp", "dead", "dying"} : pc' = pc \/ Goto(p)
    BY <1>7 DEF lwt_cgrp_wait, GrpResume, DieJoinable, DieDetached, JoinWait
  <2> QED
    BY <1>6, <2>1, <2>2
<1>8. ASSUME NEW t \in Lwts, on \in Lwts, state[t] = "DEAD", pc[on] \in {"user", "join"}, Reap(t),
             UNCHANGED waits, queue' = queue
      PROVE  Calls'
  <2>1. pc' = [pc EXCEPT ![t] = "gone", ![on] = "user"] /\ pc[t] \in {"dead", "gone"}
    BY <1>0, <1>8 DEF Reap, Kinds
  <2>2. \A l \in Lwts : pc'[l] = pc[l] \/ (pc[l] # "snd" /\ pc'[l] \notin {"snd", "rcv"})
    BY <1>0, <1>8, <2>1, Sorts
  <2> QED
    BY <1>1, <1>8, <2>2, CallsQuiet
<1>9. ASSUME NEW t \in Lwts, JoinDead(t) PROVE Calls'
  BY <1>8, <1>9 DEF JoinDead, MayJoin, User, At, chans
<1>10. CASE JoinResume
  <2>1. /\ on \in Lwts /\ ~scanning /\ pc[on] = "join" /\ Reap(joiningto[on])
        /\ UNCHANGED waits /\ queue' = queue
    BY <1>10 DEF JoinResume, At, chans
  <2>2. ~Waiting(on)
    BY <1>1, <2>1, RunningLwt DEF Waiting
  <2>3. joiningto[on] \in Lwts /\ state[joiningto[on]] = "DEAD"
    BY <1>1, <2>1, <2>2 DEF KInv, Joins
  <2> QED
    BY <1>8, <2>1, <2>3
<1>11. ASSUME NEW c \in Chan, lwt_snd(c) PROVE Calls'
  BY <1>1, <1>11, SendCalls, Sorts DEF lwt_snd, MaySend, User, At
<1>12. ASSUME NEW c \in Chan, NEW t \in Lwts, lwt_snd_thd(c, t) PROVE Calls'
  BY <1>1, <1>12, SendCalls, Sorts DEF lwt_snd_thd, MaySend, User, At
<1>13. CASE SndResume
  <2>1. on \in Lwts /\ ~scanning /\ pc[on] = "snd" /\ Send(at[on], load[on])
    BY <1>13 DEF SndResume, At
  <2>2. /\ at[on] \in Chan /\ load[on] # NULL
        /\ IF at[on] \in ThdChan THEN load[on] \in Lwts ELSE load[on] = Data
    BY <1>0, <2>1 DEF Calls, TypeOK
  <2> QED
    BY <1>1, <2>1, <2>2, SendCalls
<1>14. ASSUME NEW c \in Chan, lwt_rcv(c) PROVE Calls'
  BY <1>1, <1>14, ReceiveCalls DEF lwt_rcv, User, At
<1>15. CASE RcvResume
  <2>1. on \in Lwts /\ ~scanning /\ pc[on] = "rcv" /\ Receive(at[on]) /\ load' = load
    BY <1>15 DEF RcvResume, At
  <2>2. at[on] \in Chan
    BY <1>0, <2>1 DEF Calls
  <2> QED
    BY <1>1, <2>1, <2>2, ReceiveCalls
<1> QED
  BY <1>1, <1>2, <1>3, <1>4, <1>5, <1>7, <1>9, <1>10, <1>11, <1>12, <1>13, <1>14, <1>15
  DEF Next, KthdStep, LwtStep, ChanStep

----------------------------------------------------------------------------
(* The threads on their way.                                              *)

LEMMA TransitQuiet ==
    ASSUME KInv, queue' = queue, load' = load,
           \A l \in Lwts : Sent(l) => Linked(l)' /\ state'[l] = "BLOCKED" /\ flag'[l] = flag[l]
    PROVE  Transit'
<1>1. OnePlace'
  BY DEF KInv, Transit, OnePlace
<1>2. \A l \in Lwts : Sent(l)' <=> Sent(l)
  BY DEF Sent
<1>3. \A l \in Lwts : Sent(l) => flag[l] = "NOJOIN"
  BY DEF KInv, Transit
<1> QED
  BY <1>1, <1>2, <1>3 DEF Transit

\* What on may send: something that is in no buffer and in no other hands.
Free(m) ==
    /\ load[on] \in {NULL, m}
    /\ m \in Lwts => /\ \A d \in Chan : \A i \in DOMAIN queue[d] : queue[d][i] # m
                     /\ \A s \in Lwts : s # on => load[s] # m

LEMMA FreeUser ==
    ASSUME KInv, on \in Lwts, pc[on] = "user", NEW m, m = Data \/ (m \in Lwts /\ ~Sent(m))
    PROVE  Free(m)
  BY Sorts DEF KInv, Calls, Sent, Free

LEMMA FreeResume ==
    ASSUME KInv, on \in Lwts
    PROVE  Free(load[on])
<1>1. OnePlace
  BY DEF KInv, Transit
<1> QED
  BY <1>1, Sorts DEF OnePlace, Free

LEMMA SendSent ==
    ASSUME KInv, on \in Lwts, NEW c \in Chan, NEW m \in Lwts \union {Data}, Send(c, m), Free(m)
    PROVE  OnePlace' /\ \A l \in Lwts : Sent(l)' <=> Sent(l) \/ l = m
<1>1. /\ OnePlace /\ load \in [Lwts -> Lwts \union {Data, NULL}]
      /\ queue \in [Chan -> Seq(Lwts \union {Data})]
  BY DEF KInv, Transit, TypeOK
<1>2. CASE IsFull(c)
  <2>1. queue' = queue /\ load' = [load EXCEPT ![on] = m]
    BY <1>2 DEF Send
  <2>2. load'[on] = m /\ \A s \in Lwts : s # on => load'[s] = load[s]
    BY <1>1, <2>1
  <2>3. OnePlace'
    <3>1. \A d, e \in Chan : \A i \in DOMAIN queue'[d], j \in DOMAIN queue'[e] :
             queue'[d][i] = queue'[e][j] /\ queue'[d][i] # Data => d = e /\ i = j
      BY <1>1, <2>1 DEF OnePlace
    <3>2. \A s, u \in Lwts : load'[s] = load'[u] /\ load'[s] \in Lwts => s = u
      BY <1>1, <2>2 DEF OnePlace, Free
    <3>3. \A s \in Lwts, d \in Chan : \A i \in DOMAIN queue'[d] :
             queue'[d][i] = load'[s] => load'[s] = Data
      BY <1>1, <2>1, <2>2 DEF OnePlace, Free
    <3> QED
      BY <3>1, <3>2, <3>3 DEF OnePlace
  <2>4. ASSUME NEW l \in Lwts PROVE Sent(l)' <=> Sent(l) \/ l = m
    BY <2>1, <2>2, Sorts DEF Sent, Free
  <2> QED
    BY <2>3, <2>4
<1>3. CASE ~IsFull(c)
  <2>1. /\ queue' = [queue EXCEPT ![c] = Append(queue[c], m)]
        /\ load' = [load EXCEPT ![on] = NULL]
    BY <1>3 DEF Send
  <2>2. load'[on] = NULL /\ \A s \in Lwts : s # on => load'[s] = load[s]
    BY <1>1, <2>1
  <2>3. queue'[c] = Append(queue[c], m) /\ \A d \in Chan : d # c => queue'[d] = queue[d]
    BY <1>1, <2>1
  <2>4. PICK k : k = Len(queue[c]) + 1
    OBVIOUS
  <2>5. /\ k \notin DOMAIN queue[c] /\ DOMAIN queue'[c] = DOMAIN queue[c] \union {k}
        /\ queue'[c][k] = m /\ \A i \in DOMAIN queue[c] : queue'[c][i] = queue[c][i]
    <3>1. queue[c] \in Seq(Lwts \union {Data})
      BY <1>1
    <3> QED
      BY <2>3, <2>4, <3>1, AppendFacts
  <2>6. \A d \in Chan : \A i \in DOMAIN queue'[d] :
           \/ i \in DOMAIN queue[d] /\ queue'[d][i] = queue[d][i]
           \/ d = c /\ i = k /\ queue'[d][i] = m
    BY <2>3, <2>5
  <2>7. OnePlace'
    <3>1. \A d, e \in Chan : \A i \in DOMAIN queue'[d], j \in DOMAIN queue'[e] :
             queue'[d][i] = queue'[e][j] /\ queue'[d][i] # Data => d = e /\ i = j
      BY <1>1, <2>6 DEF OnePlace, Free
    <3>2. \A s, u \in Lwts : load'[s] = load'[u] /\ load'[s] \in Lwts => s = u
      BY <1>1, <2>2, Sorts DEF OnePlace
    <3>3. \A s \in Lwts, d \in Chan : \A i \in DOMAIN queue'[d] :
             queue'[d][i] = load'[s] => load'[s] = Data
      <4>1. \A d \in Chan : \A i \in DOMAIN queue'[d] : queue'[d][i] \in Lwts \union {Data}
        BY <1>1, <2>6
      <4> QED
        BY <1>1, <2>2, <2>6, <4>1, Sorts DEF OnePlace, Free
    <3> QED
      BY <3>1, <3>2, <3>3 DEF OnePlace
  <2>8. ASSUME NEW l \in Lwts PROVE Sent(l)' <=> Sent(l) \/ l = m
    <3>1. Sent(l)' => Sent(l) \/ l = m
      BY <2>2, <2>6, Sorts DEF Sent
    <3>2. l = m => Sent(l)'
      BY <2>5 DEF Sent
    <3>3. Sent(l) => Sent(l)'
      <4>1. ASSUME NEW d \in Chan, NEW i \in DOMAIN queue[d], queue[d][i] = l PROVE Sent(l)'
        <5>1. i \in DOMAIN queue'[d] /\ queue'[d][i] = l
          BY <2>3, <2>5, <4>1
        <5> QED
          BY <5>1 DEF Sent
      <4>2. ASSUME NEW s \in Lwts, load[s] = l PROVE Sent(l)'
        <5>1. s = on => l = m
          BY <4>2, Sorts DEF Free
        <5>2. s # on => Sent(l)'
          BY <2>2, <4>2 DEF Sent
        <5> QED
          BY <3>2, <5>1, <5>2
      <4> QED
        BY <4>1, <4>2 DEF Sent
    <3> QED
      BY <3>1, <3>2, <3>3
  <2> QED
    BY <2>7, <2>8
<1> QED
  BY <1>2, <1>3

LEMMA SendTransit ==
    ASSUME KInv, on \in Lwts, ~scanning, NEW c \in Chan, NEW m \in Lwts \union {Data}, Send(c, m), Free(m),
           flag' = flag,
           \A l \in Lwts : Sent(l) \/ l = m => Linked(l) /\ state'[l] = "BLOCKED" /\ flag[l] = "NOJOIN"
    PROVE  Transit'
<1>1. \A e \in Elems : Linked(e)' <=> Linked(e)
  BY SendLinks
<1>2. OnePlace'
  BY SendSent
<1>3. ASSUME NEW l \in Lwts, Sent(l)' PROVE Linked(l)' /\ state'[l] = "BLOCKED" /\ flag'[l] = "NOJOIN"
  <2>1. Sent(l) \/ l = m
    BY <1>3, SendSent
  <2> QED
    BY <1>1, <2>1, Sorts
<1> QED
  BY <1>2, <1>3 DEF Transit

\* Receiving takes the first message of c, and nothing else changes places.
LEMMA ReceiveSent ==
    ASSUME KInv, NEW c \in Chan, queue[c] # <<>>,
           queue' = [queue EXCEPT ![c] = Tail(queue[c])], load' = load
    PROVE  /\ OnePlace'
           /\ \A l \in Lwts : Sent(l)' <=> Sent(l) /\ l # Head(queue[c])
<1>1. /\ OnePlace /\ load \in [Lwts -> Lwts \union {Data, NULL}]
      /\ queue \in [Chan -> Seq(Lwts \union {Data})]
  BY DEF KInv, Transit, TypeOK
<1>2. PICK q : q = queue[c]
  OBVIOUS
<1>3. q \in Seq(Lwts \union {Data}) /\ q # <<>>
  BY <1>1, <1>2
<1>4. queue'[c] = Tail(q) /\ \A d \in Chan : d # c => queue'[d] = queue[d]
  BY <1>1, <1>2
<1>5. /\ Head(q) = q[1] /\ Len(q) \in Nat /\ Len(q) > 0 /\ DOMAIN q = 1..Len(q)
      /\ DOMAIN Tail(q) = 1..(Len(q) - 1)
      /\ \A i \in 1..(Len(q) - 1) : Tail(q)[i] = q[i + 1] /\ i + 1 \in DOMAIN q
  BY <1>3, TailFacts
<1>6. /\ \A i \in DOMAIN queue'[c] : i \in Int /\ i + 1 \in DOMAIN q /\ i + 1 # 1 /\ queue'[c][i] = q[i + 1]
      /\ \A j \in DOMAIN q : j # 1 => j \in Int /\ j - 1 \in DOMAIN queue'[c] /\ queue'[c][j - 1] = q[j]
      /\ 1 \in DOMAIN q
  <2>1. \A i \in 1..(Len(q) - 1) : i \in Int /\ i + 1 # 1
    BY <1>5
  <2>2. ASSUME NEW j \in DOMAIN q, j # 1
        PROVE  j \in Int /\ j - 1 \in 1..(Len(q) - 1) /\ (j - 1) + 1 = j
    BY <1>5, <2>2
  <2>3. \A j \in DOMAIN q : j # 1 => Tail(q)[j - 1] = q[j]
    BY <1>5, <2>2
  <2>4. 1 \in DOMAIN q
    BY <1>5
  <2> QED
    BY <1>4, <1>5, <2>1, <2>2, <2>3, <2>4
<1>7. OnePlace'
  <2>1. \A d, e \in Chan : \A i \in DOMAIN queue'[d], j \in DOMAIN queue'[e] :
           queue'[d][i] = queue'[e][j] /\ queue'[d][i] # Data => d = e /\ i = j
    <3>1. ASSUME NEW i \in DOMAIN queue'[c], NEW j \in DOMAIN queue'[c],
                 queue'[c][i] = queue'[c][j], queue'[c][i] # Data
          PROVE  i = j
      <4>1. i + 1 = j + 1 /\ i \in Int /\ j \in Int
        BY <1>1, <1>2, <1>6, <3>1 DEF OnePlace
      <4> QED
        BY <4>1
    <3>2. ASSUME NEW d \in Chan, d # c, NEW i \in DOMAIN queue'[d], NEW j \in DOMAIN queue'[c],
                 queue'[d][i] = queue'[c][j]
          PROVE  queue'[d][i] = Data
      BY <1>1, <1>2, <1>4, <1>6, <3>2 DEF OnePlace
    <3>3. ASSUME NEW d \in Chan, NEW e \in Chan, d # c, e # c,
                 NEW i \in DOMAIN queue'[d], NEW j \in DOMAIN queue'[e],
                 queue'[d][i] = queue'[e][j], queue'[d][i] # Data
          PROVE  d = e /\ i = j
      BY <1>1, <1>4, <3>3 DEF OnePlace
    <3> QED
      BY <3>1, <3>2, <3>3
  <2>2. \A s, u \in Lwts : load'[s] = load'[u] /\ load'[s] \in Lwts => s = u
    BY <1>1 DEF OnePlace
  <2>3. ASSUME NEW s \in Lwts, NEW d \in Chan, NEW i \in DOMAIN queue'[d], queue'[d][i] = load'[s]
        PROVE  load'[s] = Data
    <3>1. CASE d = c
      BY <1>1, <1>2, <1>6, <2>3, <3>1 DEF OnePlace
    <3>2. CASE d # c
      BY <1>1, <1>4, <2>3, <3>2 DEF OnePlace
    <3> QED
      BY <3>1, <3>2
  <2> QED
    BY <2>1, <2>2, <2>3 DEF OnePlace
<1>8. ASSUME NEW l \in Lwts PROVE Sent(l)' <=> Sent(l) /\ l # Head(q)
  <2>1. ASSUME NEW d \in Chan, NEW i \in DOMAIN queue'[d], queue'[d][i] = l
        PROVE  Sent(l) /\ l # Head(q)
    <3>1. CASE d = c
      <4>1. i + 1 \in DOMAIN queue[c] /\ queue[c][i + 1] = l /\ i + 1 # 1 /\ 1 \in DOMAIN queue[c]
        BY <1>2, <1>6, <2>1, <3>1
      <4>2. l # queue[c][1]
        BY <1>1, <4>1, Sorts DEF OnePlace
      <4> QED
        BY <1>2, <1>5, <4>1, <4>2 DEF Sent
    <3>2. CASE d # c
      <4>1. i \in DOMAIN queue[d] /\ queue[d][i] = l
        BY <1>4, <2>1, <3>2
      <4>2. l # queue[c][1]
        BY <1>1, <1>2, <1>6, <3>2, <4>1, Sorts DEF OnePlace
      <4> QED
        BY <1>2, <1>5, <4>1, <4>2 DEF Sent
    <3> QED
      BY <3>1, <3>2
  <2>2. ASSUME NEW s \in Lwts, load'[s] = l PROVE Sent(l) /\ l # Head(q)
    <3>1. l # queue[c][1]
      BY <1>1, <1>2, <1>6, <2>2, Sorts DEF OnePlace
    <3> QED
      BY <1>2, <1>5, <2>2, <3>1 DEF Sent
  <2>3. ASSUME Sent(l), l # Head(q) PROVE Sent(l)'
    <3>1. ASSUME NEW d \in Chan, NEW i \in DOMAIN queue[d], queue[d][i] = l PROVE Sent(l)'
      <4>1. CASE d = c
        <5>1. i # 1 /\ i \in DOMAIN q /\ q[i] = l
          BY <1>2, <1>5, <2>3, <3>1, <4>1
        <5> QED
          BY <1>6, <5>1 DEF Sent
      <4>2. CASE d # c
        BY <1>4, <3>1, <4>2 DEF Sent
      <4> QED
        BY <4>1, <4>2
    <3>2. ASSUME NEW s \in Lwts, load[s] = l PROVE Sent(l)'
      BY <3>2 DEF Sent
    <3> QED
      BY <2>3, <3>1, <3>2 DEF Sent
  <2> QED
    BY <2>1, <2>2, <2>3 DEF Sent
<1> QED
  BY <1>2, <1>7, <1>8

LEMMA ReceiveTransit ==
    ASSUME KInv, on \in Lwts, ~scanning, NEW c \in Chan, Receive(c), load' = load, flag' = flag
    PROVE  Transit'
<1>1. /\ TypeOK /\ Linked(on) /\ state \in [Elems -> {"RUNNABLE", "BLOCKED", "DEAD"}]
      /\ \A l \in Lwts : Sent(l) => Linked(l) /\ state[l] = "BLOCKED" /\ flag[l] = "NOJOIN"
  BY RunningLwt DEF KInv, Transit, TypeOK
<1>2. Goto("rcv") \/ Goto("user")
  BY DEF Receive
<1>3. \A e \in Elems : Linked(e)' <=> Linked(e)
  BY <1>1, <1>2, GotoLinked
<1>4. CASE queue[c] = <<>>
  <2>1. queue' = queue /\ state' = state
    BY <1>4 DEF Receive
  <2> QED
    BY <1>1, <1>3, <2>1, TransitQuiet, Sorts
<1>5. CASE queue[c] # <<>>
  <2>1. queue' = [queue EXCEPT ![c] = Tail(queue[c])]
    BY <1>5 DEF Receive
  <2>2. /\ OnePlace'
        /\ \A l \in Lwts : Sent(l)' <=> Sent(l) /\ l # Head(queue[c])
    BY <1>5, <2>1, ReceiveSent
  <2>3. \/ state' = state
        \/ state' = [state EXCEPT ![Head(queue[c])] = "RUNNABLE"]
    BY <1>5 DEF Receive, Adopt
  <2>4. ASSUME NEW l \in Lwts, Sent(l)'
        PROVE  Linked(l)' /\ state'[l] = "BLOCKED" /\ flag'[l] = "NOJOIN"
    BY <1>1, <1>3, <2>2, <2>3, <2>4, Sorts
  <2> QED
    BY <2>2, <2>4 DEF Transit
<1> QED
  BY <1>4, <1>5

LEMMA TransitStep == ASSUME Careful PROVE KInv /\ Next => Transit'
<1>1. SUFFICES ASSUME KInv, Next PROVE Transit'
  OBVIOUS
<1>0. /\ TypeOK /\ pc \in [Elems -> Places] /\ Kinds /\ born \in 0..MaxLwt
      /\ state \in [Elems -> {"RUNNABLE", "BLOCKED", "DEAD"}]
      /\ flag \in [Lwts -> {"DEFAULT", "NOJOIN"}]
      /\ \A l \in Lwts : Sent(l) => Linked(l) /\ state[l] = "BLOCKED" /\ flag[l] = "NOJOIN"
  BY <1>1 DEF KInv, Transit, TypeOK
<1>2. CASE \/ (\E k \in Kthd : lwt_kthd_create(k)) \/ StartLoop \/ lwt_yield
           \/ (\E c \in Chan : lwt_chan(c))
  <2>1. UNCHANGED <<queue, load, pc, state, flag>>
    BY <1>2 DEF lwt_kthd_create, StartLoop, lwt_yield, lwt_chan, chans, waits, fields
  <2> QED
    BY <1>0, <1>1, <2>1, SameLinked, TransitQuiet, Sorts
<1>3. CASE Scan
  <2>1. /\ UNCHANGED <<queue, load, state, flag>> /\ scanning
        /\ pc' = pc \/ (pc[on] = "dying" /\ Goto("gone"))
    BY <1>3 DEF Scan, chans, waits, fields
  <2>2. pc[on] = "dying" => state[on] = "RUNNABLE"
    BY <1>1, <2>1 DEF KInv, Home, Passed
  <2>3. \A l \in Lwts : Sent(l) => pc'[l] = pc[l]
    BY <1>0, <2>1, <2>2, Sorts DEF Goto
  <2> QED
    BY <1>0, <1>1, <2>1, <2>3, TransitQuiet DEF Linked
<1>4. ASSUME NEW c, NEW ls, NEW f, NEW function, Born(born + 1, c, ls, f, function),
             \/ pc' = [pc EXCEPT ![born + 1] = "user"]
             \/ \E k \in Kthd : pc' = [pc EXCEPT ![k] = "loop", ![born + 1] = "user"],
             UNCHANGED <<queue, load, state>>
      PROVE  Transit'
  <2>1. born + 1 \in Lwts /\ pc[born + 1] = "new" /\ flag' = [flag EXCEPT ![born + 1] = f]
    BY <1>0, <1>4 DEF Born, Kinds
  <2>2. \A l \in Lwts : Sent(l) => l # born + 1
    BY <1>0, <2>1 DEF Linked
  <2>3. \A l \in Lwts : Sent(l) => pc'[l] = pc[l] /\ flag'[l] = flag[l]
    BY <1>0, <1>4, <2>1, <2>2, Sorts
  <2> QED
    BY <1>0, <1>1, <1>4, <2>3, TransitQuiet DEF Linked
<1>5. ASSUME NEW k \in Kthd, KthdStart(k) PROVE Transit'
  BY <1>4, <1>5 DEF KthdStart, chans, waits
<1>6. ASSUME NEW f \in {"DEFAULT", "NOJOIN"}, lwt_create(f) PROVE Transit'
  BY <1>4, <1>6 DEF lwt_create, chans, waits
<1>7. ASSUME NEW k \in Kthd, KthdLoop(k) \/ KthdCount(k) PROVE Transit'
  <2>1. UNCHANGED <<queue, load, state, flag>> /\ on = k /\ (Goto("count") \/ Goto("loop"))
    BY <1>7 DEF KthdLoop, KthdCount, GiveWay, chans, waits, fields
  <2>2. \A l \in Lwts : pc'[l] = pc[l]
    BY <1>0, <2>1, Sorts DEF Goto
  <2> QED
    BY <1>0, <1>1, <2>1, <2>2, TransitQuiet DEF Linked
<1>8. ASSUME on \in Lwts, ~scanning, NEW p \in {"join", "dying", "grp", "user"}, pc' = pc \/ Goto(p),
             UNCHANGED <<queue, load, flag>>,
             state' = state \/ state' = [state EXCEPT ![on] = "BLOCKED"]
      PROVE  Transit'
  <2>1. \A e \in Elems : Linked(e)' <=> Linked(e)
    BY <1>0, <1>1, <1>8, RunningLwt, GotoLinked, SameLinked
  <2> QED
    BY <1>0, <1>1, <1>8, <2>1, RunningLwt, TransitQuiet, Sorts
<1>9. ASSUME NEW t \in Lwts, JoinWait(t) PROVE Transit'
  <2>1. on \in Lwts /\ ~scanning /\ UNCHANGED <<queue, load, flag>> /\ Goto("join")
    BY <1>9 DEF JoinWait, MayJoin, User, At, chans, waits, fields
  <2>2. state' = [state EXCEPT ![on] = "BLOCKED"]
    BY <1>1, <1>9, <2>1, RunningLwt DEF JoinWait
  <2> QED
    BY <1>8, <2>1, <2>2
<1>10. CASE DieDetached \/ lwt_cgrp_wait \/ GrpResume
  <2>1. on \in Lwts /\ ~scanning /\ UNCHANGED <<queue, load, flag, state>>
    BY <1>10 DEF DieDetached, lwt_cgrp_wait, GrpResume, User, At, chans, waits, fields
  <2>2. \E p \in {"join", "dying", "grp", "user"} : pc' = pc \/ Goto(p)
    BY <1>10 DEF DieDetached, lwt_cgrp_wait, GrpResume
  <2> QED
    BY <1>8, <2>1, <2>2
<1>11. CASE DieJoinable
  <2>1. /\ on \in Lwts /\ ~scanning /\ UNCHANGED <<queue, load, flag>> /\ Goto("dead")
        /\ flag[on] = "DEFAULT" /\ on = current_thread
        /\ \A e \in Elems : e # joinedfrom[on] /\ e # on => state'[e] = state[e]
    BY <1>1, <1>11, RunningLwt DEF DieJoinable, User, At, chans, waits, fields
  <2>2. joinedfrom[on] # NULL => Waiting(joinedfrom[on])
    BY <1>1, <2>1, RunningLwt DEF KInv, Joins
  <2>3. \A l \in Lwts : Sent(l) => l # joinedfrom[on] /\ l # on
    BY <1>0, <1>1, <2>1, <2>2, RunningLwt, Sorts DEF Waiting
  <2>4. \A e \in Elems : Linked(e)' <=> Linked(e)
    BY <1>0, <1>1, <2>1, RunningLwt, GotoLinked
  <2> QED
    BY <1>0, <1>1, <2>1, <2>3, <2>4, TransitQuiet, Sorts
<1>12. ASSUME NEW t \in Lwts, state[t] = "DEAD", on \in Lwts, ~scanning, Reap(t),
              UNCHANGED <<queue, load, flag, state>>
       PROVE  Transit'
  <2>1. pc' = [pc EXCEPT ![t] = "gone", ![on] = "user"] /\ Linked(on)
    BY <1>1, <1>12, RunningLwt DEF Reap
  <2>2. \A l \in Lwts : Sent(l) => Linked(l)'
    BY <1>0, <1>12, <2>1, Sorts DEF Linked
  <2> QED
    BY <1>0, <1>1, <1>12, <2>2, TransitQuiet
<1>13. ASSUME NEW t \in Lwts, JoinDead(t) PROVE Transit'
  BY <1>12, <1>13 DEF JoinDead, MayJoin, User, At, chans, waits, fields
<1>14. CASE JoinResume
  <2>1. /\ on \in Lwts /\ ~scanning /\ pc[on] = "join" /\ Reap(joiningto[on])
        /\ UNCHANGED <<queue, load, flag, state>>
    BY <1>14 DEF JoinResume, At, chans, waits, fields
  <2>2. ~Waiting(on)
    BY <1>1, <2>1, RunningLwt DEF Waiting
  <2>3. joiningto[on] \in Lwts /\ state[joiningto[on]] = "DEAD"
    BY <1>1, <2>1, <2>2 DEF KInv, Joins
  <2> QED
    BY <1>12, <2>1, <2>3
<1>15. ASSUME NEW c \in Chan, lwt_snd(c) PROVE Transit'
  <2>1. /\ on \in Lwts /\ ~scanning /\ pc[on] = "user" /\ Send(c, Data)
        /\ flag' = flag /\ state' = state
    BY <1>15 DEF lwt_snd, MaySend, User, At, fields
  <2> QED
    BY <1>0, <1>1, <2>1, FreeUser, SendTransit, Sorts
<1>16. ASSUME NEW c \in Chan, NEW t \in Lwts, lwt_snd_thd(c, t) PROVE Transit'
  <2>1. /\ on \in Lwts /\ ~scanning /\ pc[on] = "user" /\ Send(c, t) /\ Linked(t)
        /\ flag' = flag /\ state' = [state EXCEPT ![t] = "BLOCKED"]
        /\ flag[t] = "NOJOIN" /\ state[t] = "RUNNABLE"
    BY <1>16 DEF lwt_snd_thd, MaySend, User, At, fields
  <2>2. ~Sent(t) /\ \A l \in Lwts : Sent(l) \/ l = t => Linked(l) /\ state'[l] = "BLOCKED" /\ flag[l] = "NOJOIN"
    BY <1>0, <2>1, Sorts
  <2>3. Free(t)
    BY <1>1, <2>1, <2>2, FreeUser
  <2> QED
    BY <1>1, <2>1, <2>2, <2>3, SendTransit
<1>17. CASE SndResume
  <2>1. /\ on \in Lwts /\ ~scanning /\ pc[on] = "snd" /\ Send(at[on], load[on])
        /\ flag' = flag /\ state' = state
    BY <1>17 DEF SndResume, At, fields
  <2>2. at[on] \in Chan /\ load[on] \in Lwts \union {Data}
    BY <1>1, <2>1 DEF KInv, Calls, TypeOK
  <2>3. \A l \in Lwts : l = load[on] => Sent(l)
    BY <2>1 DEF Sent
  <2>4. Free(load[on])
    BY <1>1, <2>1, FreeResume
  <2> QED
    BY <1>0, <1>1, <2>1, <2>2, <2>3, <2>4, SendTransit
<1>18. ASSUME NEW c \in Chan, lwt_rcv(c) PROVE Transit'
  BY <1>1, <1>18, ReceiveTransit DEF lwt_rcv, User, At, fields
<1>19. CASE RcvResume
  <2>1. on \in Lwts /\ ~scanning /\ pc[on] = "rcv" /\ Receive(at[on]) /\ load' = load /\ flag' = flag
    BY <1>19 DEF RcvResume, At, fields
  <2>2. at[on] \in Chan
    BY <1>1, <2>1 DEF KInv, Calls
  <2> QED
    BY <1>1, <2>1, <2>2, ReceiveTransit
<1> QED
  BY <1>1, <1>2, <1>3, <1>5, <1>6, <1>7, <1>9, <1>10, <1>11, <1>13, <1>14, <1>15, <1>16, <1>17, <1>18, <1>19
  DEF Next, KthdStep, LwtStep, ChanStep

----------------------------------------------------------------------------
(* The joins.                                                             *)

\* A step of lwts that neither join nor are being joined.
LEMMA JoinsQuiet ==
    ASSUME KInv, UNCHANGED links,
           \A l \in Lwts : pc'[l] = "join" <=> pc[l] = "join",
           \A l \in Lwts : Waiting(l)' <=> Waiting(l),
           \A l \in Lwts : Waiting(l) => kid'[l] = kid[l],
           \A t \in Lwts : joinedfrom[t] # NULL =>
               /\ flag'[t] = flag[t] /\ kid'[t] = kid[t]
               /\ Linked(t)' <=> Linked(t)
               /\ state'[t] = "DEAD" <=> state[t] = "DEAD"
    PROVE  Joins'
<1>1. joinedfrom' = joinedfrom /\ joiningto' = joiningto /\ Joins
  BY DEF KInv, links
<1>2. \A t \in Lwts : joinedfrom'[t] # NULL => flag'[t] = "DEFAULT"
  BY <1>1 DEF Joins
<1>3. ASSUME NEW l \in Lwts, pc'[l] = "join"
      PROVE  /\ joiningto'[l] \in Lwts /\ joiningto'[l] # l /\ joinedfrom'[joiningto'[l]] = l
             /\ IF Waiting(l)'
                THEN state'[joiningto'[l]] # "DEAD" /\ Linked(joiningto[l])' /\ kid'[joiningto'[l]] = kid'[l]
                ELSE state'[joiningto'[l]] = "DEAD"
  <2>1. /\ joiningto[l] \in Lwts /\ joiningto[l] # l /\ joinedfrom[joiningto[l]] = l
        /\ IF Waiting(l)
           THEN state[joiningto[l]] # "DEAD" /\ Linked(joiningto[l]) /\ kid[joiningto[l]] = kid[l]
           ELSE state[joiningto[l]] = "DEAD"
    BY <1>1, <1>3 DEF Joins
  <2>2. joinedfrom[joiningto[l]] # NULL
    BY <2>1, Sorts
  <2>3. Linked(joiningto[l])' <=> Linked(joiningto[l])
    BY <1>1, <2>1, <2>2 DEF Linked
  <2> QED
    BY <1>1, <2>1, <2>2, <2>3
<1>4. \A l \in Lwts : Waiting(l)' => pc'[l] = "join"
  BY <1>1 DEF Joins
<1>5. ASSUME NEW t \in Lwts, joinedfrom'[t] # NULL, Linked(t)', state'[t] # "DEAD"
      PROVE  /\ pc'[joinedfrom'[t]] = "join" /\ joiningto'[joinedfrom'[t]] = t
             /\ Waiting(joinedfrom[t])'
  <2>1. /\ pc[joinedfrom[t]] = "join" /\ joiningto[joinedfrom[t]] = t
        /\ Waiting(joinedfrom[t])
    BY <1>1, <1>5 DEF Joins
  <2>2. joinedfrom[t] \in Lwts
    BY <1>1, <1>5 DEF KInv, TypeOK
  <2> QED
    BY <1>1, <2>1, <2>2
<1> QED
  BY <1>1, <1>2, <1>3, <1>4, <1>5 DEF Joins, Linked, Waiting, Sent

\* Only pc changes.
LEMMA JoinsPlain ==
    ASSUME KInv, UNCHANGED <<links, state, queue, load, kid, flag>>,
           \A l \in Lwts : pc'[l] = "join" <=> pc[l] = "join",
           \A t \in Lwts : joinedfrom[t] # NULL => (Linked(t)' <=> Linked(t))
    PROVE  Joins'
<1>1. \A l \in Lwts : Waiting(l)' <=> Waiting(l)
  BY DEF Waiting, Sent
<1> QED
  BY <1>1, JoinsQuiet

\* on goes on with its code, or to another place in it.
LEMMA JoinsGoto ==
    ASSUME KInv, on \in Lwts, ~scanning, pc[on] # "join",
           UNCHANGED <<links, state, queue, load, kid, flag>>,
           NEW p, pc' = pc \/ Goto(p), p \notin {"join", "new", "gone"}
    PROVE  Joins'
<1>1. TypeOK /\ Linked(on) /\ on \in Elems /\ pc \in [Elems -> Places]
  BY RunningLwt DEF KInv, TypeOK
<1>2. \A e \in Elems : Linked(e)' <=> Linked(e)
  BY <1>1, GotoLinked, SameLinked
<1>3. \A l \in Lwts : pc'[l] = "join" <=> pc[l] = "join"
  BY <1>1, Sorts DEF Goto
<1> QED
  BY <1>2, <1>3, JoinsPlain, Sorts

LEMMA SendJoins ==
    ASSUME KInv, on \in Lwts, ~scanning, pc[on] # "join",
           NEW c \in Chan, NEW m \in Lwts \union {Data}, Send(c, m), Free(m),
           UNCHANGED <<links, kid, flag>>,
           \A l \in Lwts : l # m => state'[l] = state[l],
           m \in Lwts => state[m] # "DEAD" /\ state'[m] = "BLOCKED" /\ ~Waiting(m)
    PROVE  Joins'
<1>1. TypeOK /\ on \in Elems
  BY RunningLwt DEF KInv
<1>2. \A l \in Lwts : pc'[l] = "join" <=> pc[l] = "join"
  <2>1. Goto("snd") \/ Goto("user")
    BY DEF Send
  <2>2. pc'[on] # "join" /\ \A e \in Elems : e # on => pc'[e] = pc[e]
    BY <1>1, <2>1, GotoAt
  <2> QED
    BY <2>2, Sorts
<1>3. \A l \in Lwts : Sent(l)' <=> Sent(l) \/ l = m
  BY SendSent
<1>4. \A l \in Lwts : Waiting(l)' <=> Waiting(l)
  BY <1>3 DEF Waiting
<1>5. \A e \in Elems : Linked(e)' <=> Linked(e)
  BY SendLinks
<1> QED
  BY <1>2, <1>4, <1>5, JoinsQuiet, Sorts

LEMMA ReceiveJoins ==
    ASSUME KInv, on \in Lwts, ~scanning, pc[on] # "join", NEW c \in Chan, Receive(c),
           UNCHANGED <<links, load, flag>>
    PROVE  Joins'
<1>1. /\ TypeOK /\ Linked(on) /\ on \in Elems
      /\ state \in [Elems -> {"RUNNABLE", "BLOCKED", "DEAD"}]
      /\ kid \in [Elems -> Kthd \union {Boot, NULL}]
  BY RunningLwt DEF KInv, TypeOK
<1>2. Goto("rcv") \/ Goto("user")
  BY DEF Receive
<1>3. \A l \in Lwts : pc'[l] = "join" <=> pc[l] = "join"
  BY <1>1, <1>2, GotoAt, Sorts
<1>4. \A e \in Elems : Linked(e)' <=> Linked(e)
  BY <1>1, <1>2, GotoLinked
<1>5. CASE queue[c] = <<>>
  <2>1. UNCHANGED <<queue, state, kid>>
    BY <1>5 DEF Receive
  <2> QED
    BY <1>3, <1>4, <2>1, JoinsPlain, Sorts
<1>6. CASE queue[c] # <<>> /\ c \notin ThdChan
  <2>1. queue' = [queue EXCEPT ![c] = Tail(queue[c])] /\ UNCHANGED <<state, kid>>
    BY <1>6 DEF Receive
  <2>2. Head(queue[c]) = Data
    <3>1. queue[c] \in Seq({Data})
      BY <1>6 DEF KInv, Calls
    <3> QED
      BY <1>6, <3>1, TailFacts
  <2>3. \A l \in Lwts : Sent(l)' <=> Sent(l)
    BY <1>6, <2>1, <2>2, ReceiveSent, Sorts
  <2>4. \A l \in Lwts : Waiting(l)' <=> Waiting(l)
    BY <2>1, <2>3 DEF Waiting
  <2> QED
    BY <1>3, <1>4, <2>1, <2>4, JoinsQuiet, Sorts
<1>7. CASE queue[c] # <<>> /\ c \in ThdChan
  <2>1. PICK t : t = Head(queue[c])
    OBVIOUS
  <2>2. /\ queue' = [queue EXCEPT ![c] = Tail(queue[c])]
        /\ state' = [state EXCEPT ![t] = "RUNNABLE"]
        /\ kid' = [kid EXCEPT ![t] = kid[current_thread]]
    BY <1>7, <2>1 DEF Receive, Adopt
  <2>3. t \in Lwts /\ Sent(t) /\ state[t] = "BLOCKED" /\ flag[t] = "NOJOIN"
    BY <1>7, <2>1, Received
  <2>4. \A l \in Lwts : Sent(l)' <=> Sent(l) /\ l # t
    BY <1>7, <2>1, <2>2, ReceiveSent
  <2>5. \A l \in Lwts : l # t => state'[l] = state[l] /\ kid'[l] = kid[l]
    BY <1>1, <2>2, <2>3, Sorts
  <2>6. state'[t] = "RUNNABLE"
    BY <1>1, <2>2, <2>3, Sorts
  <2>7. \A l \in Lwts : Waiting(l)' <=> Waiting(l)
    BY <2>3, <2>4, <2>5, <2>6 DEF Waiting
  <2>8. \A u \in Lwts : joinedfrom[u] # NULL \/ Waiting(u) => u # t
    BY <2>3 DEF KInv, Joins, Waiting
  <2> QED
    BY <1>3, <1>4, <2>5, <2>7, <2>8, JoinsQuiet, Sorts
<1> QED
  BY <1>5, <1>6, <1>7

\* What is known of a joiner and its child, spelled out.
LEMMA JoinFacts ==
    ASSUME KInv
    PROVE  /\ \A t \in Lwts : joinedfrom[t] # NULL => flag[t] = "DEFAULT"
           /\ \A l \in Lwts : pc[l] = "join" =>
                 /\ joiningto[l] \in Lwts /\ joiningto[l] # l /\ joinedfrom[joiningto[l]] = l
                 /\ IF Waiting(l)
                    THEN /\ state[joiningto[l]] # "DEAD" /\ Linked(joiningto[l])
                         /\ kid[joiningto[l]] = kid[l]
                    ELSE state[joiningto[l]] = "DEAD"
           /\ \A l \in Lwts : Waiting(l) => pc[l] = "join"
           /\ \A t \in Lwts : joinedfrom[t] # NULL /\ Linked(t) /\ state[t] # "DEAD" =>
                 /\ joinedfrom[t] \in Lwts
                 /\ pc[joinedfrom[t]] = "join" /\ joiningto[joinedfrom[t]] = t
                 /\ Waiting(joinedfrom[t])
  BY DEF KInv, Joins, TypeOK

LEMMA JoinDeadJoins == ASSUME Careful, KInv, NEW t \in Lwts, JoinDead(t) PROVE Joins'
<1>1. /\ on \in Lwts /\ ~scanning /\ pc[on] = "user" /\ state[t] = "DEAD" /\ Linked(t)
      /\ flag[t] = "DEFAULT" /\ joinedfrom[t] = NULL
      /\ UNCHANGED <<state, kid, flag, queue, load>>
  BY DEF JoinDead, MayJoin, User, At, fields, chans, waits
<1>2. /\ on = current_thread /\ state[on] = "RUNNABLE" /\ on \in Elems /\ on # t
      /\ pc \in [Elems -> Places] /\ joinedfrom \in [Lwts -> Lwts \union {NULL}]
      /\ joiningto \in [Lwts -> Lwts \union {NULL}]
  BY <1>1, RunningLwt DEF KInv, TypeOK
<1>3. /\ pc' = [pc EXCEPT ![t] = "gone", ![on] = "user"]
      /\ joiningto' = [joiningto EXCEPT ![on] = t]
      /\ joinedfrom' = [joinedfrom EXCEPT ![t] = on]
  BY <1>1, <1>2 DEF JoinDead, Relate, Reap
<1>4. /\ \A l \in Lwts : l # on /\ l # t => pc'[l] = pc[l]
      /\ pc'[on] = "user" /\ pc'[t] = "gone" /\ joinedfrom'[t] = on
      /\ \A l \in Lwts : l # on => joiningto'[l] = joiningto[l]
      /\ \A l \in Lwts : l # t => joinedfrom'[l] = joinedfrom[l]
  BY <1>2, <1>3, Sorts
<1>5. \A l \in Lwts : Waiting(l)' <=> Waiting(l)
  BY <1>1 DEF Waiting, Sent
<1>6. \A u \in Lwts : joinedfrom'[u] # NULL => flag'[u] = "DEFAULT"
  BY <1>1, <1>4, JoinFacts
<1>7. ASSUME NEW l \in Lwts, pc'[l] = "join"
      PROVE  LET u == joiningto[l]
             IN  /\ joiningto'[l] = u /\ u \in Lwts /\ u # l /\ joinedfrom'[u] = l
                 /\ IF Waiting(l)'
                    THEN state'[u] # "DEAD" /\ pc'[u] \notin {"new", "gone"} /\ kid'[u] = kid'[l]
                    ELSE state'[u] = "DEAD"
  <2>1. PICK u : u = joiningto[l]
    OBVIOUS
  <2>2. l # on /\ l # t /\ pc[l] = "join"
    BY <1>4, <1>7
  <2>3. /\ u \in Lwts /\ u # l /\ joinedfrom[u] = l
        /\ IF Waiting(l) THEN state[u] # "DEAD" /\ Linked(u) /\ kid[u] = kid[l]
                         ELSE state[u] = "DEAD"
    BY <2>1, <2>2, JoinFacts
  <2>4. u # t
    BY <1>1, <2>3, Sorts
  <2>5. Linked(u) => pc'[u] \notin {"new", "gone"}
    BY <1>4, <2>3, <2>4 DEF Linked
  <2> QED
    BY <1>1, <1>4, <1>5, <2>1, <2>2, <2>3, <2>4, <2>5
<1>8. \A l \in Lwts : Waiting(l)' => pc'[l] = "join"
  <2>1. \A l \in Lwts : Waiting(l) => l # on /\ l # t
    BY <1>1, <1>2 DEF Waiting
  <2> QED
    BY <1>4, <1>5, <2>1, JoinFacts
<1>9. ASSUME NEW u \in Lwts, joinedfrom'[u] # NULL, Linked(u)', state'[u] # "DEAD"
      PROVE  LET l == joinedfrom[u]
             IN  joinedfrom'[u] = l /\ pc'[l] = "join" /\ joiningto'[l] = u /\ l \in Lwts /\ Waiting(l)
  <2>1. u # t /\ joinedfrom'[u] = joinedfrom[u] /\ Linked(u)
    BY <1>1, <1>4, <1>9 DEF Linked
  <2>2. PICK l : l = joinedfrom[u]
    OBVIOUS
  <2>3. l \in Lwts /\ pc[l] = "join" /\ joiningto[l] = u /\ Waiting(l)
    BY <1>1, <1>9, <2>1, <2>2, JoinFacts
  <2>4. l # on /\ l # t
    BY <1>1, <2>3 DEF Waiting
  <2> QED
    BY <1>4, <2>1, <2>2, <2>3, <2>4
<1> QED
  BY <1>5, <1>6, <1>7, <1>8, <1>9 DEF Joins, Linked, Waiting, Sent

LEMMA JoinWaitJoins == ASSUME Careful, KInv, NEW t \in Lwts, JoinWait(t) PROVE Joins'
<1>1. /\ on \in Lwts /\ ~scanning /\ pc[on] = "user" /\ state[t] = "RUNNABLE" /\ Linked(t)
      /\ flag[t] = "DEFAULT" /\ joinedfrom[t] = NULL
      /\ UNCHANGED <<kid, flag, queue, load>>
  BY DEF JoinWait, MayJoin, User, At, fields, chans, waits
<1>2. /\ on = current_thread /\ state[on] = "RUNNABLE" /\ on \in Elems /\ on # t
      /\ pc \in [Elems -> Places] /\ joinedfrom \in [Lwts -> Lwts \union {NULL}]
      /\ joiningto \in [Lwts -> Lwts \union {NULL}] /\ kid[t] = kid[on]
      /\ state \in [Elems -> {"RUNNABLE", "BLOCKED", "DEAD"}]
  <2>1. on = current_thread /\ state[on] = "RUNNABLE" /\ on \in Elems
    BY <1>1, RunningLwt
  <2>2. t # current_thread /\ kid[t] = kid[current_thread]
    BY DEF JoinWait, MayJoin
  <2> QED
    BY <2>1, <2>2 DEF KInv, TypeOK
<1>3. /\ pc' = [pc EXCEPT ![on] = "join"]
      /\ joiningto' = [joiningto EXCEPT ![on] = t]
      /\ joinedfrom' = [joinedfrom EXCEPT ![t] = on]
      /\ state' = [state EXCEPT ![on] = "BLOCKED"]
  BY <1>1, <1>2 DEF JoinWait, Relate, Goto
<1>4. /\ \A l \in Lwts : l # on => pc'[l] = pc[l] /\ joiningto'[l] = joiningto[l] /\ state'[l] = state[l]
      /\ pc'[on] = "join" /\ joiningto'[on] = t /\ state'[on] = "BLOCKED" /\ joinedfrom'[t] = on
      /\ \A l \in Lwts : l # t => joinedfrom'[l] = joinedfrom[l]
  <2>1. /\ \A l \in Lwts : l # on => pc'[l] = pc[l] /\ state'[l] = state[l]
        /\ pc'[on] = "join" /\ state'[on] = "BLOCKED"
    BY <1>2, <1>3, Sorts
  <2>2. /\ \A l \in Lwts : l # on => joiningto'[l] = joiningto[l]
        /\ \A l \in Lwts : l # t => joinedfrom'[l] = joinedfrom[l]
        /\ joiningto'[on] = t /\ joinedfrom'[t] = on
    BY <1>1, <1>2, <1>3
  <2> QED
    BY <2>1, <2>2
<1>5. \A l \in Lwts : Waiting(l)' <=> (l = on \/ Waiting(l))
  <2>1. \A l \in Lwts : Sent(l)' <=> Sent(l)
    BY <1>1 DEF Sent
  <2>2. ~Sent(on)
    BY <1>1, <1>2 DEF KInv, Transit
  <2> QED
    BY <1>1, <1>4, <2>1, <2>2 DEF Waiting
<1>6. \A u \in Lwts : joinedfrom'[u] # NULL => flag'[u] = "DEFAULT"
  BY <1>1, <1>4, JoinFacts
<1>7. ASSUME NEW l \in Lwts, pc'[l] = "join"
      PROVE  /\ joiningto'[l] \in Lwts /\ joiningto'[l] # l /\ joinedfrom'[joiningto'[l]] = l
             /\ IF Waiting(l)'
                THEN /\ state'[joiningto'[l]] # "DEAD" /\ pc'[joiningto'[l]] \notin {"new", "gone"}
                     /\ kid'[joiningto'[l]] = kid'[l]
                ELSE state'[joiningto'[l]] = "DEAD"
  <2>1. CASE l = on
    <3>1. pc'[t] \notin {"new", "gone"} /\ state'[t] = "RUNNABLE" /\ kid'[t] = kid'[on]
      BY <1>1, <1>2, <1>4 DEF Linked
    <3> QED
      BY <1>2, <1>4, <1>5, <2>1, <3>1
  <2>2. CASE l # on
    <3>1. PICK u : u = joiningto[l]
      OBVIOUS
    <3>2. pc[l] = "join" /\ joiningto'[l] = u
      BY <1>4, <1>7, <2>2, <3>1
    <3>3. /\ u \in Lwts /\ u # l /\ joinedfrom[u] = l
          /\ IF Waiting(l) THEN state[u] # "DEAD" /\ Linked(u) /\ kid[u] = kid[l]
                           ELSE state[u] = "DEAD"
      BY <3>1, <3>2, JoinFacts
    <3>4. u # t /\ joinedfrom'[u] = l
      BY <1>1, <1>4, <3>3, Sorts
    <3>5. Linked(u) => pc'[u] \notin {"new", "gone"}
      BY <1>4, <3>3 DEF Linked
    <3>6. state'[u] = "DEAD" <=> state[u] = "DEAD"
      BY <1>2, <1>4, <3>3
    <3> QED
      BY <1>1, <1>5, <2>2, <3>2, <3>3, <3>4, <3>5, <3>6
  <2> QED
    BY <2>1, <2>2
<1>8. \A l \in Lwts : Waiting(l)' => pc'[l] = "join"
  BY <1>4, <1>5, JoinFacts
<1>9. ASSUME NEW u \in Lwts, joinedfrom'[u] # NULL, Linked(u)', state'[u] # "DEAD"
      PROVE  LET l == joinedfrom'[u]
             IN  l \in Lwts /\ pc'[l] = "join" /\ joiningto'[l] = u /\ (l = on \/ Waiting(l))
  <2>1. CASE u = t
    BY <1>1, <1>4, <2>1
  <2>2. CASE u # t
    <3>1. joinedfrom'[u] = joinedfrom[u] /\ state[u] # "DEAD" /\ Linked(u)
      BY <1>1, <1>2, <1>4, <1>9, <2>2 DEF Linked
    <3>2. PICK l : l = joinedfrom[u]
      OBVIOUS
    <3>3. l \in Lwts /\ pc[l] = "join" /\ joiningto[l] = u /\ Waiting(l)
      BY <1>9, <3>1, <3>2, JoinFacts
    <3>4. l # on
      BY <1>1, <3>3
    <3> QED
      BY <1>4, <3>1, <3>2, <3>3, <3>4
  <2> QED
    BY <2>1, <2>2
<1> QED
  BY <1>5, <1>6, <1>7, <1>8, <1>9 DEF Joins, Linked, Waiting, Sent

LEMMA JoinResumeJoins == ASSUME KInv, JoinResume PROVE Joins'
<1>1. /\ on \in Lwts /\ ~scanning /\ pc[on] = "join" /\ Reap(joiningto[on])
      /\ UNCHANGED <<state, kid, flag, queue, load>>
      /\ joinedfrom' = joinedfrom /\ joiningto' = joiningto
  BY DEF JoinResume, At, fields, chans, waits, links
<1>2. state[on] = "RUNNABLE" /\ on \in Elems /\ Linked(on) /\ pc \in [Elems -> Places]
  BY <1>1, RunningLwt DEF KInv, TypeOK
<1>3. PICK t : t = joiningto[on]
  OBVIOUS
<1>4. t \in Lwts /\ t # on /\ joinedfrom[t] = on /\ state[t] = "DEAD"
  <2>1. ~Waiting(on)
    BY <1>2 DEF Waiting
  <2> QED
    BY <1>1, <1>3, <2>1, JoinFacts
<1>5. pc' = [pc EXCEPT ![t] = "gone", ![on] = "user"]
  BY <1>1, <1>3 DEF Reap
<1>6. pc'[t] = "gone" /\ pc'[on] = "user" /\ \A l \in Lwts : l # on /\ l # t => pc'[l] = pc[l]
  BY <1>2, <1>4, <1>5, Sorts
<1>7. \A l \in Lwts : /\ Waiting(l)' <=> Waiting(l)
                      /\ Waiting(l) => l # on /\ l # t
  BY <1>1, <1>2, <1>4 DEF Waiting, Sent
<1>8. \A u \in Lwts : joinedfrom'[u] # NULL => flag'[u] = "DEFAULT"
  BY <1>1, JoinFacts
<1>9. ASSUME NEW l \in Lwts, pc'[l] = "join"
      PROVE  /\ joiningto'[l] \in Lwts /\ joiningto'[l] # l /\ joinedfrom'[joiningto'[l]] = l
             /\ IF Waiting(l)'
                THEN /\ state'[joiningto'[l]] # "DEAD" /\ pc'[joiningto'[l]] \notin {"new", "gone"}
                     /\ kid'[joiningto'[l]] = kid'[l]
                ELSE state'[joiningto'[l]] = "DEAD"
  <2>1. PICK u : u = joiningto[l]
    OBVIOUS
  <2>2. l # on /\ pc[l] = "join"
    BY <1>6, <1>9
  <2>3. /\ u \in Lwts /\ u # l /\ joinedfrom[u] = l
        /\ IF Waiting(l) THEN state[u] # "DEAD" /\ Linked(u) /\ kid[u] = kid[l]
                         ELSE state[u] = "DEAD"
    BY <2>1, <2>2, JoinFacts
  <2>4. u # t
    BY <1>4, <2>2, <2>3
  <2>5. Linked(u) => pc'[u] \notin {"new", "gone"}
    BY <1>6, <2>3, <2>4 DEF Linked
  <2> QED
    BY <1>1, <1>7, <2>1, <2>3, <2>5
<1>10. \A l \in Lwts : Waiting(l)' => pc'[l] = "join"
  BY <1>6, <1>7, JoinFacts
<1>11. ASSUME NEW u \in Lwts, joinedfrom'[u] # NULL, Linked(u)', state'[u] # "DEAD"
       PROVE  LET l == joinedfrom'[u]
              IN  l \in Lwts /\ pc'[l] = "join" /\ joiningto'[l] = u /\ Waiting(l)
  <2>1. Linked(u) /\ state[u] # "DEAD"
    BY <1>1, <1>2, <1>6, <1>11 DEF Linked
  <2> QED
    BY <1>1, <1>6, <1>7, <1>11, <2>1, JoinFacts
<1> QED
  BY <1>7, <1>8, <1>9, <1>10, <1>11 DEF Joins, Linked, Waiting, Sent

LEMMA DieJoins == ASSUME KInv, DieJoinable PROVE Joins'
<1>1. /\ on \in Lwts /\ ~scanning /\ pc[on] = "user" /\ flag[on] = "DEFAULT" /\ Goto("dead")
      /\ UNCHANGED <<kid, flag, queue, load>>
      /\ joinedfrom' = joinedfrom /\ joiningto' = joiningto
  BY DEF DieJoinable, User, At, fields, chans, waits, links
<1>2. /\ on = current_thread /\ state[on] = "RUNNABLE" /\ on \in Elems /\ Linked(on)
      /\ joinedfrom \in [Lwts -> Lwts \union {NULL}] /\ TypeOK
      /\ state \in [Elems -> {"RUNNABLE", "BLOCKED", "DEAD"}]
  BY <1>1, RunningLwt DEF KInv, TypeOK
<1>3. PICK j : j = joinedfrom[on]
  OBVIOUS
<1>4. /\ j # NULL => j \in Lwts /\ pc[j] = "join" /\ joiningto[j] = on /\ Waiting(j)
      /\ j # on
  BY <1>1, <1>2, <1>3, JoinFacts, Sorts
<1>5. \A e \in Elems : state'[e] = IF e = j THEN "RUNNABLE" ELSE IF e = on THEN "DEAD" ELSE state[e]
  BY <1>2, <1>3 DEF DieJoinable
<1>6. pc'[on] = "dead" /\ \A l \in Lwts : l # on => pc'[l] = pc[l]
  BY <1>1, <1>2, GotoAt, Sorts
<1>7. \A l \in Lwts : Waiting(l)' <=> Waiting(l) /\ l # j
  <2>1. \A l \in Lwts : Sent(l)' <=> Sent(l)
    BY <1>1 DEF Sent
  <2> QED
    BY <1>2, <1>4, <1>5, <2>1, Sorts DEF Waiting
<1>8. \A u \in Lwts : joinedfrom'[u] # NULL => flag'[u] = "DEFAULT"
  BY <1>1, JoinFacts
<1>9. ASSUME NEW l \in Lwts, pc'[l] = "join"
      PROVE  /\ joiningto'[l] \in Lwts /\ joiningto'[l] # l /\ joinedfrom'[joiningto'[l]] = l
             /\ IF Waiting(l)'
                THEN /\ state'[joiningto'[l]] # "DEAD" /\ pc'[joiningto'[l]] \notin {"new", "gone"}
                     /\ kid'[joiningto'[l]] = kid'[l]
                ELSE state'[joiningto'[l]] = "DEAD"
  <2>1. PICK u : u = joiningto[l]
    OBVIOUS
  <2>2. l # on /\ pc[l] = "join"
    BY <1>6, <1>9
  <2>3. /\ u \in Lwts /\ u # l /\ joinedfrom[u] = l
        /\ IF Waiting(l) THEN state[u] # "DEAD" /\ Linked(u) /\ kid[u] = kid[l]
                         ELSE state[u] = "DEAD"
    BY <2>1, <2>2, JoinFacts
  <2>4. CASE l = j
    <3>1. u = on /\ ~Waiting(l)'
      BY <1>4, <1>7, <2>1, <2>4, Sorts
    <3>2. state'[on] = "DEAD"
      BY <1>2, <1>4, <1>5
    <3> QED
      BY <1>1, <2>1, <2>3, <3>1, <3>2
  <2>5. CASE l # j
    <3>1. u # on /\ (Waiting(l)' <=> Waiting(l))
      BY <1>3, <1>7, <2>3, <2>5
    <3>2. state'[u] = "DEAD" <=> state[u] = "DEAD"
      BY <1>4, <1>5, <2>3, <3>1, Sorts DEF Waiting
    <3>3. Linked(u) => pc'[u] \notin {"new", "gone"}
      BY <1>6, <2>3, <3>1 DEF Linked
    <3> QED
      BY <1>1, <2>1, <2>3, <3>1, <3>2, <3>3
  <2> QED
    BY <2>4, <2>5
<1>10. \A l \in Lwts : Waiting(l)' => pc'[l] = "join"
  BY <1>1, <1>6, <1>7, <1>2, JoinFacts DEF Waiting
<1>11. ASSUME NEW u \in Lwts, joinedfrom'[u] # NULL, Linked(u)', state'[u] # "DEAD"
       PROVE  LET l == joinedfrom'[u]
              IN  l \in Lwts /\ pc'[l] = "join" /\ joiningto'[l] = u /\ Waiting(l) /\ l # j
  <2>1. u # on
    BY <1>2, <1>4, <1>5, <1>11
  <2>2. Linked(u) /\ state[u] # "DEAD"
    BY <1>4, <1>5, <1>6, <1>11, <2>1, Sorts DEF Linked, Waiting
  <2>3. PICK l : l = joinedfrom[u]
    OBVIOUS
  <2>4. l \in Lwts /\ pc[l] = "join" /\ joiningto[l] = u /\ Waiting(l)
    BY <1>1, <1>11, <2>2, <2>3, JoinFacts
  <2>5. l # on /\ l # j
    BY <1>1, <1>4, <2>1, <2>4, Sorts
  <2> QED
    BY <1>1, <1>6, <2>3, <2>4, <2>5
<1> QED
  BY <1>7, <1>8, <1>9, <1>10, <1>11 DEF Joins, Linked, Waiting, Sent

LEMMA JoinsStep == ASSUME Careful PROVE KInv /\ Next => Joins'
<1>1. SUFFICES ASSUME KInv, Next PROVE Joins'
  OBVIOUS
<1>0. /\ TypeOK /\ pc \in [Elems -> Places] /\ Kinds /\ born \in 0..MaxLwt
      /\ kid \in [Elems -> Kthd \union {Boot, NULL}]
      /\ state \in [Elems -> {"RUNNABLE", "BLOCKED", "DEAD"}]
      /\ flag \in [Lwts -> {"DEFAULT", "NOJOIN"}]
      /\ \A t \in Lwts : pc[t] = "new" => joinedfrom[t] = NULL
  BY <1>1 DEF KInv, TypeOK, Counted
<1>2. CASE \/ (\E k \in Kthd : lwt_kthd_create(k)) \/ StartLoop \/ lwt_yield
           \/ (\E c \in Chan : lwt_chan(c))
  <2>1. UNCHANGED <<links, queue, load, kid, pc, state, flag>>
    BY <1>2 DEF lwt_kthd_create, StartLoop, lwt_yield, lwt_chan, chans, waits, fields
  <2> QED
    BY <1>1, <2>1, SameLinked, JoinsPlain, Sorts
<1>3. CASE Scan
  <2>1. /\ UNCHANGED <<links, state, queue, load, kid, flag>> /\ scanning
        /\ pc' = pc \/ (pc[on] = "dying" /\ Goto("gone"))
    BY <1>3 DEF Scan, chans, waits, fields
  <2>2. pc[on] = "dying" => flag[on] = "NOJOIN"
    BY <1>1, <2>1 DEF KInv, Home, Passed
  <2>3. \A l \in Lwts : pc'[l] = pc[l] \/ (l = on /\ pc[on] = "dying" /\ pc'[l] = "gone")
    BY <1>0, <2>1, Sorts DEF Goto
  <2>4. \A t \in Lwts : joinedfrom[t] # NULL => pc'[t] = pc[t]
    BY <1>1, <2>2, <2>3, JoinFacts
  <2> QED
    BY <1>1, <2>1, <2>3, <2>4, JoinsPlain DEF Linked
<1>4. ASSUME NEW c, NEW ls, NEW f, NEW function, Born(born + 1, c, ls, f, function),
             \/ pc' = [pc EXCEPT ![born + 1] = "user"]
             \/ \E k \in Kthd : pc' = [pc EXCEPT ![k] = "loop", ![born + 1] = "user"],
             UNCHANGED <<links, queue, load, state>>
      PROVE  Joins'
  <2>1. /\ born + 1 \in Lwts /\ pc[born + 1] = "new" /\ flag' = [flag EXCEPT ![born + 1] = f]
        /\ kid' = [kid EXCEPT ![born + 1] = kid[c]]
    BY <1>0, <1>4 DEF Born, Kinds
  <2>2. \A l \in Lwts : l # born + 1 => pc'[l] = pc[l] /\ flag'[l] = flag[l] /\ kid'[l] = kid[l]
    BY <1>0, <1>4, <2>1, Sorts
  <2>3. pc'[born + 1] = "user"
    BY <1>0, <1>4, <2>1, Sorts
  <2>4. \A l \in Lwts : Waiting(l)' <=> Waiting(l)
    BY <1>4 DEF Waiting, Sent
  <2>5. ~Waiting(born + 1)
    BY <1>1, <2>1, JoinFacts
  <2>6. \A l \in Lwts : pc'[l] = "join" <=> pc[l] = "join"
    BY <2>1, <2>2, <2>3
  <2>7. \A t \in Lwts : joinedfrom[t] # NULL \/ Waiting(t) => t # born + 1
    BY <1>0, <2>1, <2>5
  <2>8. \A t \in Lwts : t # born + 1 => (Linked(t)' <=> Linked(t))
    BY <2>2 DEF Linked
  <2> QED
    BY <1>1, <1>4, <2>2, <2>4, <2>6, <2>7, <2>8, JoinsQuiet
<1>5. ASSUME NEW k \in Kthd, KthdStart(k) PROVE Joins'
  BY <1>4, <1>5 DEF KthdStart, chans, waits
<1>6. ASSUME NEW f \in {"DEFAULT", "NOJOIN"}, lwt_create(f) PROVE Joins'
  BY <1>4, <1>6 DEF lwt_create, chans, waits
<1>7. ASSUME NEW k \in Kthd, KthdLoop(k) \/ KthdCount(k) PROVE Joins'
  <2>1. UNCHANGED <<links, state, queue, load, kid, flag>> /\ on = k /\ (Goto("count") \/ Goto("loop"))
    BY <1>7 DEF KthdLoop, KthdCount, GiveWay, chans, waits, fields
  <2>2. \A l \in Lwts : pc'[l] = pc[l]
    BY <1>0, <2>1, Sorts DEF Goto
  <2> QED
    BY <1>1, <2>1, <2>2, JoinsPlain DEF Linked
<1>8. CASE DieDetached \/ lwt_cgrp_wait \/ GrpResume
  <2>1. /\ on \in Lwts /\ ~scanning /\ pc[on] # "join"
        /\ UNCHANGED <<links, state, queue, load, kid, flag>>
    BY <1>8 DEF DieDetached, lwt_cgrp_wait, GrpResume, User, At, chans, waits, fields
  <2>2. PICK p \in {"dying", "grp", "user"} : pc' = pc \/ Goto(p)
    BY <1>8 DEF DieDetached, lwt_cgrp_wait, GrpResume
  <2> QED
    BY <1>1, <2>1, <2>2, JoinsGoto
<1>9. ASSUME NEW c \in Chan, lwt_snd(c) PROVE Joins'
  <2>1. /\ on \in Lwts /\ ~scanning /\ pc[on] = "user" /\ Send(c, Data)
        /\ UNCHANGED <<links, kid, flag, state>>
    BY <1>9 DEF lwt_snd, MaySend, User, At, fields
  <2> QED
    BY <1>1, <2>1, FreeUser, SendJoins, Sorts
<1>10. ASSUME NEW c \in Chan, NEW t \in Lwts, lwt_snd_thd(c, t) PROVE Joins'
  <2>1. /\ on \in Lwts /\ ~scanning /\ pc[on] = "user" /\ Send(c, t)
        /\ UNCHANGED <<links, kid, flag>> /\ state' = [state EXCEPT ![t] = "BLOCKED"]
        /\ state[t] = "RUNNABLE"
    BY <1>10 DEF lwt_snd_thd, MaySend, User, At, fields
  <2>2. ~Waiting(t) /\ ~Sent(t)
    BY <1>1, <2>1 DEF Waiting, KInv, Transit
  <2>3. Free(t)
    BY <1>1, <2>1, <2>2, FreeUser
  <2>4. state'[t] = "BLOCKED" /\ \A l \in Lwts : l # t => state'[l] = state[l]
    BY <1>0, <2>1, Sorts
  <2> QED
    BY <1>1, <2>1, <2>2, <2>3, <2>4, SendJoins
<1>11. CASE SndResume
  <2>1. /\ on \in Lwts /\ ~scanning /\ pc[on] = "snd" /\ Send(at[on], load[on])
        /\ UNCHANGED <<links, kid, flag, state>>
    BY <1>11 DEF SndResume, At, fields
  <2>2. at[on] \in Chan /\ load[on] \in Lwts \union {Data}
    BY <1>1, <2>1 DEF KInv, Calls, TypeOK
  <2>3. Free(load[on])
    BY <1>1, <2>1, FreeResume
  <2>4. load[on] \in Lwts => Sent(load[on])
    BY <2>1 DEF Sent
  <2>5. load[on] \in Lwts => state[load[on]] = "BLOCKED" /\ ~Waiting(load[on])
    BY <1>1, <2>4 DEF KInv, Transit, Waiting
  <2> QED
    BY <1>1, <2>1, <2>2, <2>3, <2>5, SendJoins
<1>12. ASSUME NEW c \in Chan, lwt_rcv(c) PROVE Joins'
  BY <1>1, <1>12, ReceiveJoins DEF lwt_rcv, User, At, fields
<1>13. CASE RcvResume
  <2>1. /\ on \in Lwts /\ ~scanning /\ pc[on] = "rcv" /\ Receive(at[on])
        /\ UNCHANGED <<links, load, flag>>
    BY <1>13 DEF RcvResume, At, fields
  <2>2. at[on] \in Chan
    BY <1>1, <2>1 DEF KInv, Calls
  <2> QED
    BY <1>1, <2>1, <2>2, ReceiveJoins
<1> QED
  BY <1>1, <1>2, <1>3, <1>5, <1>6, <1>7, <1>8, <1>9, <1>10, <1>11, <1>12, <1>13,
     JoinDeadJoins, JoinWaitJoins, JoinResumeJoins, DieJoins
  DEF Next, KthdStep, LwtStep, ChanStep

----------------------------------------------------------------------------
(* The kthds that stopped.                                                *)

LEMMA ForgottenKeeps ==
    ASSUME KInv,
           \A k \in Kthd : Stopped(k)' => Stopped(k),
           \A l \in Lwts : Linked(l)' /\ state'[l] = "RUNNABLE" =>
               \/ Linked(l) /\ kid'[l] = kid[l] /\ state[l] = "RUNNABLE"
               \/ \A k \in Kthd : Stopped(k)' => kid'[l] # k
    PROVE  NoneForgotten'
<1>1. NoneForgotten
  BY DEF KInv
<1> QED
  BY <1>1 DEF NoneForgotten

\* The kthd that has the processor has not stopped, whatever is put into the
\* queue behind it.
LEMMA StoppedKeeps ==
    ASSUME KInv, \A k \in Kthd : pc'[k] = pc[k],
           runq' = runq \/ \E k \in Kthd : runq' = Append(runq, k)
    PROVE  \A k \in Kthd : /\ Stopped(k)' => Stopped(k)
                           /\ runq # <<>> => (Stopped(k)' => k # Head(runq))
<1>1. runq \in Seq(Kthd)
  BY DEF KInv, TypeOK
<1>2. /\ \A i \in DOMAIN runq : i \in DOMAIN runq' /\ runq'[i] = runq[i]
      /\ runq # <<>> => Head(runq) = runq[1] /\ 1 \in DOMAIN runq
  <2>1. ASSUME NEW k \in Kthd, runq' = Append(runq, k), NEW i \in DOMAIN runq
        PROVE  i \in DOMAIN runq' /\ runq'[i] = runq[i]
    BY <1>1, <2>1, AppendFacts
  <2>2. \A i \in DOMAIN runq : i \in DOMAIN runq' /\ runq'[i] = runq[i]
    BY <2>1
  <2> QED
    BY <1>1, <2>2, TailFacts
<1> QED
  BY <1>2 DEF Stopped

LEMMA SendForgotten ==
    ASSUME KInv, on \in Lwts, ~scanning, NEW c \in Chan, NEW m, Send(c, m), kid' = kid,
           \A l \in Lwts : state'[l] = "RUNNABLE" => state[l] = "RUNNABLE"
    PROVE  NoneForgotten'
<1>1. TypeOK /\ on \in Elems
  BY RunningLwt DEF KInv
<1>2. \A k \in Kthd : pc'[k] = pc[k]
  <2>1. Goto("snd") \/ Goto("user")
    BY DEF Send
  <2> QED
    BY <1>1, <2>1, GotoAt, Sorts
<1>3. runq' = runq \/ \E k \in Kthd : runq' = Append(runq, k)
  BY DEF Send, Wake, lwt_schedule
<1>4. \A e \in Elems : Linked(e)' <=> Linked(e)
  BY SendLinks
<1> QED
  BY <1>2, <1>3, <1>4, StoppedKeeps, ForgottenKeeps, Sorts

LEMMA ReceiveForgotten ==
    ASSUME KInv, on \in Lwts, ~scanning, NEW c \in Chan, Receive(c)
    PROVE  NoneForgotten'
<1>1. /\ TypeOK /\ on \in Elems /\ Linked(on) /\ on = current_thread /\ runq # <<>> /\ kid[on] = Head(runq)
      /\ state \in [Elems -> {"RUNNABLE", "BLOCKED", "DEAD"}]
      /\ kid \in [Elems -> Kthd \union {Boot, NULL}]
  BY RunningLwt DEF KInv, TypeOK
<1>2. Goto("rcv") \/ Goto("user")
  BY DEF Receive
<1>3. \A k \in Kthd : pc'[k] = pc[k]
  BY <1>1, <1>2, GotoAt, Sorts
<1>4. \A e \in Elems : Linked(e)' <=> Linked(e)
  BY <1>1, <1>2, GotoLinked
<1>5. runq' = runq
  BY DEF Receive, lwt_schedule, place
<1>6. CASE (queue[c] # <<>> /\ c \in ThdChan)
  <2>1. PICK t : t = Head(queue[c])
    OBVIOUS
  <2>2. state' = [state EXCEPT ![t] = "RUNNABLE"] /\ kid' = [kid EXCEPT ![t] = kid[on]]
    BY <1>1, <1>6, <2>1 DEF Receive, Adopt
  <2>3. t \in Lwts
    BY <1>6, <2>1, Received
  <2>4. kid'[t] = Head(runq) /\ \A l \in Lwts : l # t => state'[l] = state[l] /\ kid'[l] = kid[l]
    BY <1>1, <2>2, <2>3, Sorts
  <2> QED
    BY <1>1, <1>3, <1>4, <1>5, <2>4, StoppedKeeps, ForgottenKeeps, Sorts
<1>7. CASE ~(queue[c] # <<>> /\ c \in ThdChan)
  <2>1. state' = state /\ kid' = kid
    BY <1>7 DEF Receive
  <2> QED
    BY <1>3, <1>4, <1>5, <2>1, StoppedKeeps, ForgottenKeeps, Sorts
<1> QED
  BY <1>6, <1>7

\* A kthd blocks when its walk meets nobody who can run but its main lwt: the
\* walk meets the whole ring.
LEMMA CountForgotten ==
    ASSUME KInv, NEW k \in Kthd, KthdCount(k)
    PROVE  NoneForgotten'
<1>1. /\ on = k /\ ~scanning /\ pc[k] = "count" /\ Goto("loop")
      /\ UNCHANGED <<current_thread, list, state, kid>>
  BY DEF KthdCount, At, GiveWay
<1>2. /\ TypeOK /\ k \in Elems /\ runq # <<>> /\ k = Head(runq) /\ current_thread = k
      /\ kid[k] = k /\ state[k] = "RUNNABLE" /\ Linked(k)
  <2>1. k \in Elems /\ runq # <<>> /\ k = Head(runq) /\ kid[k] = k
    BY <1>1, RunningMain
  <2>2. current_thread = k
    BY <1>1 DEF KInv, Home
  <2> QED
    BY <1>1, <2>1, <2>2 DEF KInv, Kinds, Linked
<1>3. pc'[k] = "loop" /\ \A e \in Elems : e # k => pc'[e] = pc[e]
  BY <1>1, <1>2, GotoAt
<1>4. \A l \in Lwts : Linked(l)' <=> Linked(l)
  BY <1>3, Sorts DEF Linked
<1>5. /\ runq \in Seq(Kthd) /\ Tail(runq) \in Seq(Kthd) /\ Head(runq) = runq[1]
      /\ \A i \in DOMAIN runq : i # 1 => i - 1 \in DOMAIN Tail(runq) /\ Tail(runq)[i - 1] = runq[i]
  <2>1. runq \in Seq(Kthd)
    BY <1>2 DEF TypeOK
  <2> QED
    BY <1>2, <2>1, TailFacts
<1>6. ASSUME NEW j \in Kthd, j # k, \A i \in DOMAIN Tail(runq) : Tail(runq)[i] # j
      PROVE  \A i \in DOMAIN runq : runq[i] # j
  BY <1>2, <1>5, <1>6
<1>7. CASE RunnableIn(current_thread) # 1
  <2>1. runq' = Append(Tail(runq), k)
    BY <1>7 DEF KthdCount, GiveWay
  <2>2. /\ \A i \in DOMAIN Tail(runq) : i \in DOMAIN runq' /\ runq'[i] = Tail(runq)[i]
        /\ \E i \in DOMAIN runq' : runq'[i] = k
    BY <1>5, <2>1, AppendFacts
  <2>3. \A j \in Kthd : Stopped(j)' => Stopped(j)
    BY <1>3, <1>6, <2>2, Sorts DEF Stopped
  <2> QED
    BY <1>1, <1>4, <2>3, ForgottenKeeps
<1>8. CASE RunnableIn(current_thread) = 1
  <2>1. runq' = Tail(runq)
    BY <1>8 DEF KthdCount, GiveWay
  <2>2. \A j \in Kthd : j # k => (Stopped(j)' => Stopped(j))
    BY <1>3, <1>6, <2>1, Sorts DEF Stopped
  <2>3. Walk(list, k) = {x \in Members : kid[x] = k}
    <3>1. Rings(list, Members, kid, Elems) /\ k \in Members
      BY <1>2 DEF KInv, Linkage, Members
    <3> QED
      BY <1>2, <3>1, WalkMeetsRing
  <2> DEFINE S == {x \in Walk(list, k) : state[x] = "RUNNABLE"}
  <2>4. IsFiniteSet(S) /\ Cardinality(S) = 1
    <3>1. IsFiniteSet(Elems)
      <4>1. IsFiniteSet(Lwts)
        BY FS_Interval, KthdAssumption DEF Lwts
      <4>2. IsFiniteSet(Lwts \union Kthd) /\ IsFiniteSet({Boot})
        BY <4>1, FS_Union, FS_Singleton, KthdAssumption
      <4> QED
        BY <4>2, FS_Union DEF Elems
    <3>2. S \subseteq Elems
      BY <2>3 DEF Members
    <3> QED
      BY <1>2, <1>8, <3>1, <3>2, FS_Subset DEF RunnableIn
  <2>5. k \in S
    BY <1>2, <2>3 DEF Members
  <2>6. PICK x : S = {x}
    BY <2>4, FS_Singleton
  <2>7. \A l \in Lwts : Linked(l) /\ kid[l] = k => state[l] # "RUNNABLE"
    BY <2>3, <2>5, <2>6, Sorts DEF Members
  <2>8. NoneForgotten
    BY DEF KInv
  <2> QED
    BY <1>1, <1>4, <2>2, <2>7, <2>8 DEF NoneForgotten
<1> QED
  BY <1>7, <1>8

LEMMA ForgottenStep == ASSUME Careful PROVE KInv /\ Next => NoneForgotten'
<1>1. SUFFICES ASSUME KInv, Next PROVE NoneForgotten'
  OBVIOUS
<1>0. /\ TypeOK /\ pc \in [Elems -> Places] /\ Kinds /\ born \in 0..MaxLwt
      /\ kid \in [Elems -> Kthd \union {Boot, NULL}]
      /\ state \in [Elems -> {"RUNNABLE", "BLOCKED", "DEAD"}]
  BY <1>1 DEF KInv, TypeOK
<1>2. ASSUME \A k \in Kthd : pc'[k] = pc[k],
             runq' = runq \/ \E k \in Kthd : runq' = Append(runq, k),
             kid' = kid, \A l \in Lwts : state'[l] = "RUNNABLE" => state[l] = "RUNNABLE",
             \A l \in Lwts : Linked(l)' => Linked(l)
      PROVE  NoneForgotten'
  BY <1>1, <1>2, StoppedKeeps, ForgottenKeeps
<1>3. CASE \/ (\E k \in Kthd : lwt_kthd_create(k)) \/ StartLoop \/ lwt_yield
           \/ (\E c \in Chan : lwt_chan(c))
  <2>1. UNCHANGED <<kid, pc, state>> /\ (runq' = runq \/ \E k \in Kthd : runq' = Append(runq, k))
    BY <1>3 DEF lwt_kthd_create, StartLoop, lwt_yield, lwt_chan, lwt_schedule, place
  <2>2. \A l \in Lwts : Linked(l)' <=> Linked(l)
    BY <2>1 DEF Linked
  <2> QED
    BY <1>2, <2>1, <2>2
<1>4. CASE Scan
  <2>1. /\ UNCHANGED <<kid, state, runq>> /\ scanning
        /\ pc' = pc \/ (pc[on] = "dying" /\ Goto("gone"))
    BY <1>4 DEF Scan
  <2>2. /\ \A k \in Kthd : pc[k] # "dying"
        /\ \A e \in Elems : pc'[e] = pc[e] \/ (e = on /\ pc[e] = "dying" /\ pc'[e] = "gone")
    BY <1>0, <2>1, Sorts DEF Kinds, Goto
  <2>3. \A l \in Lwts : Linked(l)' => Linked(l)
    BY <2>2, Sorts DEF Linked
  <2> QED
    BY <1>2, <2>1, <2>2, <2>3, Sorts
<1>5. ASSUME NEW k \in Kthd, KthdStart(k) PROVE NoneForgotten'
  <2>1. /\ on = k /\ born + 1 \in Lwts /\ pc[born + 1] = "new" /\ runq' = runq /\ state' = state
        /\ pc' = [pc EXCEPT ![k] = "loop", ![born + 1] = "user"]
        /\ kid' = [kid EXCEPT ![born + 1] = kid[k]] /\ kid[k] = k
    BY <1>0, <1>5 DEF KthdStart, At, Born, Kinds
  <2>2. runq \in Seq(Kthd) /\ runq # <<>> /\ k = Head(runq)
    BY <1>0, <1>1, <2>1, RunningMain DEF TypeOK
  <2>3. \E i \in DOMAIN runq : runq[i] = k
    BY <2>2, TailFacts
  <2>4. /\ \A j \in Kthd : j # k => pc'[j] = pc[j]
        /\ \A l \in Lwts : l # born + 1 => pc'[l] = pc[l] /\ kid'[l] = kid[l]
        /\ kid'[born + 1] = k
    BY <1>0, <2>1, Sorts
  <2>5. \A j \in Kthd : /\ Stopped(j)' => Stopped(j)
                        /\ Stopped(j)' => j # k
    BY <2>1, <2>3, <2>4 DEF Stopped
  <2>6. \A l \in Lwts : l # born + 1 => (Linked(l)' <=> Linked(l))
    BY <2>4 DEF Linked
  <2> QED
    BY <1>1, <2>1, <2>4, <2>5, <2>6, ForgottenKeeps
<1>6. ASSUME NEW f \in {"DEFAULT", "NOJOIN"}, lwt_create(f) PROVE NoneForgotten'
  <2>1. /\ on \in Lwts /\ ~scanning /\ born + 1 \in Lwts /\ runq' = runq /\ state' = state
        /\ pc' = [pc EXCEPT ![born + 1] = "user"]
        /\ kid' = [kid EXCEPT ![born + 1] = kid[current_thread]]
    BY <1>6 DEF lwt_create, User, At, Born, place
  <2>2. kid[current_thread] = Head(runq) /\ runq # <<>>
    BY <1>1, <2>1, RunningLwt
  <2>3. /\ \A j \in Kthd : pc'[j] = pc[j]
        /\ \A l \in Lwts : l # born + 1 => pc'[l] = pc[l] /\ kid'[l] = kid[l]
        /\ kid'[born + 1] = Head(runq)
    BY <1>0, <2>1, <2>2, Sorts
  <2>4. \A j \in Kthd : /\ Stopped(j)' => Stopped(j)
                        /\ Stopped(j)' => j # Head(runq)
    BY <1>1, <2>1, <2>2, <2>3, StoppedKeeps
  <2>5. \A l \in Lwts : l # born + 1 => (Linked(l)' <=> Linked(l))
    BY <2>3 DEF Linked
  <2> QED
    BY <1>1, <2>1, <2>3, <2>4, <2>5, ForgottenKeeps
<1>7. ASSUME NEW k \in Kthd, KthdLoop(k) PROVE NoneForgotten'
  <2>1. on = k /\ pc[k] = "loop" /\ Goto("count") /\ UNCHANGED <<runq, kid, state>>
    BY <1>7 DEF KthdLoop, At
  <2>2. pc'[k] = "count" /\ \A e \in Elems : e # k => pc'[e] = pc[e]
    BY <1>0, <2>1, GotoAt, Sorts
  <2>3. \A j \in Kthd : Stopped(j)' => Stopped(j)
    BY <2>1, <2>2, Sorts DEF Stopped
  <2>4. \A l \in Lwts : Linked(l)' <=> Linked(l)
    BY <2>2, Sorts DEF Linked
  <2> QED
    BY <1>1, <2>1, <2>3, <2>4, ForgottenKeeps
<1>8. ASSUME on \in Lwts, ~scanning, NEW p, pc' = pc \/ Goto(p), p \notin {"new", "gone"},
             UNCHANGED <<runq, kid>>,
             state' = state \/ state' = [state EXCEPT ![on] = "BLOCKED"]
      PROVE  NoneForgotten'
  <2>1. \A e \in Elems : Linked(e)' <=> Linked(e)
    BY <1>0, <1>1, <1>8, RunningLwt, GotoLinked, SameLinked
  <2>2. \A k \in Kthd : pc'[k] = pc[k]
    BY <1>0, <1>8, GotoAt, Sorts
  <2> QED
    BY <1>0, <1>2, <1>8, <2>1, <2>2, Sorts
<1>9. CASE DieDetached \/ lwt_cgrp_wait \/ GrpResume \/ \E t \in Lwts : JoinWait(t)
  <2>1. /\ on \in Lwts /\ ~scanning /\ UNCHANGED <<runq, kid>>
    BY <1>9 DEF DieDetached, lwt_cgrp_wait, GrpResume, JoinWait, MayJoin, User, At, lwt_schedule, place
  <2>2. PICK p \in {"join", "dying", "grp", "user"} : pc' = pc \/ Goto(p)
    BY <1>9 DEF DieDetached, lwt_cgrp_wait, GrpResume, JoinWait
  <2>3. state' = state \/ state' = [state EXCEPT ![on] = "BLOCKED"]
    BY <1>1, <1>9, <2>1, RunningLwt DEF DieDetached, lwt_cgrp_wait, GrpResume, JoinWait
  <2> QED
    BY <1>8, <2>1, <2>2, <2>3
<1>10. CASE DieJoinable
  <2>1. /\ on \in Lwts /\ ~scanning /\ pc[on] = "user" /\ Goto("dead") /\ UNCHANGED <<runq, kid>>
    BY <1>10 DEF DieJoinable, User, At, lwt_schedule
  <2>2. /\ on = current_thread /\ state[on] = "RUNNABLE" /\ on \in Elems /\ Linked(on)
        /\ runq # <<>> /\ kid[on] = Head(runq)
    BY <1>1, <2>1, RunningLwt
  <2>3. PICK j : j = joinedfrom[on]
    OBVIOUS
  <2>4. \A e \in Elems : state'[e] = IF e = j THEN "RUNNABLE" ELSE IF e = on THEN "DEAD" ELSE state[e]
    BY <1>10, <2>2, <2>3 DEF DieJoinable
  <2>5. j # NULL => j \in Lwts /\ kid[j] = Head(runq)
    <3>1. j # NULL => j \in Lwts /\ pc[j] = "join" /\ joiningto[j] = on /\ Waiting(j)
      BY <1>1, <2>1, <2>2, <2>3, JoinFacts
    <3>2. j # NULL => kid[on] = kid[j]
      BY <1>1, <3>1, JoinFacts
    <3> QED
      BY <2>2, <3>1, <3>2
  <2>6. \A e \in Elems : Linked(e)' <=> Linked(e)
    BY <1>0, <2>1, <2>2, GotoLinked
  <2>7. \A k \in Kthd : pc'[k] = pc[k]
    BY <1>0, <2>1, GotoAt, Sorts
  <2>8. \A k \in Kthd : /\ Stopped(k)' => Stopped(k)
                        /\ Stopped(k)' => k # Head(runq)
    BY <1>1, <2>1, <2>2, <2>7, StoppedKeeps
  <2> QED
    BY <1>1, <2>1, <2>4, <2>5, <2>6, <2>8, ForgottenKeeps, Sorts
<1>11. ASSUME NEW t \in Lwts, on \in Lwts, Reap(t), UNCHANGED <<runq, kid, state>>
       PROVE  NoneForgotten'
  <2>1. pc' = [pc EXCEPT ![t] = "gone", ![on] = "user"]
    BY <1>11 DEF Reap
  <2>2. CASE Linked(on)
    <3>1. \A l \in Lwts : Linked(l)' => Linked(l)
      BY <1>0, <2>1, <2>2, Sorts DEF Linked
    <3>2. \A k \in Kthd : pc'[k] = pc[k]
      BY <1>0, <1>11, <2>1, Sorts
    <3> QED
      BY <1>2, <1>11, <3>1, <3>2
  <2> QED
    BY <1>1, <1>11, <2>2 DEF KInv, Home
<1>12. ASSUME NEW t \in Lwts, JoinDead(t) PROVE NoneForgotten'
  BY <1>11, <1>12 DEF JoinDead, MayJoin, User, place
<1>13. CASE JoinResume
  <2>1. /\ on \in Lwts /\ ~scanning /\ pc[on] = "join" /\ Reap(joiningto[on])
        /\ UNCHANGED <<runq, kid, state>>
    BY <1>13 DEF JoinResume, At, place
  <2>2. joiningto[on] \in Lwts
    BY <1>1, <2>1, JoinFacts
  <2> QED
    BY <1>11, <2>1, <2>2
<1>14. ASSUME NEW c \in Chan, lwt_snd(c) PROVE NoneForgotten'
  BY <1>1, <1>14, SendForgotten DEF lwt_snd, MaySend, User, At
<1>15. ASSUME NEW c \in Chan, NEW t \in Lwts, lwt_snd_thd(c, t) PROVE NoneForgotten'
  <2>1. on \in Lwts /\ ~scanning /\ Send(c, t) /\ kid' = kid /\ state' = [state EXCEPT ![t] = "BLOCKED"]
    BY <1>15 DEF lwt_snd_thd, MaySend, User, At
  <2>2. \A l \in Lwts : state'[l] = "RUNNABLE" => state[l] = "RUNNABLE"
    BY <1>0, <2>1, Sorts
  <2> QED
    BY <1>1, <2>1, <2>2, SendForgotten
<1>16. CASE SndResume
  <2>1. on \in Lwts /\ ~scanning /\ pc[on] = "snd" /\ Send(at[on], load[on]) /\ UNCHANGED <<kid, state>>
    BY <1>16 DEF SndResume, At
  <2>2. at[on] \in Chan
    BY <1>1, <2>1 DEF KInv, Calls
  <2> QED
    BY <1>1, <2>1, <2>2, SendForgotten
<1>17. ASSUME NEW c \in Chan, lwt_rcv(c) PROVE NoneForgotten'
  BY <1>1, <1>17, ReceiveForgotten DEF lwt_rcv, User, At
<1>18. CASE RcvResume
  <2>1. on \in Lwts /\ ~scanning /\ pc[on] = "rcv" /\ Receive(at[on])
    BY <1>18 DEF RcvResume, At
  <2>2. at[on] \in Chan
    BY <1>1, <2>1 DEF KInv, Calls
  <2> QED
    BY <1>1, <2>1, <2>2, ReceiveForgotten
<1> QED
  BY <1>1, <1>3, <1>4, <1>5, <1>6, <1>7, <1>9, <1>10, <1>12, <1>13, <1>14, <1>15, <1>16, <1>17, <1>18,
     CountForgotten
  DEF Next, KthdStep, LwtStep, ChanStep

----------------------------------------------------------------------------
(* The theorems.                                                          *)

LEMMA InitInvariant == Init => KInv
<1>1. SUFFICES ASSUME Init PROVE KInv
  OBVIOUS
<1>2. /\ runq = <<>> /\ on = Boot /\ current_thread = Boot /\ scanning = FALSE
      /\ nRunnable = 1 /\ born = 0
      /\ list = [n |-> [e \in Elems |-> e], p |-> [e \in Elems |-> e]]
      /\ state = [e \in Elems |-> "RUNNABLE"]
      /\ flag = [l \in Lwts |-> "DEFAULT"]
      /\ kid = [e \in Elems |-> IF e \in Lwts THEN NULL ELSE e]
      /\ pc = [e \in Elems |-> IF e = Boot THEN "boot" ELSE "new"]
      /\ queue = [c \in Chan |-> <<>>]
      /\ joinedfrom = [l \in Lwts |-> NULL]
      /\ load = [l \in Lwts |-> NULL]
  BY <1>1 DEF Init
<1>3. /\ \A e \in Elems : Linked(e) <=> e = Boot
      /\ Members = {Boot}
  BY <1>2, Sorts DEF Linked, Members
<1>4. TypeOK
  <2>1. 0 \in 0..MaxLwt
    BY KthdAssumption
  <2>2. /\ runq \in Seq(Kthd) /\ DOMAIN runq = {}
        /\ queue \in [Chan -> Seq(Lwts \union {Data})]
    BY <1>2
  <2>3. list \in [n : [Elems -> Elems], p : [Elems -> Elems]]
    BY <1>2
  <2>4. /\ rcv_thd \in [Chan -> Lwts \union {Boot, NULL}]
        /\ at \in [Lwts -> Chan \union {NULL}] /\ load \in [Lwts -> Lwts \union {Data, NULL}]
        /\ fn \in [Lwts -> Kthd \union {NULL}]
        /\ joinedfrom \in [Lwts -> Lwts \union {NULL}]
        /\ joiningto \in [Lwts -> Lwts \union {NULL}]
    BY <1>1 DEF Init
  <2>5. /\ kid \in [Elems -> Kthd \union {Boot, NULL}] /\ pc \in [Elems -> Places]
        /\ state \in [Elems -> {"RUNNABLE", "BLOCKED", "DEAD"}]
        /\ flag \in [Lwts -> {"DEFAULT", "NOJOIN"}]
    BY <1>2, Sorts DEF Places
  <2>6. /\ on \in Elems \union {NULL} /\ current_thread \in Elems
        /\ scanning \in BOOLEAN /\ nRunnable \in Int /\ born \in 0..MaxLwt
    <3>1. on = Boot /\ current_thread = Boot /\ scanning = FALSE /\ nRunnable = 1 /\ born = 0
      BY <1>2
    <3>2. scanning \in BOOLEAN
      BY <3>1
    <3>3. nRunnable \in Int /\ born \in 0..MaxLwt
      BY <2>1, <3>1
    <3>4. on \in Elems \union {NULL} /\ current_thread \in Elems
      BY <3>1, Sorts
    <3> QED
      BY <3>2, <3>3, <3>4
  <2> QED
    BY <2>2, <2>3, <2>4, <2>5, <2>6 DEF TypeOK
<1>5. Kinds
  <2>1. \A l \in Lwts : l > born /\ pc[l] = "new" /\ state[l] = "RUNNABLE"
    BY <1>2, Sorts DEF Lwts
  <2> QED
    BY <1>2, <2>1, Sorts DEF Kinds, Linked
<1>6. Linkage
  <2>1. \A e \in Elems : list.n[e] = e /\ list.p[e] = e
    BY <1>2
  <2>2. list \in Lists(Elems) /\ WellLinked(list, Elems)
    BY <1>4, <2>1, ListType DEF WellLinked
  <2>3. kid[Boot] = Boot
    BY <1>2, Sorts
  <2>4. Reaches(list.n, kid, Members, Elems) /\ Reaches(list.p, kid, Members, Elems)
    BY <1>3, <2>3 DEF Reaches
  <2> QED
    BY <1>3, <2>1, <2>2, <2>3, <2>4, Sorts DEF Linkage, Rings
<1>7. Home
  BY <1>2, Sorts DEF Home
<1>8. /\ \A c \in Chan : queue[c] = <<>> /\ DOMAIN queue[c] = {}
      /\ \A l \in Lwts : /\ load[l] = NULL /\ joinedfrom[l] = NULL /\ pc[l] = "new"
                         /\ state[l] = "RUNNABLE"
  BY <1>2, Sorts
<1>9. Calls
  <2>1. \A S : <<>> \in Seq(S)
    OBVIOUS
  <2> QED
    BY <1>8, <2>1 DEF Calls
<1>10. \A l \in Lwts : ~Sent(l)
  BY <1>8, Sorts DEF Sent
<1>11. Transit
  BY <1>8, <1>10, Sorts DEF Transit, OnePlace
<1>12. Joins
  BY <1>8 DEF Joins, Waiting
<1>13. Counted
  <2>1. Unjoined = {}
    BY <1>8 DEF Unjoined
  <2> QED
    BY <1>2, <1>8, <2>1, FS_EmptySet DEF Counted
<1>14. NoneForgotten
  BY <1>2, Sorts DEF NoneForgotten, Stopped
<1> QED
  BY <1>4, <1>5, <1>6, <1>7, <1>9, <1>11, <1>12, <1>13, <1>14 DEF KInv

LEMMA StutterInvariant == KInv /\ UNCHANGED vars => KInv'
<1>1. SUFFICES ASSUME KInv, UNCHANGED vars PROVE KInv'
  OBVIOUS
<1>2. UNCHANGED <<runq, on, current_thread, scanning, nRunnable, list, state, kid, joinedfrom,
                  joiningto, born, flag, fn, pc, rcv_thd, queue, at, load>>
  BY <1>1 DEF vars, place, links, fields, chans, waits
<1>3. TypeOK' /\ Kinds' /\ Calls'
  BY <1>1, <1>2 DEF KInv, TypeOK, Kinds, Linked, Calls
<1>4. Linkage'
  <2>1. Members' = Members
    BY <1>2 DEF Members, Linked
  <2> QED
    BY <1>1, <1>2, <2>1 DEF KInv, Linkage
<1>5. Home'
  BY <1>1, <1>2 DEF KInv, Home, Linked, Passed
<1>6. Transit' /\ Joins'
  BY <1>1, <1>2 DEF KInv, Transit, OnePlace, Sent, Linked, Joins, Waiting
<1>7. Counted'
  <2>1. Unjoined' = Unjoined
    BY <1>2 DEF Unjoined
  <2> QED
    BY <1>1, <1>2, <2>1 DEF KInv, Counted
<1>8. NoneForgotten'
  BY <1>1, <1>2 DEF KInv, NoneForgotten, Stopped, Linked
<1> QED
  BY <1>3, <1>4, <1>5, <1>6, <1>7, <1>8 DEF KInv

\* The invariant above holds in every behaviour of the kthds.
THEOREM Invariance == ASSUME Careful PROVE Spec => []KInv
<1>1. KInv /\ [Next]_vars => KInv'
  BY TypeStep, KindsStep, LinkageStep, HomeStep, CallsStep, TransitStep, JoinsStep, CountedStep,
     ForgottenStep, StutterInvariant DEF KInv
<1> QED
  BY InitInvariant, <1>1, PTL DEF Spec

\* Every variable has its type, and a kthd is never put into the run queue
\* that is in it already: the assertion of sl_mod_wakeup.
THEOREM TypesCorrect == ASSUME Careful PROVE Spec => []TypeOK
<1>1. KInv => TypeOK
  BY DEF KInv
<1> QED
  BY Invariance, <1>1, PTL

\* The pointers n and p stay inverse, and within the ring of a kthd, when
\* lwt_create, lwt_join, lwt_die and lwt_rcv_thd link and unlink threads.
THEOREM RingsLinked == ASSUME Careful PROVE Spec => []LinksExact
<1>1. KInv => LinksExact
  <2>1. SUFFICES ASSUME KInv, NEW e \in Members
                 PROVE  /\ list.n[e] \in Members /\ list.p[e] \in Members
                        /\ list.p[list.n[e]] = e /\ list.n[list.p[e]] = e
                        /\ kid[list.n[e]] = kid[e]
    BY DEF LinksExact, WellLinked
  <2>2. e \in Elems /\ Linked(e)
    BY <2>1 DEF Members
  <2> QED
    BY <2>1, <2>2, Before, Behind DEF Members
<1> QED
  BY Invariance, <1>1, PTL

\* The scans of __lwt_schedule and of __kthd_entry meet every lwt of the
\* kthd and no other, whatever was sent in and out of its ring.
THEOREM RingsComplete == ASSUME Careful PROVE Spec => []RingsWhole
<1>1. KInv => RingsWhole
  BY WalkMeetsRing DEF KInv, Linkage, RingsWhole
<1> QED
  BY Invariance, <1>1, PTL

\* The one variable current_thread of all kthds names the lwt whose code
\* runs, and that lwt is RUNNABLE and of the kthd that has the processor.
THEOREM StaysAtHome == ASSUME Careful PROVE Spec => []RunsAtHome
<1>1. KInv => RunsAtHome
  BY DEF KInv, Home, RunsAtHome
<1> QED
  BY Invariance, <1>1, PTL

\* A kthd that blocked in __kthd_entry has no lwt that could run, although
\* other kthds put threads into its ring and take threads out of it.
THEOREM NoLwtForgotten == ASSUME Careful PROVE Spec => []NoneForgotten
<1>1. KInv => NoneForgotten
  BY DEF KInv
<1> QED
  BY Invariance, <1>1, PTL

\* A thread that lwt_snd_thd sent away is in one place and stopped until it
\* is received, and any other BLOCKED lwt waits in lwt_join for a child that
\* is alive and knows it.
THEOREM NoLwtLost == ASSUME Careful PROVE Spec => []NobodyLost
<1>1. KInv => NobodyLost
  BY DEF KInv, Transit, Joins, Waiting, NobodyLost
<1> QED
  BY Invariance, <1>1, PTL

=============================================================================
