---------------------------- MODULE PsListProofs ----------------------------
(***************************************************************************)
(* What the operations of PsList do to the pointers of all elements E, and *)
(* to the rings they form.  A ring has an owner, one of its elements; that *)
(* it is one ring is said without counting steps: a set that holds one of  *)
(* its elements and goes on along the pointers f holds the owner.          *)
(***************************************************************************)
EXTENDS PsList, TLAPS

Lists(E) == [n : [E -> E], p : [E -> E]]

----------------------------------------------------------------------------
(* The pointers.                                                          *)

\* ps_list_ll_add (ps_list.h:83-90) of an element linked to itself: only the
\* pointers of the new element and between its neighbours change, and n and p
\* stay inverse.
LEMMA AddLinks ==
    ASSUME NEW E, NEW ls \in Lists(E), WellLinked(ls, E),
           NEW l \in E, NEW t \in E, t # l, ls.n[t] = t
    PROVE  LET a == ps_list_add(ls, l, t) IN
           /\ a \in Lists(E) /\ WellLinked(a, E)
           /\ \A e \in E : a.n[e] = IF e = l THEN t
                                    ELSE IF e = t THEN ls.n[l] ELSE ls.n[e]
           /\ \A e \in E : a.p[e] = IF e = ls.n[l] THEN t
                                    ELSE IF e = t THEN l ELSE ls.p[e]
<1> DEFINE a == ps_list_add(ls, l, t)
           x == ls.n[l]
           n == [ls.n EXCEPT ![t] = x, ![l] = t]
           p == [[ls.p EXCEPT ![t] = l] EXCEPT ![x] = t]
<1>1. ls.n \in [E -> E] /\ ls.p \in [E -> E]
  BY DEF Lists
<1>2. \A e \in E : ls.p[ls.n[e]] = e /\ ls.n[ls.p[e]] = e
  BY DEF WellLinked
<1>3. x \in E /\ x # t
  BY <1>1, <1>2
<1>4. n[t] = x
  BY <1>1
<1>5. a = [n |-> n, p |-> p]
  BY <1>4 DEF ps_list_add
<1>6. n \in [E -> E] /\ p \in [E -> E]
  BY <1>1, <1>3
<1>7. \A e \in E : n[e] = IF e = l THEN t ELSE IF e = t THEN x ELSE ls.n[e]
  BY <1>1
<1>8. \A e \in E : p[e] = IF e = x THEN t ELSE IF e = t THEN l ELSE ls.p[e]
  BY <1>1, <1>3
<1>9. \A e \in E : p[n[e]] = e /\ n[p[e]] = e
  <2> HIDE DEF n, p, x
  <2>1. ls.p[t] = t /\ ls.p[x] = l /\ ls.n[l] = x
    BY <1>2 DEF x
  <2>2. SUFFICES ASSUME NEW e \in E
                 PROVE  p[n[e]] = e /\ n[p[e]] = e
    OBVIOUS
  <2>3. p[n[e]] = e
    <3>1. CASE e = l
      BY <3>1, <1>3, <1>7, <1>8
    <3>2. CASE e = t
      BY <3>2, <1>3, <1>7, <1>8
    <3>3. CASE e # l /\ e # t
      <4>1. n[e] = ls.n[e] /\ ls.n[e] \in E
        BY <3>3, <1>1, <1>7
      <4>2. ls.n[e] # x /\ ls.n[e] # t
        BY <3>3, <1>2, <2>1
      <4> QED
        BY <4>1, <4>2, <1>2, <1>8
    <3> QED
      BY <3>1, <3>2, <3>3
  <2>4. n[p[e]] = e
    <3>1. CASE e = x
      BY <3>1, <1>3, <1>7, <1>8
    <3>2. CASE e = t
      BY <3>2, <1>3, <1>7, <1>8
    <3>3. CASE e # x /\ e # t
      <4>1. p[e] = ls.p[e] /\ ls.p[e] \in E
        BY <3>3, <1>1, <1>8
      <4>2. ls.p[e] # l /\ ls.p[e] # t
        BY <3>3, <1>2, <2>1
      <4> QED
        BY <4>1, <4>2, <1>2, <1>7
    <3> QED
      BY <3>1, <3>2, <3>3
  <2> QED
    BY <2>3, <2>4
<1>10. WellLinked(a, E)
  <2> HIDE DEF a, x, n, p
  <2>1. a.n = n /\ a.p = p
    BY <1>5
  <2>2. \A e \in E : n[e] \in E /\ p[e] \in E
    BY <1>6
  <2> QED
    BY <1>9, <2>1, <2>2 DEF WellLinked
<1> QED
  BY <1>5, <1>6, <1>7, <1>8, <1>10 DEF Lists

\* ps_list_ll_rem (ps_list.h:92-98).
LEMMA RemLinks ==
    ASSUME NEW E, NEW ls \in Lists(E), WellLinked(ls, E), NEW t \in E
    PROVE  LET r == ps_list_rem(ls, t) IN
           /\ r \in Lists(E) /\ WellLinked(r, E)
           /\ \A e \in E : r.n[e] = IF e = t THEN t
                                    ELSE IF e = ls.p[t] THEN ls.n[t] ELSE ls.n[e]
           /\ \A e \in E : r.p[e] = IF e = t THEN t
                                    ELSE IF e = ls.n[t] THEN ls.p[t] ELSE ls.p[e]
<1> DEFINE r == ps_list_rem(ls, t)
           x == ls.p[t]
           y == ls.n[t]
           p0 == [ls.p EXCEPT ![y] = x]
           n0 == [ls.n EXCEPT ![x] = y]
           n == [n0 EXCEPT ![t] = t]
           p == [p0 EXCEPT ![t] = t]
<1>1. ls.n \in [E -> E] /\ ls.p \in [E -> E]
  BY DEF Lists
<1>2. \A e \in E : ls.p[ls.n[e]] = e /\ ls.n[ls.p[e]] = e
  BY DEF WellLinked
<1>3. x \in E /\ y \in E
  BY <1>1
<1>4. p0[t] = x
  BY <1>1
<1>5. r = [n |-> n, p |-> p]
  BY <1>4 DEF ps_list_rem, ps_list_init
<1>6. n \in [E -> E] /\ p \in [E -> E]
  BY <1>1, <1>3
<1>7. \A e \in E : n[e] = IF e = t THEN t ELSE IF e = x THEN y ELSE ls.n[e]
  BY <1>1, <1>3
<1>8. \A e \in E : p[e] = IF e = t THEN t ELSE IF e = y THEN x ELSE ls.p[e]
  BY <1>1, <1>3
<1>9. \A e \in E : p[n[e]] = e /\ n[p[e]] = e
  <2>1. ls.n[x] = t /\ ls.p[y] = t /\ (x = t <=> y = t) /\ ls.p[t] = x /\ ls.n[t] = y
    BY <1>2
  <2> HIDE DEF n, p, x, y
  <2>2. SUFFICES ASSUME NEW e \in E
                 PROVE  p[n[e]] = e /\ n[p[e]] = e
    OBVIOUS
  <2>3. p[n[e]] = e
    <3>1. CASE e = t
      BY <3>1, <1>7, <1>8
    <3>2. CASE e # t /\ e = x
      BY <3>2, <1>3, <1>7, <1>8, <2>1
    <3>3. CASE e # t /\ e # x
      <4>1. n[e] = ls.n[e] /\ ls.n[e] \in E
        BY <3>3, <1>1, <1>7
      <4>2. ls.n[e] # t /\ ls.n[e] # y
        BY <3>3, <1>2, <2>1
      <4> QED
        BY <4>1, <4>2, <1>2, <1>8
    <3> QED
      BY <3>1, <3>2, <3>3
  <2>4. n[p[e]] = e
    <3>1. CASE e = t
      BY <3>1, <1>7, <1>8
    <3>2. CASE e # t /\ e = y
      BY <3>2, <1>3, <1>7, <1>8, <2>1
    <3>3. CASE e # t /\ e # y
      <4>1. p[e] = ls.p[e] /\ ls.p[e] \in E
        BY <3>3, <1>1, <1>8
      <4>2. ls.p[e] # t /\ ls.p[e] # x
        BY <3>3, <1>2, <2>1
      <4> QED
        BY <4>1, <4>2, <1>2, <1>7
    <3> QED
      BY <3>1, <3>2, <3>3
  <2> QED
    BY <2>3, <2>4
<1>10. WellLinked(r, E)
  <2> HIDE DEF r, x, y, n0, p0, n, p
  <2>1. r.n = n /\ r.p = p
    BY <1>5
  <2>2. \A e \in E : n[e] \in E /\ p[e] \in E
    BY <1>6
  <2> QED
    BY <1>9, <2>1, <2>2 DEF WellLinked
<1> QED
  BY <1>5, <1>6, <1>7, <1>8, <1>10 DEF Lists

----------------------------------------------------------------------------
(* The rings.                                                             *)

\* Along f one comes from each element of M to its owner.
Reaches(f, own, M, E) ==
    \A S \in SUBSET E : (\A x \in S : f[x] \in S) =>
        \A e \in S : e \in M => own[e] \in S

\* The members M are linked into rings of one owner each, which lead to their
\* owner both ways; who is no member is linked to itself.
Rings(ls, M, own, E) ==
    /\ ls \in Lists(E) /\ WellLinked(ls, E) /\ M \in SUBSET E
    /\ \A e \in E : IF e \in M THEN ls.n[e] \in M /\ own[ls.n[e]] = own[e]
                               ELSE ls.n[e] = e
    /\ Reaches(ls.n, own, M, E)
    /\ Reaches(ls.p, own, M, E)

\* Owners stay in reach when t is put into a ring behind x.
LEMMA InsertReaches ==
    ASSUME NEW E, NEW M \in SUBSET E, NEW x \in M, NEW t \in E, t \notin M,
           NEW f, NEW g, NEW own, NEW ownT,
           Reaches(f, own, M, E),
           f[x] \in M, own[f[x]] = own[x],
           \A d \in E : f[d] = t => d = t,
           \A d \in E : g[d] = IF d = x THEN t ELSE IF d = t THEN f[x] ELSE f[d],
           \A d \in M : ownT[d] = own[d],
           ownT[t] = own[x]
    PROVE  Reaches(g, ownT, M \union {t}, E)
<1>1. SUFFICES ASSUME NEW S \in SUBSET E, \A d \in S : g[d] \in S,
                      NEW e \in S, e \in M \union {t}
               PROVE  ownT[e] \in S
  BY DEF Reaches
<1> DEFINE R == S \ {t}
<1>2. t \in S => f[x] \in R
  BY <1>1
<1>3. \A d \in R : f[d] \in R
  <2>1. SUFFICES ASSUME NEW d \in R
                 PROVE  f[d] \in R
    OBVIOUS
  <2>2. CASE d = x
    BY <1>1, <1>2, <2>2
  <2>3. CASE d # x
    <3>1. g[d] = f[d] /\ f[d] # t
      BY <2>3
    <3> QED
      BY <1>1, <3>1
  <2> QED
    BY <2>2, <2>3
<1>4. \A d \in R : d \in M => own[d] \in R
  BY <1>3 DEF Reaches
<1>5. CASE e \in M
  BY <1>4, <1>5
<1>6. CASE e = t
  BY <1>2, <1>4, <1>6
<1> QED
  BY <1>1, <1>5, <1>6

\* It stays so when t is taken out behind x.
LEMMA RemoveReaches ==
    ASSUME NEW E, NEW M \in SUBSET E, NEW x \in E, NEW t \in E,
           NEW f, NEW g, NEW own, NEW ownT,
           Reaches(f, own, M, E),
           f[x] = t,
           \A d \in E : f[d] = t => d = x,
           \A d \in E : g[d] = IF d = t THEN t ELSE IF d = x THEN f[t] ELSE f[d],
           \A d \in M \ {t} : ownT[d] = own[d] /\ own[d] # t
    PROVE  Reaches(g, ownT, M \ {t}, E)
<1>1. SUFFICES ASSUME NEW S \in SUBSET E, \A d \in S : g[d] \in S,
                      NEW e \in S, e \in M, e # t
               PROVE  own[e] \in S
  BY DEF Reaches
<1>2. CASE x \in S
  <2> DEFINE R == S \union {t}
  <2>1. \A d \in R : f[d] \in R
    <3>1. SUFFICES ASSUME NEW d \in R
                   PROVE  f[d] \in R
      OBVIOUS
    <3>2. CASE d = x
      BY <3>2
    <3>3. CASE d # x /\ d = t
      <4>1. g[x] = f[t]
        BY <3>3
      <4> QED
        BY <1>1, <1>2, <3>3, <4>1
    <3>4. CASE d # x /\ d # t
      <4>1. g[d] = f[d] /\ d \in S
        BY <3>4
      <4> QED
        BY <1>1, <4>1
    <3> QED
      BY <3>2, <3>3, <3>4
  <2>2. own[e] \in R
    <3>1. R \in SUBSET E /\ e \in R
      OBVIOUS
    <3> HIDE DEF R
    <3> QED
      BY <1>1, <2>1, <3>1 DEF Reaches
  <2> QED
    BY <1>1, <2>2
<1>3. CASE x \notin S
  <2> DEFINE R == S \ {t}
  <2>1. \A d \in R : f[d] \in R
    <3>1. SUFFICES ASSUME NEW d \in R
                   PROVE  f[d] \in R
      OBVIOUS
    <3>2. g[d] = f[d] /\ f[d] # t
      BY <1>3
    <3> QED
      BY <1>1, <3>2
  <2>2. own[e] \in R
    <3>1. R \in SUBSET E /\ e \in R
      BY <1>1
    <3> HIDE DEF R
    <3> QED
      BY <1>1, <2>1, <3>1 DEF Reaches
  <2> QED
    BY <2>2
<1> QED
  BY <1>2, <1>3

\* Where all rings have the owner in reach both ways, a walk (the loop of
\* __ps_list_nelements, channel.c:286-291) meets exactly the elements with the
\* owner of its start.
THEOREM WalkMeetsRing ==
    ASSUME NEW E, NEW ls, NEW M, NEW own, Rings(ls, M, own, E), NEW e \in M
    PROVE  Walk(ls, e) = {x \in M : own[x] = own[e]}
<1> DEFINE R == {x \in M : own[x] = own[e]}
<1>0. /\ ls \in Lists(E) /\ WellLinked(ls, E) /\ M \in SUBSET E
      /\ Reaches(ls.n, own, M, E) /\ Reaches(ls.p, own, M, E)
      /\ \A d \in M : ls.n[d] \in M /\ own[ls.n[d]] = own[d]
  BY DEF Rings
<1>1. DOMAIN ls.n = E /\ \A d \in E : ls.n[d] \in E /\ ls.p[d] \in E /\ ls.n[ls.p[d]] = d
  BY <1>0 DEF Lists, WellLinked
<1>2. ASSUME NEW x \in Walk(ls, e)
      PROVE  x \in R
  <2>1. R \in SUBSET E /\ e \in R /\ \A y \in R : ls.n[y] \in R
    BY <1>0
  <2> HIDE DEF R
  <2> QED
    BY <1>1, <1>2, <2>1 DEF Walk
<1>3. ASSUME NEW x \in R
      PROVE  x \in Walk(ls, e)
  <2>1. SUFFICES ASSUME NEW S \in SUBSET E, e \in S, \A y \in S : ls.n[y] \in S,
                        x \notin S
                 PROVE  FALSE
    BY <1>0, <1>1 DEF Walk
  <2>2. own[e] \in S
    BY <1>0, <2>1 DEF Reaches
  <2> DEFINE T == E \ S
  <2>3. T \in SUBSET E /\ x \in T /\ x \in M
    BY <1>0, <2>1
  <2>4. \A y \in T : ls.p[y] \in T
    BY <1>1, <2>1
  <2>5. own[x] \in T
    <3> HIDE DEF T
    <3> QED
      BY <1>0, <2>3, <2>4 DEF Reaches
  <2> QED
    BY <2>2, <2>5
<1> QED
  BY <1>2, <1>3

\* They stay so when t joins the ring of c, or makes one with c alone.
LEMMA InsertRings ==
    ASSUME NEW E, NEW ls, NEW M, NEW own, NEW ownT, NEW t \in E, NEW c \in E,
           Rings(ls, M, own, E), t \notin M, c # t, c \in M \/ own[c] = c,
           \A d \in E : d # t => ownT[d] = own[d], ownT[t] = own[c]
    PROVE  Rings(ps_list_add(ls, ls.p[c], t), M \union {t, c}, ownT, E)
<1> DEFINE x == ls.p[c]
           a == ps_list_add(ls, x, t)
           N == M \union {c}
<1>1. /\ ls \in Lists(E) /\ WellLinked(ls, E) /\ M \in SUBSET E
      /\ \A e \in E : IF e \in M THEN ls.n[e] \in M /\ own[ls.n[e]] = own[e]
                                 ELSE ls.n[e] = e
      /\ Reaches(ls.n, own, M, E) /\ Reaches(ls.p, own, M, E)
  BY DEF Rings
<1>2. \A e \in E : /\ ls.n[e] \in E /\ ls.p[e] \in E
                   /\ ls.p[ls.n[e]] = e /\ ls.n[ls.p[e]] = e
  BY <1>1 DEF WellLinked
<1>3. x \in E /\ ls.n[x] = c /\ ls.n[t] = t /\ ls.p[t] = t /\ x # t
  BY <1>1, <1>2
<1>4. /\ a \in Lists(E) /\ WellLinked(a, E)
      /\ \A e \in E : a.n[e] = IF e = x THEN t ELSE IF e = t THEN c ELSE ls.n[e]
      /\ \A e \in E : a.p[e] = IF e = c THEN t ELSE IF e = t THEN x ELSE ls.p[e]
  <2> HIDE DEF x
  <2> QED
    BY <1>1, <1>3, AddLinks
<1>5. x \in N /\ c \in N /\ t \notin N /\ own[x] = own[c] /\ N \in SUBSET E
  <2>1. CASE x \in M
    BY <1>1, <1>3, <2>1
  <2>2. CASE x \notin M
    BY <1>1, <1>3, <2>2
  <2> QED
    BY <2>1, <2>2
<1>6. \A e \in E : IF e \in N THEN ls.n[e] \in N /\ own[ls.n[e]] = own[e]
                              ELSE ls.n[e] = e
  BY <1>1
<1>7. Reaches(ls.n, own, N, E) /\ Reaches(ls.p, own, N, E)
  BY <1>1 DEF Reaches
<1>8. M \union {t, c} = N \union {t}
  OBVIOUS
<1> HIDE DEF x, a, N
<1>9. Reaches(a.n, ownT, N \union {t}, E)
  <2>1. \A d \in E : ls.n[d] = t => d = t
    BY <1>2, <1>3
  <2>2. \A d \in N : ownT[d] = own[d]
    BY <1>5
  <2>3. \A d \in E : a.n[d] = IF d = x THEN t ELSE IF d = t THEN ls.n[x] ELSE ls.n[d]
    BY <1>3, <1>4
  <2> QED
    BY <1>3, <1>5, <1>7, <2>1, <2>2, <2>3, InsertReaches
<1>10. Reaches(a.p, ownT, N \union {t}, E)
  <2>1. \A d \in E : ls.p[d] = t => d = t
    BY <1>2, <1>3
  <2>2. \A d \in N : ownT[d] = own[d]
    BY <1>5
  <2>3. \A d \in E : a.p[d] = IF d = c THEN t ELSE IF d = t THEN ls.p[c] ELSE ls.p[d]
    BY <1>4 DEF x
  <2>4. ls.p[c] \in N /\ own[ls.p[c]] = own[c]
    BY <1>5 DEF x
  <2>5. c \in N /\ t \notin N /\ N \in SUBSET E /\ Reaches(ls.p, own, N, E)
    BY <1>5, <1>7
  <2> DEFINE f == ls.p
             g == a.p
  <2>6. /\ \A d \in E : f[d] = t => d = t
        /\ \A d \in E : g[d] = IF d = c THEN t ELSE IF d = t THEN f[c] ELSE f[d]
        /\ f[c] \in N /\ own[f[c]] = own[c] /\ Reaches(f, own, N, E)
    BY <2>1, <2>3, <2>4, <2>5
  <2> HIDE DEF f, g
  <2>7. Reaches(g, ownT, N \union {t}, E)
    BY <2>2, <2>5, <2>6, InsertReaches
  <2> QED
    BY <2>7 DEF g
<1>11. \A e \in E : IF e \in N \union {t}
                    THEN a.n[e] \in N \union {t} /\ ownT[a.n[e]] = ownT[e]
                    ELSE a.n[e] = e
  <2>1. SUFFICES ASSUME NEW e \in E
                 PROVE  IF e \in N \union {t}
                        THEN a.n[e] \in N \union {t} /\ ownT[a.n[e]] = ownT[e]
                        ELSE a.n[e] = e
    OBVIOUS
  <2>2. CASE e = x
    BY <1>3, <1>4, <1>5, <2>2
  <2>3. CASE e = t
    BY <1>3, <1>4, <1>5, <2>3
  <2>4. CASE e # x /\ e # t
    <3>1. a.n[e] = ls.n[e]
      BY <1>4, <2>4
    <3> QED
      BY <3>1, <1>2, <1>5, <1>6, <2>4
  <2> QED
    BY <2>2, <2>3, <2>4
<1>12. N \union {t} \in SUBSET E
  BY <1>5
<1> QED
  BY <1>4, <1>8, <1>9, <1>10, <1>11, <1>12 DEF Rings, a, x

\* They stay so when t, which owns none, leaves its own.
LEMMA RemoveRings ==
    ASSUME NEW E, NEW ls, NEW M, NEW own, NEW t \in E,
           Rings(ls, M, own, E), \A d \in M \ {t} : own[d] # t
    PROVE  Rings(ps_list_rem(ls, t), M \ {t}, own, E)
<1> DEFINE x == ls.p[t]
           y == ls.n[t]
           r == ps_list_rem(ls, t)
<1>1. /\ ls \in Lists(E) /\ WellLinked(ls, E) /\ M \in SUBSET E
      /\ \A e \in E : IF e \in M THEN ls.n[e] \in M /\ own[ls.n[e]] = own[e]
                                 ELSE ls.n[e] = e
      /\ Reaches(ls.n, own, M, E) /\ Reaches(ls.p, own, M, E)
  BY DEF Rings
<1>2. \A e \in E : /\ ls.n[e] \in E /\ ls.p[e] \in E
                   /\ ls.p[ls.n[e]] = e /\ ls.n[ls.p[e]] = e
  BY <1>1 DEF WellLinked
<1>3. x \in E /\ y \in E /\ ls.n[x] = t /\ ls.p[y] = t
  BY <1>2
<1>4. /\ r \in Lists(E) /\ WellLinked(r, E)
      /\ \A e \in E : r.n[e] = IF e = t THEN t ELSE IF e = x THEN y ELSE ls.n[e]
      /\ \A e \in E : r.p[e] = IF e = t THEN t ELSE IF e = y THEN x ELSE ls.p[e]
  BY <1>1, RemLinks
<1>5. \A d \in M \ {t} : own[d] = own[d] /\ own[d] # t
  OBVIOUS
<1>6. \A d \in E : ls.n[d] = t => d = x
  BY <1>2
<1>7. \A d \in E : ls.p[d] = t => d = y
  BY <1>2
<1> HIDE DEF r
<1>8. Reaches(r.n, own, M \ {t}, E)
  <2>1. \A d \in E : r.n[d] = IF d = t THEN t ELSE IF d = x THEN ls.n[t] ELSE ls.n[d]
    BY <1>4
  <2> HIDE DEF x, y
  <2> QED
    BY <1>1, <1>3, <1>5, <1>6, <2>1, RemoveReaches
<1>9. Reaches(r.p, own, M \ {t}, E)
  <2>1. \A d \in E : r.p[d] = IF d = t THEN t ELSE IF d = y THEN ls.p[t] ELSE ls.p[d]
    BY <1>4
  <2> HIDE DEF x, y
  <2> QED
    BY <1>1, <1>3, <1>5, <1>7, <2>1, RemoveReaches
<1>10. \A e \in E : IF e \in M \ {t} THEN r.n[e] \in M \ {t} /\ own[r.n[e]] = own[e]
                                     ELSE r.n[e] = e
  <2>1. SUFFICES ASSUME NEW e \in E
                 PROVE  IF e \in M \ {t} THEN r.n[e] \in M \ {t} /\ own[r.n[e]] = own[e]
                                         ELSE r.n[e] = e
    OBVIOUS
  <2>2. CASE e = t
    BY <1>4, <2>2
  <2>3. CASE e = x /\ e # t
    <3>1. r.n[e] = y /\ y # t
      BY <1>2, <1>3, <1>4, <2>3
    <3>2. e \in M
      BY <1>1, <1>3, <2>3
    <3>3. t \in M /\ own[t] = own[e]
      BY <1>1, <1>3, <2>3, <3>2
    <3> QED
      BY <1>1, <3>1, <3>2, <3>3, <2>3
  <2>4. CASE e # x /\ e # t
    <3>1. r.n[e] = ls.n[e] /\ ls.n[e] # t
      BY <1>4, <1>6, <2>4
    <3> QED
      BY <1>1, <2>4, <3>1
  <2> QED
    BY <2>2, <2>3, <2>4
<1> QED
  BY <1>1, <1>4, <1>8, <1>9, <1>10 DEF Rings, r

=============================================================================
