---------------------------- MODULE KAllocProofs ----------------------------
(***************************************************************************)
(* Proofs about KAlloc, for a pool and lengths of any size and any order   *)
(* of calls.  The inductive invariant holds of the runs in pairs what the  *)
(* properties hold of neighbours, so that no induction along the list is   *)
(* needed.  The lengths are kept in a set M that sums and differences do   *)
(* not leave: all positive numbers.  What kfree makes needs only sums, so  *)
(* that it is also known to make no run shorter than a header.             *)
(***************************************************************************)
EXTENDS KAlloc, SequenceTheorems, FiniteSetTheorems, WellFoundedInduction, TLAPS

----------------------------------------------------------------------------
(* The inductive invariant.                                               *)

Sums(M) ==
    /\ M \subseteq Nat \ {0}
    /\ \A m, n \in M : m + n \in M

Lengths(M) ==
    /\ Sums(M)
    /\ Sizes \subseteq M /\ PageSize \in M
    /\ \A m, n \in M : m > n => m - n \in M

RunsOf(M) == [at : Int, len : M]

\* Two pieces of memory share no word.
Apart(x, y) == End(x) <= y.at \/ End(y) <= x.at

\* The runs are in order, with something between any two.
Sorted(s) == \A i, j \in 1..Len(s) : i < j => End(s[i]) < s[j].at

In(w, s) == \E i \in 1..Len(s) : w \in Words(s[i])

\* The arena is the page and what malloc gave.
ArenaOK ==
    /\ 0 .. (PageSize - 1) \subseteq arena /\ arena \subseteq Int
    /\ \A w \in arena : \/ w \in 0 .. (PageSize - 1)
                        \/ \E a \in Mallocs \intersect arena, n \in Sizes : w \in Words(Run(a, n))

KInv(M) ==
    /\ freelist \in Seq(RunsOf(M)) /\ blocks \subseteq RunsOf(M)
    /\ Sorted(freelist)
    /\ \A b \in blocks : \A i \in 1..Len(freelist) : Apart(freelist[i], b)
    /\ \A b, c \in blocks : b # c => Apart(b, c)
    /\ \A w \in Int : w \in arena <=> In(w, freelist) \/ \E b \in blocks : w \in Words(b)
    /\ ArenaOK

----------------------------------------------------------------------------
(* The list.                                                              *)

LEMMA Joined ==
    ASSUME NEW R, NEW p \in Seq(R), NEW q \in Seq(R)
    PROVE  /\ p \o q \in Seq(R) /\ Len(p \o q) = Len(p) + Len(q)
           /\ \A k \in 1..Len(p) : (p \o q)[k] = p[k]
           /\ \A k \in 1..Len(q) : (p \o q)[Len(p) + k] = q[k]
<1>1. Len(p) \in Nat /\ Len(q) \in Nat
  BY LenProperties
<1>2. /\ p \o q \in Seq(R) /\ Len(p \o q) = Len(p) + Len(q)
      /\ \A k \in 1..(Len(p) + Len(q)) :
            (p \o q)[k] = IF k <= Len(p) THEN p[k] ELSE q[k - Len(p)]
  BY ConcatProperties
<1>3. \A k \in 1..Len(p) : (p \o q)[k] = p[k]
  BY <1>1, <1>2
<1>4. ASSUME NEW k \in 1..Len(q) PROVE (p \o q)[Len(p) + k] = q[k]
  <2> DEFINE n == Len(p) + k
  <2>1. n \in 1..(Len(p) + Len(q)) /\ ~(n <= Len(p)) /\ n - Len(p) = k
    BY <1>1
  <2> HIDE DEF n
  <2>2. (p \o q)[n] = q[k]
    BY <1>2, <2>1
  <2> QED
    BY <2>2 DEF n
<1> QED
  BY <1>2, <1>3, <1>4

\* The length of the front, the piece and the rest.
IsSplice(r, s, i, j, t) ==
    /\ Len(r) = (i - 1) + Len(t) + (Len(s) - j)
    /\ \A k \in 1..(i - 1) : r[k] = s[k]
    /\ \A k \in 1..Len(t) : r[i - 1 + k] = t[k]
    /\ \A k \in 1..(Len(s) - j) : r[i - 1 + Len(t) + k] = s[j + k]

LEMMA SpliceIs ==
    ASSUME NEW R, NEW s \in Seq(R), NEW t \in Seq(R),
           NEW i \in 1..(Len(s) + 1), NEW j \in (i - 1)..Len(s)
    PROVE  Splice(s, i, j, t) \in Seq(R) /\ IsSplice(Splice(s, i, j, t), s, i, j, t)
<1> DEFINE f == SubSeq(s, 1, i - 1)
           b == SubSeq(s, j + 1, Len(s))
<1>1. Len(s) \in Nat /\ Len(t) \in Nat /\ \A k \in 1..Len(s) : s[k] \in R
  BY LenProperties, ElementOfSeq
<1>2. f \in Seq(R) /\ Len(f) = i - 1 /\ \A k \in 1..(i - 1) : f[k] = s[k]
  <2>1. i - 1 \in Int /\ \A k \in 1..(i - 1) : s[k] \in R
    BY <1>1
  <2>2. /\ f \in Seq(R) /\ Len(f) = IF 1 <= i - 1 THEN i - 1 - 1 + 1 ELSE 0
        /\ \A k \in 1..(i - 1 - 1 + 1) : f[k] = s[1 + k - 1]
    BY <2>1, SubSeqProperties
  <2> HIDE DEF f
  <2> QED
    BY <2>2, <1>1
<1>3. b \in Seq(R) /\ Len(b) = Len(s) - j /\ \A k \in 1..(Len(s) - j) : b[k] = s[j + k]
  <2>1. j + 1 \in Int /\ \A k \in (j + 1)..Len(s) : s[k] \in R
    BY <1>1
  <2>2. /\ b \in Seq(R) /\ Len(b) = IF j + 1 <= Len(s) THEN Len(s) - (j + 1) + 1 ELSE 0
        /\ \A k \in 1..(Len(s) - (j + 1) + 1) : b[k] = s[j + 1 + k - 1]
    BY <1>1, <2>1, SubSeqProperties
  <2> HIDE DEF b
  <2> QED
    BY <2>2, <1>1
<1> HIDE DEF f, b
<1> DEFINE g == f \o t
<1>4. /\ g \in Seq(R) /\ Len(g) = i - 1 + Len(t)
      /\ \A k \in 1..(i - 1) : g[k] = s[k]
      /\ \A k \in 1..Len(t) : g[i - 1 + k] = t[k]
  <2>1. /\ g \in Seq(R) /\ Len(g) = Len(f) + Len(t)
        /\ \A k \in 1..Len(f) : g[k] = f[k]
        /\ \A k \in 1..Len(t) : g[Len(f) + k] = t[k]
    <3>1. f \in Seq(R) /\ t \in Seq(R)
      BY <1>2
    <3> QED
      BY ONLY <3>1, Joined
  <2> HIDE DEF g
  <2> QED
    BY <1>2, <2>1
<1> HIDE DEF g
<1> DEFINE r == g \o b
<1>5. /\ r \in Seq(R) /\ Len(r) = Len(g) + Len(b)
      /\ \A k \in 1..Len(g) : r[k] = g[k]
      /\ \A k \in 1..Len(b) : r[Len(g) + k] = b[k]
  <2>1. g \in Seq(R) /\ b \in Seq(R)
    BY <1>3, <1>4
  <2> QED
    BY ONLY <2>1, Joined
<1>6. Splice(s, i, j, t) = r
  BY DEF Splice, f, b, g
<1> HIDE DEF r
<1>7. /\ \A k \in 1..(i - 1) : k \in 1..Len(g)
      /\ \A k \in 1..Len(t) : i - 1 + k \in 1..Len(g)
  BY <1>1, <1>4
<1>8. /\ \A k \in 1..(i - 1) : r[k] = s[k]
      /\ \A k \in 1..Len(t) : r[i - 1 + k] = t[k]
      /\ \A k \in 1..(Len(s) - j) : r[i - 1 + Len(t) + k] = s[j + k]
  BY <1>3, <1>4, <1>5, <1>7
<1>9. Len(r) = (i - 1) + Len(t) + (Len(s) - j)
  BY <1>1, <1>3, <1>4, <1>5
<1>10. IsSplice(r, s, i, j, t)
  BY ONLY <1>8, <1>9 DEF IsSplice
<1> QED
  BY ONLY <1>5, <1>6, <1>10

\* One run in the place of those from i to j.
LEMMA SpliceOne ==
    ASSUME NEW R, NEW s \in Seq(R), NEW x \in R,
           NEW i \in 1..(Len(s) + 1), NEW j \in (i - 1)..Len(s)
    PROVE  /\ Splice(s, i, j, <<x>>) \in Seq(R)
           /\ Len(Splice(s, i, j, <<x>>)) = Len(s) - j + i
           /\ \A k \in 1..(Len(s) - j + i) :
                 /\ k < i => Splice(s, i, j, <<x>>)[k] = s[k]
                 /\ k = i => Splice(s, i, j, <<x>>)[k] = x
                 /\ k > i => Splice(s, i, j, <<x>>)[k] = s[k - i + j]
<1> DEFINE t == <<x>>
           r == Splice(s, i, j, t)
<1>1. t \in Seq(R) /\ Len(t) = 1 /\ t[1] = x /\ Len(s) \in Nat
  BY LenProperties
<1> HIDE DEF t
<1>2. /\ r \in Seq(R) /\ Len(r) = (i - 1) + Len(t) + (Len(s) - j)
      /\ \A k \in 1..(i - 1) : r[k] = s[k]
      /\ \A k \in 1..Len(t) : r[i - 1 + k] = t[k]
      /\ \A k \in 1..(Len(s) - j) : r[i - 1 + Len(t) + k] = s[j + k]
  <2>1. s \in Seq(R) /\ t \in Seq(R) /\ i \in 1..(Len(s) + 1) /\ j \in (i - 1)..Len(s)
    BY <1>1
  <2>2. r \in Seq(R) /\ IsSplice(r, s, i, j, t)
    BY ONLY <2>1, SpliceIs DEF r
  <2> QED
    BY ONLY <2>2 DEF IsSplice
<1> HIDE DEF r
<1>3. ASSUME NEW k \in 1..(Len(s) - j + i)
      PROVE  (k < i => r[k] = s[k]) /\ (k = i => r[k] = x) /\ (k > i => r[k] = s[k - i + j])
  <2>1. ASSUME k < i PROVE r[k] = s[k]
    BY <1>2, <2>1
  <2>2. ASSUME k = i PROVE r[k] = x
    <3>1. 1 \in 1..Len(t) /\ i - 1 + 1 = k
      BY <1>1, <2>2
    <3> QED
      BY <1>1, <1>2, <3>1
  <2>3. ASSUME k > i PROVE r[k] = s[k - i + j]
    <3> DEFINE q == k - i
    <3>1. q \in 1..(Len(s) - j) /\ i - 1 + Len(t) + q = k /\ j + q = k - i + j
      BY <1>1, <2>3
    <3> HIDE DEF q
    <3> QED
      BY <1>2, <3>1
  <2> QED
    BY <2>1, <2>2, <2>3
<1>4. Len(r) = Len(s) - j + i
  BY <1>1, <1>2
<1> QED
  BY <1>2, <1>3, <1>4 DEF r, t

\* Run i is taken out.
LEMMA SpliceNone ==
    ASSUME NEW R, NEW s \in Seq(R), NEW i \in 1..Len(s)
    PROVE  /\ Splice(s, i, i, <<>>) \in Seq(R)
           /\ Len(Splice(s, i, i, <<>>)) = Len(s) - 1
           /\ \A k \in 1..(Len(s) - 1) :
                 /\ k < i => Splice(s, i, i, <<>>)[k] = s[k]
                 /\ k >= i => Splice(s, i, i, <<>>)[k] = s[k + 1]
<1> DEFINE t == <<>>
           r == Splice(s, i, i, t)
<1>1. t \in Seq(R) /\ Len(t) = 0 /\ Len(s) \in Nat
  BY LenProperties, EmptySeq
<1> HIDE DEF t
<1>2. i \in 1..(Len(s) + 1) /\ i \in (i - 1)..Len(s)
  BY <1>1
<1>3. /\ r \in Seq(R) /\ Len(r) = (i - 1) + Len(t) + (Len(s) - i)
      /\ \A k \in 1..(i - 1) : r[k] = s[k]
      /\ \A k \in 1..(Len(s) - i) : r[i - 1 + Len(t) + k] = s[i + k]
  <2>1. s \in Seq(R) /\ t \in Seq(R) /\ i \in 1..(Len(s) + 1) /\ i \in (i - 1)..Len(s)
    BY <1>1, <1>2
  <2>2. r \in Seq(R) /\ IsSplice(r, s, i, i, t)
    BY ONLY <2>1, SpliceIs DEF r
  <2> QED
    BY ONLY <2>2 DEF IsSplice
<1> HIDE DEF r
<1>4. ASSUME NEW k \in 1..(Len(s) - 1)
      PROVE  (k < i => r[k] = s[k]) /\ (k >= i => r[k] = s[k + 1])
  <2>1. ASSUME k < i PROVE r[k] = s[k]
    BY <1>3, <2>1
  <2>2. ASSUME k >= i PROVE r[k] = s[k + 1]
    <3> DEFINE q == k - i + 1
    <3>1. q \in 1..(Len(s) - i) /\ i - 1 + Len(t) + q = k /\ i + q = k + 1
      BY <1>1, <2>2
    <3> HIDE DEF q
    <3> QED
      BY <1>3, <3>1
  <2> QED
    BY <2>1, <2>2
<1>5. Len(r) = Len(s) - 1
  BY <1>1, <1>3
<1> QED
  BY <1>3, <1>4, <1>5 DEF r, t

\* The word is in a run before i or behind j.
Outside(w, s, i, j) == \E k \in 1..Len(s) : (k < i \/ k > j) /\ w \in Words(s[k])

\* Sorted runs stay so when the new run fits between those around it.
LEMMA SpliceSorted ==
    ASSUME NEW M, M \subseteq Nat \ {0}, NEW s \in Seq(RunsOf(M)), NEW x \in RunsOf(M), Sorted(s),
           NEW i \in 1..(Len(s) + 1), NEW j \in (i - 1)..Len(s),
           \A k \in 1..(i - 1) : End(s[k]) < x.at,
           \A k \in (j + 1)..Len(s) : End(x) < s[k].at
    PROVE  /\ Splice(s, i, j, <<x>>) \in Seq(RunsOf(M))
           /\ Sorted(Splice(s, i, j, <<x>>))
           /\ \A w : In(w, Splice(s, i, j, <<x>>)) <=> w \in Words(x) \/ Outside(w, s, i, j)
<1> DEFINE r == Splice(s, i, j, <<x>>)
           n == Len(s) - j + i
<1>1. /\ r \in Seq(RunsOf(M)) /\ Len(r) = n
      /\ \A k \in 1..n : /\ k < i => r[k] = s[k]
                         /\ k = i => r[k] = x
                         /\ k > i => r[k] = s[k - i + j]
  <2>1. s \in Seq(RunsOf(M)) /\ x \in RunsOf(M) /\ i \in 1..(Len(s) + 1) /\ j \in (i - 1)..Len(s)
    OBVIOUS
  <2> QED
    BY ONLY <2>1, SpliceOne
<1>2. Len(s) \in Nat /\ n \in Nat /\ i \in 1..n /\ i \in Int /\ j \in Int
  BY LenProperties
<1> HIDE DEF r
<1>3. ASSUME NEW k \in 1..n, k > i
      PROVE  k - i + j \in 1..Len(s) /\ k - i + j \in (j + 1)..Len(s) /\ k - i + j > j
  BY <1>2, <1>3
<1>4. ASSUME NEW k \in 1..n, k < i PROVE k \in 1..Len(s) /\ k \in 1..(i - 1)
  BY <1>2, <1>4
<1>5. Sorted(r)
  <2> SUFFICES ASSUME NEW p \in 1..n, NEW q \in 1..n, p < q PROVE End(r[p]) < r[q].at
    BY <1>1 DEF Sorted
  <2>1. CASE p < i /\ q < i
    BY <1>1, <1>4, <2>1 DEF Sorted
  <2>2. CASE p < i /\ q = i
    BY <1>1, <1>4, <2>2
  <2>3. CASE p < i /\ q > i
    <3>1. p < q - i + j
      BY <1>2, <2>3
    <3> QED
      BY <1>1, <1>3, <1>4, <2>3, <3>1 DEF Sorted
  <2>4. CASE p = i /\ q > i
    BY <1>1, <1>3, <2>4
  <2>5. CASE p > i /\ q > i
    <3>1. p - i + j < q - i + j
      BY <1>2, <2>5
    <3> QED
      BY <1>1, <1>3, <2>5, <3>1 DEF Sorted
  <2> QED
    BY <1>2, <2>1, <2>2, <2>3, <2>4, <2>5
<1>6. ASSUME NEW w, NEW k \in 1..n, w \in Words(r[k])
      PROVE  \/ w \in Words(x)
             \/ \E q \in 1..Len(s) : (q < i \/ q > j) /\ w \in Words(s[q])
  <2>1. CASE k < i
    BY <1>1, <1>4, <1>6, <2>1
  <2>2. CASE k = i
    BY <1>1, <1>6, <2>2
  <2>3. CASE k > i
    BY <1>1, <1>3, <1>6, <2>3
  <2> QED
    BY <1>2, <2>1, <2>2, <2>3
<1>7. ASSUME NEW w, w \in Words(x) PROVE In(w, r)
  BY <1>1, <1>2, <1>7 DEF In
<1>8. ASSUME NEW w, NEW q \in 1..Len(s), q < i \/ q > j, w \in Words(s[q]) PROVE In(w, r)
  <2>1. CASE q < i
    <3>1. q \in 1..n
      BY <1>2, <2>1
    <3> QED
      BY <1>1, <1>8, <2>1, <3>1 DEF In
  <2>2. CASE q > j
    <3> DEFINE k == q - j + i
    <3>1. k \in 1..n /\ k > i /\ k - i + j = q
      BY <1>2, <2>2
    <3> HIDE DEF k
    <3> QED
      BY <1>1, <1>8, <3>1 DEF In
  <2> QED
    BY <1>8, <2>1, <2>2
<1>9. \A w : In(w, r) <=> w \in Words(x) \/ Outside(w, s, i, j)
  BY <1>1, <1>6, <1>7, <1>8 DEF In, Outside
<1> QED
  BY <1>1, <1>5, <1>9 DEF r

----------------------------------------------------------------------------
(* Where the loops stop.                                                  *)

\* A nonempty set of naturals has a least element.
LEMMA LeastNatural ==
    ASSUME NEW T \in SUBSET Nat, T # {}
    PROVE  \E m \in T : \A j \in T : m <= j
<1>1. PICK m \in T : \A j \in T : <<j, m>> \notin OpToRel(<, Nat)
  BY NatLessThanWellFounded, WFMin
<1>2. \A j \in T : ~(j < m)
  BY <1>1 DEF OpToRel
<1> QED
  BY <1>2

\* The least index in T, or else n + 1.
LEMMA LeastIndex ==
    ASSUME NEW n \in Nat, NEW T \in SUBSET (1..n)
    PROVE  \E i \in 1..(n + 1) : (i <= n => i \in T) /\ \A j \in 1..(i - 1) : j \notin T
<1>1. CASE T = {}
  <2>1. n + 1 \in 1..(n + 1) /\ ~(n + 1 <= n)
    OBVIOUS
  <2> QED
    BY <1>1, <2>1
<1>2. CASE T # {}
  <2>1. PICK i \in T : \A j \in T : i <= j
    BY <1>2, LeastNatural
  <2>2. i \in 1..(n + 1) /\ \A j \in 1..(i - 1) : ~(i <= j)
    OBVIOUS
  <2> QED
    BY <2>1, <2>2
<1> QED
  BY <1>1, <1>2

\* The loop of kfree.
Stops(r, b) == r.at > End(b) \/ End(b) = r.at \/ End(r) = b.at
Stop(s, b) == First(s, LAMBDA r : r.at > End(b) \/ (End(b) = r.at \/ End(r) = b.at))

LEMMA StopFirst ==
    ASSUME NEW R, NEW s \in Seq(R), NEW b
    PROVE  /\ Stop(s, b) \in 1..(Len(s) + 1)
           /\ Stop(s, b) <= Len(s) => Stops(s[Stop(s, b)], b)
           /\ \A j \in 1..(Stop(s, b) - 1) : ~Stops(s[j], b)
<1> DEFINE T == {k \in 1..Len(s) : Stops(s[k], b)}
           Good(i) == (i <= Len(s) => Stops(s[i], b)) /\ \A j \in 1..(i - 1) : ~Stops(s[j], b)
<1>1. Len(s) \in Nat
  BY LenProperties
<1>2. PICK i \in 1..(Len(s) + 1) :
          (i <= Len(s) => i \in T) /\ \A j \in 1..(i - 1) : j \notin T
  <2>1. T \in SUBSET (1..Len(s))
    OBVIOUS
  <2> HIDE DEF T
  <2> QED
    BY <1>1, <2>1, LeastIndex
<1>3. Good(i)
  BY <1>1, <1>2
<1>4. Stop(s, b) = CHOOSE k \in 1..(Len(s) + 1) : Good(k)
  BY DEF Stop, First, Stops
<1> HIDE DEF Good
<1>5. Stop(s, b) \in 1..(Len(s) + 1) /\ Good(Stop(s, b))
  BY <1>2, <1>3, <1>4
<1> QED
  BY <1>5 DEF Good

LEMMA KfreeCases ==
    ASSUME NEW s, NEW b
    PROVE  kfree(s, b) =
               IF Stop(s, b) <= Len(s) /\ (End(b) = s[Stop(s, b)].at \/ End(s[Stop(s, b)]) = b.at)
               THEN Merge(s, Stop(s, b), b)
               ELSE Splice(s, Stop(s, b), Stop(s, b) - 1, <<b>>)
  BY DEF kfree, Stop

\* The search of kalloc.
LEMMA FitFirst ==
    ASSUME NEW R, NEW s \in Seq(R), NEW n
    PROVE  /\ Fit(s, n) \in 1..(Len(s) + 1)
           /\ Fit(s, n) <= Len(s) => s[Fit(s, n)].len >= n
           /\ \A j \in 1..(Fit(s, n) - 1) : ~(s[j].len >= n)
<1> DEFINE T == {k \in 1..Len(s) : s[k].len >= n}
           Good(i) == (i <= Len(s) => s[i].len >= n) /\ \A j \in 1..(i - 1) : ~(s[j].len >= n)
<1>1. Len(s) \in Nat
  BY LenProperties
<1>2. PICK i \in 1..(Len(s) + 1) :
          (i <= Len(s) => i \in T) /\ \A j \in 1..(i - 1) : j \notin T
  <2>1. T \in SUBSET (1..Len(s))
    OBVIOUS
  <2> HIDE DEF T
  <2> QED
    BY <1>1, <2>1, LeastIndex
<1>3. Good(i)
  BY <1>1, <1>2
<1>4. Fit(s, n) = CHOOSE k \in 1..(Len(s) + 1) : Good(k)
  BY DEF Fit, First
<1> HIDE DEF Good
<1>5. Fit(s, n) \in 1..(Len(s) + 1) /\ Good(Fit(s, n))
  BY <1>2, <1>3, <1>4
<1> QED
  BY <1>5 DEF Good

----------------------------------------------------------------------------
(* Memory.                                                                *)

LEMMA RunParts ==
    \A a, n : Run(a, n).at = a /\ Run(a, n).len = n /\ End(Run(a, n)) = a + n
  BY DEF Run, End

LEMMA RunTypes ==
    ASSUME NEW M, M \subseteq Nat \ {0}, NEW r \in RunsOf(M)
    PROVE  /\ r.at \in Int /\ r.len \in M /\ r.len \in Nat \ {0} /\ End(r) \in Int /\ r.at < End(r)
           /\ End(r) = r.at + r.len
<1>1. r.at \in Int /\ r.len \in M
  BY DEF RunsOf
<1>2. r.len \in Nat \ {0}
  BY <1>1
<1> QED
  BY <1>1, <1>2 DEF End

LEMMA InWords ==
    ASSUME NEW M, M \subseteq Nat \ {0}, NEW r \in RunsOf(M), NEW w
    PROVE  w \in Words(r) <=> w \in Int /\ r.at <= w /\ w < End(r)
<1>1. r.at \in Int /\ r.len \in Nat /\ End(r) = r.at + r.len
  BY RunTypes
<1>2. w \in Words(r) <=> w \in Int /\ r.at <= w /\ w <= r.at + r.len - 1
  BY <1>1 DEF Words
<1> QED
  BY <1>1, <1>2

\* Apart is to share no word.
LEMMA ApartWords ==
    ASSUME NEW M, M \subseteq Nat \ {0}, NEW x \in RunsOf(M), NEW y \in RunsOf(M)
    PROVE  Apart(x, y) <=> \A w \in Int : ~(w \in Words(x) /\ w \in Words(y))
<1>1. /\ x.at \in Int /\ End(x) \in Int /\ x.at < End(x)
      /\ \A w : w \in Words(x) <=> w \in Int /\ x.at <= w /\ w < End(x)
  BY RunTypes, InWords
<1>2. /\ y.at \in Int /\ End(y) \in Int /\ y.at < End(y)
      /\ \A w : w \in Words(y) <=> w \in Int /\ y.at <= w /\ w < End(y)
  BY RunTypes, InWords
<1>3. ASSUME ~Apart(x, y)
      PROVE  \E w \in Int : w \in Words(x) /\ w \in Words(y)
  <2>0. y.at < End(x) /\ x.at < End(y)
    BY <1>1, <1>2, <1>3 DEF Apart
  <2>1. CASE x.at <= y.at
    BY <1>1, <1>2, <2>0, <2>1
  <2>2. CASE y.at <= x.at
    BY <1>1, <1>2, <2>0, <2>2
  <2> QED
    BY <1>1, <1>2, <2>1, <2>2
<1>4. ASSUME Apart(x, y), NEW w \in Int, w \in Words(x), w \in Words(y) PROVE FALSE
  BY <1>1, <1>2, <1>4 DEF Apart
<1> QED
  BY <1>3, <1>4

----------------------------------------------------------------------------
(* kfree keeps the list in order, and adds to it the words of the block.  *)

LEMMA Kfree ==
    ASSUME NEW M, Sums(M), NEW s \in Seq(RunsOf(M)), Sorted(s), NEW b \in RunsOf(M),
           \A k \in 1..Len(s) : Apart(s[k], b)
    PROVE  /\ kfree(s, b) \in Seq(RunsOf(M)) /\ Sorted(kfree(s, b))
           /\ \A w : In(w, kfree(s, b)) <=> In(w, s) \/ w \in Words(b)
<1> DEFINE i == Stop(s, b)
           n == Len(s)
           Done(r) == /\ r \in Seq(RunsOf(M)) /\ Sorted(r)
                      /\ \A w : In(w, r) <=> In(w, s) \/ w \in Words(b)
<1>1. M \subseteq Nat \ {0} /\ n \in Nat /\ \A k \in 1..n : s[k] \in RunsOf(M)
  BY LenProperties, ElementOfSeq DEF Sums
<1>2. \A k \in 1..n : /\ s[k].at \in Int /\ s[k].len \in M /\ End(s[k]) \in Int
                      /\ s[k].len \in Nat \ {0} /\ s[k].at < End(s[k])
                      /\ End(s[k]) = s[k].at + s[k].len
  BY <1>1, RunTypes
<1>3. /\ b.at \in Int /\ b.len \in M /\ b.len \in Nat \ {0} /\ End(b) \in Int /\ b.at < End(b)
      /\ End(b) = b.at + b.len
  BY <1>1, RunTypes
<1>4. /\ i \in 1..(n + 1)
      /\ i <= n => Stops(s[i], b)
      /\ \A k \in 1..(i - 1) : ~Stops(s[k], b)
  BY StopFirst
<1>5. \A p, q \in 1..n : p < q => End(s[p]) < s[q].at
  BY DEF Sorted
<1>6. \A w : /\ \A k \in 1..n : w \in Words(s[k]) <=> w \in Int /\ s[k].at <= w /\ w < End(s[k])
             /\ w \in Words(b) <=> w \in Int /\ b.at <= w /\ w < End(b)
  BY <1>1, InWords
<1> HIDE DEF i, n
<1>7. ASSUME NEW k \in 1..(i - 1) PROVE k \in 1..n /\ End(s[k]) < b.at
  <2>1. k \in 1..n
    BY <1>1, <1>4
  <2>2. s[k].at < End(b) /\ End(s[k]) # b.at
    BY <1>2, <1>3, <1>4, <2>1 DEF Stops
  <2> QED
    <3>1. /\ s[k].at \in Int /\ End(s[k]) \in Int
          /\ End(s[k]) <= b.at \/ End(b) <= s[k].at
      BY <1>2, <2>1 DEF Apart, n
    <3> QED
      BY ONLY <1>3, <2>1, <2>2, <3>1
<1>8. ASSUME NEW j \in (i - 1)..n, NEW x \in RunsOf(M),
             \A k \in 1..(i - 1) : End(s[k]) < x.at,
             \A k \in (j + 1)..n : End(x) < s[k].at,
             \A w : w \in Words(x) \/ (\E k \in 1..n : (k < i \/ k > j) /\ w \in Words(s[k]))
                        <=> w \in Words(b) \/ \E k \in 1..n : w \in Words(s[k])
      PROVE  Done(Splice(s, i, j, <<x>>))
  <2>1. /\ Splice(s, i, j, <<x>>) \in Seq(RunsOf(M)) /\ Sorted(Splice(s, i, j, <<x>>))
        /\ \A w : In(w, Splice(s, i, j, <<x>>)) <=> w \in Words(x) \/ Outside(w, s, i, j)
    <3>1. /\ M \subseteq Nat \ {0} /\ s \in Seq(RunsOf(M)) /\ x \in RunsOf(M) /\ Sorted(s)
          /\ i \in 1..(Len(s) + 1) /\ j \in (i - 1)..Len(s)
          /\ \A k \in 1..(i - 1) : End(s[k]) < x.at
          /\ \A k \in (j + 1)..Len(s) : End(x) < s[k].at
      BY <1>1, <1>4, <1>8 DEF n
    <3> QED
      BY ONLY <3>1, SpliceSorted
  <2> QED
    BY <1>8, <2>1 DEF In, Outside, n
<1>9. CASE ~(i <= n /\ (End(b) = s[i].at \/ End(s[i]) = b.at))
  <2>1. kfree(s, b) = Splice(s, i, i - 1, <<b>>)
    BY <1>9, KfreeCases DEF i, n
  <2>2. i - 1 \in (i - 1)..n
    BY <1>1, <1>4
  <2>3. ASSUME NEW k \in i..n PROVE k \in 1..n /\ End(b) < s[k].at
    <3>1. i \in 1..n /\ i <= n /\ k \in 1..n
      BY <1>1, <1>4
    <3>2. End(b) < s[i].at
      BY <1>2, <1>3, <1>4, <1>9, <3>1 DEF Stops
    <3>3. CASE k = i
      BY <3>1, <3>2, <3>3
    <3>4. CASE k > i
      BY <1>2, <1>3, <1>5, <3>1, <3>2, <3>4
    <3> QED
      BY <3>1, <3>3, <3>4
  <2>4. \A k \in ((i - 1) + 1)..n : End(b) < s[k].at
    BY <1>4, <2>3
  <2>5. \A w : w \in Words(b) \/ (\E k \in 1..n : (k < i \/ k > i - 1) /\ w \in Words(s[k]))
                  <=> w \in Words(b) \/ \E k \in 1..n : w \in Words(s[k])
    BY <1>1, <1>4
  <2> QED
    BY <1>7, <1>8, <2>1, <2>2, <2>4, <2>5
<1>10. CASE i <= n /\ End(b) = s[i].at
  <2> DEFINE x == Run(b.at, b.len + s[i].len)
  <2>1. i \in 1..n /\ i \in (i - 1)..n
    BY <1>1, <1>4, <1>10
  <2>2. kfree(s, b) = Splice(s, i, i, <<x>>)
    BY <1>10, KfreeCases DEF i, n, Merge
  <2>3. x \in RunsOf(M) /\ x.at = b.at /\ End(x) = End(s[i])
    <3>1. b.len + s[i].len \in M
      BY <1>2, <1>3, <2>1 DEF Sums
    <3> QED
      BY <1>2, <1>3, <1>10, <2>1, <3>1 DEF RunsOf, Run, End
  <2> HIDE DEF x
  <2>4. \A k \in (i + 1)..n : End(x) < s[k].at
    BY <1>1, <1>5, <2>1, <2>3
  <2>5. \A w : w \in Words(x) <=> w \in Words(b) \/ w \in Words(s[i])
    <3> TAKE w
    <3>1. w \in Words(x) <=> w \in Int /\ b.at <= w /\ w < End(s[i])
      BY <1>1, <2>3, InWords
    <3>2. /\ w \in Words(s[i]) <=> w \in Int /\ s[i].at <= w /\ w < End(s[i])
          /\ w \in Words(b) <=> w \in Int /\ b.at <= w /\ w < End(b)
      BY <1>6, <2>1
    <3> QED
      BY <1>2, <1>3, <1>10, <2>1, <3>1, <3>2
  <2>6. \A w : w \in Words(x) \/ (\E k \in 1..n : (k < i \/ k > i) /\ w \in Words(s[k]))
                  <=> w \in Words(b) \/ \E k \in 1..n : w \in Words(s[k])
    <3> TAKE w
    <3>1. (\E k \in 1..n : w \in Words(s[k])) <=>
              w \in Words(s[i]) \/ \E k \in 1..n : (k < i \/ k > i) /\ w \in Words(s[k])
      BY <1>1, <2>1
    <3> QED
      BY <2>5, <3>1
  <2>7. \A k \in 1..(i - 1) : End(s[k]) < x.at
    BY <1>7, <2>3
  <2> QED
    BY <1>8, <2>1, <2>2, <2>3, <2>4, <2>6, <2>7
<1>11. CASE /\ i <= n /\ End(b) # s[i].at /\ End(s[i]) = b.at
            /\ i < n /\ s[i + 1].at = End(b)
  <2> DEFINE x == Run(s[i].at, s[i].len + b.len + s[i + 1].len)
  <2>1. i \in 1..n /\ i + 1 \in 1..n /\ i + 1 \in (i - 1)..n
    BY <1>1, <1>4, <1>11
  <2>2. kfree(s, b) = Splice(s, i, i + 1, <<x>>)
    BY <1>11, KfreeCases DEF i, n, Merge
  <2>3. x \in RunsOf(M) /\ x.at = s[i].at /\ End(x) = End(s[i + 1])
    <3>1. s[i].len + b.len \in M
      BY <1>2, <1>3, <2>1 DEF Sums
    <3>2. s[i].len + b.len + s[i + 1].len \in M
      BY <1>2, <2>1, <3>1 DEF Sums
    <3>3. s[i].at + (s[i].len + b.len + s[i + 1].len) = s[i + 1].at + s[i + 1].len
      <4>1. /\ s[i].at \in Int /\ s[i].len \in Nat /\ End(s[i]) = s[i].at + s[i].len
            /\ s[i + 1].at \in Int /\ s[i + 1].len \in Nat
        BY ONLY <1>2, <2>1
      <4>2. /\ s[i + 1].at = b.at + b.len /\ s[i].at + s[i].len = b.at
            /\ b.at \in Int /\ b.len \in Nat
        BY ONLY <4>1, <1>3, <1>11 DEF End
      <4>3. PICK p \in Int, k \in Nat, q \in Int, m \in Nat, l \in Nat :
                /\ p = s[i].at /\ k = s[i].len /\ q = b.at /\ m = b.len
                /\ l = s[i + 1].len
        BY ONLY <4>1, <4>2
      <4>4. s[i + 1].at = q + m /\ p + k = q
        BY ONLY <4>2, <4>3
      <4>5. p + (k + m + l) = (q + m) + l
        BY ONLY <4>4, p \in Int, k \in Nat, q \in Int, m \in Nat, l \in Nat
      <4> QED
        BY ONLY <4>3, <4>4, <4>5
    <3> QED
      BY <1>2, <2>1, <3>2, <3>3 DEF RunsOf, Run, End
  <2> HIDE DEF x
  <2>4. \A k \in ((i + 1) + 1)..n : End(x) < s[k].at
    BY <1>1, <1>5, <2>1, <2>3
  <2>5. \A w : w \in Words(x) <=> w \in Words(b) \/ w \in Words(s[i]) \/ w \in Words(s[i + 1])
    <3> TAKE w
    <3>1. w \in Words(x) <=> w \in Int /\ s[i].at <= w /\ w < End(s[i + 1])
      BY <1>1, <2>3, InWords
    <3>2. /\ w \in Words(s[i]) <=> w \in Int /\ s[i].at <= w /\ w < End(s[i])
          /\ w \in Words(s[i + 1]) <=> w \in Int /\ s[i + 1].at <= w /\ w < End(s[i + 1])
          /\ w \in Words(b) <=> w \in Int /\ b.at <= w /\ w < End(b)
      BY <1>6, <2>1
    <3>3. /\ s[i].at \in Int /\ End(s[i]) \in Int /\ s[i].at < End(s[i])
          /\ s[i + 1].at \in Int /\ End(s[i + 1]) \in Int /\ s[i + 1].at < End(s[i + 1])
      BY <1>2, <2>1
    <3> QED
      BY <1>3, <1>11, <3>1, <3>2, <3>3
  <2>6. \A w : w \in Words(x) \/ (\E k \in 1..n : (k < i \/ k > i + 1) /\ w \in Words(s[k]))
                  <=> w \in Words(b) \/ \E k \in 1..n : w \in Words(s[k])
    <3> TAKE w
    <3>1. (\E k \in 1..n : w \in Words(s[k])) <=>
              \/ w \in Words(s[i]) \/ w \in Words(s[i + 1])
              \/ \E k \in 1..n : (k < i \/ k > i + 1) /\ w \in Words(s[k])
      BY <1>1, <2>1
    <3> QED
      BY <2>5, <3>1
  <2>7. \A k \in 1..(i - 1) : End(s[k]) < x.at
    BY <1>5, <1>7, <2>1, <2>3
  <2> QED
    BY <1>8, <2>1, <2>2, <2>3, <2>4, <2>6, <2>7
<1>12. CASE /\ i <= n /\ End(b) # s[i].at /\ End(s[i]) = b.at
            /\ ~(i < n /\ s[i + 1].at = End(b))
  <2> DEFINE x == Run(s[i].at, s[i].len + b.len)
  <2>1. i \in 1..n /\ i \in (i - 1)..n
    BY <1>1, <1>4, <1>12
  <2>2. kfree(s, b) = Splice(s, i, i, <<x>>)
    BY <1>12, KfreeCases DEF i, n, Merge
  <2>3. x \in RunsOf(M) /\ x.at = s[i].at /\ End(x) = End(b)
    <3>1. s[i].len + b.len \in M
      BY <1>2, <1>3, <2>1 DEF Sums
    <3> QED
      <4>1. s[i].at \in Int /\ s[i].len \in Nat /\ End(s[i]) = s[i].at + s[i].len
        BY ONLY <1>2, <2>1
      <4>2. s[i].at + (s[i].len + b.len) = b.at + b.len
        BY ONLY <1>3, <1>12, <4>1
      <4> QED
        BY <3>1, <4>1, <4>2 DEF RunsOf, Run, End
  <2> HIDE DEF x
  <2>4. ASSUME NEW k \in (i + 1)..n PROVE End(x) < s[k].at
    <3>1. i + 1 \in 1..n /\ k \in 1..n /\ i < k /\ i < n
      BY <1>1, <2>1
    <3>2. End(s[i]) < s[i + 1].at
      BY <1>5, <2>1, <3>1
    <3>3. End(b) <= s[i + 1].at
      BY <1>2, <1>3, <1>12, <3>1, <3>2 DEF Apart, n
    <3>4. End(b) < s[i + 1].at
      BY <1>2, <1>3, <1>12, <3>1, <3>3
    <3>5. CASE k = i + 1
      BY <2>3, <3>4, <3>5
    <3>6. CASE k > i + 1
      BY <1>2, <1>3, <1>5, <2>3, <3>1, <3>4, <3>6
    <3> QED
      BY <3>1, <3>5, <3>6
  <2>5. \A w : w \in Words(x) <=> w \in Words(b) \/ w \in Words(s[i])
    <3> TAKE w
    <3>1. w \in Words(x) <=> w \in Int /\ s[i].at <= w /\ w < End(b)
      BY <1>1, <2>3, InWords
    <3>2. /\ w \in Words(s[i]) <=> w \in Int /\ s[i].at <= w /\ w < End(s[i])
          /\ w \in Words(b) <=> w \in Int /\ b.at <= w /\ w < End(b)
      BY <1>6, <2>1
    <3> QED
      BY <1>2, <1>3, <1>12, <2>1, <3>1, <3>2
  <2>6. \A w : w \in Words(x) \/ (\E k \in 1..n : (k < i \/ k > i) /\ w \in Words(s[k]))
                  <=> w \in Words(b) \/ \E k \in 1..n : w \in Words(s[k])
    <3> TAKE w
    <3>1. (\E k \in 1..n : w \in Words(s[k])) <=>
              w \in Words(s[i]) \/ \E k \in 1..n : (k < i \/ k > i) /\ w \in Words(s[k])
      BY <1>1, <2>1
    <3> QED
      BY <2>5, <3>1
  <2>7. \A k \in 1..(i - 1) : End(s[k]) < x.at
    BY <1>5, <1>7, <2>1, <2>3
  <2> QED
    BY <1>8, <2>1, <2>2, <2>3, <2>4, <2>6, <2>7
<1> QED
  BY <1>9, <1>10, <1>11, <1>12

----------------------------------------------------------------------------
(* kalloc takes the words of the block out of the list.                   *)

LEMMA CutKeeps ==
    ASSUME NEW M, Lengths(M), NEW s \in Seq(RunsOf(M)), Sorted(s), NEW n \in Sizes,
           NEW i \in 1..Len(s), s[i].len >= n
    PROVE  /\ Cut(s, i, n).rest \in Seq(RunsOf(M)) /\ Sorted(Cut(s, i, n).rest)
           /\ Cut(s, i, n).got \in RunsOf(M)
           /\ \A w : /\ In(w, s) <=> In(w, Cut(s, i, n).rest) \/ w \in Words(Cut(s, i, n).got)
                     /\ ~(In(w, Cut(s, i, n).rest) /\ w \in Words(Cut(s, i, n).got))
<1> DEFINE got == Run(End(s[i]) - n, n)
           Done(r) == /\ r \in Seq(RunsOf(M)) /\ Sorted(r)
                      /\ \A w : /\ In(w, s) <=> In(w, r) \/ w \in Words(got)
                                /\ ~(In(w, r) /\ w \in Words(got))
<1>1. M \subseteq Nat \ {0} /\ Len(s) \in Nat /\ \A k \in 1..Len(s) : s[k] \in RunsOf(M)
  BY LenProperties, ElementOfSeq DEF Lengths, Sums
<1>2. \A k \in 1..Len(s) : /\ s[k].at \in Int /\ s[k].len \in M /\ End(s[k]) \in Int
                           /\ s[k].len \in Nat \ {0} /\ s[k].at < End(s[k])
                           /\ End(s[k]) = s[k].at + s[k].len
  BY <1>1, RunTypes
<1>3. n \in M /\ n \in Nat \ {0}
  BY <1>1 DEF Lengths, Sums
<1>4. got \in RunsOf(M) /\ got.at = End(s[i]) - n /\ End(got) = End(s[i])
  BY <1>2, <1>3 DEF RunsOf, Run, End
<1>5. /\ Cut(s, i, n).got = got
      /\ s[i].len = n => Cut(s, i, n).rest = Splice(s, i, i, <<>>)
      /\ s[i].len # n => Cut(s, i, n).rest = Splice(s, i, i, <<Run(s[i].at, s[i].len - n)>>)
  BY DEF Cut
<1>6. \A p, q \in 1..Len(s) : p < q => End(s[p]) < s[q].at
  BY DEF Sorted
<1>7. \A w : /\ w \in Words(got) <=> w \in Int /\ End(s[i]) - n <= w /\ w < End(s[i])
             /\ \A k \in 1..Len(s) :
                   w \in Words(s[k]) <=> w \in Int /\ s[k].at <= w /\ w < End(s[k])
  BY <1>1, <1>4, InWords
<1> HIDE DEF got
<1>8. ASSUME NEW w, NEW k \in 1..Len(s), k # i, w \in Words(s[k]) PROVE w \notin Words(s[i])
  <2>1. /\ w \in Int /\ s[k].at <= w /\ w < End(s[k]) /\ s[k].at \in Int /\ End(s[k]) \in Int
        /\ s[i].at \in Int /\ End(s[i]) \in Int
        /\ w \in Words(s[i]) => s[i].at <= w /\ w < End(s[i])
    BY <1>2, <1>7, <1>8
  <2>2. End(s[k]) < s[i].at \/ End(s[i]) < s[k].at
    BY <1>1, <1>6, <1>8
  <2> QED
    BY <2>1, <2>2
<1>9. CASE s[i].len = n
  <2> DEFINE r == Splice(s, i, i, <<>>)
  <2>1. /\ r \in Seq(RunsOf(M)) /\ Len(r) = Len(s) - 1
        /\ \A k \in 1..(Len(s) - 1) : (k < i => r[k] = s[k]) /\ (k >= i => r[k] = s[k + 1])
    <3>1. s \in Seq(RunsOf(M)) /\ i \in 1..Len(s)
      OBVIOUS
    <3> QED
      BY ONLY <3>1, SpliceNone
  <2> HIDE DEF r
  <2>2. \A k \in 1..(Len(s) - 1) : k \in 1..Len(s) /\ k + 1 \in 1..Len(s)
    BY <1>1
  <2>3. Sorted(r)
    <3> SUFFICES ASSUME NEW p \in 1..(Len(s) - 1), NEW q \in 1..(Len(s) - 1), p < q
                 PROVE  End(r[p]) < r[q].at
      BY <2>1 DEF Sorted
    <3>1. /\ p \in 1..Len(s) /\ p + 1 \in 1..Len(s) /\ q \in 1..Len(s) /\ q + 1 \in 1..Len(s)
          /\ p < q + 1 /\ p + 1 < q + 1
      BY <1>1, <2>2
    <3>2. CASE p < i /\ q < i
      <4>1. r[p] = s[p] /\ r[q] = s[q]
        BY <2>1, <3>2
      <4> QED
        BY <1>6, <3>1, <4>1
    <3>3. CASE p < i /\ q >= i
      <4>1. r[p] = s[p] /\ r[q] = s[q + 1]
        BY <2>1, <3>3
      <4> QED
        BY <1>6, <3>1, <4>1
    <3>4. CASE p >= i /\ q >= i
      <4>1. r[p] = s[p + 1] /\ r[q] = s[q + 1]
        BY <2>1, <3>4
      <4> QED
        BY <1>6, <3>1, <4>1
    <3> QED
      BY <3>2, <3>3, <3>4
  <2>4. \A w : w \in Words(got) <=> w \in Words(s[i])
    BY <1>2, <1>7, <1>9
  <2>5. ASSUME NEW w, In(w, r) PROVE \E k \in 1..Len(s) : k # i /\ w \in Words(s[k])
    <3>1. PICK k \in 1..(Len(s) - 1) : w \in Words(r[k])
      BY <2>1, <2>5 DEF In
    <3> QED
      BY <2>1, <2>2, <3>1
  <2>6. ASSUME NEW w, NEW k \in 1..Len(s), k # i, w \in Words(s[k]) PROVE In(w, r)
    <3>1. CASE k < i
      <4>1. k \in 1..(Len(s) - 1)
        BY <1>1, <3>1
      <4> QED
        BY <2>1, <2>6, <3>1, <4>1 DEF In
    <3>2. CASE k > i
      <4> DEFINE p == k - 1
      <4>1. p \in 1..(Len(s) - 1) /\ p >= i /\ p + 1 = k
        BY <1>1, <3>2
      <4> HIDE DEF p
      <4> QED
        BY <2>1, <2>6, <4>1 DEF In
    <3> QED
      BY <1>1, <2>6, <3>1, <3>2
  <2>7. Done(r)
    BY <1>8, <2>1, <2>3, <2>4, <2>5, <2>6 DEF In
  <2> QED
    BY <1>4, <1>5, <1>9, <2>7 DEF r
<1>10. CASE s[i].len # n
  <2> DEFINE x == Run(s[i].at, s[i].len - n)
             r == Splice(s, i, i, <<x>>)
  <2>1. x \in RunsOf(M) /\ x.at = s[i].at /\ End(x) = End(s[i]) - n
    <3>1. s[i].len - n \in M
      BY <1>2, <1>3, <1>10 DEF Lengths, Sums
    <3> QED
      BY <1>2, <1>3, <3>1 DEF RunsOf, Run, End
  <2> HIDE DEF x
  <2>2. /\ r \in Seq(RunsOf(M)) /\ Sorted(r)
        /\ \A w : In(w, r) <=> \/ w \in Words(x)
                               \/ \E k \in 1..Len(s) : (k < i \/ k > i) /\ w \in Words(s[k])
    <3>1. i \in 1..(Len(s) + 1) /\ i \in (i - 1)..Len(s)
      BY <1>1
    <3>2. \A k \in 1..(i - 1) : End(s[k]) < x.at
      BY <1>6, <2>1
    <3>3. \A k \in (i + 1)..Len(s) : End(x) < s[k].at
      BY <1>2, <1>3, <1>6, <2>1
    <3>4. M \subseteq Nat \ {0} /\ s \in Seq(RunsOf(M)) /\ Sorted(s) /\ x \in RunsOf(M)
      BY <1>1, <2>1
    <3>5. r \in Seq(RunsOf(M)) /\ Sorted(r)
      BY ONLY <3>1, <3>2, <3>3, <3>4, SpliceSorted
    <3>6. \A w : In(w, r) <=> w \in Words(x) \/ Outside(w, s, i, i)
      BY ONLY <3>1, <3>2, <3>3, <3>4, SpliceSorted
    <3> QED
      BY <3>5, <3>6 DEF Outside
  <2> HIDE DEF r
  <2>3. \A w : w \in Words(x) <=> w \in Int /\ s[i].at <= w /\ w < End(s[i]) - n
    BY <1>1, <2>1, InWords
  <2>4. \A w : /\ w \in Words(s[i]) <=> w \in Words(x) \/ w \in Words(got)
               /\ ~(w \in Words(x) /\ w \in Words(got))
    <3> TAKE w
    <3>1. w \in Words(s[i]) <=> w \in Int /\ s[i].at <= w /\ w < End(s[i])
      BY <1>7
    <3>2. w \in Words(got) <=> w \in Int /\ End(s[i]) - n <= w /\ w < End(s[i])
      BY <1>7
    <3>3. s[i].at <= End(s[i]) - n /\ End(s[i]) - n \in Int /\ s[i].at \in Int /\ End(s[i]) \in Int
      BY <1>2, <1>3
    <3> QED
      BY <1>3, <2>3, <3>1, <3>2, <3>3
  <2>5. \A w : (\E k \in 1..Len(s) : w \in Words(s[k])) <=>
                  w \in Words(s[i]) \/ \E k \in 1..Len(s) : (k < i \/ k > i) /\ w \in Words(s[k])
    BY <1>1
  <2>6. Done(r)
    BY <1>8, <2>2, <2>4, <2>5 DEF In
  <2> QED
    BY <1>4, <1>5, <1>10, <2>6 DEF r, x
<1> QED
  BY <1>9, <1>10

\* A block is apart from every run when none of its words is in the list.
LEMMA ApartList ==
    ASSUME NEW M, M \subseteq Nat \ {0}, NEW s \in Seq(RunsOf(M)), NEW b \in RunsOf(M)
    PROVE  (\A k \in 1..Len(s) : Apart(s[k], b)) <=> \A w : ~(In(w, s) /\ w \in Words(b))
<1>1. \A k \in 1..Len(s) : s[k] \in RunsOf(M)
  BY ElementOfSeq
<1>2. \A w : w \in Words(b) => w \in Int
  BY InWords
<1>3. \A k \in 1..Len(s) : Apart(s[k], b) <=> \A w \in Int : ~(w \in Words(s[k]) /\ w \in Words(b))
  BY <1>1, ApartWords
<1> QED
  BY <1>2, <1>3 DEF In

----------------------------------------------------------------------------
(* The steps.                                                             *)

LEMMA KInit == ASSUME NEW M, Lengths(M), Init PROVE KInv(M)
<1> DEFINE b == Run(0, PageSize)
<1>1. M \subseteq Nat \ {0} /\ PageSize \in M /\ PageSize \in Nat \ {0}
  BY DEF Lengths, Sums
<1>2. b \in RunsOf(M)
  BY <1>1 DEF RunsOf, Run
<1>3. <<>> \in Seq(RunsOf(M)) /\ Len(<<>>) = 0
  BY EmptySeq
<1>4. \A w : w \in Words(b) <=> w \in 0 .. (PageSize - 1)
  BY <1>1 DEF Words, Run
<1> HIDE DEF b
<1>5. \A k \in 1..0 : FALSE
  OBVIOUS
<1>6. Sorted(<<>>) /\ \A w : ~In(w, <<>>)
  BY <1>3, <1>5 DEF Sorted, In
<1>7. \A k \in 1..Len(<<>>) : Apart(<<>>[k], b)
  BY <1>3, <1>5
<1>8. freelist = kfree(<<>>, b) /\ blocks = {} /\ arena = 0 .. (PageSize - 1)
  BY DEF Init, b
<1>9. /\ freelist \in Seq(RunsOf(M)) /\ Sorted(freelist)
      /\ \A w : In(w, freelist) <=> In(w, <<>>) \/ w \in Words(b)
  BY <1>2, <1>3, <1>6, <1>7, <1>8, Kfree DEF Lengths
<1>10. ArenaOK
  BY <1>1, <1>8 DEF ArenaOK
<1> QED
  BY <1>4, <1>6, <1>8, <1>9, <1>10 DEF KInv

LEMMA KStutter == ASSUME NEW M, KInv(M), UNCHANGED vars PROVE KInv(M)'
  BY DEF KInv, ArenaOK, vars

LEMMA AllocStep == ASSUME NEW M, Lengths(M), KInv(M), NEW n \in Sizes, Alloc(n) PROVE KInv(M)'
<1> DEFINE i == Fit(freelist, n)
           got == Cut(freelist, i, n).got
           rest == Cut(freelist, i, n).rest
<1>1. M \subseteq Nat \ {0} /\ freelist \in Seq(RunsOf(M)) /\ Sorted(freelist)
      /\ blocks \subseteq RunsOf(M)
  BY DEF KInv, Lengths, Sums
<1>2. i \in 1..Len(freelist) /\ freelist[i].len >= n
  BY <1>1, FitFirst, LenProperties DEF Alloc
<1>3. freelist' = rest /\ blocks' = blocks \union {got} /\ arena' = arena
  BY DEF Alloc
<1>4. /\ rest \in Seq(RunsOf(M)) /\ Sorted(rest) /\ got \in RunsOf(M)
      /\ \A w : /\ In(w, freelist) <=> In(w, rest) \/ w \in Words(got)
                /\ ~(In(w, rest) /\ w \in Words(got))
  <2> HIDE DEF i
  <2> QED
    BY <1>1, <1>2, CutKeeps
<1> HIDE DEF i, got, rest
<1>5. \A b \in blocks : \A w : ~(In(w, freelist) /\ w \in Words(b))
  BY <1>1, ApartList DEF KInv
<1>6. \A b \in blocks \union {got} : \A k \in 1..Len(rest) : Apart(rest[k], b)
  BY <1>1, <1>4, <1>5, ApartList
<1>7. \A b \in blocks : Apart(b, got) /\ Apart(got, b)
  BY <1>1, <1>4, <1>5, ApartWords
<1>8. \A b, c \in blocks \union {got} : b # c => Apart(b, c)
  BY <1>7 DEF KInv
<1>9. \A w \in Int : w \in arena <=> In(w, rest) \/ \E b \in blocks \union {got} : w \in Words(b)
  BY <1>4 DEF KInv
<1> QED
  BY <1>1, <1>3, <1>4, <1>6, <1>8, <1>9 DEF KInv, ArenaOK

LEMMA FreeStep == ASSUME NEW M, Lengths(M), KInv(M), NEW b \in blocks, Free(b) PROVE KInv(M)'
<1> DEFINE s == kfree(freelist, b)
<1>1. M \subseteq Nat \ {0} /\ freelist \in Seq(RunsOf(M)) /\ Sorted(freelist)
      /\ blocks \subseteq RunsOf(M) /\ b \in RunsOf(M)
  BY DEF KInv, Lengths, Sums
<1>2. freelist' = s /\ blocks' = blocks \ {b} /\ arena' = arena
  BY DEF Free
<1>3. /\ s \in Seq(RunsOf(M)) /\ Sorted(s)
      /\ \A w : In(w, s) <=> In(w, freelist) \/ w \in Words(b)
  BY <1>1, Kfree DEF KInv, Lengths
<1> HIDE DEF s
<1>4. \A c \in blocks : \A w : ~(In(w, freelist) /\ w \in Words(c))
  BY <1>1, ApartList DEF KInv
<1>5. ASSUME NEW c \in blocks \ {b}, NEW w, w \in Words(b), w \in Words(c) PROVE FALSE
  <2>1. Apart(b, c) /\ c \in RunsOf(M)
    BY <1>1 DEF KInv
  <2>2. w \in Int
    BY <1>1, <1>5, InWords
  <2> QED
    BY <1>1, <1>5, <2>1, <2>2, ApartWords
<1>6. \A c \in blocks \ {b} : \A k \in 1..Len(s) : Apart(s[k], c)
  BY <1>1, <1>3, <1>4, <1>5, ApartList
<1>7. \A w \in Int : w \in arena <=> In(w, s) \/ \E c \in blocks \ {b} : w \in Words(c)
  BY <1>3 DEF KInv
<1>8. \A c, d \in blocks \ {b} : c # d => Apart(c, d)
  BY DEF KInv
<1> QED
  BY <1>1, <1>2, <1>3, <1>6, <1>7, <1>8 DEF KInv, ArenaOK

\* malloc's blocks are far from each other and from the page.
LEMMA MallocFresh ==
    ASSUME ArenaOK, NEW n \in Sizes, NEW a \in Mallocs \ arena
    PROVE  /\ Run(a, n).at = a /\ a \in Words(Run(a, n))
           /\ \A w : w \in Words(Run(a, n)) => w \in Int /\ w \notin arena
<1>1. n \in Nat \ {0} /\ a \in Int /\ PageSize \in Nat
  BY KAllocAssumption
<1>2. \A m \in Sizes : m \in Nat \ {0}
  BY KAllocAssumption
<1>3. \A b \in Int, m \in Sizes : \A w : w \in Words(Run(b, m)) <=> w \in Int /\ b <= w /\ w < b + m
  BY <1>2 DEF Words, Run
<1>4. ASSUME NEW w \in arena, w \in Words(Run(a, n)) PROVE FALSE
  <2>1. w \in Int /\ a <= w /\ w < a + n
    BY <1>1, <1>3, <1>4
  <2>2. CASE w \in 0 .. (PageSize - 1)
    <3>1. a + n < 0 \/ a > PageSize
      BY KAllocAssumption
    <3> QED
      BY <1>1, <2>1, <2>2, <3>1
  <2>3. ASSUME NEW b \in Mallocs \intersect arena, NEW m \in Sizes, w \in Words(Run(b, m))
        PROVE  FALSE
    <3>1. b \in Int /\ b # a /\ b \in Mallocs
      BY KAllocAssumption
    <3>2. w \in Int /\ b <= w /\ w < b + m
      BY <1>3, <2>3, <3>1
    <3>3. (b > a => a + n < b) /\ (a > b => b + m < a)
      BY <3>1, KAllocAssumption
    <3> QED
      BY <1>1, <1>2, <2>1, <3>1, <3>2, <3>3
  <2> QED
    BY <2>2, <2>3 DEF ArenaOK
<1> QED
  BY <1>1, <1>3, <1>4 DEF Run

LEMMA MallocStep ==
    ASSUME NEW M, Lengths(M), KInv(M), NEW n \in Sizes, NEW a \in Mallocs, Malloc(n, a)
    PROVE  KInv(M)'
<1> DEFINE b == Run(a, n)
<1>1. M \subseteq Nat \ {0} /\ freelist \in Seq(RunsOf(M)) /\ blocks \subseteq RunsOf(M)
      /\ n \in M /\ ArenaOK
  BY DEF KInv, Lengths, Sums
<1>2. a \in Mallocs \ arena /\ blocks' = blocks \union {b} /\ arena' = arena \union Words(b)
      /\ freelist' = freelist
  BY DEF Malloc
<1>3. b \in RunsOf(M)
  BY <1>1, KAllocAssumption DEF RunsOf, Run
<1>4. a \in Words(b) /\ \A w : w \in Words(b) => w \in Int /\ w \notin arena
  BY <1>1, <1>2, MallocFresh
<1> HIDE DEF b
<1>5. ArenaOK'
  <2>1. ASSUME NEW w \in arena'
        PROVE  \/ w \in 0 .. (PageSize - 1)
               \/ \E c \in Mallocs \intersect arena', m \in Sizes : w \in Words(Run(c, m))
    <3>1. CASE w \in arena
      BY <1>1, <1>2, <3>1 DEF ArenaOK
    <3>2. CASE w \in Words(b)
      BY <1>2, <1>4, <3>2 DEF b
    <3> QED
      BY <1>2, <3>1, <3>2
  <2> QED
    BY <1>1, <1>2, <1>4, <2>1 DEF ArenaOK
<1>6. \A w \in Int : In(w, freelist) => w \in arena
  BY DEF KInv
<1>7. \A k \in 1..Len(freelist) : Apart(freelist[k], b)
  <2>1. \A w : ~(In(w, freelist) /\ w \in Words(b))
    BY <1>4, <1>6
  <2> QED
    BY <1>1, <1>3, <2>1, ApartList
<1>8. \A c \in blocks : Apart(c, b) /\ Apart(b, c)
  <2>1. \A c \in blocks : \A w \in Int : w \in Words(c) => w \in arena
    BY DEF KInv
  <2> QED
    BY <1>1, <1>3, <1>4, <2>1, ApartWords
<1>9. \A c, d \in blocks \union {b} : c # d => Apart(c, d)
  BY <1>8 DEF KInv
<1>10. \A c \in blocks \union {b} : \A k \in 1..Len(freelist) : Apart(freelist[k], c)
  BY <1>7 DEF KInv
<1>11. \A w \in Int : w \in arena \union Words(b) <=>
                  In(w, freelist) \/ \E c \in blocks \union {b} : w \in Words(c)
  BY DEF KInv
<1>12. Sorted(freelist)
  BY DEF KInv
<1> QED
  BY <1>1, <1>2, <1>3, <1>5, <1>9, <1>10, <1>11, <1>12 DEF KInv

LEMMA KNext == ASSUME NEW M, Lengths(M), KInv(M), [Next]_vars PROVE KInv(M)'
  BY AllocStep, MallocStep, FreeStep, KStutter DEF Next

----------------------------------------------------------------------------
(* What follows.                                                          *)

Inv == KInv(Nat \ {0})

LEMMA KInvariance == Spec => []Inv
<1>1. Lengths(Nat \ {0})
  <2>1. Sizes \subseteq Nat \ {0} /\ PageSize \in Nat \ {0}
    BY KAllocAssumption
  <2>2. \A m, n \in Nat \ {0} : m + n \in Nat \ {0} /\ (m > n => m - n \in Nat \ {0})
    OBVIOUS
  <2> QED
    BY <2>1, <2>2 DEF Lengths, Sums
<1>2. Init => Inv
  BY <1>1, KInit DEF Inv
<1>3. Inv /\ [Next]_vars => Inv'
  BY <1>1, KNext DEF Inv
<1> QED
  BY <1>2, <1>3, PTL DEF Spec

\* kalloc.c:28-103: the words of the arena are shared out among the runs and
\* the client's blocks, each once.
THEOREM KAllocConserved == Spec => []Conserved
<1> DEFINE M == Nat \ {0}
<1>1. Inv => Conserved
  <2> SUFFICES ASSUME Inv PROVE Conserved
    OBVIOUS
  <2>1. /\ freelist \in Seq(RunsOf(M)) /\ blocks \subseteq RunsOf(M) /\ Sorted(freelist)
        /\ DOMAIN freelist = 1..Len(freelist) /\ Len(freelist) \in Nat
        /\ \A k \in 1..Len(freelist) : freelist[k] \in RunsOf(M)
    BY LenProperties, ElementOfSeq DEF Inv, KInv
  <2>2. Runs \union blocks \subseteq RunsOf(M)
    BY <2>1 DEF Runs
  <2>3. ASSUME NEW r \in Runs \union blocks
        PROVE  r.len > 0 /\ Words(r) \subseteq arena
    <3>1. r \in RunsOf(M) /\ r.len \in Nat \ {0} /\ \A w \in Words(r) : w \in Int
      BY <2>2, RunTypes, InWords
    <3>2. \A w \in Words(r) : In(w, freelist) \/ \E b \in blocks : w \in Words(b)
      BY <2>1 DEF In, Runs
    <3> QED
      BY <3>1, <3>2 DEF Inv, KInv
  <2>4. ASSUME NEW i \in 1..Len(freelist), NEW j \in 1..Len(freelist), i # j
        PROVE  Apart(freelist[i], freelist[j]) /\ freelist[i] # freelist[j]
    <3>1. /\ freelist[i].at \in Int /\ freelist[i].at < End(freelist[i]) /\ End(freelist[i]) \in Int
          /\ freelist[j].at \in Int /\ freelist[j].at < End(freelist[j]) /\ End(freelist[j]) \in Int
      BY <2>1, RunTypes
    <3>2. End(freelist[i]) < freelist[j].at \/ End(freelist[j]) < freelist[i].at
      BY <2>1, <2>4 DEF Sorted
    <3> QED
      BY <3>1, <3>2 DEF Apart
  <2>5. ASSUME NEW p \in Runs \union blocks, NEW q \in Runs \union blocks, p # q
        PROVE  Apart(p, q)
    <3>1. ASSUME NEW c \in blocks, NEW r \in Runs PROVE Apart(r, c) /\ Apart(c, r)
      BY <2>1 DEF Inv, KInv, Runs, Apart
    <3>2. CASE p \in Runs /\ q \in Runs
      BY <2>1, <2>4, <2>5, <3>2 DEF Runs
    <3> QED
      BY <2>5, <3>1, <3>2 DEF Inv, KInv
  <2>6. ASSUME NEW a \in arena
        PROVE  Cardinality({r \in Runs \union blocks : a \in Words(r)}) = 1
    <3>1. a \in Int
      BY DEF Inv, KInv, ArenaOK
    <3>2. PICK r \in Runs \union blocks : a \in Words(r)
      BY <2>1, <3>1 DEF Inv, KInv, In, Runs
    <3>3. ASSUME NEW q \in Runs \union blocks, a \in Words(q), q # r PROVE FALSE
      BY <2>2, <2>5, <3>1, <3>2, <3>3, ApartWords
    <3>4. {q \in Runs \union blocks : a \in Words(q)} = {r}
      BY <3>2, <3>3
    <3> QED
      BY <3>4, FS_Singleton
  <2> QED
    BY <2>1, <2>3, <2>4, <2>6 DEF Conserved
<1> QED
  BY <1>1, KInvariance, PTL

\* kalloc.c:42-64: the runs stay in order and apart, so that memory that
\* comes back is merged with every neighbour.
THEOREM KAllocCoalesced == Spec => []Coalesced
<1>1. Inv => Coalesced
  <2> SUFFICES ASSUME Inv, NEW i \in 1..(Len(freelist) - 1)
               PROVE  End(freelist[i]) < freelist[i + 1].at
    BY DEF Coalesced
  <2>1. Len(freelist) \in Nat
    BY LenProperties DEF Inv, KInv
  <2>2. i \in 1..Len(freelist) /\ i + 1 \in 1..Len(freelist) /\ i < i + 1
    BY <2>1
  <2> QED
    BY <2>2 DEF Inv, KInv, Sorted
<1> QED
  BY <1>1, KInvariance, PTL

\* A run that is too short has no neighbour to make up for it.
LEMMA NoRoom ==
    ASSUME Inv, NEW n \in Sizes, \A k \in 1..Len(freelist) : ~(freelist[k].len >= n),
           NEW a \in arena
    PROVE  ~(Words(Run(a, n)) \subseteq arena \ UNION {Words(c) : c \in blocks})
<1> SUFFICES ASSUME Words(Run(a, n)) \subseteq arena \ UNION {Words(c) : c \in blocks} PROVE FALSE
  OBVIOUS
<1> DEFINE M == Nat \ {0}
<1>1. /\ freelist \in Seq(RunsOf(M)) /\ Sorted(freelist) /\ a \in Int /\ n \in Nat \ {0}
      /\ \A k \in 1..Len(freelist) : freelist[k] \in RunsOf(M)
  BY ElementOfSeq, KAllocAssumption DEF Inv, KInv, ArenaOK
<1>2. \A k \in 1..Len(freelist) :
         /\ freelist[k].at \in Int /\ freelist[k].len \in Nat /\ End(freelist[k]) \in Int
         /\ freelist[k].at < End(freelist[k])
         /\ End(freelist[k]) = freelist[k].at + freelist[k].len
         /\ \A w : w \in Words(freelist[k]) <=>
                      w \in Int /\ freelist[k].at <= w /\ w < End(freelist[k])
  BY <1>1, RunTypes, InWords
<1>3. \A w \in Int : a <= w /\ w < a + n => \E k \in 1..Len(freelist) : w \in Words(freelist[k])
  <2>1. ASSUME NEW w \in Int, a <= w, w < a + n PROVE In(w, freelist)
    <3>1. w \in Words(Run(a, n))
      BY <1>1, <2>1 DEF Words, Run
    <3>2. w \in arena /\ \A c \in blocks : w \notin Words(c)
      BY <3>1
    <3> QED
      BY <3>2 DEF Inv, KInv
  <2> QED
    BY <2>1 DEF In
<1>4. PICK k \in 1..Len(freelist) : a \in Words(freelist[k])
  BY <1>1, <1>3
<1>5. End(freelist[k]) \in Int /\ a <= End(freelist[k]) /\ End(freelist[k]) < a + n
  <2>1. freelist[k].len < n /\ freelist[k].at <= a /\ a < End(freelist[k])
    BY <1>1, <1>2, <1>4
  <2>2. /\ End(freelist[k]) = freelist[k].at + freelist[k].len
        /\ freelist[k].at \in Int /\ freelist[k].len \in Nat
    BY <1>2
  <2> QED
    BY <1>1, <2>1, <2>2
<1>6. PICK j \in 1..Len(freelist) : End(freelist[k]) \in Words(freelist[j])
  BY <1>3, <1>5
<1>7. freelist[j].at <= End(freelist[k]) /\ End(freelist[k]) < End(freelist[j])
  BY <1>2, <1>6
<1>8. k < j => End(freelist[k]) < freelist[j].at
  BY <1>1 DEF Sorted
<1>9. j < k => End(freelist[j]) < freelist[k].at
  BY <1>1 DEF Sorted
<1>10. Len(freelist) \in Nat
  BY LenProperties, <1>1
<1> QED
  BY <1>2, <1>7, <1>8, <1>9, <1>10

\* kalloc.c:99-100: malloc is the last resort, used when the client's blocks
\* leave no such length free anywhere.
THEOREM KAllocMallocLast == Spec => MallocLastResort
<1> DEFINE Last == arena' # arena =>
               LET b == CHOOSE b \in blocks' : b \notin blocks
                   held == UNION {Words(c) : c \in blocks}
               IN  \A a \in arena : ~(Words(Run(a, b.len)) \subseteq arena \ held)
<1>1. Inv /\ [Next]_vars => [Last]_vars
  <2> SUFFICES ASSUME Inv, [Next]_vars, arena' # arena PROVE Last
    OBVIOUS
  <2>1. PICK n \in Sizes, a \in Mallocs : Malloc(n, a)
    BY DEF Next, vars, Alloc, Free
  <2> DEFINE r == Run(a, n)
  <2>2. /\ Fit(freelist, n) > Len(freelist) /\ a \in Mallocs \ arena
        /\ blocks' = blocks \union {r}
    BY <2>1 DEF Malloc
  <2>3. a \in Words(r) /\ a \in Int
    BY <2>2, MallocFresh DEF Inv, KInv
  <2>4. r \notin blocks
    BY <2>2, <2>3 DEF Inv, KInv
  <2>5. (CHOOSE b \in blocks' : b \notin blocks) = r
    BY <2>2, <2>4
  <2>6. \A k \in 1..Len(freelist) : ~(freelist[k].len >= n)
    <3>1. /\ Fit(freelist, n) \in 1..(Len(freelist) + 1)
          /\ \A k \in 1..(Fit(freelist, n) - 1) : ~(freelist[k].len >= n)
      BY FitFirst DEF Inv, KInv
    <3>2. Len(freelist) \in Nat
      BY LenProperties DEF Inv, KInv
    <3>3. Fit(freelist, n) = Len(freelist) + 1
      BY <2>2, <3>1, <3>2
    <3> QED
      BY <3>1, <3>2, <3>3
  <2>7. r.len = n
    BY DEF Run
  <2> HIDE DEF r
  <2> QED
    BY <2>5, <2>6, <2>7, NoRoom
<1> QED
  BY <1>1, KInvariance, PTL DEF Spec, MallocLastResort

----------------------------------------------------------------------------
(* The headers.                                                           *)

Sized == \A b \in blocks : b.len \in Sizes

LEMMA SizedInvariance == Spec => []Sized
<1>1. Init => Sized
  BY DEF Init, Sized
<1>2. ASSUME Sized, [Next]_vars PROVE Sized'
  <2>1. ASSUME NEW n \in Sizes, Alloc(n) PROVE Sized'
    BY <1>2, <2>1 DEF Sized, Alloc, Cut, Run
  <2>2. ASSUME NEW n \in Sizes, NEW a \in Mallocs, Malloc(n, a) PROVE Sized'
    BY <1>2, <2>2 DEF Sized, Malloc, Run
  <2>3. ASSUME NEW b \in blocks, Free(b) PROVE Sized'
    BY <1>2, <2>3 DEF Sized, Free
  <2>4. CASE UNCHANGED vars
    BY <1>2, <2>4 DEF Sized, vars
  <2> QED
    BY <1>2, <2>1, <2>2, <2>3, <2>4 DEF Next
<1> QED
  BY <1>1, <1>2, PTL DEF Spec

\* The lengths that leave room for a header.
Long == {n \in Nat \ {0} : n >= Header}

LEMMA LongList ==
    ASSUME NEW s \in Seq(RunsOf(Nat \ {0})),
           \A k \in 1..Len(s) : s[k].len >= Header
    PROVE  s \in Seq(RunsOf(Long))
<1>1. ASSUME NEW k \in 1..Len(s) PROVE s[k] \in RunsOf(Long)
  <2>1. s[k] \in RunsOf(Nat \ {0})
    BY ElementOfSeq
  <2> QED
    BY <2>1 DEF RunsOf, Long
<1>2. s \in [1..Len(s) -> RunsOf(Nat \ {0})] /\ Len(s) \in Nat
  BY LenProperties
<1>3. s \in [1..Len(s) -> RunsOf(Long)]
  BY <1>1, <1>2
<1> QED
  BY <1>2, <1>3, SeqDef

LEMMA IntactList ==
    ASSUME NEW s \in Seq(RunsOf(Long))
    PROVE  \A i \in DOMAIN s : s[i].len >= Header
<1>1. DOMAIN s = 1..Len(s) /\ \A i \in 1..Len(s) : s[i] \in RunsOf(Long)
  BY LenProperties, ElementOfSeq
<1> QED
  BY <1>1 DEF RunsOf, Long

\* What kfree makes of runs and a block with room for a header has it too.
LEMMA FreeLong ==
    ASSUME \A n \in Sizes : n >= Header, Inv, Sized, HeadersIntact,
           NEW b \in blocks, Free(b)
    PROVE  HeadersIntact'
<1>1. /\ freelist \in Seq(RunsOf(Nat \ {0})) /\ Sorted(freelist) /\ b \in RunsOf(Nat \ {0})
      /\ \A k \in 1..Len(freelist) : Apart(freelist[k], b)
  BY DEF Inv, KInv
<1>2. Sums(Long)
  BY KAllocAssumption DEF Sums, Long
<1>3. b \in RunsOf(Long)
  BY <1>1 DEF Sized, RunsOf, Long
<1>4. \A k \in 1..Len(freelist) : freelist[k].len >= Header
  BY <1>1, LenProperties DEF HeadersIntact, Runs
<1>5. freelist \in Seq(RunsOf(Long))
  BY <1>1, <1>4, LongList
<1>6. kfree(freelist, b) \in Seq(RunsOf(Long))
  BY <1>1, <1>2, <1>3, <1>5, Kfree
<1>7. freelist' = kfree(freelist, b)
  BY DEF Free
<1> QED
  BY <1>6, <1>7, IntactList DEF HeadersIntact, Runs

\* kalloc takes a run off the list, or leaves the others and its rest.
LEMMA AllocLong ==
    ASSUME Inv, HeadersIntact, NEW n \in Sizes, Alloc(n)
    PROVE  \/ HeadersIntact'
           \/ \E b \in blocks' \ blocks, r \in Runs :
                 Words(b) \subseteq Words(r) /\ r.len - b.len \in 1..(Header - 1)
<1> DEFINE i == Fit(freelist, n)
           r == freelist[i]
           M == Nat \ {0}
<1>1. /\ freelist \in Seq(RunsOf(M)) /\ Sorted(freelist) /\ n \in M
      /\ \A b \in blocks : \A k \in 1..Len(freelist) : Apart(freelist[k], b)
      /\ blocks \subseteq RunsOf(M)
  BY KAllocAssumption DEF Inv, KInv
<1>2. i \in 1..Len(freelist) /\ r.len >= n /\ Header \in Nat
  BY <1>1, FitFirst, LenProperties, KAllocAssumption DEF Alloc
<1>3. \A k \in 1..Len(freelist) : freelist[k].len >= Header
  BY <1>1, LenProperties DEF HeadersIntact, Runs
<1>4. freelist \in Seq(RunsOf(Long))
  BY <1>1, <1>3, LongList
<1>5. r \in RunsOf(M) /\ r \in Runs /\ End(r) = r.at + r.len
  BY <1>1, <1>2, ElementOfSeq, LenProperties DEF Runs, End
<1>6. CASE r.len = n
  <2>1. freelist' = Splice(freelist, i, i, <<>>)
    BY <1>6 DEF Alloc, Cut
  <2> HIDE DEF i
  <2>2. freelist' \in Seq(RunsOf(Long))
    BY <1>2, <1>4, <2>1, SpliceNone
  <2> QED
    BY <2>2, IntactList DEF HeadersIntact, Runs
<1>7. CASE r.len # n /\ r.len - n >= Header
  <2> DEFINE x == Run(r.at, r.len - n)
  <2>1. freelist' = Splice(freelist, i, i, <<x>>)
    BY <1>7 DEF Alloc, Cut
  <2>2. x \in RunsOf(Long)
    BY <1>1, <1>2, <1>5, <1>7 DEF RunsOf, Run, Long
  <2>3. i \in 1..(Len(freelist) + 1) /\ i \in (i - 1)..Len(freelist)
    BY <1>1, <1>2, LenProperties
  <2> HIDE DEF i, x
  <2>4. freelist' \in Seq(RunsOf(Long))
    BY <1>4, <2>1, <2>2, <2>3, SpliceOne
  <2> QED
    BY <2>4, IntactList DEF HeadersIntact, Runs
<1>8. CASE r.len # n /\ r.len - n < Header
  <2> DEFINE b == Run(End(r) - n, n)
  <2>1. blocks' = blocks \union {b}
    BY DEF Alloc, Cut
  <2>2. r.at \in Int /\ r.len \in M /\ r.len - n \in 1..(Header - 1)
    BY <1>1, <1>2, <1>5, <1>8 DEF RunsOf
  <2>3. b.len = n /\ b.at = End(r) - n /\ End(b) = End(r) /\ b \in RunsOf(M)
    BY <1>1, <1>5, <2>2 DEF Run, End, RunsOf
  <2>4. Words(b) \subseteq Words(r)
    BY <1>1, <1>5, <2>2, <2>3 DEF Words, Run, End
  <2>5. b \notin blocks
    <3>1. ~Apart(r, b)
      BY <1>1, <1>5, <2>2, <2>3 DEF Apart
    <3> QED
      BY <1>1, <1>2, <3>1
  <2> HIDE DEF b
  <2> QED
    BY <1>5, <2>1, <2>2, <2>3, <2>4, <2>5
<1>9. r.len \in Nat /\ n \in Nat
  BY <1>1, <1>5 DEF RunsOf
<1> QED
  BY <1>2, <1>6, <1>7, <1>8, <1>9

\* kalloc.c:27-103: when a client asks for no less than a header, the only
\* step that can leave a run without room for one is the cut of
\* kalloc.c:92-95, off a run that is longer by less than a header: no kfree,
\* no whole run and no malloc does it.
THEOREM KAllocOnlyShortCuts ==
    ASSUME \A n \in Sizes : n >= Header
    PROVE  Spec => OnlyShortCuts
<1> DEFINE Short == \E b \in blocks' \ blocks, r \in Runs :
                       Words(b) \subseteq Words(r) /\ r.len - b.len \in 1..(Header - 1)
           Only == HeadersIntact => HeadersIntact' \/ Short
<1>1. Inv /\ Sized /\ [Next]_vars => [Only]_vars
  <2> SUFFICES ASSUME Inv, Sized, [Next]_vars PROVE [Only]_vars
    OBVIOUS
  <2>1. ASSUME HeadersIntact, NEW n \in Sizes, Alloc(n) PROVE HeadersIntact' \/ Short
    BY <2>1, AllocLong
  <2>2. ASSUME HeadersIntact, NEW n \in Sizes, NEW a \in Mallocs, Malloc(n, a) PROVE HeadersIntact'
    BY <2>2 DEF Malloc, HeadersIntact, Runs
  <2>3. ASSUME HeadersIntact, NEW b \in blocks, Free(b) PROVE HeadersIntact'
    BY <2>3, FreeLong
  <2> QED
    BY <2>1, <2>2, <2>3 DEF Next
<1> QED
  BY <1>1, KInvariance, SizedInvariance, PTL DEF Spec, OnlyShortCuts
=============================================================================
