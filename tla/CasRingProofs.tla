--------------------------- MODULE CasRingProofs ----------------------------
(***************************************************************************)
(* The compare-and-swap ring buffer of the port is a FIFO channel for any  *)
(* number of lwts, any messages and any size, when its senders share one   *)
(* kernel thread and its receivers another (or the same).                  *)
(***************************************************************************)
EXTENDS CasRing, Integers, SequenceTheorems, TLAPS

----------------------------------------------------------------------------
(* What the index arithmetic of rbuf.c does to the queue of messages, for *)
(* every size of the buffer.                                              *)

LEMMA ModSmall ==
    ASSUME NEW n \in Nat \ {0}, NEW a \in 0..(n - 1)
    PROVE  a % n = a
  OBVIOUS

LEMMA ModOnce ==
    ASSUME NEW n \in Nat \ {0}, NEW a \in n..(2 * n - 1)
    PROVE  a % n = a - n
  OBVIOUS

\* One step further round the ring.
LEMMA AdvanceValue ==
    ASSUME NEW n \in Nat \ {0}, NEW i \in 0..(n - 1)
    PROVE  /\ Advance(i, n) \in 0..(n - 1)
           /\ Advance(i, n) = IF i = n - 1 THEN 0 ELSE i + 1
<1>1. CASE i = n - 1
  BY <1>1, ModOnce DEF Advance
<1>2. CASE i # n - 1
  BY <1>2, ModSmall DEF Advance
<1> QED
  BY <1>1, <1>2

\* The number of messages.
LEMMA SizeValue ==
    ASSUME NEW n \in Nat \ {0}, NEW h \in 0..(n - 1), NEW t \in 0..(n - 1)
    PROVE  /\ rbuf_size(h, t, n) \in 0..(n - 1)
           /\ rbuf_size(h, t, n) = IF t >= h THEN t - h ELSE t + n - h
<1>1. CASE t >= h
  BY <1>1, ModOnce DEF rbuf_size
<1>2. CASE t < h
  BY <1>2, ModSmall DEF rbuf_size
<1> QED
  BY <1>1, <1>2

\* The slot of the i-th oldest message.
LEMMA SlotValue ==
    ASSUME NEW n \in Nat \ {0}, NEW h \in 0..(n - 1), NEW i \in 1..n
    PROVE  (h + i - 1) % n = IF h + i - 1 < n THEN h + i - 1 ELSE h + i - 1 - n
<1>1. CASE h + i - 1 < n
  BY <1>1, ModSmall
<1>2. CASE h + i - 1 >= n
  BY <1>2, ModOnce
<1> QED
  BY <1>1, <1>2

\* The buffer is full when it holds one message less than it has slots, and
\* empty when it holds none.
LEMMA FullAndEmpty ==
    ASSUME NEW n \in Nat \ {0}, NEW h \in 0..(n - 1), NEW t \in 0..(n - 1)
    PROVE  /\ rbuf_isfull(h, t, n) <=> rbuf_size(h, t, n) = n - 1
           /\ rbuf_isempty(h, t) <=> rbuf_size(h, t, n) = 0
<1>1. (t + 1) % n = IF t = n - 1 THEN 0 ELSE t + 1
  BY AdvanceValue DEF Advance
<1>2. rbuf_size(h, t, n) = IF t >= h THEN t - h ELSE t + n - h
  BY SizeValue
<1> HIDE DEF rbuf_size
<1> QED
  BY <1>1, <1>2 DEF rbuf_isfull, rbuf_isempty

LEMMA ContentsLength ==
    ASSUME NEW n \in Nat \ {0}, NEW h \in 0..(n - 1), NEW t \in 0..(n - 1),
           NEW S, NEW b, \A i \in 0..(n - 1) : b[i] \in S
    PROVE  /\ Contents(b, h, t, n) \in Seq(S)
           /\ Len(Contents(b, h, t, n)) = rbuf_size(h, t, n)
<1> DEFINE sz == rbuf_size(h, t, n)
<1>1. sz \in 0..(n - 1)
  BY SizeValue
<1>2. \A i \in 1..sz : b[(h + i - 1) % n] \in S
  <2> TAKE i \in 1..sz
  <2>1. (h + i - 1) % n = IF h + i - 1 < n THEN h + i - 1 ELSE h + i - 1 - n
    BY <1>1, SlotValue
  <2> QED
    BY <2>1, <1>1
<1>3. Contents(b, h, t, n) = [i \in 1..sz |-> b[(h + i - 1) % n]]
  BY DEF Contents
<1> HIDE DEF sz
<1>4. Contents(b, h, t, n) \in [1..sz -> S]
  BY <1>2, <1>3
<1>5. Contents(b, h, t, n) \in Seq(S) /\ Len(Contents(b, h, t, n)) = sz
  BY <1>1, <1>4
<1> QED
  BY <1>5 DEF sz

\* A message stored in the free slot at tail is not seen before tail moves.
LEMMA ContentsStore ==
    ASSUME NEW n \in Nat \ {0}, NEW h \in 0..(n - 1), NEW t \in 0..(n - 1),
           NEW b, DOMAIN b = 0..(n - 1), NEW m
    PROVE  Contents([b EXCEPT ![t] = m], h, t, n) = Contents(b, h, t, n)
<1> DEFINE sz == rbuf_size(h, t, n)
<1>1. \A i \in 1..sz : (h + i - 1) % n \in 0..(n - 1) /\ (h + i - 1) % n # t
  <2> TAKE i \in 1..sz
  <2>1. sz \in 0..(n - 1) /\ sz = IF t >= h THEN t - h ELSE t + n - h
    BY SizeValue
  <2>2. (h + i - 1) % n = IF h + i - 1 < n THEN h + i - 1 ELSE h + i - 1 - n
    BY <2>1, SlotValue
  <2> QED
    BY <2>1, <2>2
<1>2. \A i \in 1..sz : [b EXCEPT ![t] = m][(h + i - 1) % n] = b[(h + i - 1) % n]
  BY <1>1
<1> QED
  BY <1>2 DEF Contents

\* Moving tail on appends what is in its slot.
LEMMA ContentsAppend ==
    ASSUME NEW n \in Nat \ {0}, NEW h \in 0..(n - 1), NEW t \in 0..(n - 1),
           NEW S, NEW b \in [0..(n - 1) -> S],
           ~rbuf_isfull(h, t, n)
    PROVE  /\ rbuf_size(h, t, n) < n - 1
           /\ Contents(b, h, Advance(t, n), n) =
                  Append(Contents(b, h, t, n), b[t])
<1> DEFINE sz == rbuf_size(h, t, n)
           new == rbuf_size(h, Advance(t, n), n)
<1>1. sz \in 0..(n - 1) /\ sz = IF t >= h THEN t - h ELSE t + n - h
  BY SizeValue
<1>2. sz < n - 1
  BY <1>1, FullAndEmpty
<1>3. new = sz + 1
  <2>1. /\ Advance(t, n) \in 0..(n - 1)
        /\ Advance(t, n) = IF t = n - 1 THEN 0 ELSE t + 1
    BY AdvanceValue
  <2>2. new = IF Advance(t, n) >= h THEN Advance(t, n) - h
                                    ELSE Advance(t, n) + n - h
    BY <2>1, SizeValue
  <2> HIDE DEF sz, new
  <2> QED
    BY <1>1, <1>2, <2>1, <2>2
<1>4. (h + new - 1) % n = t
  <2>1. (h + new - 1) % n =
            IF h + new - 1 < n THEN h + new - 1 ELSE h + new - 1 - n
    <3>1. new \in 1..n
      BY <1>1, <1>2, <1>3
    <3> HIDE DEF new
    <3> QED
      BY <3>1, SlotValue
  <2> HIDE DEF sz, new
  <2> QED
    BY <2>1, <1>1, <1>2, <1>3
<1>5. Contents(b, h, t, n) = [i \in 1..sz |-> b[(h + i - 1) % n]]
  BY DEF Contents
<1>6. Contents(b, h, Advance(t, n), n) =
          [i \in 1..(sz + 1) |-> b[(h + i - 1) % n]]
  BY <1>3 DEF Contents
<1> HIDE DEF sz, new
<1>7. Append(Contents(b, h, t, n), b[t]) =
          [i \in 1..(sz + 1) |-> IF i = sz + 1 THEN b[t]
                                              ELSE b[(h + i - 1) % n]]
  <2>1. Contents(b, h, t, n) \in Seq(S) /\ Len(Contents(b, h, t, n)) = sz
    BY ContentsLength DEF sz
  <2> QED
    BY <2>1, <1>1, <1>5
<1>8. \A i \in 1..(sz + 1) :
          b[(h + i - 1) % n] = IF i = sz + 1 THEN b[t] ELSE b[(h + i - 1) % n]
  BY <1>3, <1>4
<1> QED
  BY <1>2, <1>6, <1>7, <1>8 DEF sz

\* Moving head on takes the oldest message.
LEMMA ContentsTake ==
    ASSUME NEW n \in Nat \ {0}, NEW h \in 0..(n - 1), NEW t \in 0..(n - 1),
           NEW b, ~rbuf_isempty(h, t)
    PROVE  /\ Contents(b, h, t, n) # <<>>
           /\ Head(Contents(b, h, t, n)) = b[h]
           /\ Contents(b, Advance(h, n), t, n) = Tail(Contents(b, h, t, n))
<1> DEFINE sz == rbuf_size(h, t, n)
           up == Advance(h, n)
           q == Contents(b, h, t, n)
           S == {b[i] : i \in 0..(n - 1)}
<1>1. sz \in 1..(n - 1) /\ sz = IF t >= h THEN t - h ELSE t + n - h
  <2>1. sz \in 0..(n - 1) /\ sz = IF t >= h THEN t - h ELSE t + n - h
    BY SizeValue
  <2>2. sz # 0
    BY FullAndEmpty
  <2> HIDE DEF sz
  <2> QED
    BY <2>1, <2>2
<1>2. up \in 0..(n - 1) /\ up = IF h = n - 1 THEN 0 ELSE h + 1
  BY AdvanceValue
<1>3. rbuf_size(up, t, n) = sz - 1
  <2>1. rbuf_size(up, t, n) = IF t >= up THEN t - up ELSE t + n - up
    BY <1>2, SizeValue
  <2>2. h # t
    BY DEF rbuf_isempty
  <2> HIDE DEF sz, up
  <2> QED
    BY <1>1, <1>2, <2>1, <2>2
<1>4. q = [i \in 1..sz |-> b[(h + i - 1) % n]]
  BY DEF Contents
<1>5. (h + 1 - 1) % n = h
  BY ModSmall
<1>6. \A i \in 1..(sz - 1) : (up + i - 1) % n = (h + (i + 1) - 1) % n
  <2> TAKE i \in 1..(sz - 1)
  <2>1. (up + i - 1) % n = IF up + i - 1 < n THEN up + i - 1 ELSE up + i - 1 - n
    <3>1. i \in 1..n
      BY <1>1
    <3> HIDE DEF up
    <3> QED
      BY <3>1, <1>2, SlotValue
  <2>2. i + 1 \in 1..n
    BY <1>1
  <2>3. (h + (i + 1) - 1) % n =
            IF h + (i + 1) - 1 < n THEN h + (i + 1) - 1 ELSE h + (i + 1) - 1 - n
    BY <2>2, SlotValue
  <2> QED
    BY <2>1, <2>3, <1>1, <1>2
<1>7. Contents(b, up, t, n) = [i \in 1..(sz - 1) |-> b[(up + i - 1) % n]]
  BY <1>3 DEF Contents
<1>8. q \in Seq(S) /\ Len(q) = sz
  <2>1. \A i \in 0..(n - 1) : b[i] \in S
    OBVIOUS
  <2> HIDE DEF S
  <2> QED
    BY <2>1, ContentsLength
<1> HIDE DEF sz, up, q, S
<1>9. q # <<>> /\ Head(q) = b[h]
  BY <1>1, <1>4, <1>5, <1>8
<1>10. Tail(q) = [i \in 1..(sz - 1) |-> b[(h + (i + 1) - 1) % n]]
  <2>1. Tail(q) = [i \in 1..(sz - 1) |-> q[i + 1]]
    <3>1. /\ Tail(q) \in Seq(S) /\ Len(Tail(q)) = sz - 1
          /\ \A i \in 1..(sz - 1) : Tail(q)[i] = q[i + 1]
      BY <1>1, <1>8, <1>9
    <3>2. Tail(q) \in [1..(sz - 1) -> S]
      BY <3>1, LenProperties
    <3> QED
      BY <3>1, <3>2
  <2>2. \A i \in 1..(sz - 1) : q[i + 1] = b[(h + (i + 1) - 1) % n]
    BY <1>1, <1>4
  <2> QED
    BY <2>1, <2>2
<1>11. Contents(b, up, t, n) = Tail(q)
  BY <1>6, <1>7, <1>10
<1> QED
  BY <1>9, <1>11 DEF q, up

----------------------------------------------------------------------------
(* One side sends, one side receives.                                     *)

\* One kernel thread sends, one receives.
OneSide ==
    /\ \A s1, s2 \in Senders : Kthd[s1] = Kthd[s2]
    /\ \A r1, r2 \in Receivers : Kthd[r1] = Kthd[r2]

Inside(l) == pc[l] \notin {"idle", "wait"}

\* No two lwts of one kthd are past their waiting loops.
Solo == \A k, l \in Lwts : Kthd[k] = Kthd[l] /\ Inside(k) /\ Inside(l) => k = l

\* What a sender knows on its way through rbuf_write.
SenderOK ==
    \A s \in Senders :
        /\ pc[s] \in {"idle", "wait", "write", "tail", "store", "swap"}
        /\ Inside(s) => ~rbuf_isfull(head, tail, size)
        /\ pc[s] \in {"store", "swap"} => cas[s] = tail
        /\ pc[s] = "swap" => buf[tail] = data[s]

\* What a receiver knows on its way through rbuf_read.
ReceiverOK ==
    \A r \in Receivers :
        /\ pc[r] \in {"idle", "wait", "read", "head", "fetch", "swap"}
        /\ Inside(r) => ~rbuf_isempty(head, tail)
        /\ pc[r] \in {"fetch", "swap"} => cas[r] = head
        /\ pc[r] = "swap" => data[r] = buf[head]

CInv == TypeOK /\ Solo /\ SenderOK /\ ReceiverOK

LEMMA SizeOK == size \in Nat /\ size >= 2
  BY CasRingAssumption DEF size, rbuf_init

LEMMA RolesApart ==
    /\ \A s \in Senders : s \in Lwts /\ s \notin Receivers
    /\ \A r \in Receivers : r \in Lwts /\ r \notin Senders
  BY CasRingAssumption DEF Lwts

LEMMA InitCInv == Init => CInv
<1> SUFFICES ASSUME Init PROVE CInv
  OBVIOUS
<1> USE SizeOK
<1>1. TypeOK
  BY DEF Init, TypeOK
<1>2. Solo /\ SenderOK /\ ReceiverOK
  BY DEF Init, Solo, Inside, SenderOK, ReceiverOK, Lwts
<1> QED
  BY <1>1, <1>2 DEF CInv

\* Moving tail keeps the buffer from being empty, if it was not full.
LEMMA TailMoves ==
    ASSUME TypeOK, ~rbuf_isfull(head, tail, size)
    PROVE  /\ Advance(tail, size) \in 0..(size - 1)
           /\ ~rbuf_isempty(head, Advance(tail, size))
<1>1. Advance(tail, size) \in 0..(size - 1)
  BY SizeOK, AdvanceValue DEF TypeOK
<1> QED
  BY <1>1 DEF rbuf_isfull, rbuf_isempty, Advance

\* Moving head keeps the buffer from being full, if it was not empty.
LEMMA HeadMoves ==
    ASSUME TypeOK, ~rbuf_isempty(head, tail)
    PROVE  /\ Advance(head, size) \in 0..(size - 1)
           /\ ~rbuf_isfull(Advance(head, size), tail, size)
<1>1. /\ Advance(head, size) \in 0..(size - 1)
      /\ Advance(head, size) = IF head = size - 1 THEN 0 ELSE head + 1
  BY SizeOK, AdvanceValue DEF TypeOK
<1>2. Advance(tail, size) = IF tail = size - 1 THEN 0 ELSE tail + 1
  BY SizeOK, AdvanceValue DEF TypeOK
<1>3. head \in 0..(size - 1) /\ tail \in 0..(size - 1) /\ head # tail
  BY DEF TypeOK, rbuf_isempty
<1>4. Advance(tail, size) # Advance(head, size)
  BY <1>1, <1>2, <1>3, SizeOK
<1> QED
  BY <1>1, <1>4 DEF rbuf_isfull, Advance

\* A full or empty test that moves a process on changes nothing else.
LEMMA MoveOn ==
    ASSUME CInv, NEW l \in Lwts, UNCHANGED <<buf, head, tail, data, cas, got>>,
           NEW to, pc' = [pc EXCEPT ![l] = to],
           to \in {"wait", "write", "tail", "read", "head"},
           to = "wait" \/ Current(l) \/ Inside(l),
           l \in Senders => /\ to \in {"wait", "write", "tail"}
                            /\ to # "wait" => ~rbuf_isfull(head, tail, size),
           l \in Receivers => /\ to \in {"wait", "read", "head"}
                              /\ to # "wait" => ~rbuf_isempty(head, tail)
    PROVE  CInv'
<1>1. TypeOK'
  BY DEF CInv, TypeOK
<1>2. Solo'
  BY DEF CInv, TypeOK, Solo, Inside, Current
<1>3. SenderOK'
  BY RolesApart DEF CInv, TypeOK, SenderOK, Inside
<1>4. ReceiverOK'
  BY RolesApart DEF CInv, TypeOK, ReceiverOK, Inside
<1> QED
  BY <1>1, <1>2, <1>3, <1>4 DEF CInv

\* A full or empty test never fails on the way.
LEMMA NoFailure ==
    ASSUME CInv
    PROVE  /\ \A s \in Senders : Inside(s) => ~rbuf_isfull(head, tail, size)
           /\ \A r \in Receivers : Inside(r) => ~rbuf_isempty(head, tail)
  BY DEF CInv, SenderOK, ReceiverOK

LEMMA SendCInv == ASSUME CInv, NEW s \in Senders, NEW m \in Messages, Send(s, m)
                  PROVE  CInv'
<1> USE RolesApart DEF CInv, TypeOK, Send, Goto
<1>1. TypeOK'
  OBVIOUS
<1>2. Solo'
  BY DEF Solo, Inside, Current
<1>3. SenderOK'
  BY DEF SenderOK, Inside
<1>4. ReceiverOK'
  BY DEF ReceiverOK, Inside
<1> QED
  BY <1>1, <1>2, <1>3, <1>4

LEMMA WriteTailCInv == ASSUME CInv, NEW s \in Senders, WriteTail(s) PROVE CInv'
<1> USE RolesApart DEF CInv, TypeOK, WriteTail, Goto
<1>1. TypeOK'
  OBVIOUS
<1>2. Solo'
  BY DEF Solo, Inside
<1>3. SenderOK'
  BY DEF SenderOK, Inside
<1>4. ReceiverOK'
  BY DEF ReceiverOK, Inside
<1> QED
  BY <1>1, <1>2, <1>3, <1>4

\* The slot at tail is neither head nor any other sender's.
LEMMA WriteStoreCInv == ASSUME CInv, OneSide, NEW s \in Senders, WriteStore(s)
                        PROVE  CInv'
<1> USE RolesApart DEF CInv, TypeOK, WriteStore, Goto
<1>1. TypeOK'
  OBVIOUS
<1>2. Solo'
  BY DEF Solo, Inside
<1>3. \A k \in Senders : k # s => pc[k] \in {"idle", "wait"}
  BY DEF Solo, Inside, OneSide
<1>4. cas[s] = tail /\ tail \in DOMAIN buf /\ head \in DOMAIN buf
  BY DEF SenderOK
<1>5. SenderOK'
  BY <1>3, <1>4 DEF SenderOK, Inside
<1>6. \A r \in Receivers : pc[r] = "swap" => head # tail
  BY DEF ReceiverOK, Inside, rbuf_isempty
<1>7. ReceiverOK'
  BY <1>4, <1>6 DEF ReceiverOK, Inside
<1> QED
  BY <1>1, <1>2, <1>5, <1>7

LEMMA WriteSwapCInv == ASSUME CInv, OneSide, NEW s \in Senders, WriteSwap(s)
                       PROVE  CInv' /\ tail = cas[s]
<1> USE RolesApart DEF CInv, TypeOK
<1>1. /\ pc[s] = "swap" /\ tail = cas[s]
      /\ ~rbuf_isfull(head, tail, size)
      /\ Return(s) /\ tail' = Advance(tail, size)
      /\ UNCHANGED <<buf, head, got>>
  BY DEF WriteSwap, Return, Goto, SenderOK, Inside
<1>2. tail' \in 0..(size - 1) /\ ~rbuf_isempty(head, tail')
  BY <1>1, TailMoves
<1>3. TypeOK'
  BY <1>1, <1>2, SizeOK DEF Return, Goto
<1>4. Solo'
  BY <1>1 DEF Solo, Inside, Return, Goto
<1>5. \A k \in Senders : k # s => pc[k] \in {"idle", "wait"}
  BY <1>1 DEF Solo, Inside, OneSide
<1>6. SenderOK'
  BY <1>1, <1>5 DEF SenderOK, Inside, Return, Goto
<1>7. ReceiverOK'
  BY <1>1, <1>2 DEF ReceiverOK, Inside, Return, Goto
<1> QED
  BY <1>1, <1>3, <1>4, <1>6, <1>7

LEMMA ReadHeadCInv == ASSUME CInv, NEW r \in Receivers, ReadHead(r) PROVE CInv'
<1> USE RolesApart DEF CInv, TypeOK, ReadHead, Goto
<1>1. TypeOK'
  OBVIOUS
<1>2. Solo'
  BY DEF Solo, Inside
<1>3. SenderOK'
  BY DEF SenderOK, Inside
<1>4. ReceiverOK'
  BY DEF ReceiverOK, Inside
<1> QED
  BY <1>1, <1>2, <1>3, <1>4

LEMMA ReadFetchCInv == ASSUME CInv, NEW r \in Receivers, ReadFetch(r) PROVE CInv'
<1> USE RolesApart DEF CInv, TypeOK, ReadFetch, Goto
<1>1. TypeOK'
  OBVIOUS
<1>2. Solo'
  BY DEF Solo, Inside
<1>3. SenderOK'
  BY DEF SenderOK, Inside
<1>4. ReceiverOK'
  BY DEF ReceiverOK, Inside
<1> QED
  BY <1>1, <1>2, <1>3, <1>4

LEMMA ReadSwapCInv == ASSUME CInv, OneSide, NEW r \in Receivers, ReadSwap(r)
                      PROVE  CInv' /\ head = cas[r]
<1> USE RolesApart DEF CInv, TypeOK
<1>1. /\ pc[r] = "swap" /\ head = cas[r]
      /\ ~rbuf_isempty(head, tail)
      /\ Return(r) /\ head' = Advance(head, size)
      /\ got' = [got EXCEPT ![r] = data[r]]
      /\ UNCHANGED <<buf, tail>>
  BY DEF ReadSwap, Return, Goto, ReceiverOK, Inside
<1>2. head' \in 0..(size - 1) /\ ~rbuf_isfull(head', tail, size)
  BY <1>1, HeadMoves
<1>3. TypeOK'
  BY <1>1, <1>2, SizeOK DEF Return, Goto
<1>4. Solo'
  BY <1>1 DEF Solo, Inside, Return, Goto
<1>5. \A k \in Receivers : k # r => pc[k] \in {"idle", "wait"}
  BY <1>1 DEF Solo, Inside, OneSide
<1>6. SenderOK'
  BY <1>1, <1>2 DEF SenderOK, Inside, Return, Goto
<1>7. ReceiverOK'
  BY <1>1, <1>5 DEF ReceiverOK, Inside, Return, Goto
<1> QED
  BY <1>1, <1>3, <1>4, <1>6, <1>7

LEMMA NextCInv == ASSUME CInv, OneSide, [Next]_vars PROVE CInv'
<1>1. ASSUME NEW s \in Senders, NEW m \in Messages, Send(s, m) PROVE CInv'
  BY <1>1, SendCInv
<1>2. ASSUME NEW s \in Senders, SendReady(s) PROVE CInv'
  BY <1>2, MoveOn, RolesApart DEF SendReady, Goto
<1>3. ASSUME NEW s \in Senders, WriteTest(s) PROVE CInv'
  <2>1. Inside(s) /\ ~rbuf_isfull(head, tail, size)
    BY <1>3, NoFailure DEF WriteTest, Goto, Inside
  <2> QED
    BY <1>3, <2>1, MoveOn, RolesApart DEF WriteTest, Goto
<1>4. ASSUME NEW s \in Senders, WriteTail(s) PROVE CInv'
  BY <1>4, WriteTailCInv
<1>5. ASSUME NEW s \in Senders, WriteStore(s) PROVE CInv'
  BY <1>5, WriteStoreCInv
<1>6. ASSUME NEW s \in Senders, WriteSwap(s) PROVE CInv'
  BY <1>6, WriteSwapCInv
<1>7. ASSUME NEW r \in Receivers, Receive(r) PROVE CInv'
  BY <1>7, MoveOn, RolesApart DEF Receive, Goto
<1>8. ASSUME NEW r \in Receivers, ReceiveReady(r) PROVE CInv'
  BY <1>8, MoveOn, RolesApart DEF ReceiveReady, Goto
<1>9. ASSUME NEW r \in Receivers, ReadTest(r) PROVE CInv'
  <2>1. Inside(r) /\ ~rbuf_isempty(head, tail)
    BY <1>9, NoFailure DEF ReadTest, Goto, Inside
  <2> QED
    BY <1>9, <2>1, MoveOn, RolesApart DEF ReadTest, Goto
<1>10. ASSUME NEW r \in Receivers, ReadHead(r) PROVE CInv'
  BY <1>10, ReadHeadCInv
<1>11. ASSUME NEW r \in Receivers, ReadFetch(r) PROVE CInv'
  BY <1>11, ReadFetchCInv
<1>12. ASSUME NEW r \in Receivers, ReadSwap(r) PROVE CInv'
  BY <1>12, ReadSwapCInv
<1>13. CASE UNCHANGED vars
  BY <1>13 DEF vars, CInv, TypeOK, Solo, SenderOK, ReceiverOK, Inside
<1> QED
  BY <1>1, <1>2, <1>3, <1>4, <1>5, <1>6, <1>7, <1>8, <1>9, <1>10, <1>11,
     <1>12, <1>13 DEF Next, SendStep, ReceiveStep

----------------------------------------------------------------------------
(* The theorems.                                                          *)

LEMMA InvariantCInv == ASSUME OneSide PROVE Spec => []CInv
<1>1. Init => CInv
  BY InitCInv
<1>2. CInv /\ [Next]_vars => CInv'
  BY NextCInv
<1> QED
  BY <1>1, <1>2, PTL DEF Spec

\* The variables keep their types: no index leaves the buffer.
THEOREM CasRingTypes == ASSUME OneSide PROVE Spec => []TypeOK
<1>1. CInv => TypeOK
  BY DEF CInv
<1> QED
  BY <1>1, InvariantCInv, PTL

\* The assertion of lwt_snd on rbuf_write holds (scheddev/channel.c:97).
THEOREM WriteSafe == ASSUME OneSide PROVE Spec => []WriteNeverFull
<1>1. CInv => WriteNeverFull
  BY DEF CInv, SenderOK, WriteNeverFull
<1> QED
  BY <1>1, InvariantCInv, PTL

\* lwt_rcv never follows a NULL from rbuf_read (scheddev/channel.c:139).
THEOREM ReadSafe == ASSUME OneSide PROVE Spec => []ReadNeverEmpty
<1>1. CInv => ReadNeverEmpty
  BY DEF CInv, ReceiverOK, ReadNeverEmpty
<1> QED
  BY <1>1, InvariantCInv, PTL

----------------------------------------------------------------------------
(* The refinement.                                                        *)

LEMMA BufferTypes ==
    ASSUME CInv
    PROVE  /\ size \in Nat \ {0}
           /\ head \in 0..(size - 1) /\ tail \in 0..(size - 1)
           /\ buf \in [0..(size - 1) -> Messages \union {NULL}]
  BY SizeOK DEF CInv, TypeOK

\* Room left in the buffer is room left in the mailbox, and the swap of
\* tail is the mailbox's Put.
LEMMA SwapPuts ==
    ASSUME CInv, OneSide, NEW s \in Senders, WriteSwap(s)
    PROVE  Box!Put(s)
<1> DEFINE n == size
           q == Contents(buf, head, tail, n)
<1>1. /\ pc[s] = "swap" /\ tail = cas[s]
      /\ buf[tail] = data[s] /\ ~rbuf_isfull(head, tail, n)
  BY WriteSwapCInv DEF CInv, SenderOK, Inside, WriteSwap, Return, Goto
<1>2. /\ pc' = [pc EXCEPT ![s] = "idle"]
      /\ data' = [data EXCEPT ![s] = NULL]
      /\ tail' = Advance(tail, n)
      /\ UNCHANGED <<buf, head, got>>
  BY <1>1 DEF WriteSwap, Return, Goto
<1>3. /\ rbuf_size(head, tail, n) < n - 1
      /\ Contents(buf', head', tail', n) = Append(q, data[s])
      /\ Len(q) = rbuf_size(head, tail, n)
  <2>1. /\ rbuf_size(head, tail, n) < n - 1
        /\ Contents(buf, head, Advance(tail, n), n) = Append(q, buf[tail])
    BY <1>1, BufferTypes, ContentsAppend
  <2>2. Len(q) = rbuf_size(head, tail, n)
    BY BufferTypes, ContentsLength
  <2> QED
    BY <2>1, <2>2, <1>1, <1>2
<1> HIDE DEF q
<1>4. s \in Lwts /\ DOMAIN pc = Lwts /\ DOMAIN data = Lwts
  BY RolesApart DEF CInv, TypeOK
<1>5. [l \in Lwts |-> IF l \in Senders /\ pc[l] # "idle" THEN <<1, data[l]>> ELSE <<>>]' =
      [[l \in Lwts |-> IF l \in Senders /\ pc[l] # "idle" THEN <<1, data[l]>> ELSE <<>>]
          EXCEPT ![s] = <<>>]
  BY <1>2, <1>4
<1>6. [c \in {1} |-> Contents(buf, head, tail, n)]' =
      [[c \in {1} |-> q] EXCEPT ![1] = Append(q, data[s])]
  BY <1>2, <1>3
<1> QED
  BY <1>1, <1>2, <1>3, <1>4, <1>5, <1>6 DEF Box!Put, q

\* The swap of head is the mailbox's Take.
LEMMA SwapTakes ==
    ASSUME CInv, OneSide, NEW r \in Receivers, ReadSwap(r)
    PROVE  Box!Take(r, 1)
<1> DEFINE n == size
           q == Contents(buf, head, tail, n)
<1>1. /\ pc[r] = "swap" /\ head = cas[r]
      /\ data[r] = buf[head] /\ ~rbuf_isempty(head, tail)
  BY ReadSwapCInv DEF CInv, ReceiverOK, Inside, ReadSwap, Return, Goto
<1>2. /\ pc' = [pc EXCEPT ![r] = "idle"]
      /\ data' = [data EXCEPT ![r] = NULL]
      /\ head' = Advance(head, n)
      /\ got' = [got EXCEPT ![r] = data[r]]
      /\ UNCHANGED <<buf, tail>>
  BY <1>1 DEF ReadSwap, Return, Goto
<1>3. /\ q # <<>> /\ Head(q) = data[r]
      /\ Contents(buf', head', tail', n) = Tail(q)
  <2>1. /\ q # <<>> /\ Head(q) = buf[head]
        /\ Contents(buf, Advance(head, n), tail, n) = Tail(q)
    <3>1. /\ n \in Nat \ {0} /\ head \in 0..(n - 1) /\ tail \in 0..(n - 1)
          /\ ~rbuf_isempty(head, tail)
      BY <1>1, BufferTypes
    <3> HIDE DEF n
    <3> QED
      BY ONLY <3>1, ContentsTake
  <2> QED
    BY <2>1, <1>1, <1>2
<1> HIDE DEF q
<1>4. r \notin Senders
  BY RolesApart
<1>5. \A l \in Senders : pc'[l] = pc[l] /\ data'[l] = data[l]
  BY <1>2, <1>4, RolesApart DEF CInv, TypeOK
<1>6. [l \in Lwts |-> IF l \in Senders /\ pc[l] # "idle" THEN <<1, data[l]>> ELSE <<>>]' =
      [l \in Lwts |-> IF l \in Senders /\ pc[l] # "idle" THEN <<1, data[l]>> ELSE <<>>]
  BY <1>5
<1>7. [c \in {1} |-> Contents(buf, head, tail, n)]' =
      [[c \in {1} |-> q] EXCEPT ![1] = Tail(q)]
  BY <1>2, <1>3
<1> QED
  BY <1>2, <1>3, <1>6, <1>7 DEF Box!Take, q

\* lwt_snd's call is the mailbox's Offer.
LEMMA SendOffers ==
    ASSUME CInv, NEW s \in Senders, NEW m \in Messages, Send(s, m)
    PROVE  Box!Offer(s, 1, m)
<1>1. /\ pc[s] = "idle"
      /\ pc' = [pc EXCEPT ![s] = "wait"]
      /\ data' = [data EXCEPT ![s] = m]
      /\ UNCHANGED <<buf, head, tail, got>>
  BY DEF Send, Goto
<1>2. s \in Lwts /\ DOMAIN pc = Lwts /\ DOMAIN data = Lwts
  BY RolesApart DEF CInv, TypeOK
<1>3. [l \in Lwts |-> IF l \in Senders /\ pc[l] # "idle" THEN <<1, data[l]>> ELSE <<>>]' =
      [[l \in Lwts |-> IF l \in Senders /\ pc[l] # "idle" THEN <<1, data[l]>> ELSE <<>>]
          EXCEPT ![s] = <<1, m>>]
  BY <1>1, <1>2
<1> QED
  BY <1>1, <1>2, <1>3 DEF Box!Offer

\* A step inside a call that leaves the queue and what is being sent alone.
LEMMA InnerStep ==
    ASSUME Contents(buf, head, tail, size)' = Contents(buf, head, tail, size),
           \A l \in Senders : /\ (pc[l] = "idle") <=> (pc'[l] = "idle")
                              /\ pc[l] # "idle" => data'[l] = data[l],
           UNCHANGED got
    PROVE  UNCHANGED Box!vars
  BY DEF Box!vars

\* Steps of senders and receivers other than the call and the two swaps.
LEMMA MoveIsInner ==
    ASSUME CInv, NEW l \in Lwts, NEW from, NEW to, Goto(l, from, to),
           (from # "idle" /\ to # "idle") \/ l \in Receivers,
           UNCHANGED <<buf, head, tail, got>>,
           \A k \in Senders : data'[k] = data[k]
    PROVE  UNCHANGED Box!vars
<1>1. Contents(buf, head, tail, size)' = Contents(buf, head, tail, size)
  OBVIOUS
<1>2. \A k \in Senders : (pc[k] = "idle") <=> (pc'[k] = "idle")
  BY RolesApart DEF CInv, TypeOK, Goto
<1> QED
  BY <1>1, <1>2, InnerStep

LEMMA StoreIsInner ==
    ASSUME CInv, OneSide, NEW s \in Senders, WriteStore(s)
    PROVE  UNCHANGED Box!vars
<1>1. /\ pc[s] = "store" /\ cas[s] = tail
      /\ pc' = [pc EXCEPT ![s] = "swap"]
      /\ buf' = [buf EXCEPT ![tail] = data[s]]
      /\ UNCHANGED <<head, tail, data, got>>
  BY DEF CInv, SenderOK, WriteStore, Goto
<1>2. Contents(buf, head, tail, size)' = Contents(buf, head, tail, size)
  <2>1. /\ size \in Nat \ {0}
        /\ head \in 0..(size - 1) /\ tail \in 0..(size - 1)
        /\ DOMAIN buf = 0..(size - 1)
    BY BufferTypes
  <2> HIDE DEF size
  <2>2. Contents([buf EXCEPT ![tail] = data[s]], head, tail, size) =
            Contents(buf, head, tail, size)
    BY ONLY <2>1, ContentsStore
  <2> QED
    BY <2>2, <1>1
<1>3. \A k \in Senders : (pc[k] = "idle") <=> (pc'[k] = "idle")
  BY <1>1, RolesApart DEF CInv, TypeOK
<1> QED
  BY <1>1, <1>2, <1>3, InnerStep

LEMMA InitBox == Init => Box!Init
<1> SUFFICES ASSUME Init PROVE Box!Init
  OBVIOUS
<1>1. rbuf_size(head, tail, size) = 0
  BY SizeOK, ModOnce DEF Init, rbuf_size
<1>2. Contents(buf, head, tail, size) = <<>>
  BY <1>1 DEF Contents
<1>3. \A l \in Lwts : pc[l] = "idle"
  BY DEF Init
<1>4. got = [l \in Lwts |-> NULL]
  BY DEF Init
<1> QED
  BY <1>2, <1>3, <1>4 DEF Box!Init

LEMMA NextBox == ASSUME CInv, OneSide, [Next]_vars PROVE [Box!Next]_Box!vars
<1>1. ASSUME NEW s \in Senders, NEW m \in Messages, Send(s, m)
      PROVE  Box!Next
  BY <1>1, SendOffers, RolesApart DEF Box!Next
<1>2. ASSUME NEW s \in Senders, SendReady(s) PROVE UNCHANGED Box!vars
  BY <1>2, MoveIsInner, RolesApart DEF SendReady, Goto
<1>3. ASSUME NEW s \in Senders, WriteTest(s) PROVE UNCHANGED Box!vars
  BY <1>3, MoveIsInner, RolesApart DEF WriteTest, Goto
<1>4. ASSUME NEW s \in Senders, WriteTail(s) PROVE UNCHANGED Box!vars
  BY <1>4, MoveIsInner, RolesApart DEF WriteTail, Goto
<1>5. ASSUME NEW s \in Senders, WriteStore(s) PROVE UNCHANGED Box!vars
  BY <1>5, StoreIsInner
<1>6. ASSUME NEW s \in Senders, WriteSwap(s) PROVE Box!Next
  BY <1>6, SwapPuts, RolesApart DEF Box!Next
<1>7. ASSUME NEW r \in Receivers, Receive(r) PROVE UNCHANGED Box!vars
  BY <1>7, MoveIsInner, RolesApart DEF Receive, Goto
<1>8. ASSUME NEW r \in Receivers, ReceiveReady(r) PROVE UNCHANGED Box!vars
  BY <1>8, MoveIsInner, RolesApart DEF ReceiveReady, Goto
<1>9. ASSUME NEW r \in Receivers, ReadTest(r) PROVE UNCHANGED Box!vars
  BY <1>9, MoveIsInner, RolesApart DEF ReadTest, Goto
<1>10. ASSUME NEW r \in Receivers, ReadHead(r) PROVE UNCHANGED Box!vars
  BY <1>10, MoveIsInner, RolesApart DEF ReadHead, Goto
<1>11. ASSUME NEW r \in Receivers, ReadFetch(r) PROVE UNCHANGED Box!vars
  <2>1. \A k \in Senders : data'[k] = data[k]
    BY <1>11, RolesApart DEF ReadFetch, CInv, TypeOK
  <2> QED
    BY <1>11, <2>1, MoveIsInner, RolesApart DEF ReadFetch
<1>12. ASSUME NEW r \in Receivers, ReadSwap(r) PROVE Box!Next
  BY <1>12, SwapTakes, RolesApart DEF Box!Next
<1>13. CASE UNCHANGED vars
  BY <1>13, InnerStep DEF vars
<1> QED
  BY <1>1, <1>2, <1>3, <1>4, <1>5, <1>6, <1>7, <1>8, <1>9, <1>10, <1>11,
     <1>12, <1>13 DEF Next, SendStep, ReceiveStep

\* The compare-and-swap ring buffer between one sending and one receiving
\* kernel thread implements a mailbox (scheddev/rbuf.c:75-113): each message
\* is delivered once, in order.
THEOREM RefinesMailbox == ASSUME OneSide PROVE Spec => MailboxSpec
<1>1. Init => Box!Init
  BY InitBox
<1>2. CInv /\ [Next]_vars => [Box!Next]_Box!vars
  BY NextBox
<1> QED
  BY <1>1, <1>2, InvariantCInv, PTL DEF Spec, MailboxSpec, Box!Spec
=============================================================================
