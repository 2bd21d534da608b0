---------------------------- MODULE ChannelProofs ---------------------------
(***************************************************************************)
(* Proofs about Channel, for any number of threads, channels and groups,   *)
(* channels of any size and any order of calls.  The types and the mailbox *)
(* need nothing of the client.  The rest needs a client that is Careful:   *)
(* the lists of the groups keep their shape, so that chan_cnt counts them  *)
(* and each scan has an end; and a channel is freed only when nobody else  *)
(* can reach it, since snd_cnt, raised by much else, stays as large as the *)
(* references to the channel but one, the receiver's own.                  *)
(***************************************************************************)
EXTENDS Channel, SequenceTheorems, FiniteSetTheorems, TLAPS

----------------------------------------------------------------------------
(* The inductive invariant.                                               *)

Receiving == {t \in Threads : op[t][1] = "rcv"}

\* What holds for any client: LWT_INFO_NRCVING is exact.
RcvExact == nrcving = Cardinality(Receiving)
AInv == TypeOK /\ RcvExact /\ IsFiniteSet(Receiving)

\* The references to a channel: the threads that may use it, those that wait
\* to send it, and the places where it is in a queue.
HeldBy(c) == {t \in Threads : c \in holds[t]}
SentBy(c) == {t \in Threads : op[t][1] = "snd" /\ op[t][3] = c}
Queued(c) == {p \in Chans \X Nat : p[2] \in DOMAIN queue[p[1]] /\ queue[p[1]][p[2]] = c}

\* Threads wait on channels that they may use, and on groups that exist.
CallsOK ==
    \A t \in Threads :
        /\ t \notin started => op[t] = <<"user">>
        /\ op[t][1] \in {"snd", "rcv"} => op[t][2] \in holds[t]
        /\ op[t][1] = "wait" => op[t][2] \in groups

\* A channel that no thread was created with has no more references than
\* snd_cnt says, and one; one that is freed has none.
Finite(c) == IsFiniteSet(HeldBy(c)) /\ IsFiniteSet(SentBy(c)) /\ IsFiniteSet(Queued(c))
Count(c) == Cardinality(HeldBy(c)) + Cardinality(SentBy(c)) + Cardinality(Queued(c))
Counted(c) ==
    /\ Finite(c)
    /\ c \in live \ lent => Count(c) <= snd_cnt[c] + 1
    /\ c \notin live => HeldBy(c) = {} /\ SentBy(c) = {} /\ Queued(c) = {}

\* A list of the channels M: one link leads to each and one back, from the
\* head g to the last, whose link is NULL and which g leads back to.
ListShape(link, back, g, M) ==
    /\ back[g] \in M \union {g} /\ link[back[g]] = NULL
    /\ \A n \in M \union {g} : IF link[n] = NULL THEN back[g] = n
                               ELSE link[n] \in M /\ back[link[n]] = n
    /\ \A c \in M : back[c] \in M \union {g} /\ link[back[c]] = c

\* What TAILQ_INSERT_TAIL and TAILQ_REMOVE make of the links.
InsertedLinks(link, back, g, c, new, newback) ==
    /\ new = [link EXCEPT ![c] = NULL, ![back[g]] = c]
    /\ newback = [back EXCEPT ![c] = back[g], ![g] = c]
RemovedLinks(link, back, g, c, new, newback) ==
    /\ new = [link EXCEPT ![back[c]] = link[c]]
    /\ newback = [back EXCEPT ![IF link[c] = NULL THEN g ELSE link[c]] = back[c]]

\* The list of a group has the channels whose cgrp it is, none of them freed.
GroupOK(g) ==
    /\ ListShape(tqe_next, tqe_prev, g, Members(g))
    /\ \A c \in Members(g) : c \in live /\ cgrp[c] = g
    /\ IsFiniteSet(Members(g)) /\ chan_cnt[g] = Cardinality(Members(g))
GroupsOK == \A g \in groups : GroupOK(g)

\* What holds for a careful client.
BInv ==
    /\ CallsOK /\ lent \subseteq live /\ GroupsOK
    /\ \A c \in Chans : Counted(c)
    /\ NoCrash
CInv == AInv /\ BInv

----------------------------------------------------------------------------
(* The data.                                                              *)

\* What a thread does is one of four things.
LEMMA OpCases ==
    ASSUME NEW o \in Ops
    PROVE  \/ o = <<"user">>
           \/ \E c \in Chans, m \in Messages : o = <<"snd", c, m>>
           \/ \E c \in Chans : o = <<"rcv", c>>
           \/ \E g \in Groups : o = <<"wait", g>>
  BY DEF Ops

LEMMA OpParts ==
    ASSUME NEW o \in Ops
    PROVE  /\ o[1] = "user" => o = <<"user">>
           /\ o[1] = "snd" => o[2] \in Chans /\ o[3] \in Messages /\ o = <<"snd", o[2], o[3]>>
           /\ o[1] = "rcv" => o[2] \in Chans /\ o = <<"rcv", o[2]>>
           /\ o[1] = "wait" => o[2] \in Groups /\ o = <<"wait", o[2]>>
  BY OpCases

LEMMA OpTypes ==
    /\ <<"user">> \in Ops
    /\ \A c \in Chans, m \in Messages : <<"snd", c, m>> \in Ops
    /\ \A c \in Chans : <<"rcv", c>> \in Ops
    /\ \A g \in Groups : <<"wait", g>> \in Ops
  BY DEF Ops

\* The threads in the loop of lwt_rcv, when thread t changes its place.
LEMMA ReceivingStep ==
    ASSUME TypeOK, NEW t \in Threads, NEW o \in Ops, op' = [op EXCEPT ![t] = o]
    PROVE  /\ op[t][1] # "rcv" /\ o[1] # "rcv" => Receiving' = Receiving
           /\ op[t][1] # "rcv" /\ o[1] = "rcv" =>
                 Receiving' = Receiving \union {t} /\ t \notin Receiving
           /\ op[t][1] = "rcv" /\ o[1] # "rcv" =>
                 Receiving' = Receiving \ {t} /\ t \in Receiving
  BY DEF Receiving, TypeOK

LEMMA PlaceParts ==
    /\ <<"user">>[1] = "user"
    /\ \A c, m : <<"snd", c, m>>[1] = "snd" /\ <<"snd", c, m>>[2] = c /\ <<"snd", c, m>>[3] = m
    /\ \A c : <<"rcv", c>>[1] = "rcv" /\ <<"rcv", c>>[2] = c
    /\ \A g : <<"wait", g>>[1] = "wait" /\ <<"wait", g>>[2] = g
  OBVIOUS

\* What is written to a queue and read from it is a message.
LEMMA QueueTypes ==
    ASSUME TypeOK, NEW c \in Chans
    PROVE  /\ \A m \in Messages : [queue EXCEPT ![c] = Append(@, m)] \in [Chans -> Seq(Messages)]
           /\ Pending(c) => /\ Head(queue[c]) \in Messages
                            /\ [queue EXCEPT ![c] = Tail(@)] \in [Chans -> Seq(Messages)]
<1>1. queue \in [Chans -> Seq(Messages)] /\ queue[c] \in Seq(Messages)
  BY DEF TypeOK
<1>2. \A m \in Messages : Append(queue[c], m) \in Seq(Messages)
  BY <1>1, AppendProperties
<1>3. Pending(c) => Head(queue[c]) \in Messages /\ Tail(queue[c]) \in Seq(Messages)
  BY <1>1, HeadTailProperties DEF Pending
<1> QED
  BY <1>1, <1>2, <1>3

----------------------------------------------------------------------------
(* The lists of channels.                                                 *)

\* What a walk meets is the least set it stays in.
LEMMA PathLeast ==
    ASSUME NEW link \in [Nodes -> Chans \union {NULL}], NEW g \in Groups, NEW P
    PROVE  /\ Path(link, g, P) \subseteq Chans
           /\ Closed(link, g, P, Path(link, g, P))
           /\ \A S \in SUBSET Chans : Closed(link, g, P, S) => Path(link, g, P) \subseteq S
<1>1. link[g] \in Chans \union {NULL} /\ \A c \in Chans : link[c] \in Chans \union {NULL}
  BY DEF Nodes
<1> QED
  BY <1>1 DEF Path, Closed

\* What the walk does not come to may change.
LEMMA PathSame ==
    ASSUME NEW link \in [Nodes -> Chans \union {NULL}],
           NEW new \in [Nodes -> Chans \union {NULL}], NEW g \in Groups,
           \A n \in Path(link, g, Chans) \union {g} : new[n] = link[n]
    PROVE  Path(new, g, Chans) = Path(link, g, Chans)
<1> DEFINE M == Path(link, g, Chans)
           N == Path(new, g, Chans)
<1>1. /\ M \subseteq Chans /\ Closed(link, g, Chans, M)
      /\ \A S \in SUBSET Chans : Closed(link, g, Chans, S) => M \subseteq S
  BY PathLeast
<1>2. /\ N \subseteq Chans /\ Closed(new, g, Chans, N)
      /\ \A S \in SUBSET Chans : Closed(new, g, Chans, S) => N \subseteq S
  BY PathLeast
<1>3. \A n \in M \union {g} : new[n] = link[n]
  OBVIOUS
<1> HIDE DEF M, N
<1>4. Closed(new, g, Chans, M)
  BY <1>1, <1>3 DEF Closed
<1>5. Closed(link, g, Chans, N \intersect M)
  BY <1>1, <1>2, <1>3 DEF Closed
<1> QED
  BY <1>1, <1>2, <1>4, <1>5 DEF M, N

LEMMA ShapeSame ==
    ASSUME NEW link, NEW back, NEW new, NEW newback, NEW g, NEW M, ListShape(link, back, g, M),
           \A n \in M \union {g} : new[n] = link[n] /\ newback[n] = back[n]
    PROVE  ListShape(new, newback, g, M)
  BY DEF ListShape

\* No channel of a list is its own neighbour.
LEMMA NoSelf ==
    ASSUME NEW link \in [Nodes -> Chans \union {NULL}], NEW back, NEW g \in Groups,
           NEW c \in Path(link, g, Chans), ListShape(link, back, g, Path(link, g, Chans))
    PROVE  link[c] # c /\ back[c] # c
<1> DEFINE M == Path(link, g, Chans)
<1>1. /\ M \subseteq Chans /\ Closed(link, g, Chans, M)
      /\ \A S \in SUBSET Chans : Closed(link, g, Chans, S) => M \subseteq S
  BY PathLeast
<1>2. c \in M /\ g # c /\ c # NULL
  BY <1>1, ChannelAssumption
<1> HIDE DEF M
<1>3. ListShape(link, back, g, M)
  BY DEF M
<1>4. link[c] = c <=> back[c] = c
  BY <1>2, <1>3 DEF ListShape
<1>5. ASSUME back[c] = c PROVE FALSE
  <2>1. Closed(link, g, Chans, M \ {c})
    BY <1>1, <1>2, <1>3, <1>5 DEF Closed, ListShape
  <2> QED
    BY <1>1, <1>2, <2>1
<1> QED
  BY <1>4, <1>5

\* TAILQ_INSERT_TAIL adds the channel to the list.
LEMMA InsertList ==
    ASSUME NEW link \in [Nodes -> Chans \union {NULL}], NEW back \in [Nodes -> Nodes],
           NEW g \in Groups, NEW c \in Chans, c \notin Path(link, g, Chans),
           ListShape(link, back, g, Path(link, g, Chans)),
           NEW new, NEW newback, InsertedLinks(link, back, g, c, new, newback)
    PROVE  /\ Path(new, g, Chans) = Path(link, g, Chans) \union {c}
           /\ ListShape(new, newback, g, Path(link, g, Chans) \union {c})
<1> DEFINE M == Path(link, g, Chans)
           N == Path(new, g, Chans)
           l == back[g]
<1>1. /\ M \subseteq Chans /\ Closed(link, g, Chans, M)
      /\ \A S \in SUBSET Chans : Closed(link, g, Chans, S) => M \subseteq S
  BY PathLeast
<1>2. ListShape(link, back, g, M) /\ c \notin M
  OBVIOUS
<1>3. g \notin Chans /\ NULL \notin Chans /\ g # NULL /\ g # c
  BY ChannelAssumption
<1>4. l \in M \union {g} /\ link[l] = NULL /\ l # c /\ l \in Nodes
  BY <1>2, <1>3 DEF ListShape, Nodes
<1>5. /\ new \in [Nodes -> Chans \union {NULL}] /\ new[c] = NULL /\ new[l] = c
      /\ \A n \in Nodes : n # c /\ n # l => new[n] = link[n]
  BY <1>4 DEF Nodes, InsertedLinks
<1>6. /\ newback[g] = c /\ newback[c] = l
      /\ \A n \in Nodes : n # c /\ n # g => newback[n] = back[n]
  BY <1>3 DEF Nodes, InsertedLinks
<1>7. /\ N \subseteq Chans /\ Closed(new, g, Chans, N)
      /\ \A S \in SUBSET Chans : Closed(new, g, Chans, S) => N \subseteq S
  BY <1>5, PathLeast
<1> HIDE DEF M, N, l
<1>8. M \union {g} \subseteq Nodes
  BY <1>1 DEF Nodes
<1>9. Closed(new, g, Chans, M \union {c})
  BY <1>1, <1>4, <1>5, <1>8 DEF Closed
<1>10. Closed(link, g, Chans, N \intersect M)
  <2>1. \A n \in M \union {g} : n # l => new[n] = link[n]
    BY <1>2, <1>3, <1>5, <1>8
  <2> QED
    BY <1>1, <1>4, <1>7, <2>1 DEF Closed
<1>11. M \subseteq N
  BY <1>1, <1>10
<1>12. c \in N
  BY <1>3, <1>4, <1>5, <1>7, <1>11 DEF Closed
<1>13. N = M \union {c}
  <2>1. M \union {c} \in SUBSET Chans
    BY <1>1
  <2> QED
    BY <1>7, <1>9, <1>11, <1>12, <2>1
<1>14. ListShape(new, newback, g, M \union {c})
  <2>1. newback[g] \in (M \union {c}) \union {g} /\ new[newback[g]] = NULL
    BY <1>5, <1>6
  <2>2. ASSUME NEW n \in (M \union {c}) \union {g}
        PROVE  IF new[n] = NULL THEN newback[g] = n
               ELSE new[n] \in M \union {c} /\ newback[new[n]] = n
    <3>1. CASE n = c
      BY <1>5, <1>6, <3>1
    <3>2. CASE n = l
      <4>1. new[n] = c /\ newback[c] = n /\ c # NULL
        BY <1>3, <1>5, <1>6, <3>2
      <4> QED
        BY <4>1
    <3>3. CASE n # c /\ n # l
      <4>1. n \in M \union {g} /\ new[n] = link[n] /\ link[n] # NULL
        BY <1>2, <1>5, <1>8, <3>3 DEF ListShape, l
      <4>2. link[n] \in M /\ back[link[n]] = n
        BY <1>2, <4>1 DEF ListShape
      <4>3. link[n] # c /\ link[n] # g /\ link[n] \in Nodes
        BY <1>1, <1>2, <1>3, <1>8, <4>2
      <4> QED
        BY <1>6, <4>1, <4>2, <4>3
    <3> QED
      BY <3>1, <3>2, <3>3
  <2>3. ASSUME NEW d \in M \union {c}
        PROVE  newback[d] \in (M \union {c}) \union {g} /\ new[newback[d]] = d
    <3>1. CASE d = c
      BY <1>4, <1>5, <1>6, <3>1
    <3>2. CASE d # c
      <4>1. d \in M /\ back[d] \in M \union {g} /\ link[back[d]] = d
        BY <1>2, <3>2 DEF ListShape
      <4>2. d # g /\ d # NULL /\ d \in Nodes /\ back[d] # c
        BY <1>1, <1>2, <1>3, <1>8, <4>1
      <4>3. newback[d] = back[d] /\ back[d] # l
        BY <1>4, <1>6, <3>2, <4>1, <4>2
      <4> QED
        BY <1>5, <1>8, <4>1, <4>2, <4>3
    <3> QED
      BY <3>1, <3>2
  <2> QED
    BY ONLY <2>1, <2>2, <2>3 DEF ListShape
<1> QED
  BY ONLY <1>13, <1>14 DEF M, N

\* TAILQ_REMOVE takes the channel out of the list.
LEMMA RemoveList ==
    ASSUME NEW link \in [Nodes -> Chans \union {NULL}], NEW back \in [Nodes -> Nodes],
           NEW g \in Groups, NEW c \in Path(link, g, Chans),
           ListShape(link, back, g, Path(link, g, Chans)),
           NEW new, NEW newback, RemovedLinks(link, back, g, c, new, newback)
    PROVE  /\ Path(new, g, Chans) = Path(link, g, Chans) \ {c}
           /\ ListShape(new, newback, g, Path(link, g, Chans) \ {c})
<1> DEFINE M == Path(link, g, Chans)
           N == Path(new, g, Chans)
           p == back[c]
           q == IF link[c] = NULL THEN g ELSE link[c]
<1>1. /\ M \subseteq Chans /\ Closed(link, g, Chans, M)
      /\ \A S \in SUBSET Chans : Closed(link, g, Chans, S) => M \subseteq S
  BY PathLeast
<1>2. ListShape(link, back, g, M) /\ c \in M
  OBVIOUS
<1>3. g \notin Chans /\ NULL \notin Chans /\ g # NULL /\ g \notin M /\ NULL \notin M
  BY <1>1, ChannelAssumption
<1>4. link[c] # c /\ p # c
  BY NoSelf
<1>5. p \in M \union {g} /\ link[p] = c /\ q \in M \union {g} /\ p \in Nodes /\ q \in Nodes
  BY <1>1, <1>2 DEF ListShape, Nodes
<1>6. link[c] \in M \union {NULL}
  BY <1>1, <1>2 DEF Closed
<1>7. /\ new \in [Nodes -> Chans \union {NULL}] /\ new[p] = link[c]
      /\ \A n \in Nodes : n # p => new[n] = link[n]
  BY <1>1, <1>5, <1>6 DEF RemovedLinks
<1>8. newback[q] = p /\ \A n \in Nodes : n # q => newback[n] = back[n]
  BY <1>5 DEF RemovedLinks
<1>9. /\ N \subseteq Chans /\ Closed(new, g, Chans, N)
      /\ \A S \in SUBSET Chans : Closed(new, g, Chans, S) => N \subseteq S
  BY <1>7, PathLeast
<1>10. q = (IF link[c] = NULL THEN g ELSE link[c]) /\ p = back[c]
  OBVIOUS
<1> HIDE DEF M, N, p, q
<1>11. M \union {g} \subseteq Nodes
  BY <1>1 DEF Nodes
<1>12. ASSUME NEW n \in M \union {g}, n # c
       PROVE  new[n] \in (M \ {c}) \union {NULL}
  <2>1. CASE n = p
    BY <1>4, <1>6, <1>7, <2>1
  <2>2. CASE n # p
    <3>1. new[n] = link[n] /\ link[n] \in M \union {NULL}
      BY <1>1, <1>7, <1>11, <2>2 DEF Closed
    <3>2. link[n] = c => n = p
      BY <1>2, <1>3, <1>10 DEF ListShape
    <3> QED
      BY <2>2, <3>1, <3>2
  <2> QED
    BY <2>1, <2>2
<1>13. Closed(new, g, Chans, M \ {c})
  BY <1>2, <1>3, <1>12 DEF Closed
<1>14. M \ {c} \subseteq N
  <2> DEFINE T == (N \intersect (M \ {c})) \union (IF p \in N \union {g} THEN {c} ELSE {})
  <2>1. T \in SUBSET Chans
    BY <1>1, <1>2
  <2>2. ASSUME NEW n \in T \union {g} PROVE link[n] \in T \union {NULL}
    <3>1. link[n] \in M \union {NULL}
      BY <1>1, <1>2, <2>2 DEF Closed
    <3>2. CASE n = p
      <4>1. p # c /\ p \in N \union {g}
        BY <1>4, <2>2, <3>2
      <4> QED
        BY <1>5, <3>2, <4>1
    <3>3. CASE n = c
      <4>1. p \in N \union {g}
        BY <1>2, <1>3, <1>4, <2>2, <3>3
      <4>2. link[c] \in N \union {NULL}
        BY <1>7, <1>9, <4>1 DEF Closed
      <4> QED
        BY <1>4, <3>1, <3>3, <4>2
    <3>4. CASE n # p /\ n # c
      <4>1. n \in N \union {g} /\ n \in Nodes
        BY <1>11, <2>2, <3>4
      <4>2. new[n] = link[n] /\ new[n] \in N \union {NULL}
        BY <1>7, <1>9, <3>4, <4>1 DEF Closed
      <4>3. n \in M \union {g} /\ link[n] # c
        BY <1>2, <1>3, <1>10, <2>2, <3>4 DEF ListShape
      <4> QED
        BY <3>1, <4>2, <4>3
    <3> QED
      BY <3>2, <3>3, <3>4
  <2>3. Closed(link, g, Chans, T)
    BY <2>2 DEF Closed
  <2>4. M \subseteq T
    BY <1>1, <2>1, <2>3
  <2> QED
    BY <2>4
<1>15. N = M \ {c}
  <2>1. M \ {c} \in SUBSET Chans
    BY <1>1
  <2> QED
    BY <1>9, <1>13, <1>14, <2>1
<1>16. ListShape(new, newback, g, M \ {c})
  <2>1. newback[g] \in (M \ {c}) \union {g} /\ new[newback[g]] = NULL
    <3>1. CASE q = g
      <4>1. link[c] = NULL
        BY <1>3, <1>6, <1>10, <3>1
      <4> QED
        BY <1>4, <1>5, <1>7, <1>8, <3>1, <4>1
    <3>2. CASE q # g
      <4>1. newback[g] = back[g] /\ back[g] \in M \union {g} /\ link[back[g]] = NULL
        BY <1>2, <1>8, <1>11, <3>2 DEF ListShape
      <4>2. back[g] # c /\ back[g] # p
        BY <1>2, <1>3, <1>5, <1>10, <3>2, <4>1
      <4> QED
        BY <1>7, <1>11, <4>1, <4>2
    <3> QED
      BY <3>1, <3>2
  <2>2. ASSUME NEW n \in (M \ {c}) \union {g}
        PROVE  IF new[n] = NULL THEN newback[g] = n
               ELSE new[n] \in M \ {c} /\ newback[new[n]] = n
    <3>0. n \in M \union {g} /\ n # c /\ n \in Nodes
      BY <1>2, <1>3, <1>11
    <3>1. CASE n = p /\ link[c] = NULL
      BY <1>7, <1>8, <1>10, <3>1
    <3>2. CASE n = p /\ link[c] # NULL
      BY <1>4, <1>6, <1>7, <1>8, <1>10, <3>2
    <3>3. CASE n # p /\ link[n] = NULL
      <4>1. new[n] = NULL /\ back[g] = n
        BY <1>2, <1>7, <3>0, <3>3 DEF ListShape
      <4>2. q # g
        BY <1>2, <1>3, <1>10, <3>0, <4>1 DEF ListShape
      <4> QED
        BY <1>8, <1>11, <4>1, <4>2
    <3>4. CASE n # p /\ link[n] # NULL
      <4>1. new[n] = link[n] /\ link[n] \in M /\ back[link[n]] = n
        BY <1>2, <1>7, <3>0, <3>4 DEF ListShape
      <4>2. link[n] # c
        BY <1>10, <3>4, <4>1
      <4>3. link[n] # q
        <5>1. link[c] # NULL => back[link[c]] = c
          BY <1>2 DEF ListShape
        <5> QED
          BY <1>3, <1>10, <3>0, <4>1, <5>1
      <4> QED
        BY <1>8, <1>11, <3>4, <4>1, <4>2, <4>3
    <3> QED
      BY <3>1, <3>2, <3>3, <3>4
  <2>3. ASSUME NEW d \in M \ {c}
        PROVE  newback[d] \in (M \ {c}) \union {g} /\ new[newback[d]] = d
    <3>1. CASE d = q
      <4>1. link[c] = d
        BY <1>3, <1>10, <3>1
      <4> QED
        BY <1>4, <1>5, <1>7, <1>8, <3>1, <4>1
    <3>2. CASE d # q
      <4>1. newback[d] = back[d] /\ back[d] \in M \union {g} /\ link[back[d]] = d
        BY <1>2, <1>8, <1>11, <3>2 DEF ListShape
      <4>2. back[d] # c /\ back[d] # p
        BY <1>3, <1>5, <1>10, <3>2, <4>1
      <4> QED
        BY <1>7, <1>11, <4>1, <4>2
    <3> QED
      BY <3>1, <3>2
  <2> QED
    BY ONLY <2>1, <2>2, <2>3 DEF ListShape
<1> QED
  BY ONLY <1>15, <1>16 DEF M, N

\* TAILQ_INIT leaves an empty list.
LEMMA EmptyList ==
    ASSUME NEW link \in [Nodes -> Chans \union {NULL}], NEW back, NEW g \in Groups,
           link[g] = NULL, back[g] = g
    PROVE  Path(link, g, Chans) = {} /\ ListShape(link, back, g, {})
<1>1. Closed(link, g, Chans, {})
  BY DEF Closed
<1> QED
  BY <1>1, PathLeast DEF ListShape

\* The loop of lwt_cgrp_wait over a list that is whole comes to its end, or
\* to a message.
LEMMA ScanEnds ==
    ASSUME TypeOK, NEW g \in Groups, GroupOK(g)
    PROVE  ~Lost(g)
<1> SUFFICES ASSUME ~Found(g) PROVE Passed(g)
  BY DEF Lost
<1> DEFINE P == {c \in live : ~Pending(c)}
           W == Path(tqe_next, g, P)
           M == Path(tqe_next, g, Chans)
<1>1. tqe_next \in [Nodes -> Chans \union {NULL}]
  BY DEF TypeOK
<1>2. /\ W \subseteq Chans /\ Closed(tqe_next, g, P, W)
      /\ \A S \in SUBSET Chans : Closed(tqe_next, g, P, S) => W \subseteq S
  BY <1>1, PathLeast
<1>3. /\ M \subseteq Chans /\ Closed(tqe_next, g, Chans, M)
      /\ \A S \in SUBSET Chans : Closed(tqe_next, g, Chans, S) => M \subseteq S
  BY <1>1, PathLeast
<1>4. Met(g) = W /\ Members(g) = M /\ P \subseteq Chans
  BY DEF Met, Members, TypeOK
<1>5. \A c \in M : c \in live
  BY <1>4 DEF GroupOK
<1> HIDE DEF W, M
<1>6. W \subseteq M
  <2>1. Closed(tqe_next, g, P, M)
    BY <1>3, <1>4 DEF Closed
  <2> QED
    BY <1>2, <1>3, <2>1
<1>7. \A c \in W : c \in live /\ ~Pending(c)
  BY <1>4, <1>5, <1>6 DEF Found
<1>8. M \subseteq W
  <2>1. W \subseteq P
    BY <1>7
  <2>2. Closed(tqe_next, g, Chans, W)
    BY <1>2, <2>1 DEF Closed
  <2> QED
    BY <1>2, <1>3, <2>2
<1>9. tqe_prev[g] \in M \union {g} /\ tqe_next[tqe_prev[g]] = NULL
  BY <1>4 DEF GroupOK, ListShape
<1> QED
  BY <1>4, <1>7, <1>8, <1>9 DEF Passed

----------------------------------------------------------------------------
(* For any client: types and counters.                                    *)

LEMMA AInit == Init => AInv
<1> SUFFICES ASSUME Init PROVE AInv
  OBVIOUS
<1>1. <<>> \in Seq(Messages)
  BY EmptySeq
<1>2. TypeOK
  <2>1. op \in [Threads -> Ops] /\ got \in [Threads -> Messages \union {NULL}]
        /\ holds \in [Threads -> SUBSET Chans]
    BY OpTypes DEF Init
  <2>2. /\ queue \in [Chans -> Seq(Messages)]
        /\ tqe_next \in [Nodes -> Chans \union {NULL}] /\ tqe_prev \in [Nodes -> Nodes]
    BY <1>1 DEF Init
  <2>3. /\ snd_cnt \in [Chans -> Int] /\ rcv_thd \in [Chans -> Threads \union {NULL}]
        /\ cgrp \in [Chans -> Groups \union {NULL}] /\ chan_cnt \in [Groups -> Int]
    BY DEF Init
  <2>4. /\ live \subseteq Chans /\ groups \subseteq Groups /\ nchan \in Nat
        /\ nrcving \in Nat /\ crashed \in BOOLEAN /\ started \subseteq Threads
        /\ lent \subseteq Chans
    BY ChannelAssumption DEF Init
  <2> QED
    BY ONLY <2>1, <2>2, <2>3, <2>4 DEF TypeOK
<1>3. Receiving = {}
  BY PlaceParts DEF Init, Receiving
<1>4. RcvExact /\ IsFiniteSet(Receiving)
  BY <1>3, FS_EmptySet DEF Init, RcvExact
<1> QED
  BY <1>2, <1>4 DEF AInv

LEMMA AStutter == AInv /\ UNCHANGED vars => AInv'
  BY DEF AInv, TypeOK, RcvExact, Receiving, vars, chanVars, groupVars, linkVars, callVars,
         userVars

\* Making, passing and giving up channels.
LEMMA AChannels ==
    ASSUME AInv, NEW t \in Threads, NEW c \in Chans,
           NewChan(t, c) \/ Deref(t, c) \/ \E u \in Threads : Lend(t, u, c)
    PROVE  AInv'
<1> USE DEF AInv, groupVars, linkVars, callVars
<1>1. op' = op /\ nrcving' = nrcving /\ UNCHANGED groupVars
  BY DEF NewChan, Deref, Lend, chanVars
<1>2. RcvExact' /\ IsFiniteSet(Receiving')
  BY <1>1 DEF RcvExact, Receiving
<1>3. CASE NewChan(t, c)
  <2>1. <<>> \in Seq(Messages)
    BY EmptySeq
  <2>2. TypeOK'
    BY <1>3, <2>1 DEF NewChan, TypeOK
  <2> QED
    BY <1>2, <2>2
<1>4. CASE Deref(t, c)
  <2>1. TypeOK'
    <3>1. holds' \in [Threads -> SUBSET Chans] /\ live' \subseteq Chans
      BY <1>4 DEF Deref, TypeOK
    <3>2. snd_cnt' \in [Chans -> Int]
      BY <1>4 DEF Deref, TypeOK
    <3>3. rcv_thd' \in [Chans -> Threads \union {NULL}]
      BY <1>4 DEF Deref, TypeOK
    <3>4. UNCHANGED <<queue, cgrp, nchan, groups, chan_cnt, tqe_next, tqe_prev,
                      nrcving, op, got, started, lent, crashed>>
      BY <1>4 DEF Deref
    <3> QED
      BY <3>1, <3>2, <3>3, <3>4 DEF TypeOK
  <2> QED
    BY <1>2, <2>1
<1>5. ASSUME NEW u \in Threads, Lend(t, u, c) PROVE AInv'
  <2>1. TypeOK'
    BY <1>5 DEF Lend, chanVars, TypeOK
  <2> QED
    BY <1>2, <2>1
<1> QED
  BY <1>3, <1>4, <1>5

\* The start of lwt_snd keeps the types, whatever it counted before.
LEMMA StartSndTypes ==
    ASSUME AInv, NEW t \in Threads, NEW c \in Chans, NEW m \in Messages,
           NEW cnt \in [Chans -> Int], StartSnd(t, c, m, cnt), op[t] = <<"user">>
    PROVE  /\ queue' \in [Chans -> Seq(Messages)] /\ snd_cnt' \in [Chans -> Int]
           /\ op' \in [Threads -> Ops] /\ Receiving' = Receiving
<1> USE DEF AInv
<1>1. TypeOK
  OBVIOUS
<1>2. CASE rcv_thd[c] = NULL
  BY <1>2 DEF StartSnd, TypeOK, Receiving
<1>3. CASE rcv_thd[c] # NULL /\ IsFull(c)
  <2>1. op' = [op EXCEPT ![t] = <<"snd", c, m>>] /\ snd_cnt' = cnt /\ queue' = queue
    BY <1>3 DEF StartSnd
  <2>2. Receiving' = Receiving
    BY <1>1, <2>1, OpTypes, PlaceParts, ReceivingStep
  <2> QED
    BY <2>1, <2>2, OpTypes DEF TypeOK
<1>4. CASE rcv_thd[c] # NULL /\ ~IsFull(c)
  <2>1. Write(t, c, m, cnt)
    BY <1>4 DEF StartSnd
  <2>2. Receiving' = Receiving
    BY <1>1, <2>1, OpTypes, PlaceParts, ReceivingStep DEF Write
  <2>3. queue' \in [Chans -> Seq(Messages)]
    BY <1>1, <2>1, QueueTypes DEF Write
  <2> QED
    BY <2>1, <2>2, <2>3, OpTypes DEF Write, TypeOK
<1> QED
  BY <1>2, <1>3, <1>4

LEMMA ASnd ==
    ASSUME AInv, NEW t \in Threads,
           \/ \E c \in Chans : \/ \E m \in Data : Snd(t, c, m)
                               \/ \E d \in Chans : SndChan(t, c, d)
           \/ SndResume(t)
    PROVE  AInv'
<1> USE DEF AInv
<1>1. /\ nrcving' = nrcving /\ UNCHANGED <<live, rcv_thd, cgrp, nchan, got>>
      /\ UNCHANGED <<groups, chan_cnt, tqe_next, tqe_prev, started, holds, lent>>
  BY DEF Snd, SndChan, SndResume, SndLeaves, groupVars, linkVars, userVars
<1>2. ASSUME /\ queue' \in [Chans -> Seq(Messages)] /\ snd_cnt' \in [Chans -> Int]
             /\ op' \in [Threads -> Ops] /\ Receiving' = Receiving
             /\ crashed' \in BOOLEAN
      PROVE  AInv'
  <2>1. TypeOK'
    BY <1>1, <1>2 DEF TypeOK
  <2>2. RcvExact' /\ IsFiniteSet(Receiving)'
    BY <1>1, <1>2 DEF RcvExact, Receiving
  <2> QED
    BY <2>1, <2>2
<1>3. ASSUME NEW c \in Chans, NEW m \in Data, Snd(t, c, m) PROVE AInv'
  <2>1. /\ StartSnd(t, c, m, snd_cnt) /\ op[t] = <<"user">> /\ m \in Messages
        /\ crashed' = crashed
    BY <1>3 DEF Snd, Holds, Free, Messages
  <2> QED
    BY <1>2, <2>1, StartSndTypes DEF TypeOK
<1>4. ASSUME NEW c \in Chans, NEW d \in Chans, SndChan(t, c, d) PROVE AInv'
  <2>1. /\ StartSnd(t, c, d, [snd_cnt EXCEPT ![d] = @ + 1])
        /\ op[t] = <<"user">> /\ d \in Messages /\ crashed' = crashed
    BY <1>4 DEF SndChan, Holds, Free, Messages
  <2>2. [snd_cnt EXCEPT ![d] = @ + 1] \in [Chans -> Int]
    BY DEF TypeOK
  <2> QED
    BY <1>2, <2>1, <2>2, StartSndTypes DEF TypeOK
<1>5. CASE SndResume(t)
  <2>1. op[t] \in Ops /\ op[t][1] = "snd"
    BY <1>5 DEF SndResume, TypeOK
  <2>2. op[t][2] \in Chans /\ op[t][3] \in Messages
    BY <2>1, OpParts
  <2>3. CASE op[t][2] \notin live
    BY <1>2, <1>5, <2>3 DEF SndResume, TypeOK, Receiving
  <2>4. CASE op[t][2] \in live
    <3>1. Write(t, op[t][2], op[t][3], snd_cnt) /\ crashed' = crashed
      BY <1>5, <2>4 DEF SndResume
    <3>2. Receiving' = Receiving
      BY <2>1, <3>1, OpTypes, PlaceParts, ReceivingStep DEF Write
    <3>3. queue' \in [Chans -> Seq(Messages)]
      BY <2>2, <3>1, QueueTypes DEF Write
    <3> QED
      BY <1>2, <2>2, <3>1, <3>2, <3>3, OpTypes DEF Write, TypeOK
  <2> QED
    BY <2>3, <2>4
<1> QED
  BY <1>3, <1>4, <1>5

LEMMA ARcv ==
    ASSUME AInv, NEW t \in Threads, RcvResume(t) \/ \E c \in Chans : Rcv(t, c)
    PROVE  AInv'
<1> USE DEF AInv
<1>1. /\ UNCHANGED <<live, snd_cnt, rcv_thd, cgrp, nchan, crashed>>
      /\ UNCHANGED <<groups, chan_cnt, tqe_next, tqe_prev, started, lent>>
  BY DEF Rcv, RcvResume, RcvLeaves, groupVars, linkVars
<1>2. nrcving = Cardinality(Receiving) /\ nrcving \in Nat
  BY DEF RcvExact, TypeOK
<1>3. ASSUME NEW c \in Chans, Pending(c), Read(t, c)
      PROVE  /\ queue' \in [Chans -> Seq(Messages)]
             /\ got' \in [Threads -> Messages \union {NULL}]
             /\ holds' \in [Threads -> SUBSET Chans] /\ op' \in [Threads -> Ops]
  <2>1. Head(queue[c]) \in Messages
        /\ [queue EXCEPT ![c] = Tail(@)] \in [Chans -> Seq(Messages)]
    BY <1>3, QueueTypes
  <2> QED
    BY <1>3, <2>1, OpTypes DEF Read, TypeOK
<1>4. ASSUME /\ queue' \in [Chans -> Seq(Messages)]
             /\ got' \in [Threads -> Messages \union {NULL}]
             /\ holds' \in [Threads -> SUBSET Chans] /\ op' \in [Threads -> Ops]
             /\ nrcving' = Cardinality(Receiving') /\ IsFiniteSet(Receiving')
      PROVE  AInv'
  <2>1. nrcving' \in Nat
    BY <1>4, FS_CardinalityType
  <2>2. TypeOK'
    BY <1>1, <1>4, <2>1 DEF TypeOK
  <2>3. RcvExact'
    BY <1>4 DEF RcvExact
  <2> QED
    BY <1>4, <2>2, <2>3
<1>5. ASSUME NEW c \in Chans, Rcv(t, c) PROVE AInv'
  <2>1. op[t] = <<"user">> /\ op[t][1] # "rcv"
    BY <1>5, PlaceParts DEF Rcv, Holds, Free
  <2>2. CASE Pending(c)
    <3>1. Read(t, c) /\ nrcving' = nrcving
      BY <1>5, <2>2 DEF Rcv
    <3>2. Receiving' = Receiving
      BY <2>1, <3>1, OpTypes, PlaceParts, ReceivingStep DEF Read
    <3> QED
      BY <1>2, <1>3, <1>4, <2>2, <3>1, <3>2
  <2>3. CASE ~Pending(c)
    <3>1. /\ op' = [op EXCEPT ![t] = <<"rcv", c>>] /\ nrcving' = nrcving + 1
          /\ UNCHANGED <<queue, got, holds>>
      BY <1>5, <2>3 DEF Rcv
    <3>2. Receiving' = Receiving \union {t} /\ t \notin Receiving
      BY <2>1, <3>1, OpTypes, PlaceParts, ReceivingStep
    <3>3. IsFiniteSet(Receiving') /\ Cardinality(Receiving') = nrcving + 1
      BY <1>2, <3>2, FS_AddElement
    <3>4. op' \in [Threads -> Ops]
      BY <3>1, OpTypes DEF TypeOK
    <3> QED
      BY <1>4, <3>1, <3>3, <3>4 DEF TypeOK
  <2> QED
    BY <2>2, <2>3
<1>6. CASE RcvResume(t)
  <2>1. op[t] \in Ops /\ op[t][1] = "rcv"
    BY <1>6 DEF RcvResume, TypeOK
  <2>2. op[t][2] \in Chans
    BY <2>1, OpParts
  <2>3. Read(t, op[t][2]) /\ Pending(op[t][2]) /\ nrcving' = nrcving - 1
    BY <1>6 DEF RcvResume
  <2>4. Receiving' = Receiving \ {t} /\ t \in Receiving
    BY <2>1, <2>3, OpTypes, PlaceParts, ReceivingStep DEF Read
  <2>5. IsFiniteSet(Receiving') /\ Cardinality(Receiving') = nrcving - 1
    BY <1>2, <2>4, FS_RemoveElement
  <2> QED
    BY <1>3, <1>4, <2>2, <2>3, <2>5
<1> QED
  BY <1>5, <1>6

LEMMA AGroups ==
    ASSUME AInv, NEW t \in Threads,
           \/ WaitResume(t)
           \/ \E g \in Groups : \/ NewGroup(t, g) \/ FreeGroup(t, g) \/ Wait(t, g)
                                \/ \E c \in Chans : Add(t, g, c) \/ Rem(t, g, c)
    PROVE  AInv'
<1> USE DEF AInv, chanVars, callVars, userVars
<1>1. /\ UNCHANGED <<live, queue, snd_cnt, rcv_thd, nchan, nrcving, got, started, holds, lent>>
  BY DEF WaitResume, NewGroup, FreeGroup, Wait, Add, Rem, groupVars
<1>2. ASSUME op' = op, groups' \subseteq Groups, chan_cnt' \in [Groups -> Int],
             tqe_next' \in [Nodes -> Chans \union {NULL}], tqe_prev' \in [Nodes -> Nodes],
             cgrp' \in [Chans -> Groups \union {NULL}], crashed' \in BOOLEAN
      PROVE  AInv'
  <2>1. TypeOK'
    BY <1>1, <1>2 DEF TypeOK
  <2>2. RcvExact' /\ IsFiniteSet(Receiving')
    BY <1>1, <1>2 DEF RcvExact, Receiving
  <2> QED
    BY <2>1, <2>2
<1>3. ASSUME NEW g \in Groups, NewGroup(t, g) PROVE AInv'
  <2>1. /\ tqe_next' \in [Nodes -> Chans \union {NULL}] /\ tqe_prev' \in [Nodes -> Nodes]
        /\ chan_cnt' \in [Groups -> Int] /\ groups' \subseteq Groups
    BY <1>3 DEF NewGroup, Initialized, TypeOK, Nodes
  <2>2. op' = op /\ cgrp' = cgrp /\ crashed' = crashed
    BY <1>3 DEF NewGroup
  <2> QED
    BY <1>2, <2>1, <2>2 DEF TypeOK
<1>4. ASSUME NEW g \in Groups, FreeGroup(t, g) PROVE AInv'
  <2>1. groups' \subseteq Groups
    BY <1>4 DEF FreeGroup, TypeOK
  <2>2. UNCHANGED <<op, cgrp, crashed, chan_cnt, tqe_next, tqe_prev>>
    BY <1>4 DEF FreeGroup, linkVars
  <2> QED
    BY <1>2, <2>1, <2>2 DEF TypeOK
<1>5. ASSUME NEW g \in Groups, NEW c \in Chans, Add(t, g, c) PROVE AInv'
  <2>1. tqe_next' \in [Nodes -> Chans \union {NULL}] /\ tqe_prev' \in [Nodes -> Nodes]
    BY <1>5 DEF Add, Inserted, TypeOK, Nodes
  <2>2. chan_cnt' \in [Groups -> Int] /\ cgrp' \in [Chans -> Groups \union {NULL}]
    BY <1>5 DEF Add, TypeOK
  <2>3. op' = op /\ groups' = groups /\ crashed' = crashed
    BY <1>5 DEF Add
  <2> QED
    BY <1>2, <2>1, <2>2, <2>3 DEF TypeOK
<1>6. ASSUME NEW g \in Groups, NEW c \in Chans, Rem(t, g, c) PROVE AInv'
  <2>1. op' = op /\ groups' = groups /\ cgrp' = cgrp
    BY <1>6 DEF Rem
  <2>2. CASE c \notin live
    <3>1. UNCHANGED <<chan_cnt, tqe_next, tqe_prev>> /\ crashed' \in BOOLEAN
      BY <1>6, <2>2 DEF Rem, linkVars
    <3> QED
      BY <1>2, <2>1, <3>1 DEF TypeOK
  <2>3. CASE c \in live
    <3>1. Removed(g, c) /\ chan_cnt' = [chan_cnt EXCEPT ![g] = @ - 1] /\ crashed' = crashed
      BY <1>6, <2>3 DEF Rem
    <3>2. tqe_next' \in [Nodes -> Chans \union {NULL}] /\ tqe_prev' \in [Nodes -> Nodes]
      BY <3>1 DEF Removed, TypeOK, Nodes
    <3>3. chan_cnt' \in [Groups -> Int]
      BY <3>1 DEF TypeOK
    <3> QED
      BY <1>2, <2>1, <3>1, <3>2, <3>3 DEF TypeOK
  <2> QED
    BY <2>2, <2>3
<1>7. ASSUME NEW o \in Ops, op' = [op EXCEPT ![t] = o], o[1] # "rcv", op[t][1] # "rcv",
             UNCHANGED <<groups, chan_cnt, tqe_next, tqe_prev, cgrp>>, crashed' \in BOOLEAN
      PROVE  AInv'
  <2>1. TypeOK'
    BY <1>1, <1>7 DEF TypeOK
  <2>2. Receiving' = Receiving
    BY <1>7, ReceivingStep
  <2>3. RcvExact' /\ IsFiniteSet(Receiving')
    BY <1>1, <2>2 DEF RcvExact
  <2> QED
    BY <2>1, <2>3
<1>8. op \in [Threads -> Ops] /\ op[t] \in Ops /\ op = [op EXCEPT ![t] = op[t]]
  BY DEF TypeOK
<1>9. ASSUME NEW g \in Groups, Wait(t, g) PROVE AInv'
  <2>1. op[t] = <<"user">>
    BY <1>9 DEF Wait, Free
  <2>2. op' = [op EXCEPT ![t] = <<"wait", g>>] \/ op' = op
    BY <1>9 DEF Wait
  <2>3. UNCHANGED <<groups, chan_cnt, tqe_next, tqe_prev, cgrp>> /\ crashed' \in BOOLEAN
    BY <1>9 DEF Wait, groupVars, linkVars, TypeOK
  <2> QED
    BY <1>7, <1>8, <2>1, <2>2, <2>3, PlaceParts, OpTypes
<1>10. CASE WaitResume(t)
  <2>1. UNCHANGED <<groups, chan_cnt, tqe_next, tqe_prev, cgrp>> /\ op[t][1] = "wait"
    BY <1>10 DEF WaitResume, groupVars, linkVars
  <2>2. op' = [op EXCEPT ![t] = <<"user">>] \/ op' = op
    BY <1>10 DEF WaitResume
  <2>3. crashed' \in BOOLEAN
    BY <1>10 DEF WaitResume, TypeOK
  <2> QED
    BY <1>7, <1>8, <2>1, <2>2, <2>3, PlaceParts, OpTypes
<1> QED
  BY <1>3, <1>4, <1>5, <1>6, <1>9, <1>10

LEMMA AInvariance == Spec => []AInv
<1>1. AInv /\ [Next]_vars => AInv'
  <2> SUFFICES ASSUME AInv, [Next]_vars PROVE AInv'
    OBVIOUS
  <2>1. ASSUME NEW t \in Threads, Call(t) PROVE AInv'
    BY <2>1, AChannels, ASnd, ARcv, AGroups DEF Call
  <2>2. ASSUME NEW t \in Threads, Resume(t) PROVE AInv'
    BY <2>2, ASnd, ARcv, AGroups DEF Resume
  <2>3. CASE UNCHANGED vars
    BY <2>3, AStutter
  <2> QED
    BY <2>1, <2>2, <2>3 DEF Next
<1> QED
  BY AInit, <1>1, PTL DEF Spec

----------------------------------------------------------------------------
(* For any client: each channel is a mailbox.                             *)

\* No queue is longer than its ring buffer.
Fits == \A c \in Chans : Len(queue[c]) <= Room(c)

\* What each thread is sending, as Mailbox sees it.
Sending ==
    [t \in Threads |-> IF op[t][1] = "snd" THEN <<op[t][2], op[t][3]>> ELSE <<>>]

BoxNext == Box!Next \/ \E c \in Chans : Box!Discard(c)

LEMMA RoomType == \A c \in Chans : Room(c) \in Nat \ {0}
  BY ChannelAssumption DEF Room

LEMMA SendingStep ==
    ASSUME TypeOK, NEW t \in Threads, NEW o \in Ops, op' = [op EXCEPT ![t] = o]
    PROVE  Sending' = [Sending EXCEPT ![t] =
                          IF o[1] = "snd" THEN <<o[2], o[3]>> ELSE <<>>]
  BY DEF Sending, TypeOK

\* A step that leaves the queues, the results and the senders' places alone.
LEMMA InnerStep ==
    ASSUME queue' = queue, got' = got, Sending' = Sending
    PROVE  UNCHANGED Box!vars
  BY DEF Box!vars, Sending

\* A message enters a queue that has room.
LEMMA WriteIsPut ==
    ASSUME AInv, Fits, NEW t \in Threads, NEW c \in Chans, NEW m \in Messages,
           NEW cnt, Write(t, c, m, cnt), ~IsFull(c), got' = got,
           op[t] = <<"user">> \/ op[t] = <<"snd", c, m>>
    PROVE  BoxNext
<1>1. Len(queue[c]) < Room(c)
  <2>1. Len(queue[c]) \in Nat
    BY LenProperties DEF AInv, TypeOK
  <2> QED
    BY <2>1, RoomType DEF Fits, IsFull
<1>2. /\ Sending' = [Sending EXCEPT ![t] = <<>>]
      /\ queue' = [queue EXCEPT ![c] = Append(@, m)]
  BY OpTypes, PlaceParts, SendingStep DEF Write, AInv
<1>3. Sending \in [Threads -> {Sending[u] : u \in Threads}]
  BY DEF Sending
<1>4. CASE op[t] = <<"user">>
  <2>1. Sending[t] = <<>>
    BY <1>4, PlaceParts DEF Sending
  <2>2. Sending' = Sending
    BY <1>2, <1>3, <2>1
  <2>3. Box!OfferAndPut(t, c, m)
    BY <1>1, <1>2, <2>1, <2>2 DEF Box!OfferAndPut, Sending
  <2> QED
    BY <2>3 DEF BoxNext, Box!Next
<1>5. CASE op[t] = <<"snd", c, m>>
  <2>1. Sending[t] = <<c, m>>
    BY <1>5, PlaceParts DEF Sending
  <2>2. Sending[t] # <<>> /\ Sending[t][1] = c /\ Sending[t][2] = m
    BY <2>1
  <2>3. Box!Put(t)
    BY <1>1, <1>2, <2>2 DEF Box!Put, Sending
  <2> QED
    BY <2>3 DEF BoxNext, Box!Next
<1> QED
  BY <1>4, <1>5

\* The start of lwt_snd puts the message, or begins to, or does nothing.
LEMMA StartSndIsOffer ==
    ASSUME AInv, Fits, NEW t \in Threads, NEW c \in Chans, NEW m \in Messages,
           NEW cnt, StartSnd(t, c, m, cnt), op[t] = <<"user">>, got' = got
    PROVE  BoxNext \/ UNCHANGED Box!vars
<1>1. CASE rcv_thd[c] = NULL
  BY <1>1, InnerStep DEF StartSnd, Sending
<1>2. CASE rcv_thd[c] # NULL /\ IsFull(c)
  <2>1. op' = [op EXCEPT ![t] = <<"snd", c, m>>] /\ queue' = queue
    BY <1>2 DEF StartSnd
  <2>2. Sending' = [Sending EXCEPT ![t] = <<c, m>>]
    <3> DEFINE o == <<"snd", c, m>>
    <3>1. o \in Ops /\ TypeOK
      BY OpTypes DEF AInv
    <3>2. o[1] = "snd" /\ o[2] = c /\ o[3] = m
      OBVIOUS
    <3> HIDE DEF o
    <3>3. Sending' = [Sending EXCEPT ![t] =
                        IF o[1] = "snd" THEN <<o[2], o[3]>> ELSE <<>>]
      BY ONLY <2>1, <3>1, SendingStep, t \in Threads DEF o
    <3> QED
      BY <3>2, <3>3
  <2>3. Sending[t] = <<>>
    BY PlaceParts DEF Sending
  <2>4. Box!Offer(t, c, m)
    BY <2>1, <2>2, <2>3 DEF Box!Offer, Sending
  <2> QED
    BY <2>4 DEF BoxNext, Box!Next
<1>3. CASE rcv_thd[c] # NULL /\ ~IsFull(c)
  <2>1. Write(t, c, m, cnt)
    BY <1>3 DEF StartSnd
  <2> QED
    BY <1>3, <2>1, WriteIsPut
<1> QED
  BY <1>1, <1>2, <1>3

LEMMA SndIsMailbox ==
    ASSUME AInv, Fits, NEW t \in Threads,
           \/ \E c \in Chans : \/ \E m \in Data : Snd(t, c, m)
                               \/ \E d \in Chans : SndChan(t, c, d)
           \/ SndResume(t)
    PROVE  BoxNext \/ UNCHANGED Box!vars
<1>1. got' = got
  BY DEF Snd, SndChan, SndResume, SndLeaves
<1>2. ASSUME NEW c \in Chans, NEW m \in Data, Snd(t, c, m)
      PROVE  BoxNext \/ UNCHANGED Box!vars
  <2>1. StartSnd(t, c, m, snd_cnt) /\ op[t] = <<"user">> /\ m \in Messages
    BY <1>2 DEF Snd, Holds, Free, Messages
  <2> QED
    BY <1>1, <2>1, StartSndIsOffer
<1>3. ASSUME NEW c \in Chans, NEW d \in Chans, SndChan(t, c, d)
      PROVE  BoxNext \/ UNCHANGED Box!vars
  <2>1. /\ StartSnd(t, c, d, [snd_cnt EXCEPT ![d] = @ + 1])
        /\ op[t] = <<"user">> /\ d \in Messages
    BY <1>3 DEF SndChan, Holds, Free, Messages
  <2> QED
    BY <1>1, <2>1, StartSndIsOffer
<1>4. CASE SndResume(t)
  <2>1. op[t] \in Ops /\ op[t][1] = "snd"
    BY <1>4 DEF SndResume, AInv, TypeOK
  <2>2. op[t][2] \in Chans /\ op[t][3] \in Messages /\ op[t] = <<"snd", op[t][2], op[t][3]>>
    BY <2>1, OpParts
  <2>3. CASE op[t][2] \notin live
    <3>1. queue' = queue /\ op' = op
      BY <1>4, <2>3 DEF SndResume
    <3> QED
      BY <1>1, <3>1, InnerStep DEF Sending
  <2>4. CASE op[t][2] \in live
    <3>1. Write(t, op[t][2], op[t][3], snd_cnt) /\ ~IsFull(op[t][2])
      BY <1>4, <2>4 DEF SndResume
    <3> QED
      BY <1>1, <2>2, <3>1, WriteIsPut
  <2> QED
    BY <2>3, <2>4
<1> QED
  BY <1>2, <1>3, <1>4

LEMMA ReadIsTake ==
    ASSUME AInv, NEW t \in Threads, NEW c \in Chans, Pending(c), Read(t, c),
           op[t][1] # "snd"
    PROVE  BoxNext
<1>1. Sending' = [Sending EXCEPT ![t] = <<>>]
  BY OpTypes, PlaceParts, SendingStep DEF Read, AInv
<1>2. Sending' = Sending
  BY <1>1 DEF Sending
<1>3. Box!Take(t, c)
  BY <1>2 DEF Read, Pending, Box!Take, Sending
<1> QED
  BY <1>3 DEF BoxNext, Box!Next

LEMMA RcvIsMailbox ==
    ASSUME AInv, NEW t \in Threads, RcvResume(t) \/ \E c \in Chans : Rcv(t, c)
    PROVE  BoxNext \/ UNCHANGED Box!vars
<1>1. ASSUME NEW c \in Chans, Rcv(t, c) PROVE BoxNext \/ UNCHANGED Box!vars
  <2>1. op[t] = <<"user">> /\ op[t][1] # "snd"
    BY <1>1, PlaceParts DEF Rcv, Holds, Free
  <2>2. CASE Pending(c)
    BY <1>1, <2>1, <2>2, ReadIsTake DEF Rcv
  <2>3. CASE ~Pending(c)
    <3>1. op' = [op EXCEPT ![t] = <<"rcv", c>>] /\ queue' = queue /\ got' = got
      BY <1>1, <2>3 DEF Rcv
    <3>2. Sending' = [Sending EXCEPT ![t] = <<>>]
      BY <3>1, OpTypes, PlaceParts, SendingStep DEF AInv
    <3>3. Sending' = Sending
      BY <2>1, <3>2 DEF Sending
    <3> QED
      BY <3>1, <3>3, InnerStep
  <2> QED
    BY <2>2, <2>3
<1>2. CASE RcvResume(t)
  <2>1. op[t] \in Ops /\ op[t][1] = "rcv"
    BY <1>2 DEF RcvResume, AInv, TypeOK
  <2>2. op[t][2] \in Chans /\ op[t][1] # "snd"
    BY <2>1, OpParts
  <2> QED
    BY <1>2, <2>2, ReadIsTake DEF RcvResume
<1> QED
  BY <1>1, <1>2

\* A channel that is made begins empty; the other calls move no message.
LEMMA OthersAreMailbox ==
    ASSUME AInv, NEW t \in Threads,
           \/ \E c \in Chans : \/ NewChan(t, c) \/ Deref(t, c)
                               \/ \E u \in Threads : Lend(t, u, c)
           \/ \E g \in Groups : \/ NewGroup(t, g) \/ FreeGroup(t, g) \/ Wait(t, g)
                                \/ \E c \in Chans : Add(t, g, c) \/ Rem(t, g, c)
           \/ WaitResume(t)
    PROVE  BoxNext \/ UNCHANGED Box!vars
<1> USE DEF chanVars, groupVars, callVars, userVars
<1>1. ASSUME NEW c \in Chans, NewChan(t, c) PROVE BoxNext
  <2>1. queue' = [queue EXCEPT ![c] = <<>>] /\ op' = op /\ got' = got
    BY <1>1 DEF NewChan
  <2>2. Box!Discard(c)
    BY <2>1 DEF Box!Discard
  <2> QED
    BY <2>2 DEF BoxNext
<1>2. ASSUME queue' = queue, op' = op, got' = got PROVE UNCHANGED Box!vars
  BY <1>2, InnerStep DEF Sending
<1>3. ASSUME NEW c \in Chans, Deref(t, c) \/ \E u \in Threads : Lend(t, u, c)
      PROVE  UNCHANGED Box!vars
  BY <1>2, <1>3 DEF Deref, Lend
<1>4. ASSUME NEW g \in Groups,
             NewGroup(t, g) \/ FreeGroup(t, g) \/ \E c \in Chans : Add(t, g, c) \/ Rem(t, g, c)
      PROVE  UNCHANGED Box!vars
  BY <1>2, <1>4 DEF NewGroup, FreeGroup, Add, Rem
<1>5. ASSUME NEW o \in Ops, op' = [op EXCEPT ![t] = o], o[1] # "snd", op[t][1] # "snd",
             queue' = queue, got' = got
      PROVE  UNCHANGED Box!vars
  <2>1. Sending' = [Sending EXCEPT ![t] = <<>>]
    BY <1>5, SendingStep DEF AInv
  <2>2. Sending' = Sending
    BY <1>5, <2>1 DEF Sending
  <2> QED
    BY <1>5, <2>2, InnerStep
<1>6. ASSUME NEW g \in Groups, Wait(t, g) PROVE UNCHANGED Box!vars
  <2>1. op[t] = <<"user">> /\ queue' = queue /\ got' = got
    BY <1>6 DEF Wait, Free
  <2>2. op' = [op EXCEPT ![t] = <<"wait", g>>] \/ op' = op
    BY <1>6 DEF Wait
  <2> QED
    BY <1>2, <1>5, <2>1, <2>2, PlaceParts, OpTypes
<1>7. CASE WaitResume(t)
  <2>1. op[t][1] = "wait" /\ queue' = queue /\ got' = got
    BY <1>7 DEF WaitResume
  <2>2. op' = [op EXCEPT ![t] = <<"user">>] \/ op' = op
    BY <1>7 DEF WaitResume
  <2> QED
    BY <1>2, <1>5, <2>1, <2>2, PlaceParts, OpTypes
<1> QED
  BY <1>1, <1>3, <1>4, <1>6, <1>7

\* The mailbox keeps to its capacity, and so does the channel.
LEMMA MailboxFits ==
    ASSUME AInv, Fits, BoxNext \/ UNCHANGED Box!vars
    PROVE  Fits'
<1>1. queue \in [Chans -> Seq(Messages)] /\ \A c \in Chans : Len(queue[c]) \in Nat
  BY LenProperties DEF AInv, TypeOK
<1>2. ASSUME NEW c \in Chans, NEW s, queue' = [queue EXCEPT ![c] = s], Len(s) <= Room(c)
      PROVE  Fits'
  BY <1>1, <1>2 DEF Fits
<1>3. ASSUME NEW c \in Chans, NEW m \in Messages, Len(queue[c]) < Room(c),
             queue' = [queue EXCEPT ![c] = Append(@, m)]
      PROVE  Fits'
  <2>1. Len(Append(queue[c], m)) = Len(queue[c]) + 1
    BY <1>1, AppendProperties
  <2>2. Len(Append(queue[c], m)) <= Room(c)
    BY <1>1, <1>3, <2>1, RoomType
  <2>3. queue' = [queue EXCEPT ![c] = Append(queue[c], m)]
    BY <1>3
  <2> QED
    BY ONLY <1>2, <2>2, <2>3
<1>4. ASSUME NEW t \in Threads, Box!Put(t) PROVE Fits'
  <2>1. op[t] \in Ops /\ op[t][1] = "snd"
    BY <1>4 DEF Box!Put, AInv, TypeOK
  <2>2. op[t][2] \in Chans /\ op[t][3] \in Messages
    BY <2>1, OpParts
  <2>3. /\ Len(queue[op[t][2]]) < Room(op[t][2])
        /\ queue' = [queue EXCEPT ![op[t][2]] = Append(@, op[t][3])]
    BY <1>4, <2>1, <2>2 DEF Box!Put
  <2> QED
    BY <1>3, <2>2, <2>3
<1>5. ASSUME NEW t \in Threads, NEW c \in Chans, NEW m \in Messages, Box!OfferAndPut(t, c, m)
      PROVE  Fits'
  BY <1>3, <1>5 DEF Box!OfferAndPut
<1>6. ASSUME NEW t \in Threads, NEW c \in Chans, Box!Take(t, c) PROVE Fits'
  <2>1. queue[c] # <<>> /\ queue' = [queue EXCEPT ![c] = Tail(queue[c])]
    BY <1>6 DEF Box!Take
  <2>2. Len(Tail(queue[c])) = Len(queue[c]) - 1
    BY <1>1, <2>1, HeadTailProperties
  <2>3. Len(Tail(queue[c])) <= Room(c)
    BY <1>1, <2>2, RoomType DEF Fits
  <2> QED
    BY <1>2, <2>1, <2>3
<1>7. ASSUME NEW c \in Chans, Box!Discard(c) PROVE Fits'
  <2>1. Len(<<>>) = 0 /\ 0 <= Room(c)
    BY RoomType, EmptySeq
  <2> QED
    BY <1>2, <1>7, <2>1 DEF Box!Discard
<1>8. ASSUME queue' = queue PROVE Fits'
  BY <1>8 DEF Fits
<1>9. ASSUME NEW t \in Threads, NEW c \in Chans, NEW m \in Messages, Box!Offer(t, c, m)
      PROVE  Fits'
  BY <1>8, <1>9 DEF Box!Offer
<1>10. ASSUME UNCHANGED Box!vars PROVE Fits'
  BY <1>8, <1>10 DEF Box!vars
<1> QED
  BY <1>4, <1>5, <1>6, <1>7, <1>9, <1>10 DEF BoxNext, Box!Next

LEMMA FInit == Init => Fits /\ Box!Init
<1> SUFFICES ASSUME Init PROVE Fits /\ Box!Init
  OBVIOUS
<1>1. Fits
  BY RoomType, EmptySeq DEF Init, Fits
<1>2. Sending = [t \in Threads |-> <<>>]
  BY PlaceParts DEF Init, Sending
<1>3. Box!Init
  BY <1>2 DEF Init, Box!Init, Sending
<1> QED
  BY <1>1, <1>3

LEMMA MailboxStep ==
    ASSUME AInv, Fits, [Next]_vars
    PROVE  BoxNext \/ UNCHANGED Box!vars
<1>1. ASSUME NEW t \in Threads, Call(t) PROVE BoxNext \/ UNCHANGED Box!vars
  BY <1>1, SndIsMailbox, RcvIsMailbox, OthersAreMailbox DEF Call
<1>2. ASSUME NEW t \in Threads, Resume(t) PROVE BoxNext \/ UNCHANGED Box!vars
  BY <1>2, SndIsMailbox, RcvIsMailbox, OthersAreMailbox DEF Resume
<1>3. CASE UNCHANGED vars
  BY <1>3, InnerStep DEF vars, chanVars, callVars, Sending
<1> QED
  BY <1>1, <1>2, <1>3 DEF Next

----------------------------------------------------------------------------

\* Every variable of the channels keeps its type.
THEOREM ChannelTypes == Spec => []TypeOK
<1>1. AInv => TypeOK
  BY DEF AInv
<1> QED
  BY <1>1, AInvariance, PTL

\* The channels of channel.c:63-125 implement a mailbox: each message enters
\* once, in a queue with room, and leaves once, oldest first.
THEOREM ChannelRefinesMailbox == Spec => MailboxSpec
<1>1. Init => Fits /\ Box!Init
  BY FInit
<1>2. AInv /\ Fits /\ [Next]_vars => Fits' /\ (BoxNext \/ UNCHANGED Box!vars)
  BY MailboxStep, MailboxFits
<1>3. BoxNext \/ UNCHANGED Box!vars
          => [UNCHANGED Box!vars \/ Box!Next \/ \E c \in Chans : Box!Discard(c)]_Box!vars
  BY DEF BoxNext
<1> QED
  BY <1>1, <1>2, <1>3, AInvariance, PTL DEF Spec, MailboxSpec, Box!ClosingSpec

----------------------------------------------------------------------------
(* For a careful client: references.                                      *)

LEMMA HeldStep ==
    ASSUME TypeOK, NEW t \in Threads, NEW S, holds' = [holds EXCEPT ![t] = S], NEW d \in Chans
    PROVE  HeldBy(d)' = IF d \in S THEN HeldBy(d) \union {t} ELSE HeldBy(d) \ {t}
  BY DEF HeldBy, TypeOK

LEMMA SentStep ==
    ASSUME TypeOK, NEW t \in Threads, NEW o \in Ops, op' = [op EXCEPT ![t] = o], NEW d \in Chans
    PROVE  SentBy(d)' = IF o[1] = "snd" /\ o[3] = d THEN SentBy(d) \union {t}
                                                    ELSE SentBy(d) \ {t}
  BY DEF SentBy, TypeOK

\* One place more.
LEMMA QueuedAppend ==
    ASSUME TypeOK, NEW c \in Chans, NEW m \in Messages, NEW d \in Chans,
           queue' = [queue EXCEPT ![c] = Append(@, m)]
    PROVE  \E p : /\ p \notin Queued(d)
                  /\ Queued(d)' = IF m = d THEN Queued(d) \union {p} ELSE Queued(d)
<1> DEFINE n == Len(queue[c])
           p == <<c, n + 1>>
<1>1. queue \in [Chans -> Seq(Messages)] /\ queue[c] \in Seq(Messages)
  BY DEF TypeOK
<1>2. n \in Nat /\ DOMAIN queue[c] = 1..n
  BY <1>1, LenProperties
<1>3. /\ Append(queue[c], m) \in Seq(Messages) /\ Len(Append(queue[c], m)) = n + 1
      /\ \A i \in 1..n : Append(queue[c], m)[i] = queue[c][i]
      /\ Append(queue[c], m)[n + 1] = m
  BY <1>1, AppendProperties
<1>4. DOMAIN Append(queue[c], m) = 1..(n + 1)
  BY <1>3, LenProperties
<1>5. /\ queue'[c] = Append(queue[c], m)
      /\ \A b \in Chans : b # c => queue'[b] = queue[b]
  BY <1>1
<1> HIDE DEF n
<1>6. p \in Chans \X Nat /\ p[1] = c /\ p[2] = n + 1
  BY <1>2
<1>7. p \notin Queued(d)
  BY <1>2, <1>6 DEF Queued
<1>8. ASSUME NEW q \in Chans \X Nat
      PROVE  (q[2] \in DOMAIN queue'[q[1]] /\ queue'[q[1]][q[2]] = d)
                <=> \/ q[2] \in DOMAIN queue[q[1]] /\ queue[q[1]][q[2]] = d
                    \/ m = d /\ q = p
  <2>1. CASE q[1] # c
    BY <1>5, <1>6, <2>1
  <2>2. CASE q[1] = c
    <3>1. q = p <=> q[2] = n + 1
      BY <2>2
    <3>2. q[2] \in 1..(n + 1) <=> q[2] \in 1..n \/ q[2] = n + 1
      BY <1>2
    <3>3. n + 1 \notin 1..n
      BY <1>2
    <3> QED
      BY <1>2, <1>3, <1>4, <1>5, <2>2, <3>1, <3>2, <3>3
  <2> QED
    BY <2>1, <2>2
<1>9. Queued(d)' = IF m = d THEN Queued(d) \union {p} ELSE Queued(d)
  BY <1>6, <1>8 DEF Queued
<1> QED
  BY <1>7, <1>9

\* One place less; the others move up.
LEMMA QueuedTail ==
    ASSUME TypeOK, NEW c \in Chans, Pending(c), NEW d \in Chans,
           queue' = [queue EXCEPT ![c] = Tail(@)], IsFiniteSet(Queued(d))
    PROVE  /\ IsFiniteSet(Queued(d)')
           /\ Cardinality(Queued(d)') <= Cardinality(Queued(d))
           /\ Head(queue[c]) = d => /\ Queued(d) # {}
                                    /\ Cardinality(Queued(d)') <= Cardinality(Queued(d)) - 1
<1> DEFINE s == queue[c]
           first == <<c, 1>>
           f == [p \in Queued(d)' |-> IF p[1] = c THEN <<c, p[2] + 1>> ELSE p]
           T == Queued(d) \ {first}
<1>1. queue \in [Chans -> Seq(Messages)] /\ s \in Seq(Messages) /\ s # <<>>
  BY DEF TypeOK, Pending
<1>2. Len(s) \in Nat \ {0} /\ DOMAIN s = 1..Len(s) /\ Head(s) = s[1]
  BY <1>1, LenProperties, EmptySeq
<1>3. /\ Tail(s) \in Seq(Messages) /\ Len(Tail(s)) = Len(s) - 1
      /\ \A i \in 1..Len(Tail(s)) : Tail(s)[i] = s[i + 1]
  BY <1>1, HeadTailProperties
<1>4. DOMAIN Tail(s) = 1..(Len(s) - 1)
  BY <1>3, LenProperties
<1>5. queue'[c] = Tail(s) /\ \A b \in Chans : b # c => queue'[b] = queue[b]
  BY <1>1
<1>6. ASSUME NEW p \in Queued(d)'
      PROVE  /\ p \in Chans \X Nat
             /\ p[1] = c => <<c, p[2] + 1>> \in T
             /\ p[1] # c => p \in T
  <2>1. p \in Chans \X Nat /\ p[2] \in DOMAIN queue'[p[1]] /\ queue'[p[1]][p[2]] = d
    BY DEF Queued
  <2>2. CASE p[1] # c
    BY <1>5, <2>1, <2>2 DEF Queued
  <2>3. CASE p[1] = c
    <3>0. p[2] \in DOMAIN Tail(s) /\ Tail(s)[p[2]] = d
      BY <1>5, <2>1, <2>3
    <3>1. p[2] \in 1..(Len(s) - 1) /\ s[p[2] + 1] = d
      BY <1>3, <1>4, <3>0
    <3>2. p[2] + 1 \in 1..Len(s) /\ p[2] + 1 # 1 /\ p[2] + 1 \in Nat
      BY <1>2, <3>1
    <3>3. <<c, p[2] + 1>> \in Queued(d)
      BY <1>2, <3>1, <3>2 DEF Queued
    <3> QED
      BY <2>1, <2>3, <3>2, <3>3
  <2> QED
    BY <2>2, <2>3
<1>7. f \in Injection(Queued(d)', T)
  <2> HIDE DEF T
  <2>1. f \in [Queued(d)' -> T]
    BY <1>6
  <2>2. ASSUME NEW p \in Queued(d)', NEW q \in Queued(d)', f[p] = f[q] PROVE p = q
    <3>1. p \in Chans \X Nat /\ q \in Chans \X Nat
      BY <1>6
    <3>2. CASE p[1] = c /\ q[1] = c
      <4>1. <<c, p[2] + 1>> = <<c, q[2] + 1>>
        BY <2>2, <3>2
      <4>2. p[2] + 1 = q[2] + 1 /\ p[2] \in Nat /\ q[2] \in Nat
        BY <3>1, <4>1
      <4>3. p[2] = q[2]
        BY <4>2
      <4> QED
        BY <3>1, <3>2, <4>3
    <3>3. CASE p[1] = c /\ q[1] # c
      BY <2>2, <3>3
    <3>4. CASE p[1] # c /\ q[1] = c
      BY <2>2, <3>4
    <3>5. CASE p[1] # c /\ q[1] # c
      BY <2>2, <3>5
    <3> QED
      BY <3>2, <3>3, <3>4, <3>5
  <2> HIDE DEF f
  <2> QED
    BY <2>1, <2>2 DEF Injection, IsInjective
<1> HIDE DEF f
<1>8. IsFiniteSet(T) /\ Cardinality(T) = IF first \in Queued(d) THEN Cardinality(Queued(d)) - 1
                                                               ELSE Cardinality(Queued(d))
  BY FS_RemoveElement
<1>9. IsFiniteSet(Queued(d)') /\ Cardinality(Queued(d)') <= Cardinality(T)
  BY <1>7, <1>8, FS_Injection
<1>10. Head(queue[c]) = d => first \in Queued(d)
  BY <1>2 DEF Queued
<1>11. Cardinality(Queued(d)) \in Nat /\ Cardinality(Queued(d)') \in Nat
  BY <1>9, FS_CardinalityType
<1> HIDE DEF T, first
<1> QED
  BY <1>8, <1>9, <1>10, <1>11

LEMMA QueuedEmpty ==
    ASSUME TypeOK, NEW c \in Chans, queue' = [queue EXCEPT ![c] = <<>>], NEW d \in Chans
    PROVE  Queued(d)' \subseteq Queued(d)
<1>1. queue'[c] = <<>> /\ \A b \in Chans : b # c => queue'[b] = queue[b]
  BY DEF TypeOK
<1>2. DOMAIN <<>> = {}
  BY EmptySeq
<1> QED
  BY <1>1, <1>2 DEF Queued

\* The sizes of sets of references are numbers, and what changes them.
LEMMA Sizes ==
    ASSUME NEW c \in Chans, Finite(c)
    PROVE  /\ Cardinality(HeldBy(c)) \in Nat /\ Cardinality(SentBy(c)) \in Nat
           /\ Cardinality(Queued(c)) \in Nat
  BY FS_CardinalityType DEF Finite

\* Fewer references, or as many, keep a channel's count.
LEMMA CountedLess ==
    ASSUME TypeOK, TypeOK', NEW d \in Chans, Counted(d),
           HeldBy(d)' \subseteq HeldBy(d), SentBy(d)' \subseteq SentBy(d),
           Queued(d)' \subseteq Queued(d),
           d \in live' <=> d \in live, d \in lent => d \in lent',
           snd_cnt[d] <= snd_cnt'[d]
    PROVE  Counted(d)'
<1>1. Finite(d) /\ snd_cnt[d] \in Int /\ snd_cnt'[d] \in Int
  BY DEF Counted, TypeOK
<1>2. Finite(d)' /\ Cardinality(HeldBy(d)') <= Cardinality(HeldBy(d))
                 /\ Cardinality(SentBy(d)') <= Cardinality(SentBy(d))
                 /\ Cardinality(Queued(d)') <= Cardinality(Queued(d))
  BY <1>1, FS_Subset DEF Finite
<1>3. Count(d)' <= Count(d) /\ Count(d) \in Nat /\ Count(d)' \in Nat
  <2>1. /\ Cardinality(HeldBy(d)') \in Nat /\ Cardinality(SentBy(d)') \in Nat
        /\ Cardinality(Queued(d)') \in Nat
    BY <1>2, FS_CardinalityType DEF Finite
  <2> QED
    BY <1>1, <1>2, <2>1, Sizes DEF Count
<1> QED
  BY <1>1, <1>2, <1>3 DEF Counted

\* A channel that is held, sent or queued is live.
LEMMA ReachedLive ==
    ASSUME BInv, NEW c \in Chans,
           \/ \E t \in Threads : c \in holds[t]
           \/ \E t \in Threads : op[t][1] = "snd" /\ op[t][3] = c
           \/ Queued(c) # {}
    PROVE  c \in live
  BY DEF BInv, Counted, HeldBy, SentBy

----------------------------------------------------------------------------
(* For a careful client: the groups.                                      *)

\* A group whose channels keep their links, and what the links say.
LEMMA GroupSame ==
    ASSUME TypeOK, TypeOK', NEW g \in Groups, GroupOK(g), chan_cnt'[g] = chan_cnt[g],
           \A n \in Members(g) \union {g} :
              tqe_next'[n] = tqe_next[n] /\ tqe_prev'[n] = tqe_prev[n],
           \A c \in Members(g) : c \in live' /\ cgrp'[c] = cgrp[c]
    PROVE  GroupOK(g)'
<1>1. Members(g)' = Members(g)
  <2>1. tqe_next \in [Nodes -> Chans \union {NULL}] /\ tqe_next' \in [Nodes -> Chans \union {NULL}]
    BY DEF TypeOK
  <2>2. \A n \in Path(tqe_next, g, Chans) \union {g} : tqe_next'[n] = tqe_next[n]
    BY DEF Members
  <2>3. PICK new : new = tqe_next'
    OBVIOUS
  <2>4. Path(new, g, Chans) = Path(tqe_next, g, Chans)
    BY ONLY <2>1, <2>2, <2>3, PathSame, g \in Groups
  <2> QED
    BY <2>3, <2>4 DEF Members
<1>2. ListShape(tqe_next, tqe_prev, g, Members(g))'
  <2>1. ListShape(tqe_next, tqe_prev, g, Members(g))
    BY DEF GroupOK
  <2>2. ListShape(tqe_next', tqe_prev', g, Members(g))
    BY <2>1, ShapeSame
  <2> QED
    BY <1>1, <2>2
<1> QED
  BY <1>1, <1>2 DEF GroupOK

\* The groups, when a call has nothing to do with them.
LEMMA GroupsStay ==
    ASSUME GroupsOK, UNCHANGED <<live, cgrp, groupVars>>
    PROVE  GroupsOK'
<1>1. UNCHANGED <<live, cgrp, groups, chan_cnt, tqe_next, tqe_prev>>
  BY DEF groupVars, linkVars
<1> QED
  BY <1>1 DEF GroupsOK, GroupOK, Members

\* A channel is in the list of the group in its cgrp only.
LEMMA OneGroup ==
    ASSUME TypeOK, GroupsOK, NEW g \in groups, NEW h \in groups, g # h
    PROVE  /\ g \in Groups /\ Members(g) \subseteq Chans /\ Members(h) \subseteq Chans
           /\ (Members(g) \union {g}) \intersect (Members(h) \union {h}) = {}
<1>1. g \in Groups /\ h \in Groups /\ tqe_next \in [Nodes -> Chans \union {NULL}]
  BY DEF TypeOK
<1>2. Members(g) \subseteq Chans /\ Members(h) \subseteq Chans
  BY <1>1, PathLeast DEF Members
<1>3. g \notin Chans /\ h \notin Chans
  BY <1>1, ChannelAssumption
<1>4. (\A c \in Members(g) : cgrp[c] = g) /\ (\A c \in Members(h) : cgrp[c] = h)
  BY DEF GroupsOK, GroupOK
<1> QED
  BY <1>1, <1>2, <1>3, <1>4

\* What the groups promise follows.
LEMMA GroupsFacts ==
    ASSUME AInv, GroupsOK
    PROVE  CountsExact /\ GroupLinks
<1>1. CountsExact
  BY DEF AInv, RcvExact, Receiving, GroupsOK, GroupOK, CountsExact
<1>2. GroupLinks
  BY DEF GroupsOK, GroupOK, ListShape, GroupLinks
<1> QED
  BY <1>1, <1>2

----------------------------------------------------------------------------
(* For a careful client: the steps.                                       *)

LEMMA BInit == Init => BInv
<1> SUFFICES ASSUME Init PROVE BInv
  OBVIOUS
<1>1. DOMAIN <<>> = {}
  BY EmptySeq
<1>2. ASSUME NEW c \in Chans PROVE Counted(c)
  <2>1. HeldBy(c) = {} /\ SentBy(c) = {} /\ Queued(c) = {}
    BY <1>1, PlaceParts DEF Init, HeldBy, SentBy, Queued
  <2> QED
    BY <2>1, FS_EmptySet DEF Counted, Finite, Init
<1>3. CallsOK
  BY PlaceParts DEF CallsOK, Init
<1> QED
  BY <1>2, <1>3 DEF BInv, Init, GroupsOK, NoCrash

LEMMA BStutter == BInv /\ UNCHANGED vars => BInv'
<1> SUFFICES ASSUME BInv, UNCHANGED vars PROVE BInv'
  OBVIOUS
<1> USE DEF vars, chanVars, callVars, userVars
<1>1. CallsOK' /\ NoCrash' /\ lent' \subseteq live'
  BY DEF BInv, CallsOK, NoCrash, groupVars
<1>0. GroupsOK'
  BY GroupsStay DEF BInv
<1>2. ASSUME NEW c \in Chans PROVE Counted(c)'
  <2>1. HeldBy(c)' = HeldBy(c) /\ SentBy(c)' = SentBy(c) /\ Queued(c)' = Queued(c)
    BY DEF HeldBy, SentBy, Queued
  <2>2. Counted(c)
    BY DEF BInv
  <2> QED
    BY <2>1, <2>2 DEF Counted, Finite, Count
<1> QED
  BY <1>0, <1>1, <1>2 DEF BInv

LEMMA BNewChan ==
    ASSUME CInv, AInv', NEW t \in Threads, NEW c \in Chans, NewChan(t, c)
    PROVE  BInv'
<1> USE DEF groupVars, callVars
<1>1. TypeOK /\ TypeOK' /\ BInv
  BY DEF CInv, AInv
<1>2. CallsOK'
  BY <1>1 DEF BInv, CallsOK, NewChan, TypeOK
<1>3. lent' \subseteq live'
  BY <1>1 DEF BInv, NewChan
<1>4. GroupsOK'
  <2>1. ASSUME NEW g \in groups PROVE GroupOK(g)'
    <3>1. g \in Groups /\ GroupOK(g) /\ tqe_next \in [Nodes -> Chans \union {NULL}]
      BY <1>1 DEF BInv, GroupsOK, TypeOK
    <3>2. /\ live' = live \union {c} /\ cgrp' = [cgrp EXCEPT ![c] = NULL] /\ c \notin live
          /\ UNCHANGED <<chan_cnt, tqe_next, tqe_prev>>
      BY DEF NewChan, linkVars
    <3>3. Members(g) \subseteq Chans
      BY <3>1, PathLeast DEF Members
    <3>4. \A d \in Members(g) : d \in live' /\ cgrp'[d] = cgrp[d]
      BY <1>1, <3>1, <3>2, <3>3 DEF GroupOK, TypeOK
    <3> QED
      BY <1>1, <3>1, <3>2, <3>4, GroupSame
  <2> QED
    BY <2>1 DEF GroupsOK, NewChan
<1>6. NoCrash'
  BY <1>1 DEF BInv, NoCrash, NewChan
<1>7. ASSUME NEW d \in Chans PROVE Counted(d)'
  <2>1. Queued(d)' \subseteq Queued(d) /\ SentBy(d)' = SentBy(d)
    BY <1>1, QueuedEmpty DEF NewChan, SentBy
  <2>2. HeldBy(d)' = IF d \in holds[t] \union {c} THEN HeldBy(d) \union {t} ELSE HeldBy(d) \ {t}
    BY <1>1, HeldStep DEF NewChan
  <2>3. CASE d = c
    <3>1. HeldBy(c) = {} /\ SentBy(c) = {} /\ Queued(c) = {}
      BY <1>1 DEF BInv, Counted, NewChan
    <3>2. HeldBy(c)' = {t} /\ SentBy(c)' = {} /\ Queued(c)' = {}
      BY <2>1, <2>2, <2>3, <3>1
    <3>3. Finite(c)' /\ Count(c)' = 1
      <4>1. IsFiniteSet({t}) /\ Cardinality({t}) = 1 /\ IsFiniteSet({}) /\ Cardinality({}) = 0
        BY FS_EmptySet, FS_Singleton
      <4> QED
        BY <3>2, <4>1 DEF Finite, Count
    <3>4. snd_cnt'[c] = 0 /\ c \in live'
      BY <1>1 DEF NewChan, TypeOK
    <3> QED
      BY <2>3, <3>3, <3>4 DEF Counted
  <2>4. CASE d # c
    <3>1. HeldBy(d)' = HeldBy(d)
      BY <2>2, <2>4 DEF HeldBy
    <3>2. snd_cnt'[d] = snd_cnt[d] /\ (d \in live' <=> d \in live) /\ (d \in lent => d \in lent')
      BY <1>1, <2>4 DEF NewChan, TypeOK
    <3>3. snd_cnt[d] \in Int /\ Counted(d)
      BY <1>1 DEF TypeOK, BInv
    <3> QED
      BY <1>1, <2>1, <3>1, <3>2, <3>3, CountedLess
  <2> QED
    BY <2>3, <2>4
<1> QED
  BY <1>2, <1>3, <1>4, <1>6, <1>7 DEF BInv

\* The new thread has not run: it holds its channel and nothing else.
LEMMA BLend ==
    ASSUME CInv, AInv', NEW t \in Threads, NEW u \in Threads, NEW c \in Chans, Lend(t, u, c)
    PROVE  BInv'
<1> USE DEF chanVars, groupVars, callVars
<1>1. TypeOK /\ TypeOK' /\ BInv
  BY DEF CInv, AInv
<1>2. CallsOK'
  <2>1. op[u] = <<"user">> /\ op' = op /\ groups' = groups
    BY <1>1 DEF BInv, CallsOK, Lend
  <2>2. \A v \in Threads \ {u} : holds'[v] = holds[v]
    BY <1>1 DEF Lend, TypeOK
  <2> QED
    BY <1>1, <2>1, <2>2, PlaceParts DEF BInv, CallsOK, Lend
<1>3. c \in live
  BY <1>1, ReachedLive DEF Lend, Holds
<1>4. lent' \subseteq live' /\ GroupsOK' /\ NoCrash'
  BY <1>1, <1>3, GroupsStay DEF BInv, NoCrash, Lend
<1>5. ASSUME NEW d \in Chans PROVE Counted(d)'
  <2>1. Queued(d)' = Queued(d) /\ SentBy(d)' = SentBy(d) /\ snd_cnt' = snd_cnt /\ live' = live
    BY DEF Lend, Queued, SentBy
  <2>2. HeldBy(d)' = IF d \in {c} THEN HeldBy(d) \union {u} ELSE HeldBy(d) \ {u}
    BY <1>1, HeldStep DEF Lend
  <2>3. CASE d = c
    <3>1. IsFiniteSet(HeldBy(c)')
      BY <1>1, <2>2, <2>3, FS_AddElement DEF BInv, Counted, Finite
    <3>2. Finite(c)' /\ c \in lent' /\ c \in live'
      BY <1>1, <1>3, <2>1, <2>3, <3>1 DEF BInv, Counted, Finite, Lend
    <3> QED
      BY <2>3, <3>2 DEF Counted
  <2>4. CASE d # c
    <3>1. HeldBy(d)' \subseteq HeldBy(d) /\ (d \in lent => d \in lent')
      BY <2>2, <2>4 DEF Lend
    <3>2. Counted(d) /\ snd_cnt[d] \in Int
      BY <1>1 DEF BInv, TypeOK
    <3> QED
      BY <1>1, <2>1, <3>1, <3>2, CountedLess
  <2> QED
    BY <2>3, <2>4
<1> QED
  BY <1>2, <1>4, <1>5 DEF BInv

\* channel.c:42-44: the receiver that frees a channel has the last reference.
LEMMA LastReference ==
    ASSUME CInv, Careful, NEW t \in Threads, NEW c \in Chans, Deref(t, c),
           rcv_thd[c] = t, snd_cnt[c] = 0
    PROVE  HeldBy(c) = {t} /\ SentBy(c) = {} /\ Queued(c) = {} /\ ~Listed(c)
<1>1. TypeOK /\ BInv /\ t \in HeldBy(c) /\ c \notin lent /\ ~Listed(c)
  BY DEF CInv, AInv, Deref, Holds, HeldBy
<1>2. c \in live
  BY <1>1, ReachedLive DEF Deref, Holds
<1>3. Finite(c) /\ Count(c) <= 1
  BY <1>1, <1>2 DEF BInv, Counted
<1>4. IsFiniteSet(HeldBy(c) \ {t}) /\ Cardinality(HeldBy(c) \ {t}) = Cardinality(HeldBy(c)) - 1
  BY <1>1, <1>3, FS_RemoveElement DEF Finite
<1>5. Cardinality(HeldBy(c) \ {t}) \in Nat
  BY <1>4, FS_CardinalityType
<1>6. /\ Cardinality(HeldBy(c) \ {t}) = 0 /\ Cardinality(SentBy(c)) = 0
      /\ Cardinality(Queued(c)) = 0
  BY <1>3, <1>4, <1>5, Sizes DEF Count
<1>7. HeldBy(c) \ {t} = {} /\ SentBy(c) = {} /\ Queued(c) = {}
  BY <1>3, <1>4, <1>6, FS_EmptySet DEF Finite
<1> QED
  BY <1>1, <1>7

LEMMA BDeref ==
    ASSUME CInv, AInv', Careful, NEW t \in Threads, NEW c \in Chans, Deref(t, c)
    PROVE  BInv'
<1> USE DEF groupVars, callVars
<1>1. TypeOK /\ TypeOK' /\ BInv
  BY DEF CInv, AInv
<1>2. c \notin lent /\ ~Listed(c) /\ t \in HeldBy(c) /\ c \in live
  BY <1>1, ReachedLive DEF Deref, Holds, HeldBy
<1>3. CallsOK'
  <2>1. op[t] = <<"user">> /\ op' = op /\ groups' = groups /\ started' = started
    BY DEF Deref, Holds, Free
  <2>2. \A v \in Threads \ {t} : holds'[v] = holds[v]
    BY <1>1 DEF Deref, TypeOK
  <2> QED
    BY <1>1, <2>1, <2>2, PlaceParts DEF BInv, CallsOK
<1>4. live' = live \/ live' = live \ {c}
  BY DEF Deref
<1>5. lent' \subseteq live' /\ GroupsOK' /\ NoCrash'
  <2>1. ASSUME NEW g \in groups PROVE GroupOK(g)'
    <3>1. g \in Groups /\ GroupOK(g) /\ c \notin Members(g)
      BY <1>1, <1>2 DEF BInv, GroupsOK, TypeOK, Listed
    <3>2. UNCHANGED <<cgrp, chan_cnt, tqe_next, tqe_prev>>
      BY DEF Deref, linkVars
    <3>3. \A d \in Members(g) : d \in live'
      BY <1>4, <3>1 DEF GroupOK
    <3> QED
      BY <1>1, <3>1, <3>2, <3>3, GroupSame
  <2>2. GroupsOK'
    BY <2>1 DEF GroupsOK, Deref
  <2> QED
    BY <1>1, <1>2, <1>4, <2>2 DEF BInv, NoCrash, Deref
<1>6. ASSUME NEW d \in Chans PROVE Counted(d)'
  <2>1. Queued(d)' = Queued(d) /\ SentBy(d)' = SentBy(d) /\ lent' = lent
    BY DEF Deref, Queued, SentBy
  <2>2. HeldBy(d)' = IF d \in holds[t] \ {c} THEN HeldBy(d) \union {t} ELSE HeldBy(d) \ {t}
    <3>1. holds' = [holds EXCEPT ![t] = holds[t] \ {c}]
      BY DEF Deref
    <3>2. PICK S : S = holds[t] \ {c}
      OBVIOUS
    <3>3. holds' = [holds EXCEPT ![t] = S]
      BY <3>1, <3>2
    <3>4. HeldBy(d)' = IF d \in S THEN HeldBy(d) \union {t} ELSE HeldBy(d) \ {t}
      BY ONLY <1>1, <3>3, HeldStep, t \in Threads, d \in Chans
    <3> QED
      BY ONLY <3>2, <3>4
  <2>3. Counted(d) /\ snd_cnt[d] \in Int
    BY <1>1 DEF BInv, TypeOK
  <2>4. CASE d # c
    <3>1. HeldBy(d)' = HeldBy(d)
      BY <2>2, <2>4 DEF HeldBy
    <3>2. snd_cnt'[d] = snd_cnt[d] /\ (d \in live' <=> d \in live)
      BY <1>1, <2>4 DEF Deref, TypeOK
    <3> QED
      BY <1>1, <2>1, <2>3, <3>1, <3>2, CountedLess
  <2>5. CASE d = c
    <3>1. HeldBy(c)' = HeldBy(c) \ {t}
      BY <2>2, <2>5
    <3>2. /\ IsFiniteSet(HeldBy(c)')
          /\ Cardinality(HeldBy(c)') = Cardinality(HeldBy(c)) - 1
      BY <1>2, <2>3, <2>5, <3>1, FS_RemoveElement DEF Counted, Finite
    <3>3. Finite(c)' /\ Count(c)' = Count(c) - 1
      BY <2>1, <2>3, <2>5, <3>2, Sizes DEF Counted, Finite, Count
    <3>4. CASE rcv_thd[c] = t /\ snd_cnt[c] = 0
      <4>1. c \notin live'
        BY <3>4 DEF Deref
      <4>2. HeldBy(c)' = {} /\ SentBy(c)' = {} /\ Queued(c)' = {}
        BY <2>1, <2>5, <3>1, <3>4, LastReference
      <4> QED
        BY <2>5, <3>3, <4>1, <4>2 DEF Counted
    <3>5. CASE ~(rcv_thd[c] = t /\ snd_cnt[c] = 0)
      <4>1. snd_cnt'[c] = snd_cnt[c] - 1 /\ live' = live
        BY <1>1, <3>5 DEF Deref, TypeOK
      <4>2. Count(c) <= snd_cnt[c] + 1 /\ Count(c) \in Nat
        BY <1>2, <2>3, <2>5, Sizes DEF Counted, Count
      <4> QED
        BY <1>2, <2>3, <2>5, <3>3, <4>1, <4>2 DEF Counted
    <3> QED
      BY <3>4, <3>5
  <2> QED
    BY <2>4, <2>5
<1> QED
  BY <1>3, <1>5, <1>6 DEF BInv

\* Sending counts what it sends: cnt is snd_cnt, one more for a channel that
\* is sent.
LEMMA BWrite ==
    ASSUME CInv, AInv', NEW t \in Threads, NEW c \in Chans, NEW m \in Messages,
           NEW cnt \in [Chans -> Int], Write(t, c, m, cnt),
           NEW d \in Chans, cnt[d] >= snd_cnt[d], m = d => d \in live,
           \/ op[t][1] # "snd" /\ (m = d => cnt[d] >= snd_cnt[d] + 1)
           \/ op[t][1] = "snd" /\ op[t][3] = m,
           live' = live, lent' = lent, holds' = holds
    PROVE  Counted(d)'
<1>1. TypeOK /\ TypeOK' /\ Counted(d) /\ snd_cnt[d] \in Int /\ cnt[d] \in Int
  BY DEF CInv, AInv, BInv, TypeOK
<1>2. HeldBy(d)' = HeldBy(d) /\ SentBy(d)' = SentBy(d) \ {t}
  <2>1. op' = [op EXCEPT ![t] = <<"user">>] /\ <<"user">> \in Ops
    BY OpTypes DEF Write
  <2>2. SentBy(d)' = IF <<"user">>[1] = "snd" /\ <<"user">>[3] = d THEN SentBy(d) \union {t}
                                                                  ELSE SentBy(d) \ {t}
    BY ONLY <1>1, <2>1, SentStep, d \in Chans, t \in Threads
  <2> QED
    BY <2>2, PlaceParts DEF HeldBy
<1>3. snd_cnt'[d] \in Int /\ snd_cnt'[d] >= cnt[d]
  BY <1>1 DEF Write
<1>4. PICK p : /\ p \notin Queued(d)
               /\ Queued(d)' = IF m = d THEN Queued(d) \union {p} ELSE Queued(d)
  BY <1>1, QueuedAppend DEF Write
<1>5. CASE m # d
  BY <1>1, <1>2, <1>3, <1>4, <1>5, CountedLess
<1>6. CASE m = d
  <2>1. Queued(d)' = Queued(d) \union {p}
    BY <1>4, <1>6
  <2>2. /\ IsFiniteSet(Queued(d)')
        /\ Cardinality(Queued(d)') = Cardinality(Queued(d)) + 1
    BY <1>1, <1>4, <2>1, FS_AddElement DEF Counted, Finite
  <2>3. CASE op[t][1] # "snd"
    <3>1. SentBy(d)' = SentBy(d) /\ cnt[d] >= snd_cnt[d] + 1
      BY <1>2, <1>6, <2>3 DEF SentBy
    <3>2. Finite(d) /\ Finite(d)'
      BY <1>1, <1>2, <2>2, <3>1 DEF Counted, Finite
    <3>3. Count(d)' = Count(d) + 1 /\ Count(d) \in Nat
      BY <1>2, <2>2, <3>1, <3>2, Sizes DEF Count
    <3> QED
      BY <1>1, <1>3, <1>6, <3>1, <3>2, <3>3 DEF Counted
  <2>4. CASE op[t][1] = "snd"
    <3>1. t \in SentBy(d)
      BY <1>6, <2>4 DEF SentBy
    <3>2. /\ IsFiniteSet(SentBy(d)')
          /\ Cardinality(SentBy(d)') = Cardinality(SentBy(d)) - 1
      BY <1>1, <1>2, <3>1, FS_RemoveElement DEF Counted, Finite
    <3>3. Finite(d)' /\ Count(d)' = Count(d) /\ Count(d) \in Nat
      BY <1>1, <1>2, <2>2, <3>2, Sizes DEF Counted, Finite, Count
    <3> QED
      BY <1>1, <1>3, <1>6, <3>3 DEF Counted
  <2> QED
    BY <2>3, <2>4
<1> QED
  BY <1>5, <1>6

\* What a step does to a thread's place keeps the places valid.
LEMMA CallsStep ==
    ASSUME TypeOK, CallsOK, NEW t \in Threads, t \in started, NEW o \in Ops,
           op' = [op EXCEPT ![t] = o], groups \subseteq groups', started' = started,
           \A u \in Threads : holds[u] \subseteq holds'[u],
           o[1] \in {"snd", "rcv"} => o[2] \in holds[t], o[1] = "wait" => o[2] \in groups
    PROVE  CallsOK'
<1>1. op'[t] = o /\ \A u \in Threads \ {t} : op'[u] = op[u]
  BY DEF TypeOK
<1> QED
  BY <1>1 DEF CallsOK

LEMMA BStartSnd ==
    ASSUME CInv, AInv', NEW t \in Threads, NEW c \in Chans, NEW m \in Messages,
           NEW cnt \in [Chans -> Int], StartSnd(t, c, m, cnt), Holds(t, c),
           \A d \in Chans : /\ cnt[d] >= snd_cnt[d]
                            /\ m = d => d \in live /\ cnt[d] >= snd_cnt[d] + 1,
           UNCHANGED <<SndLeaves, crashed>>
    PROVE  BInv'
<1> USE DEF SndLeaves, groupVars, userVars
<1>1. TypeOK /\ TypeOK' /\ BInv /\ op[t] = <<"user">> /\ t \in started
  BY DEF CInv, AInv, Holds, Free
<1>2. lent' \subseteq live' /\ GroupsOK' /\ NoCrash'
  BY <1>1, GroupsStay DEF BInv, NoCrash
<1>3. CASE rcv_thd[c] = NULL \/ IsFull(c)
  <2>1. queue' = queue /\ snd_cnt' = cnt
    BY <1>3 DEF StartSnd
  <2>2. op' = op \/ op' = [op EXCEPT ![t] = <<"snd", c, m>>]
    BY <1>3 DEF StartSnd
  <2>3. CallsOK'
    <3>1. CASE op' = op
      BY <1>1, <3>1 DEF BInv, CallsOK
    <3>2. CASE op' = [op EXCEPT ![t] = <<"snd", c, m>>]
      BY <1>1, <3>2, CallsStep, OpTypes, PlaceParts DEF BInv, Holds
    <3> QED
      BY <2>2, <3>1, <3>2
  <2>4. ASSUME NEW d \in Chans PROVE Counted(d)'
    <3>1. HeldBy(d)' = HeldBy(d) /\ Queued(d)' = Queued(d)
      BY <2>1 DEF HeldBy, Queued
    <3>2. Counted(d) /\ snd_cnt[d] \in Int /\ cnt[d] \in Int /\ snd_cnt'[d] = cnt[d]
      BY <1>1, <2>1 DEF BInv, TypeOK
    <3>3. \/ SentBy(d)' = SentBy(d)
          \/ m = d /\ SentBy(d)' = SentBy(d) \union {t}
      <4>1. CASE op' = op
        BY <4>1 DEF SentBy
      <4>2. CASE op' = [op EXCEPT ![t] = <<"snd", c, m>>]
        <5>1. SentBy(d)' = IF <<"snd", c, m>>[1] = "snd" /\ <<"snd", c, m>>[3] = d
                           THEN SentBy(d) \union {t} ELSE SentBy(d) \ {t}
          BY <1>1, <4>2, OpTypes, SentStep
        <5>2. t \notin SentBy(d)
          BY <1>1, PlaceParts DEF SentBy
        <5>3. <<"snd", c, m>>[1] = "snd" /\ <<"snd", c, m>>[3] = m
          BY PlaceParts
        <5> QED
          BY <5>1, <5>2, <5>3
      <4> QED
        BY <2>2, <4>1, <4>2
    <3>4. t \notin SentBy(d)
      BY <1>1, PlaceParts DEF SentBy
    <3>5. CASE SentBy(d)' = SentBy(d)
      BY <1>1, <3>1, <3>2, <3>5, CountedLess
    <3>6. CASE m = d /\ SentBy(d)' = SentBy(d) \union {t}
      <4>1. /\ IsFiniteSet(SentBy(d)')
            /\ Cardinality(SentBy(d)') = Cardinality(SentBy(d)) + 1
        BY <3>2, <3>4, <3>6, FS_AddElement DEF Counted, Finite
      <4>2. Finite(d) /\ Finite(d)'
        BY <3>1, <3>2, <4>1 DEF Counted, Finite
      <4>3. Count(d)' = Count(d) + 1 /\ Count(d) \in Nat
        BY <3>1, <4>1, <4>2, Sizes DEF Count
      <4>4. d \in live' /\ lent' = lent /\ live' = live /\ snd_cnt'[d] >= snd_cnt[d] + 1
        BY <3>2, <3>6
      <4> QED
        BY <3>2, <4>2, <4>3, <4>4 DEF Counted
    <3> QED
      BY <3>3, <3>5, <3>6
  <2> QED
    BY <1>2, <2>3, <2>4 DEF BInv
<1>4. CASE ~(rcv_thd[c] = NULL \/ IsFull(c))
  <2>1. Write(t, c, m, cnt)
    BY <1>4 DEF StartSnd
  <2>2. CallsOK'
    BY <1>1, <2>1, CallsStep, OpTypes, PlaceParts DEF BInv, Write
  <2>3. ASSUME NEW d \in Chans PROVE Counted(d)'
    <3>1. op[t][1] # "snd"
      BY <1>1, PlaceParts
    <3>2. cnt[d] >= snd_cnt[d] /\ (m = d => d \in live /\ cnt[d] >= snd_cnt[d] + 1)
      OBVIOUS
    <3>3. live' = live /\ lent' = lent /\ holds' = holds
      OBVIOUS
    <3> QED
      BY <2>1, <3>1, <3>2, <3>3, BWrite
  <2> QED
    BY <1>2, <2>2, <2>3 DEF BInv
<1> QED
  BY <1>3, <1>4

LEMMA BSnd ==
    ASSUME CInv, AInv', NEW t \in Threads,
           \/ \E c \in Chans : \/ \E m \in Data : Snd(t, c, m)
                               \/ \E d \in Chans : SndChan(t, c, d)
           \/ SndResume(t)
    PROVE  BInv'
<1>1. TypeOK /\ TypeOK' /\ BInv /\ snd_cnt \in [Chans -> Int]
  BY DEF CInv, AInv, TypeOK
<1>2. ASSUME NEW c \in Chans, NEW m \in Data, Snd(t, c, m) PROVE BInv'
  <2>1. \A d \in Chans : m # d /\ snd_cnt[d] \in Int
    BY <1>1, ChannelAssumption
  <2>2. \A d \in Chans : /\ snd_cnt[d] >= snd_cnt[d]
                         /\ m = d => d \in live /\ snd_cnt[d] >= snd_cnt[d] + 1
    BY <2>1
  <2>3. m \in Messages
    BY DEF Messages
  <2> QED
    BY <1>1, <1>2, <2>2, <2>3, BStartSnd DEF Snd
<1>3. ASSUME NEW c \in Chans, NEW m \in Chans, SndChan(t, c, m) PROVE BInv'
  <2> DEFINE cnt == [snd_cnt EXCEPT ![m] = @ + 1]
  <2>1. cnt \in [Chans -> Int]
    BY <1>1
  <2>2. m \in live
    BY <1>1, <1>3, ReachedLive DEF SndChan
  <2>3. \A d \in Chans : /\ cnt[d] >= snd_cnt[d]
                         /\ m = d => d \in live /\ cnt[d] >= snd_cnt[d] + 1
    BY <1>1, <2>2
  <2>4. m \in Messages
    BY DEF Messages
  <2>5. StartSnd(t, c, m, cnt) /\ Holds(t, c) /\ UNCHANGED <<SndLeaves, crashed>>
    BY <1>3 DEF SndChan
  <2> HIDE DEF cnt
  <2> QED
    BY <2>1, <2>3, <2>4, <2>5, BStartSnd
<1>4. CASE SndResume(t)
  <2> USE DEF SndLeaves, groupVars, userVars
  <2> DEFINE c == op[t][2]
             m == op[t][3]
  <2>1. op[t][1] = "snd" /\ c \in Chans /\ m \in Messages
    BY <1>1, <1>4, OpParts DEF SndResume, TypeOK
  <2>2. c \in holds[t] /\ t \in started
    BY <1>1, <2>1, PlaceParts DEF BInv, CallsOK
  <2>3. c \in live
    BY <1>1, <2>1, <2>2, ReachedLive
  <2>4. Write(t, c, m, snd_cnt) /\ crashed' = crashed /\ UNCHANGED SndLeaves
    BY <1>4, <2>3 DEF SndResume
  <2>5. lent' \subseteq live' /\ GroupsOK' /\ NoCrash'
    BY <1>1, <2>4, GroupsStay DEF BInv, NoCrash
  <2>6. CallsOK'
    <3>1. op' = [op EXCEPT ![t] = <<"user">>] /\ holds' = holds /\ groups' = groups
          /\ started' = started
      BY <2>4 DEF Write
    <3> QED
      BY <1>1, <2>2, <3>1, CallsStep, OpTypes, PlaceParts DEF BInv
  <2>7. ASSUME NEW d \in Chans PROVE Counted(d)'
    <3>1. snd_cnt[d] >= snd_cnt[d] /\ live' = live /\ lent' = lent /\ holds' = holds
      BY <1>1, <2>4
    <3>2. m = d => d \in live
      BY <1>1, <2>1, ReachedLive
    <3> HIDE DEF c
    <3> QED
      BY <1>1, <2>1, <2>4, <3>1, <3>2, BWrite
  <2> QED
    BY <2>5, <2>6, <2>7 DEF BInv
<1> QED
  BY <1>2, <1>3, <1>4

\* What was in the queue is now the thread's.
LEMMA BRead ==
    ASSUME CInv, AInv', NEW t \in Threads, NEW c \in Chans, Read(t, c), Pending(c),
           t \in started, op[t][1] # "snd", UNCHANGED <<RcvLeaves, crashed>>
    PROVE  BInv'
<1> USE DEF RcvLeaves, groupVars
<1>1. TypeOK /\ TypeOK' /\ BInv
  BY DEF CInv, AInv
<1>2. lent' \subseteq live' /\ GroupsOK' /\ NoCrash'
  BY <1>1, GroupsStay DEF BInv, NoCrash
<1> DEFINE m == Head(queue[c])
           S == IF m \in Chans THEN holds[t] \union {m} ELSE holds[t]
<1>3. holds' = [holds EXCEPT ![t] = S] /\ op' = [op EXCEPT ![t] = <<"user">>]
      /\ queue' = [queue EXCEPT ![c] = Tail(@)]
  BY DEF Read
<1>4. CallsOK'
  <2>1. \A u \in Threads : holds[u] \subseteq holds'[u]
    BY <1>1, <1>3 DEF TypeOK
  <2> QED
    BY <1>1, <1>3, <2>1, CallsStep, OpTypes, PlaceParts DEF BInv
<1>5. ASSUME NEW d \in Chans PROVE Counted(d)'
  <2>1. Counted(d) /\ Finite(d) /\ snd_cnt[d] \in Int
    BY <1>1 DEF BInv, Counted, TypeOK
  <2>2. HeldBy(d)' = IF d \in S THEN HeldBy(d) \union {t} ELSE HeldBy(d) \ {t}
    <3> HIDE DEF S
    <3> QED
      BY <1>1, <1>3, HeldStep
  <2>3. SentBy(d)' = SentBy(d)
    <3>1. SentBy(d)' = IF <<"user">>[1] = "snd" /\ <<"user">>[3] = d
                       THEN SentBy(d) \union {t} ELSE SentBy(d) \ {t}
      BY <1>1, <1>3, SentStep, OpTypes
    <3> QED
      BY <3>1, PlaceParts DEF SentBy
  <2>4. /\ IsFiniteSet(Queued(d)')
        /\ Cardinality(Queued(d)') <= Cardinality(Queued(d))
        /\ m = d => /\ Queued(d) # {}
                    /\ Cardinality(Queued(d)') <= Cardinality(Queued(d)) - 1
    BY <1>1, <1>3, <2>1, QueuedTail DEF Finite
  <2>5. Cardinality(Queued(d)') \in Nat
    BY <2>4, FS_CardinalityType
  <2>6. CASE m = d
    <3>1. HeldBy(d)' = HeldBy(d) \union {t}
      BY <2>2, <2>6
    <3>2. /\ IsFiniteSet(HeldBy(d)') /\ Cardinality(HeldBy(d)') \in Nat
          /\ Cardinality(HeldBy(d)') <= Cardinality(HeldBy(d)) + 1
      <4>1. IsFiniteSet(HeldBy(d)')
        BY <2>1, <3>1, FS_AddElement DEF Finite
      <4>2. Cardinality(HeldBy(d)') = IF t \in HeldBy(d) THEN Cardinality(HeldBy(d))
                                                          ELSE Cardinality(HeldBy(d)) + 1
        BY <2>1, <3>1, FS_AddElement DEF Finite
      <4> QED
        BY <2>1, <4>1, <4>2, Sizes
    <3>3. Finite(d)'
      BY <2>1, <2>3, <2>4, <3>2 DEF Finite
    <3>4. Count(d)' <= Count(d) /\ Count(d) \in Nat /\ Count(d)' \in Nat
      <4>1. Cardinality(Queued(d)') <= Cardinality(Queued(d)) - 1
        BY <2>4, <2>6
      <4> QED
        BY <2>1, <2>3, <2>5, <3>2, <4>1, Sizes DEF Count
    <3>5. d \in live
      BY <1>1, <2>4, <2>6, ReachedLive
    <3> QED
      BY <2>1, <3>3, <3>4, <3>5 DEF Counted
  <2>7. CASE m # d
    <3>1. HeldBy(d)' = HeldBy(d)
      BY <2>2, <2>7 DEF HeldBy
    <3>2. Finite(d)'
      BY <2>1, <2>3, <2>4, <3>1 DEF Finite
    <3>3. Count(d)' <= Count(d) /\ Count(d) \in Nat /\ Count(d)' \in Nat
      BY <2>1, <2>3, <2>4, <2>5, <3>1, Sizes DEF Count
    <3>4. d \notin live => Queued(d)' = {}
      <4>1. Queued(d) = {} => Cardinality(Queued(d)') = 0
        BY <2>4, <2>5, FS_EmptySet
      <4> QED
        BY <2>1, <2>4, <4>1, FS_EmptySet DEF Counted
    <3> QED
      BY <2>1, <2>3, <3>1, <3>2, <3>3, <3>4 DEF Counted
  <2> QED
    BY <2>6, <2>7
<1> QED
  BY <1>2, <1>4, <1>5 DEF BInv

LEMMA BRcv ==
    ASSUME CInv, AInv', NEW t \in Threads, RcvResume(t) \/ \E c \in Chans : Rcv(t, c)
    PROVE  BInv'
<1> USE DEF RcvLeaves, groupVars
<1>1. TypeOK /\ TypeOK' /\ BInv
  BY DEF CInv, AInv
<1>2. ASSUME NEW c \in Chans, Rcv(t, c) PROVE BInv'
  <2>1. op[t] = <<"user">> /\ t \in started /\ c \in holds[t] /\ op[t][1] # "snd"
    BY <1>2, PlaceParts DEF Rcv, Holds, Free
  <2>2. CASE Pending(c)
    BY <1>2, <2>1, <2>2, BRead DEF Rcv
  <2>3. CASE ~Pending(c)
    <3>1. op' = [op EXCEPT ![t] = <<"rcv", c>>] /\ queue' = queue /\ holds' = holds
          /\ UNCHANGED <<RcvLeaves, crashed>>
      BY <1>2, <2>3 DEF Rcv
    <3>2. lent' \subseteq live' /\ GroupsOK' /\ NoCrash'
      BY <1>1, <3>1, GroupsStay DEF BInv, NoCrash
    <3>3. CallsOK'
      BY <1>1, <2>1, <3>1, CallsStep, OpTypes, PlaceParts DEF BInv
    <3>4. ASSUME NEW d \in Chans PROVE Counted(d)'
      <4>1. HeldBy(d)' = HeldBy(d) /\ Queued(d)' = Queued(d)
        BY <3>1 DEF HeldBy, Queued
      <4>2. SentBy(d)' \subseteq SentBy(d)
        <5>1. SentBy(d)' = IF <<"rcv", c>>[1] = "snd" /\ <<"rcv", c>>[3] = d
                           THEN SentBy(d) \union {t} ELSE SentBy(d) \ {t}
          BY <1>1, <3>1, SentStep, OpTypes
        <5> QED
          BY <5>1, PlaceParts
      <4>3. Counted(d) /\ snd_cnt[d] \in Int
        BY <1>1 DEF BInv, TypeOK
      <4> QED
        BY <1>1, <3>1, <4>1, <4>2, <4>3, CountedLess
    <3> QED
      BY <3>2, <3>3, <3>4 DEF BInv
  <2> QED
    BY <2>2, <2>3
<1>3. CASE RcvResume(t)
  <2>1. op[t][1] = "rcv" /\ op[t][2] \in Chans /\ t \in started
    BY <1>1, <1>3, OpParts, PlaceParts DEF RcvResume, TypeOK, BInv, CallsOK
  <2> QED
    BY <1>3, <2>1, BRead DEF RcvResume
<1> QED
  BY <1>2, <1>3

\* The references do not change when calls do not begin or end a lwt_snd.
LEMMA CountedSame ==
    ASSUME CInv, AInv', UNCHANGED <<live, queue, snd_cnt, holds, lent>>,
           \A d \in Chans : SentBy(d)' = SentBy(d)
    PROVE  \A d \in Chans : Counted(d)'
<1>1. TypeOK /\ TypeOK' /\ BInv
  BY DEF CInv, AInv
<1> TAKE d \in Chans
<1>2. HeldBy(d)' = HeldBy(d) /\ Queued(d)' = Queued(d) /\ SentBy(d)' = SentBy(d)
  BY DEF HeldBy, Queued
<1>3. Counted(d) /\ snd_cnt[d] \in Int
  BY <1>1 DEF BInv, TypeOK
<1> QED
  BY <1>1, <1>2, <1>3, CountedLess

LEMMA BWait ==
    ASSUME CInv, AInv', NEW t \in Threads, WaitResume(t) \/ \E g \in Groups : Wait(t, g)
    PROVE  BInv'
<1> USE DEF chanVars, groupVars, userVars
<1>1. TypeOK /\ BInv
  BY DEF CInv, AInv
<1>2. UNCHANGED <<live, queue, snd_cnt, rcv_thd, cgrp, groups, started, holds, lent>>
  BY DEF Wait, WaitResume
<1>3. NoCrash'
  <2>1. CASE WaitResume(t)
    <3> DEFINE g == op[t][2]
    <3>1. g \in groups
      BY <1>1, <2>1 DEF WaitResume, BInv, CallsOK
    <3>2. ~Lost(g)
      BY <1>1, <3>1, ScanEnds DEF BInv, GroupsOK, TypeOK
    <3> QED
      BY <1>1, <2>1, <3>1, <3>2 DEF WaitResume, NoCrash, BInv
  <2>2. ASSUME NEW g \in Groups, Wait(t, g) PROVE NoCrash'
    <3>1. g \in groups
      BY <2>2 DEF Wait
    <3>2. ~Lost(g)
      BY <1>1, <3>1, ScanEnds DEF BInv, GroupsOK, TypeOK
    <3> QED
      BY <1>1, <2>2, <3>2 DEF Wait, NoCrash, BInv
  <2> QED
    BY <2>1, <2>2
<1>4. op[t][1] # "snd" /\ t \in started
  BY <1>1, PlaceParts DEF Wait, Free, WaitResume, BInv, CallsOK
<1>5. PICK o \in Ops : /\ op' = [op EXCEPT ![t] = o]
                       /\ o = <<"user">> \/ o = op[t] \/ \E g \in groups : o = <<"wait", g>>
  <2>1. CASE WaitResume(t)
    <3>1. op' = [op EXCEPT ![t] = <<"user">>] \/ op' = op
      BY <2>1 DEF WaitResume
    <3>2. op \in [Threads -> Ops] /\ op = [op EXCEPT ![t] = op[t]]
      BY <1>1 DEF TypeOK
    <3> QED
      BY <3>1, <3>2, OpTypes
  <2>2. ASSUME NEW g \in Groups, Wait(t, g)
        PROVE  \/ op' = [op EXCEPT ![t] = <<"wait", g>>] /\ g \in groups
               \/ op' = [op EXCEPT ![t] = op[t]] /\ op[t] \in Ops
    BY <1>1, <2>2 DEF Wait, TypeOK
  <2> QED
    BY <2>1, <2>2, OpTypes
<1>6. CallsOK'
  <2>1. CASE o = op[t]
    BY <1>1, <1>2, <1>5, <2>1 DEF BInv, CallsOK, TypeOK
  <2>2. CASE o = <<"user">> \/ \E g \in groups : o = <<"wait", g>>
    BY <1>1, <1>2, <1>4, <1>5, <2>2, CallsStep, PlaceParts DEF BInv
  <2> QED
    BY <1>5, <2>1, <2>2
<1>7. \A d \in Chans : SentBy(d)' = SentBy(d)
  <2> TAKE d \in Chans
  <2>1. SentBy(d)' = IF o[1] = "snd" /\ o[3] = d THEN SentBy(d) \union {t} ELSE SentBy(d) \ {t}
    BY <1>1, <1>5, SentStep
  <2>2. o[1] # "snd" /\ t \notin SentBy(d)
    BY <1>4, <1>5, PlaceParts DEF SentBy
  <2> QED
    BY <2>1, <2>2
<1>8. lent' \subseteq live' /\ GroupsOK'
  BY <1>1, <1>2, GroupsStay DEF BInv, Wait, WaitResume
<1>9. \A d \in Chans : Counted(d)'
  BY <1>2, <1>7, CountedSame
<1> QED
  BY <1>3, <1>6, <1>8, <1>9 DEF BInv

LEMMA BGroupMade ==
    ASSUME CInv, AInv', Careful, NEW t \in Threads, NEW g \in Groups,
           NewGroup(t, g) \/ FreeGroup(t, g)
    PROVE  BInv'
<1> USE DEF chanVars, callVars, userVars
<1>1. TypeOK /\ TypeOK' /\ BInv
  BY DEF CInv, AInv
<1>2. UNCHANGED <<live, queue, snd_cnt, rcv_thd, cgrp, op, started, holds, lent, crashed>>
  BY DEF NewGroup, FreeGroup
<1>3. CallsOK'
  <2>1. ASSUME NEW u \in Threads, op[u][1] = "wait" PROVE op[u][2] \in groups'
    <3>1. op[u][2] \in groups /\ op[u] = <<"wait", op[u][2]>>
      BY <1>1, <2>1, OpParts DEF TypeOK, BInv, CallsOK
    <3> QED
      BY <3>1 DEF NewGroup, FreeGroup
  <2> QED
    BY <1>1, <1>2, <2>1 DEF BInv, CallsOK
<1>4. ASSUME NEW h \in groups' PROVE GroupOK(h)'
  <2>1. h \in Groups
    BY <1>1 DEF NewGroup, FreeGroup, TypeOK
  <2>2. CASE h \in groups
    <3>1. GroupOK(h) /\ Members(h) \subseteq Chans
      BY <1>1, <2>1, <2>2, PathLeast DEF BInv, GroupsOK, Members, TypeOK
    <3>2. h # g /\ g \notin Members(h)
      BY <2>2, <3>1, ChannelAssumption DEF NewGroup, FreeGroup
    <3>3. /\ chan_cnt'[h] = chan_cnt[h]
          /\ \A n \in Members(h) \union {h} :
                tqe_next'[n] = tqe_next[n] /\ tqe_prev'[n] = tqe_prev[n]
      BY <1>1, <2>1, <3>1, <3>2 DEF NewGroup, FreeGroup, Initialized, TypeOK, Nodes, linkVars
    <3>4. \A c \in Members(h) : c \in live' /\ cgrp'[c] = cgrp[c]
      BY <1>2, <3>1 DEF GroupOK
    <3> QED
      BY <1>1, <2>1, <3>1, <3>3, <3>4, GroupSame
  <2>3. CASE h \notin groups
    <3>1. NewGroup(t, g) /\ h = g
      BY <2>3 DEF NewGroup, FreeGroup
    <3>2. tqe_next'[g] = NULL /\ tqe_prev'[g] = g /\ chan_cnt'[g] = 0
      BY <1>1, <3>1 DEF NewGroup, Initialized, TypeOK, Nodes
    <3>3. tqe_next' \in [Nodes -> Chans \union {NULL}]
      BY <1>1 DEF TypeOK
    <3>4. PICK new : new = tqe_next'
      OBVIOUS
    <3>5. PICK newback : newback = tqe_prev'
      OBVIOUS
    <3>6. Path(new, g, Chans) = {} /\ ListShape(new, newback, g, {})
      BY ONLY <3>2, <3>3, <3>4, <3>5, EmptyList, g \in Groups
    <3>7. Members(g)' = {} /\ ListShape(tqe_next, tqe_prev, g, Members(g))'
      BY <3>4, <3>5, <3>6 DEF Members
    <3> QED
      BY <3>1, <3>2, <3>7, FS_EmptySet DEF GroupOK
  <2> QED
    BY <2>2, <2>3
<1>5. \A d \in Chans : Counted(d)'
  BY <1>2, CountedSame DEF SentBy
<1> QED
  BY <1>1, <1>2, <1>3, <1>4, <1>5 DEF BInv, GroupsOK, NoCrash

LEMMA BAdd ==
    ASSUME CInv, AInv', NEW t \in Threads, NEW g \in Groups, NEW c \in Chans, Add(t, g, c)
    PROVE  BInv'
<1> USE DEF callVars, userVars
<1>1. TypeOK /\ TypeOK' /\ BInv /\ g \in groups /\ cgrp[c] = NULL
  BY DEF CInv, AInv, Add
<1>2. /\ UNCHANGED <<live, queue, snd_cnt, groups, op, started, holds, lent, crashed>>
      /\ Inserted(g, c) /\ chan_cnt' = [chan_cnt EXCEPT ![g] = @ + 1]
      /\ cgrp' = [cgrp EXCEPT ![c] = g]
  BY DEF Add
<1>3. CallsOK'
  BY <1>1, <1>2 DEF BInv, CallsOK
<1>4. c \in live
  BY <1>1, ReachedLive DEF Add, Holds
<1>5. GroupsOK /\ GroupOK(g)
  BY <1>1 DEF BInv, GroupsOK
<1>6. ASSUME NEW h \in groups
      PROVE  /\ h \in Groups /\ Members(h) \subseteq Chans /\ c \notin Members(h)
             /\ h \in Nodes /\ h # c /\ \A d \in Members(h) : d \in live /\ cgrp[d] = h
  <2>1. h \in Groups /\ h # NULL /\ h # c
    BY <1>1, ChannelAssumption DEF TypeOK
  <2>2. Members(h) \subseteq Chans
    BY <1>1, <2>1, PathLeast DEF Members, TypeOK
  <2>3. \A d \in Members(h) : d \in live /\ cgrp[d] = h
    BY <1>5 DEF GroupsOK, GroupOK
  <2> QED
    BY <1>1, <2>1, <2>2, <2>3 DEF Nodes
<1>7. tqe_prev[g] \in Members(g) \union {g}
  BY <1>5 DEF GroupOK, ListShape
<1>8. GroupOK(g)'
  <2>1. PICK new : new = tqe_next'
    OBVIOUS
  <2>2. PICK newback : newback = tqe_prev'
    OBVIOUS
  <2>3. /\ new = [tqe_next EXCEPT ![c] = NULL, ![tqe_prev[g]] = c]
        /\ newback = [tqe_prev EXCEPT ![c] = tqe_prev[g], ![g] = c]
    BY <1>2, <2>1, <2>2 DEF Inserted
  <2>4. tqe_next \in [Nodes -> Chans \union {NULL}] /\ tqe_prev \in [Nodes -> Nodes]
    BY <1>1 DEF TypeOK
  <2>5. c \notin Path(tqe_next, g, Chans) /\ ListShape(tqe_next, tqe_prev, g, Path(tqe_next, g, Chans))
    BY <1>1, <1>5, <1>6 DEF GroupOK, Members
  <2>6. /\ Path(new, g, Chans) = Path(tqe_next, g, Chans) \union {c}
        /\ ListShape(new, newback, g, Path(tqe_next, g, Chans) \union {c})
    <3>1. PICK link : link = tqe_next
      OBVIOUS
    <3>2. PICK back : back = tqe_prev
      OBVIOUS
    <3>3. link \in [Nodes -> Chans \union {NULL}] /\ back \in [Nodes -> Nodes]
      BY <2>4, <3>1, <3>2
    <3>4. /\ c \notin Path(link, g, Chans) /\ ListShape(link, back, g, Path(link, g, Chans))
          /\ InsertedLinks(link, back, g, c, new, newback)
      BY <2>3, <2>5, <3>1, <3>2 DEF InsertedLinks
    <3>5. /\ Path(new, g, Chans) = Path(link, g, Chans) \union {c}
          /\ ListShape(new, newback, g, Path(link, g, Chans) \union {c})
      BY ONLY <3>3, <3>4, InsertList, g \in Groups, c \in Chans
    <3> QED
      BY ONLY <3>1, <3>2, <3>5, Zenon
  <2>7. Members(g)' = Members(g) \union {c} /\ ListShape(tqe_next, tqe_prev, g, Members(g))'
    BY <2>1, <2>2, <2>6 DEF Members
  <2>8. \A d \in Members(g)' : d \in live' /\ cgrp'[d] = g
    BY <1>1, <1>2, <1>4, <1>6, <2>7 DEF TypeOK
  <2>9. IsFiniteSet(Members(g)) /\ chan_cnt[g] = Cardinality(Members(g)) /\ c \notin Members(g)
    BY <1>1, <1>5, <1>6 DEF GroupOK
  <2>10. IsFiniteSet(Members(g)') /\ Cardinality(Members(g)') = chan_cnt[g] + 1
    BY <2>7, <2>9, FS_AddElement
  <2>11. chan_cnt'[g] = chan_cnt[g] + 1
    BY <1>1, <1>2 DEF TypeOK
  <2> QED
    BY <2>7, <2>8, <2>10, <2>11 DEF GroupOK
<1>9. ASSUME NEW h \in groups, h # g PROVE GroupOK(h)'
  <2>1. (Members(g) \union {g}) \intersect (Members(h) \union {h}) = {}
    BY <1>1, <1>5, <1>9, OneGroup
  <2>2. \A n \in Members(h) \union {h} : n \in Nodes /\ n # c /\ n # g /\ n # tqe_prev[g]
    BY <1>6, <1>7, <2>1 DEF Nodes
  <2>3. \A n \in Members(h) \union {h} : tqe_next'[n] = tqe_next[n] /\ tqe_prev'[n] = tqe_prev[n]
    BY <1>1, <1>2, <2>2 DEF Inserted, TypeOK
  <2>4. chan_cnt'[h] = chan_cnt[h] /\ \A d \in Members(h) : d \in live' /\ cgrp'[d] = cgrp[d]
    BY <1>1, <1>2, <1>6, <1>9 DEF TypeOK
  <2>5. GroupOK(h) /\ h \in Groups
    BY <1>5, <1>6 DEF GroupsOK
  <2> QED
    BY <1>1, <2>3, <2>4, <2>5, GroupSame
<1>10. GroupsOK'
  BY <1>2, <1>8, <1>9 DEF GroupsOK
<1>11. \A d \in Chans : Counted(d)'
  BY <1>2, CountedSame DEF SentBy
<1> QED
  BY <1>1, <1>2, <1>3, <1>10, <1>11 DEF BInv, NoCrash

LEMMA BRem ==
    ASSUME CInv, AInv', Careful, NEW t \in Threads, NEW g \in Groups, NEW c \in Chans,
           Rem(t, g, c)
    PROVE  BInv'
<1> USE DEF chanVars, callVars, userVars
<1>1. TypeOK /\ TypeOK' /\ BInv /\ g \in groups /\ c \in Members(g)
  BY DEF CInv, AInv, Rem
<1>2. GroupsOK /\ GroupOK(g) /\ c \in live
  BY <1>1 DEF BInv, GroupsOK, GroupOK
<1>3. /\ UNCHANGED <<live, queue, snd_cnt, cgrp, groups, op, started, holds, lent, crashed>>
      /\ Removed(g, c) /\ chan_cnt' = [chan_cnt EXCEPT ![g] = @ - 1]
  BY <1>2 DEF Rem
<1>4. CallsOK'
  BY <1>1, <1>3 DEF BInv, CallsOK
<1>5. ASSUME NEW h \in groups
      PROVE  /\ h \in Groups /\ Members(h) \subseteq Chans /\ Members(h) \union {h} \subseteq Nodes
             /\ \A d \in Members(h) : d \in live /\ cgrp[d] = h
  <2>1. h \in Groups
    BY <1>1 DEF TypeOK
  <2>2. Members(h) \subseteq Chans
    BY <1>1, <2>1, PathLeast DEF Members, TypeOK
  <2> QED
    BY <1>2, <2>1, <2>2 DEF GroupsOK, GroupOK, Nodes
<1>6. /\ tqe_prev[c] \in Members(g) \union {g}
      /\ tqe_next[c] # NULL => tqe_next[c] \in Members(g)
  BY <1>1, <1>2 DEF GroupOK, ListShape
<1>7. GroupOK(g)'
  <2>1. PICK new : new = tqe_next'
    OBVIOUS
  <2>2. PICK newback : newback = tqe_prev'
    OBVIOUS
  <2>3. /\ new = [tqe_next EXCEPT ![tqe_prev[c]] = tqe_next[c]]
        /\ newback = [tqe_prev EXCEPT ![IF tqe_next[c] = NULL THEN g
                                        ELSE tqe_next[c]] = tqe_prev[c]]
    BY <1>3, <2>1, <2>2 DEF Removed
  <2>4. tqe_next \in [Nodes -> Chans \union {NULL}] /\ tqe_prev \in [Nodes -> Nodes]
    BY <1>1 DEF TypeOK
  <2>5. c \in Path(tqe_next, g, Chans) /\ ListShape(tqe_next, tqe_prev, g, Path(tqe_next, g, Chans))
    BY <1>1, <1>2 DEF GroupOK, Members
  <2>6. /\ Path(new, g, Chans) = Path(tqe_next, g, Chans) \ {c}
        /\ ListShape(new, newback, g, Path(tqe_next, g, Chans) \ {c})
    <3>1. PICK link : link = tqe_next
      OBVIOUS
    <3>2. PICK back : back = tqe_prev
      OBVIOUS
    <3>3. link \in [Nodes -> Chans \union {NULL}] /\ back \in [Nodes -> Nodes]
      BY <2>4, <3>1, <3>2
    <3>4. /\ c \in Path(link, g, Chans) /\ ListShape(link, back, g, Path(link, g, Chans))
          /\ RemovedLinks(link, back, g, c, new, newback)
      BY <2>3, <2>5, <3>1, <3>2 DEF RemovedLinks
    <3>5. /\ Path(new, g, Chans) = Path(link, g, Chans) \ {c}
          /\ ListShape(new, newback, g, Path(link, g, Chans) \ {c})
      BY ONLY <3>3, <3>4, RemoveList, g \in Groups, c \in Chans
    <3> QED
      BY ONLY <3>1, <3>2, <3>5, Zenon
  <2>7. Members(g)' = Members(g) \ {c} /\ ListShape(tqe_next, tqe_prev, g, Members(g))'
    BY <2>1, <2>2, <2>6 DEF Members
  <2>8. \A d \in Members(g)' : d \in live' /\ cgrp'[d] = g
    BY <1>1, <1>3, <1>5, <2>7
  <2>9. IsFiniteSet(Members(g)) /\ chan_cnt[g] = Cardinality(Members(g))
    BY <1>2 DEF GroupOK
  <2>10. IsFiniteSet(Members(g)') /\ Cardinality(Members(g)') = chan_cnt[g] - 1
    BY <1>1, <2>7, <2>9, FS_RemoveElement
  <2>11. chan_cnt'[g] = chan_cnt[g] - 1
    BY <1>1, <1>3 DEF TypeOK
  <2> QED
    BY <2>7, <2>8, <2>10, <2>11 DEF GroupOK
<1>8. ASSUME NEW h \in groups, h # g PROVE GroupOK(h)'
  <2>1. (Members(g) \union {g}) \intersect (Members(h) \union {h}) = {}
    BY <1>1, <1>2, <1>8, OneGroup
  <2>2. \A n \in Members(h) \union {h} :
           n \in Nodes /\ n # tqe_prev[c] /\ n # (IF tqe_next[c] = NULL THEN g ELSE tqe_next[c])
    BY <1>5, <1>6, <2>1
  <2>3. \A n \in Members(h) \union {h} : tqe_next'[n] = tqe_next[n] /\ tqe_prev'[n] = tqe_prev[n]
    BY <1>1, <1>3, <2>2 DEF Removed, TypeOK
  <2>4. chan_cnt'[h] = chan_cnt[h] /\ \A d \in Members(h) : d \in live' /\ cgrp'[d] = cgrp[d]
    BY <1>1, <1>3, <1>5, <1>8 DEF TypeOK
  <2>5. GroupOK(h) /\ h \in Groups
    BY <1>2, <1>5 DEF GroupsOK
  <2> QED
    BY <1>1, <2>3, <2>4, <2>5, GroupSame
<1>9. GroupsOK'
  BY <1>3, <1>7, <1>8 DEF GroupsOK
<1>10. \A d \in Chans : Counted(d)'
  BY <1>3, CountedSame DEF SentBy
<1> QED
  BY <1>1, <1>3, <1>4, <1>9, <1>10 DEF BInv, NoCrash

LEMMA CInvariance == ASSUME Careful PROVE Spec => []CInv
<1>1. Init => CInv
  BY AInit, BInit DEF CInv
<1>2. CInv /\ AInv' /\ [Next]_vars => CInv'
  <2> SUFFICES ASSUME CInv, AInv', [Next]_vars PROVE BInv'
    BY DEF CInv
  <2>1. ASSUME NEW t \in Threads, Call(t) PROVE BInv'
    BY <2>1, BNewChan, BDeref, BRcv, BLend, BSnd, BGroupMade, BWait, BAdd, BRem DEF Call
  <2>2. ASSUME NEW t \in Threads, Resume(t) PROVE BInv'
    BY <2>2, BRcv, BSnd, BWait DEF Resume
  <2>3. CASE UNCHANGED vars
    BY <2>3, BStutter DEF CInv
  <2> QED
    BY <2>1, <2>2, <2>3 DEF Next
<1> QED
  BY <1>1, <1>2, AInvariance, PTL DEF Spec

----------------------------------------------------------------------------
(* For a careful client: the theorems.                                    *)

\* channel.c:74 and 228: no thread that waits in lwt_snd or lwt_cgrp_wait
\* follows the buffer of a channel that was freed, or a group that was, and
\* the scan of a group comes to its end.
THEOREM ChannelNoCrash == ASSUME Careful PROVE Spec => []NoCrash
<1>1. CInv => NoCrash
  BY DEF CInv, BInv
<1> QED
  BY <1>1, CInvariance, PTL

\* channel.c:176-220 and queue.h:359-397: the links of each list are inverse
\* to each other from head to end, and c->cgrp tells the group whose list it
\* is, so that no two lists share a channel.
THEOREM ChannelGroupLinks == ASSUME Careful PROVE Spec => []GroupLinks
<1>1. CInv => GroupLinks
  BY GroupsFacts DEF CInv, BInv
<1> QED
  BY <1>1, CInvariance, PTL

\* channel.c:109-116 counts the threads that wait in lwt_rcv, and
\* channel.c:184-215 the channels that can be reached from the group's head:
\* lwt_cgrp_free gives back no group that still lists one.
THEOREM ChannelCounts == ASSUME Careful PROVE Spec => []CountsExact
<1>1. CInv => CountsExact
  BY GroupsFacts DEF CInv, BInv
<1> QED
  BY <1>1, CInvariance, PTL

\* channel.c:42-44: a channel is freed when nobody else can reach it.
THEOREM ChannelFreedUnshared == ASSUME Careful PROVE Spec => FreedUnshared
<1> DEFINE Kept == \A c \in Chans : c \in live /\ c \notin live' => ~Reached(rcv_thd[c], c)
<1>1. CInv /\ [Next]_vars => [Kept]_vars
  <2> SUFFICES ASSUME CInv, [Next]_vars, NEW c \in Chans, c \in live, c \notin live'
               PROVE  ~Reached(rcv_thd[c], c)
    OBVIOUS
  <2> USE DEF chanVars, groupVars, callVars, userVars, SndLeaves, RcvLeaves
  <2>1. PICK t \in Threads : Call(t) \/ Resume(t)
    BY DEF Next, vars
  <2>2. Deref(t, c)
    BY <2>1 DEF Call, Resume, NewChan, Deref, Rcv, Lend, Snd, SndChan, NewGroup, FreeGroup,
                Wait, Add, Rem, SndResume, RcvResume, WaitResume
  <2>3. rcv_thd[c] = t /\ snd_cnt[c] = 0
    BY <2>2 DEF Deref
  <2>4. HeldBy(c) = {t} /\ SentBy(c) = {} /\ Queued(c) = {} /\ ~Listed(c)
    BY <2>2, <2>3, LastReference
  <2>5. \A d \in live : \A i \in DOMAIN queue[d] : queue[d][i] # c
    <3> SUFFICES ASSUME NEW d \in live, NEW i \in DOMAIN queue[d], queue[d][i] = c PROVE FALSE
      OBVIOUS
    <3>1. d \in Chans /\ i \in Nat
      BY LenProperties DEF CInv, AInv, TypeOK
    <3>2. <<d, i>> \in Queued(c)
      BY <3>1 DEF Queued
    <3> QED
      BY <2>4, <3>2
  <2> QED
    BY <2>3, <2>4, <2>5 DEF Reached, HeldBy, SentBy
<1> QED
  BY <1>1, CInvariance, PTL DEF Spec, FreedUnshared
=============================================================================
