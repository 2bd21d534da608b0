------------------------------ MODULE CasRing -------------------------------
(***************************************************************************)
(* One channel of the port, used from several kernel threads: the loops of *)
(* lwt_snd and lwt_rcv (scheddev/channel.c) around the compare-and-swap    *)
(* version of the ring buffer (scheddev/rbuf.c).                           *)
(*                                                                         *)
(* A kernel thread (kthd) is preempted by the timer anywhere, so an action *)
(* is one access to the shared fields head, tail and buf.  The lwts of one *)
(* kthd are not preempted by each other: they change places where they     *)
(* call lwt_yield, in the waiting loops, and nowhere inside rbuf_write and *)
(* rbuf_read.  rbuf_isfull and rbuf_isempty read two fields; each of the   *)
(* two is one action here.                                                 *)
(***************************************************************************)
EXTENDS RingBuffer, FiniteSets

CONSTANTS
    Senders, Receivers,  \* the lwts that call lwt_snd and lwt_rcv
    Kthd,                \* the kernel thread each of them runs on
    Messages,            \* the boxed messages (never NULL, channel.c:76)
    Requested,           \* the size the channel was asked for
    InfiniteCap,         \* INFINITE_CAP (rbuf.h:12)
    NULL

Lwts == Senders \union Receivers

size == rbuf_init(Requested, InfiniteCap)

ASSUME CasRingAssumption ==
    /\ Senders \intersect Receivers = {}
    /\ DOMAIN Kthd = Lwts
    /\ Requested \in Nat
    /\ InfiniteCap \in Nat \ {0}
    /\ NULL \notin Messages

VARIABLES
    buf, head, tail,     \* struct rbuf
    pc,                  \* where each lwt is
    data,                \* a sender's message; what a receiver has read
    cas,                 \* cas_tail of a sender, cas_head of a receiver
    got                  \* what each receiver's last lwt_rcv returned

vars == <<buf, head, tail, pc, data, cas, got>>

Init ==
    /\ buf = [i \in 0..(size - 1) |-> NULL]
    /\ head = 0 /\ tail = 0
    /\ pc = [l \in Lwts |-> "idle"]
    /\ data = [l \in Lwts |-> NULL]
    /\ cas = [l \in Lwts |-> 0]
    /\ got = [l \in Lwts |-> NULL]

Goto(l, from, to) == pc[l] = from /\ pc' = [pc EXCEPT ![l] = to]

\* The call of l returns: its locals are gone.
Return(l) ==
    /\ Goto(l, "swap", "idle")
    /\ data' = [data EXCEPT ![l] = NULL]
    /\ cas' = [cas EXCEPT ![l] = 0]

\* l may leave its waiting loop: no lwt of its kthd is past it.
Current(l) ==
    \A k \in Lwts : Kthd[k] = Kthd[l] /\ k # l => pc[k] \in {"idle", "wait"}

----------------------------------------------------------------------------
(* lwt_snd.                                                               *)

Send(s, m) ==
    /\ Goto(s, "idle", "wait")
    /\ Current(s)
    /\ data' = [data EXCEPT ![s] = m]
    /\ UNCHANGED <<buf, head, tail, cas, got>>

\* Mutant of SendReady: the loop is left at once.
SendAtOnce(s) ==
    /\ Goto(s, "wait", "write")
    /\ Current(s)
    /\ UNCHANGED <<buf, head, tail, data, cas, got>>

\* while (rbuf_isfull(c->rbuf)) lwt_yield(LWT_NULL), the last time.
SendReady(s) ==
    /\ Goto(s, "wait", "write")
    /\ Current(s)
    /\ ~rbuf_isfull(head, tail, size)
    /\ UNCHANGED <<buf, head, tail, data, cas, got>>

\* The test at the start of rbuf_write and of each of its retries; lwt_snd
\* asserts that the answer is never WRITERBUF_FULL.
WriteTest(s) ==
    /\ IF rbuf_isfull(head, tail, size) THEN Goto(s, "write", "failed")
                                        ELSE Goto(s, "write", "tail")
    /\ UNCHANGED <<buf, head, tail, data, cas, got>>

WriteTail(s) ==
    /\ Goto(s, "tail", "store")
    /\ cas' = [cas EXCEPT ![s] = tail]
    /\ UNCHANGED <<buf, head, tail, data, got>>

\* Mutant of WriteStore: the message goes into the slot after cas_tail.
WriteStoreNext(s) ==
    /\ Goto(s, "store", "swap")
    /\ buf' = [buf EXCEPT ![Advance(cas[s], size)] = data[s]]
    /\ UNCHANGED <<head, tail, data, cas, got>>

WriteStore(s) ==
    /\ Goto(s, "store", "swap")
    /\ buf' = [buf EXCEPT ![cas[s]] = data[s]]
    /\ UNCHANGED <<head, tail, data, cas, got>>

WriteSwap(s) ==
    /\ IF tail = cas[s]
       THEN Return(s) /\ tail' = Advance(cas[s], size)
       ELSE Goto(s, "swap", "write") /\ UNCHANGED <<tail, data, cas>>
    /\ UNCHANGED <<buf, head, got>>

----------------------------------------------------------------------------
(* lwt_rcv.                                                               *)

Receive(r) ==
    /\ Goto(r, "idle", "wait")
    /\ Current(r)
    /\ UNCHANGED <<buf, head, tail, data, cas, got>>

\* Mutant of ReceiveReady: the loop is left at once.
ReceiveAtOnce(r) ==
    /\ Goto(r, "wait", "read")
    /\ Current(r)
    /\ UNCHANGED <<buf, head, tail, data, cas, got>>

\* while (rbuf_isempty(c->rbuf)) lwt_yield(LWT_NULL), the last time.
ReceiveReady(r) ==
    /\ Goto(r, "wait", "read")
    /\ Current(r)
    /\ ~rbuf_isempty(head, tail)
    /\ UNCHANGED <<buf, head, tail, data, cas, got>>

\* The test at the start of rbuf_read; lwt_rcv follows the NULL it returns.
ReadTest(r) ==
    /\ IF rbuf_isempty(head, tail) THEN Goto(r, "read", "failed")
                                   ELSE Goto(r, "read", "head")
    /\ UNCHANGED <<buf, head, tail, data, cas, got>>

ReadHead(r) ==
    /\ Goto(r, "head", "fetch")
    /\ cas' = [cas EXCEPT ![r] = head]
    /\ UNCHANGED <<buf, head, tail, data, got>>

ReadFetch(r) ==
    /\ Goto(r, "fetch", "swap")
    /\ data' = [data EXCEPT ![r] = buf[cas[r]]]
    /\ UNCHANGED <<buf, head, tail, cas, got>>

\* Mutant of ReadSwap: head stays where it is.
ReadSwapStays(r) ==
    /\ Return(r)
    /\ got' = [got EXCEPT ![r] = data[r]]
    /\ UNCHANGED <<buf, head, tail>>

ReadSwap(r) ==
    /\ IF head = cas[r]
       THEN /\ Return(r)
            /\ head' = Advance(cas[r], size)
            /\ got' = [got EXCEPT ![r] = data[r]]
       ELSE Goto(r, "swap", "head") /\ UNCHANGED <<head, data, cas, got>>
    /\ UNCHANGED <<buf, tail>>

----------------------------------------------------------------------------
SendStep(s) ==
    SendReady(s) \/ WriteTest(s) \/ WriteTail(s) \/ WriteStore(s) \/ WriteSwap(s)

ReceiveStep(r) ==
    ReceiveReady(r) \/ ReadTest(r) \/ ReadHead(r) \/ ReadFetch(r) \/ ReadSwap(r)

Next ==
    \/ \E s \in Senders : SendStep(s) \/ \E m \in Messages : Send(s, m)
    \/ \E r \in Receivers : ReceiveStep(r) \/ Receive(r)

Spec == Init /\ [][Next]_vars

(***************************************************************************)
(* Fairness: the timer lets every kthd run again and again, and a receiver *)
(* keeps asking.  What is fair is a step that stays possible.              *)
(***************************************************************************)
Fairness ==
    /\ \A s \in Senders : WF_vars(SendStep(s))
    /\ \A r \in Receivers : WF_vars(ReceiveStep(r) \/ Receive(r))

FairSpec == Spec /\ Fairness

----------------------------------------------------------------------------
(* Properties.                                                            *)

\* Every variable has its type.
TypeOK ==
    /\ buf \in [0..(size - 1) -> Messages \union {NULL}]
    /\ head \in 0..(size - 1) /\ tail \in 0..(size - 1)
    /\ pc \in [Lwts -> {"idle", "wait", "write", "tail", "store", "read",
                        "head", "fetch", "swap", "failed"}]
    /\ data \in [Lwts -> Messages \union {NULL}]
    /\ cas \in [Lwts -> 0..(size - 1)]
    /\ got \in [Lwts -> Messages \union {NULL}]

\* scheddev/channel.c:97: after the wait for room, rbuf_write never finds
\* the buffer full.
WriteNeverFull == \A s \in Senders : pc[s] # "failed"

\* scheddev/channel.c:139-140: after the wait for a message, rbuf_read never
\* finds the buffer empty, so lwt_rcv does not follow a NULL.
ReadNeverEmpty == \A r \in Receivers : pc[r] # "failed"

\* The compare-and-swap loops are Mailbox: a message enters the queue once,
\* with the swap of tail in its own lwt_snd, and leaves it once, in order,
\* with the swap of head.
Box == INSTANCE Mailbox WITH
    Chans <- {1},
    Threads <- Lwts,
    Capacity <- [c \in {1} |-> size - 1],
    queue <- [c \in {1} |-> Contents(buf, head, tail, size)],
    sending <- [l \in Lwts |->
                   IF l \in Senders /\ pc[l] # "idle" THEN <<1, data[l]>>
                                                      ELSE <<>>]

MailboxSpec == Box!Spec

\* channel.c:84-86: while an lwt_snd waits, messages go on entering the
\* channel, as long as the receivers keep asking.  (The one that waits may be
\* overtaken for ever by other senders; alone it returns.)
SendProgress ==
    (\E s \in Senders : pc[s] = "wait") ~> (\E s \in Senders : pc[s] = "swap")
=============================================================================
