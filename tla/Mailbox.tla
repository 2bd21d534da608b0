------------------------------ MODULE Mailbox -------------------------------
(***************************************************************************)
(* What channels promise: each is a queue of bounded length; a message     *)
(* that lwt_snd was called with is put into the queue once before lwt_snd  *)
(* returns, and each lwt_rcv that returns takes the oldest one.            *)
(***************************************************************************)
EXTENDS Naturals, Sequences

CONSTANTS
    Chans,      \* the channels
    Threads,    \* the threads
    Messages,   \* what is sent
    Capacity,   \* how many messages each channel holds
    NULL

VARIABLES
    queue,      \* the messages in each channel, oldest first
    sending,    \* <<channel, message>> of each thread inside lwt_snd
    got         \* what each thread's last lwt_rcv returned

vars == <<queue, sending, got>>

Init ==
    /\ queue = [c \in Chans |-> <<>>]
    /\ sending = [t \in Threads |-> <<>>]
    /\ got = [t \in Threads |-> NULL]

\* Thread t calls lwt_snd(c, m).
Offer(t, c, m) ==
    /\ sending[t] = <<>>
    /\ sending' = [sending EXCEPT ![t] = <<c, m>>]
    /\ UNCHANGED <<queue, got>>

\* The message of thread t enters its channel, and lwt_snd returns.
Put(t) ==
    /\ sending[t] # <<>>
    /\ LET c == sending[t][1] IN
          /\ Len(queue[c]) < Capacity[c]
          /\ queue' = [queue EXCEPT ![c] = Append(@, sending[t][2])]
    /\ sending' = [sending EXCEPT ![t] = <<>>]
    /\ UNCHANGED got

\* lwt_snd in one go.
OfferAndPut(t, c, m) ==
    /\ sending[t] = <<>>
    /\ Len(queue[c]) < Capacity[c]
    /\ queue' = [queue EXCEPT ![c] = Append(@, m)]
    /\ UNCHANGED <<sending, got>>

\* Thread t takes the oldest message of c.
Take(t, c) ==
    /\ queue[c] # <<>>
    /\ got' = [got EXCEPT ![t] = Head(queue[c])]
    /\ queue' = [queue EXCEPT ![c] = Tail(@)]
    /\ UNCHANGED sending

Next ==
    \E t \in Threads :
        \/ \E c \in Chans, m \in Messages : Offer(t, c, m)
        \/ Put(t)
        \/ \E c \in Chans, m \in Messages : OfferAndPut(t, c, m)
        \/ \E c \in Chans : Take(t, c)

Spec == Init /\ [][Next]_vars

\* A channel is given up with the messages in it, and another one may be
\* made in its memory.  (Stated first, the stutter is what TLC tries first.)
Discard(c) ==
    /\ queue' = [queue EXCEPT ![c] = <<>>]
    /\ UNCHANGED <<sending, got>>

ClosingSpec ==
    Init /\ [][UNCHANGED vars \/ Next \/ \E c \in Chans : Discard(c)]_vars
=============================================================================
