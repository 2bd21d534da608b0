----------------------------- MODULE RingBuffer -----------------------------
(***************************************************************************)
(* The data structure of rbuf.c: a circular buffer with one slot more than *)
(* its capacity, so that full and empty can be told apart by head and      *)
(* tail.  The fields are passed as parameters: rbuf.c keeps them in struct *)
(* rbuf, and size is the field capacity of that struct, which counts the   *)
(* extra slot.                                                             *)
(***************************************************************************)
EXTENDS Naturals, Sequences

\* rb->capacity after rbuf_init(n): 0 asks for an "infinite" buffer.
rbuf_init(n, InfiniteCap) == IF n = 0 THEN InfiniteCap + 1 ELSE n + 1

rbuf_isempty(head, tail) == head = tail

rbuf_isfull(head, tail, size) == (tail + 1) % size = head

rbuf_size(head, tail, size) == (tail + size - head) % size

\* Mutant of Advance: the index runs on past the end of buf.
AdvanceOn(i, size) == i + 1

\* Where an index of the ring goes next.
Advance(i, size) == (i + 1) % size

\* The elements from head to tail, oldest first.
Contents(buf, head, tail, size) ==
    [i \in 1..rbuf_size(head, tail, size) |-> buf[(head + i - 1) % size]]
=============================================================================
