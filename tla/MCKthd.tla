------------------------------- MODULE MCKthd -------------------------------
(* Model checking of Kthd: two kthds; the channels c, made by cos_init, carries *)
(* lwts to B, and d, made by the first lwt of A, which carries data to A.   *)
EXTENDS Kthd

CONSTANTS A, B, c, d

Sizes == [x \in Chan |-> 1]
Takers == [x \in Chan |-> IF x = c THEN B ELSE A]
=============================================================================
