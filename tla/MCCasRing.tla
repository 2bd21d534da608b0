----------------------------- MODULE MCCasRing ------------------------------
(* CasRing for TLC: the lwts are numbers, senders 1 and 2, receivers 3 and *)
(* 4, each pair on a kernel thread of its own.                             *)
EXTENDS CasRing

\* The senders on one kthd, the receivers on another.
ByRole == [l \in Lwts |-> IF l \in Senders THEN 1 ELSE 2]
=============================================================================
