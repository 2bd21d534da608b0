------------------------------- MODULE MCLwt -------------------------------
(* Model checking of Lwt: the .cfg files give the constants a few          *)
(* descriptors (model values) and thread ids.  No symmetry: fresh          *)
(* descriptors are handed out in one order, and LwtCore checks liveness.   *)
EXTENDS Lwt
============================================================================
