-------------------------------- MODULE MCSl --------------------------------
(* Model checking of Sl: three threads, of which c never blocks; c wakes a *)
(* up and a wakes b up.                                                    *)
EXTENDS Sl

CONSTANTS a, b, c

Pair == {<<c, a>>}
Chain == {<<c, a>>, <<a, b>>}
=============================================================================
