---------------------------- MODULE MCChannel -------------------------------
(* Channel for TLC: sizes for the channels, and the threads are alike but  *)
(* for the first.                                                          *)
EXTENDS Channel, TLC

\* Room for one message in each.
Single == [c \in Chans |-> 1]

Alike ==
    Permutations(Threads \ {First}) \union Permutations(Chans)
        \union Permutations(Groups)
=============================================================================
