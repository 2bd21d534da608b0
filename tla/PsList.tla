------------------------------- MODULE PsList -------------------------------
(***************************************************************************)
(* The intrusive lists of ps_list.h as their pointers: ls.n[e] and ls.p[e] *)
(* are the fields n and p of the struct ps_list in e.  A list has no head  *)
(* of its own here: lwt.c links its threads into rings and reaches a ring  *)
(* through any of its members.                                             *)
(***************************************************************************)

ps_list_next(ls, e) == ls.n[e]
ps_list_prev(ls, e) == ls.p[e]

ps_list_init(ls, e) ==
    [n |-> [ls.n EXCEPT ![e] = e], p |-> [ls.p EXCEPT ![e] = e]]

\* Mutant of ps_list_add: the neighbour behind the new element is left alone.
ps_list_add_half(ls, l, new) ==
    [n |-> [ls.n EXCEPT ![new] = ls.n[l], ![l] = new],
     p |-> [ls.p EXCEPT ![new] = l]]

\* The new element goes behind l; what was linked there before is behind it.
ps_list_add(ls, l, new) ==
    LET n == [ls.n EXCEPT ![new] = ls.n[l], ![l] = new]
        p == [ls.p EXCEPT ![new] = l]
    IN  [n |-> n, p |-> [p EXCEPT ![n[new]] = new]]

\* The neighbours of l are linked to each other, and l to itself.
ps_list_rem(ls, l) ==
    LET p == [ls.p EXCEPT ![ls.n[l]] = ls.p[l]]
        n == [ls.n EXCEPT ![p[l]] = ls.n[l]]
    IN  ps_list_init([n |-> n, p |-> p], l)

\* The elements that a walk along n meets which starts at e and goes on until
\* it is there again: the least set with e and the next of each of its own.
Walk(ls, e) ==
    {x \in DOMAIN ls.n : \A S \in SUBSET DOMAIN ls.n :
                            e \in S /\ (\A y \in S : ls.n[y] \in S) => x \in S}

-----------------------------------------------------------------------------

\* The elements of S are linked among each other, and n and p are inverse.
WellLinked(ls, S) ==
    \A e \in S : /\ ls.n[e] \in S /\ ls.p[e] \in S
                 /\ ls.p[ls.n[e]] = e /\ ls.n[ls.p[e]] = e
=============================================================================
