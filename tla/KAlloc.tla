------------------------------- MODULE KAlloc -------------------------------
(***************************************************************************)
(* The allocator of kalloc.c: a free list of runs in the order of their    *)
(* addresses, out of which kalloc cuts the first that fits, and into which *)
(* kfree merges what comes back; and malloc, when none fits.               *)
(*                                                                         *)
(* Addresses and lengths count words: all sizes the library asks for are   *)
(* multiples of a word.  A run keeps its own next and len in its first     *)
(* words.  The client gives each block back at most once, with the length  *)
(* it asked for.                                                           *)
(*                                                                         *)
(* The list is modelled as long as it can be read: when kalloc has left a  *)
(* run shorter than its header, the client's next write into the block     *)
(* behind it changes next and len, and no call is modelled any more.       *)
(***************************************************************************)
EXTENDS Integers, Sequences, FiniteSets

CONSTANTS
    PageSize,    \* PAGESIZE; the page starts at address 0
    Header,      \* the words of struct run
    Sizes,       \* the lengths the client asks for
    Mallocs      \* where malloc puts its blocks, far from each other

ASSUME KAllocAssumption ==
    /\ PageSize \in Nat \ {0} /\ Header \in Nat
    /\ Sizes \subseteq 1..PageSize /\ IsFiniteSet(Sizes)
    /\ Mallocs \subseteq Int
    /\ \A a \in Mallocs, n \in Sizes :
          /\ a + n < 0 \/ a > PageSize
          /\ \A b \in Mallocs \ {a} : b > a => a + n < b

VARIABLES
    freelist,    \* the runs, as records [at, len]
    blocks,      \* the blocks the client has
    arena        \* the addresses got so far: the page and from malloc

vars == <<freelist, blocks, arena>>

Runs == {freelist[i] : i \in DOMAIN freelist}

\* CHANGELOG.md:22: the pool is there to "allocate/deallocate memory of any
\* size": no block lies over the next and len of a run.
HeadersIntact == \A r \in Runs : r.len >= Header

Run(a, n) == [at |-> a, len |-> n]
Words(r) == r.at .. (r.at + r.len - 1)
End(r) == r.at + r.len

\* The least index of s that P holds of, or else the one after the last.
First(s, P(_)) ==
    CHOOSE i \in 1..(Len(s) + 1) :
        /\ i <= Len(s) => P(s[i])
        /\ \A j \in 1..(i - 1) : ~P(s[j])

\* s with the elements i..j replaced by those of t.
Splice(s, i, j, t) == SubSeq(s, 1, i - 1) \o t \o SubSeq(s, j + 1, Len(s))

----------------------------------------------------------------------------
(* kfree.                                                                 *)

\* Mutant of Merge: the run after the block is left as it is.
MergeOne(s, i, b) ==
    IF End(b) = s[i].at
    THEN Splice(s, i, i, <<Run(b.at, b.len + s[i].len)>>)
    ELSE Splice(s, i, i, <<Run(s[i].at, s[i].len + b.len)>>)

\* Block b touches run i: b goes before it, or behind it and then perhaps
\* before the next.
Merge(s, i, b) ==
    IF End(b) = s[i].at
    THEN Splice(s, i, i, <<Run(b.at, b.len + s[i].len)>>)
    ELSE IF i < Len(s) /\ s[i + 1].at = End(b)
    THEN Splice(s, i, i + 1, <<Run(s[i].at, s[i].len + b.len + s[i + 1].len)>>)
    ELSE Splice(s, i, i, <<Run(s[i].at, s[i].len + b.len)>>)

\* The loop stops at the first run that b touches or that starts after b.
kfree(s, b) ==
    LET Touches(r) == End(b) = r.at \/ End(r) = b.at
        i == First(s, LAMBDA r : r.at > End(b) \/ Touches(r))
    IN  IF i <= Len(s) /\ Touches(s[i]) THEN Merge(s, i, b)
                                        ELSE Splice(s, i, i - 1, <<b>>)

----------------------------------------------------------------------------
(* kalloc.                                                                *)

\* Mutant of Fit: a run that is just as long does not do.
FitLonger(s, n) == First(s, LAMBDA r : r.len > n)

Fit(s, n) == First(s, LAMBDA r : r.len >= n)

\* Mutant of Cut: the block is taken off the front, and the run stays there.
CutFront(s, i, n) ==
    [ rest |-> IF s[i].len = n THEN Splice(s, i, i, <<>>)
                               ELSE Splice(s, i, i, <<Run(s[i].at, s[i].len - n)>>),
      got |-> Run(s[i].at, n) ]

\* Mutant of Cut: a word is kept apart between the run and the block.
CutSpare(s, i, n) ==
    [ rest |-> IF s[i].len <= n + 1
               THEN Splice(s, i, i, <<>>)
               ELSE Splice(s, i, i, <<Run(s[i].at, s[i].len - n - 1)>>),
      got |-> Run(End(s[i]) - n, n) ]

\* The whole run, or the last n words of it.
Cut(s, i, n) ==
    [ rest |-> IF s[i].len = n THEN Splice(s, i, i, <<>>)
                               ELSE Splice(s, i, i, <<Run(s[i].at, s[i].len - n)>>),
      got |-> Run(End(s[i]) - n, n) ]

\* kinit: the page is given to an empty list.
Init ==
    /\ freelist = kfree(<<>>, Run(0, PageSize))
    /\ blocks = {}
    /\ arena = 0 .. (PageSize - 1)

\* kalloc(n), when a run is long enough.
Alloc(n) ==
    /\ HeadersIntact
    /\ Fit(freelist, n) <= Len(freelist)
    /\ LET c == Cut(freelist, Fit(freelist, n), n) IN
          /\ freelist' = c.rest
          /\ blocks' = blocks \union {c.got}
    /\ UNCHANGED arena

\* kalloc(n), when none is: malloc gives a block somewhere else.
Malloc(n, a) ==
    /\ HeadersIntact
    /\ Fit(freelist, n) > Len(freelist)
    /\ a \in Mallocs \ arena
    /\ blocks' = blocks \union {Run(a, n)}
    /\ arena' = arena \union Words(Run(a, n))
    /\ UNCHANGED freelist

Free(b) ==
    /\ HeadersIntact
    /\ b \in blocks
    /\ freelist' = kfree(freelist, b)
    /\ blocks' = blocks \ {b}
    /\ UNCHANGED arena

Next ==
    \/ \E n \in Sizes : Alloc(n) \/ \E a \in Mallocs : Malloc(n, a)
    \/ \E b \in blocks : Free(b)

Spec == Init /\ [][Next]_vars

----------------------------------------------------------------------------
(* Properties.                                                            *)

\* kalloc.c:28-103: every word of the pool, and of what malloc gave, is in
\* one run of the list or in one block of the client: nothing is lost, and no
\* two blocks share memory.
Conserved ==
    /\ \A r \in Runs \union blocks : r.len > 0 /\ Words(r) \subseteq arena
    /\ \A a \in arena : Cardinality({r \in Runs \union blocks : a \in Words(r)}) = 1
    /\ \A i, j \in DOMAIN freelist : freelist[i] = freelist[j] => i = j

\* kalloc.c:42-64: the runs are in order and no two touch, so that kfree,
\* which stops at the first run after the block, finds every neighbour.
Coalesced ==
    \A i \in 1..(Len(freelist) - 1) : End(freelist[i]) < freelist[i + 1].at

\* kalloc.c:99-100: malloc "shouldn't happen often": it does only when there
\* are not as many free words in a row.
MallocLastResort ==
    [][arena' # arena =>
         LET b == CHOOSE b \in blocks' : b \notin blocks
             held == UNION {Words(c) : c \in blocks}
         IN  \A a \in arena : ~(Words(Run(a, b.len)) \subseteq arena \ held)]_vars

\* kalloc.c:27-103: no sequence of splits and merges leaves a run without
\* room for its header, except one kind of step: a block is cut off a run that
\* is longer by less than a header (kalloc.c:92-95).  A client that never asks
\* for such a length loses nothing.
OnlyShortCuts ==
    [][HeadersIntact =>
         \/ HeadersIntact'
         \/ \E b \in blocks' \ blocks, r \in Runs :
               Words(b) \subseteq Words(r) /\ r.len - b.len \in 1..(Header - 1)]_vars
=============================================================================
