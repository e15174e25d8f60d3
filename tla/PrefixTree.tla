----------------------------- MODULE PrefixTree -----------------------------
(***************************************************************************)
(* What an address plan promises: a block of 2^depth addresses is cut into *)
(* a binary tree of prefixes.  A leaf is the path to it, a sequence of     *)
(* bits, and `tree' gives every leaf its note.                             *)
(***************************************************************************)
EXTENDS Naturals, Sequences

CONSTANTS MaxDepth,    \* the depth of the largest block
          Notes

VARIABLES depth, tree

vars == <<depth, tree>>

Bit == {0, 1}
Paths(d) == UNION {[1..n -> Bit] : n \in 0..d}
Addresses(d) == [1..d -> Bit]

\* The block of path p contains the block, or the address, of path q.
Above(p, q) == Len(p) <= Len(q) /\ \A i \in 1..Len(p) : p[i] = q[i]

\* Every address is in exactly one of the leaves.
Partition(d, leaves) ==
    /\ leaves \subseteq Paths(d)
    /\ \A a \in Addresses(d) : \E p \in leaves : Above(p, a)
    /\ \A p, q \in leaves : Above(p, q) => p = q

Empty == DOMAIN tree = {}

Init == depth = 0 /\ tree = <<>>

\* A plan is created, or read from a file.
Adopt ==
    /\ depth' \in 0..MaxDepth
    /\ tree' \in [DOMAIN tree' -> Notes]
    /\ Partition(depth', DOMAIN tree')

Children(p) == {Append(p, b) : b \in Bit}

Split(p) ==
    /\ p \in DOMAIN tree
    /\ Len(p) < depth
    /\ tree' = [q \in (DOMAIN tree \ {p}) \cup Children(p) |->
                    IF q \in Children(p) THEN tree[p] ELSE tree[q]]
    /\ UNCHANGED depth

Join(p, n) ==
    /\ Children(p) \subseteq DOMAIN tree
    /\ tree' = [q \in (DOMAIN tree \ Children(p)) \cup {p} |->
                    IF q = p THEN n ELSE tree[q]]
    /\ UNCHANGED depth

Annotate(p, n) ==
    /\ p \in DOMAIN tree
    /\ tree' = [tree EXCEPT ![p] = n]
    /\ UNCHANGED depth

\* All leaves are forgotten.
Clear == depth' = 0 /\ tree' = <<>>

Next ==
    \/ Adopt
    \/ Clear
    \/ \E p \in Paths(MaxDepth) :
          Split(p) \/ \E n \in Notes : Join(p, n) \/ Annotate(p, n)

Spec == Init /\ [][Next]_vars

-----------------------------------------------------------------------------
TreeTypeOK ==
    /\ depth \in 0..MaxDepth
    /\ tree \in [DOMAIN tree -> Notes]

\* Whatever the commands, the leaves of a plan cover every address of its block
\* once: splits and joins in any order leave no gap and no overlap.
TreeOK == ~Empty => Partition(depth, DOMAIN tree)
=============================================================================
