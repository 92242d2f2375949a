------------------------------- MODULE MCPmap -------------------------------
(* Small instances of Pmap for TLC.                                        *)
EXTENDS Pmap, TLC

CONSTANTS kd, ed, p1, p2, p3, rw

OnlyPerm == {rw}
TwoIdx == 0..1

\* A page that, read as a page table, maps p1 twice.
JunkContent == {[i \in Idx |-> [pg |-> p1, perm |-> rw]]}

TwoRoots == {kd, ed}
ThreePagesTwoRoots == {kd, ed, p1, p2, p3}

\* p1 is not permuted: the junk maps it.
Sym2 == Permutations({p2, p3})
=============================================================================
