-------------------------------- MODULE MCEnv --------------------------------
(* Small instances of Env for TLC.                                         *)
EXTENDS Env, TLC

CONSTANTS kd, kt, p1, p2, p3, p4, p5, p6, p7, e1, e2, ur, uw

TwoSlots == {e1, e2}
SlotsInOrder == <<e1, e2>>

Order(n) == SubSeq(<<p1, p2, p3, p4, p5, p6, p7>>, 1, n)
Pages(n) == {kd, kt} \cup {Order(n)[i] : i \in 1..n}
SevenPages == Pages(7)
SevenInOrder == Order(7)

\* Directory indices 0 and 1 are the user's, 2 is UVPT, 3 the kernel.
AllIdx == 0..3
UserIdx == 0..1
Perms == {ur, uw}
Stack1 == <<1, 1>>
\* Taken for a page table, it would map kern_pgdir writable.
DataPage == [i \in Idx |-> [pg |-> kd, perm |-> uw]]

Seg(pages) == [load |-> TRUE, fits |-> TRUE, pages |-> pages]
\* Only a stack; two segments that share a page; headers of other kinds.
Bare == [magic |-> TRUE, segs |-> <<>>]
Shared == [magic |-> TRUE, segs |-> <<Seg(<<<<0, 0>>, <<0, 1>>>>), Seg(<<<<0, 1>>>>)>>]
Note == [magic |-> TRUE, segs |-> <<Seg(<<<<1, 0>>>>),
                                    [load |-> FALSE, fits |-> TRUE, pages |-> <<>>]>>]
Tls == [magic |-> TRUE, segs |-> <<[load |-> FALSE, fits |-> TRUE, pages |-> <<<<0, 0>>>>]>>]
BadSize == [magic |-> TRUE, segs |-> <<[load |-> TRUE, fits |-> FALSE, pages |-> <<>>]>>]
BadMagic == [magic |-> FALSE, segs |-> <<>>]

AllBinaries == {Bare, Shared, Note, Tls, BadSize, BadMagic}
=============================================================================
