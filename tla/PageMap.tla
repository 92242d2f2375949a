------------------------------ MODULE PageMap ------------------------------
(***************************************************************************)
(* What pmap.c promises, without a free list, counts or page contents:     *)
(* address spaces are functions from addresses to mappings, and a page can *)
(* be allocated exactly when no address space, no page table and no caller *)
(* has it.                                                                 *)
(***************************************************************************)
CONSTANTS Page, Idx, UIdx, Perm, NoPte, Root, NoPage

VARIABLES
  space,  \* space[d][va]: what directory d maps va to
  table,  \* table[d][x]: the page that serves as page table x of d
  held,   \* pages allocated and neither mapped nor freed
  ret     \* the outcome of the last allocation

VA == UIdx \X Idx
vars == <<space, table, held, ret>>

Mapped == {p \in Page : \E d \in Root, va \in VA : space[d][va] # NoPte /\ space[d][va].pg = p}
Tables == {table[d][x] : d \in Root, x \in UIdx} \ {NoPage}
Available == Page \ (Root \cup held \cup Mapped \cup Tables)

Init ==
  /\ space = [d \in Root |-> [va \in VA |-> NoPte]]
  /\ table = [d \in Root |-> [x \in UIdx |-> NoPage]]
  /\ held = {}
  /\ ret = "ok"

Alloc(p) ==
  /\ held' = held \cup {p}
  /\ p \in Available
  /\ ret' = "ok"
  /\ UNCHANGED <<space, table>>

AllocFails ==
  /\ ret' = "nomem"
  /\ Available = {}
  /\ UNCHANGED <<space, table, held>>

Free(p) ==
  /\ p \in held
  /\ held' = held \ {p}
  /\ ret' = "ok"
  /\ UNCHANGED <<space, table>>

\* t is the page table the mapping goes through, an available page if it is new.
Map(d, p, va, perm, t) ==
  /\ space'[d][va] = [pg |-> p, perm |-> perm]
  /\ table'[d][va[1]] = t
  /\ p \in held \cup Mapped
  /\ t = table[d][va[1]] \/ (table[d][va[1]] = NoPage /\ t \in Available)
  /\ space' = [space EXCEPT ![d][va] = [pg |-> p, perm |-> perm]]
  /\ table' = [table EXCEPT ![d][va[1]] = t]
  /\ held' = held \ {p}
  /\ ret' = "ok"

MapFails(d, p, va) ==
  /\ ret' = "nomem"
  /\ table[d][va[1]] = NoPage
  /\ p \in held \cup Mapped
  /\ Available = {}
  /\ UNCHANGED <<space, table, held>>

Unmap(d, va) ==
  /\ space[d][va] # NoPte /\ space'[d][va] = NoPte
  /\ space' = [space EXCEPT ![d][va] = NoPte]
  /\ ret' = "ok"
  /\ UNCHANGED <<table, held>>

Drop(d, x) ==
  /\ table[d][x] # NoPage /\ table'[d][x] = NoPage
  /\ \A i \in Idx : space[d][<<x, i>>] = NoPte
  /\ table' = [table EXCEPT ![d][x] = NoPage]
  /\ ret' = "ok"
  /\ UNCHANGED <<space, held>>

Next ==
  \/ \E p \in Page : Alloc(p) \/ Free(p)
  \/ AllocFails
  \/ \E d \in Root, p \in Page, va \in VA :
       \/ MapFails(d, p, va)
       \/ \E perm \in Perm, t \in Page : Map(d, p, va, perm, t)
  \/ \E d \in Root, va \in VA : Unmap(d, va)
  \/ \E d \in Root, x \in UIdx : Drop(d, x)

Spec == Init /\ [][Next]_vars
============================================================================
