------------------------------ MODULE PageInv ------------------------------
(***************************************************************************)
(* What must hold of a memory state k between two calls of pmap.c, given   *)
(* the page directories R in use and the pages held by callers: allocated  *)
(* by page_alloc and neither mapped nor freed yet.                         *)
(***************************************************************************)
EXTENDS PageOps

PdeSlots(R) == R \X UIdx

\* The page tables the directories point to.
TablePages(k, R) ==
  {p \in Page : \E d \in R, x \in UIdx : HasTable(k, d, x) /\ TableOf(k, d, x) = p}

\* The entries the MMU may follow below UTOP.
LiveSlots(k, R) == PdeSlots(R) \cup (TablePages(k, R) \X Idx)

SlotRefers(k, s, p) == k.mem[s[1]][s[2]] \in Mapping /\ k.mem[s[1]][s[2]].pg = p

RefSlots(k, R, p) == {s \in LiveSlots(k, R) : SlotRefers(k, s, p)}

\* The pages some address below UTOP is mapped to.
MappedPages(k, R) ==
  {p \in Page : \E s \in TablePages(k, R) \X Idx : SlotRefers(k, s, p)}

FreePages(k) == {k.free[i] : i \in DOMAIN k.free}

----------------------------------------------------------------------------
(* No page is on page_free_list twice (the list would be cyclic), and a    *)
(* page is on it exactly when nothing refers to it and nobody holds it:    *)
(* nothing in use is handed out again and nothing unused is lost.          *)
FreeSound(k, R, held) ==
  /\ \A i, j \in DOMAIN k.free : k.free[i] = k.free[j] => i = j
  /\ \A p \in Page : p \in FreePages(k) <=> k.ref[p] = 0 /\ p \notin R \cup held

\* pp_ref is the number of directory and table entries that refer to the page.
RefExact(k, R) == \A p \in Page \ R : k.ref[p] = Cardinality(RefSlots(k, R, p))

(* A page table is referred to by one directory entry and by nothing else, *)
(* so no address maps it and no two directories share it; no entry refers  *)
(* to a page directory.                                                    *)
TablesSound(k, R) ==
  /\ \A s \in PdeSlots(R) :
       HasTable(k, s[1], s[2]) => RefSlots(k, R, TableOf(k, s[1], s[2])) = {s}
  /\ \A d \in R : RefSlots(k, R, d) = {}

\* A held page has not been given to a page table or a directory.
HeldSound(k, R, held) == \A p \in held : k.ref[p] = 0 /\ p \notin R

Good(k, R, held) ==
  /\ k \in Memory /\ R \subseteq Page /\ held \subseteq Page
  /\ FreeSound(k, R, held)
  /\ RefExact(k, R)
  /\ TablesSound(k, R)
  /\ HeldSound(k, R, held)
============================================================================
