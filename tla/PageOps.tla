------------------------------ MODULE PageOps ------------------------------
(***************************************************************************)
(* The physical page allocator and the two-level page tables of pmap.c, as *)
(* operators on a memory state                                             *)
(*                                                                         *)
(*   k.free  the list page_free_list, head first                           *)
(*   k.ref   pp_ref of every page                                          *)
(*   k.mem   the content of every page, read as a page directory or page   *)
(*           table: one entry per index.  What a page that is no table     *)
(*           holds matters only because page_alloc may hand it out again.  *)
(*                                                                         *)
(* A linear address below UTOP is a pair <<PDX, PTX>> (the offset in the   *)
(* page is left out); the present bit is the difference between NoPte and  *)
(* a mapping.  The entries of a page directory above UTOP are the shared,  *)
(* uncounted mappings of the kernel; the operators never touch them.       *)
(***************************************************************************)
EXTENDS Naturals, Sequences, FiniteSets

CONSTANTS
  Page,       \* physical pages (struct PageInfo)
  Idx,        \* indices of a page directory or page table (NPDENTRIES)
  UIdx,       \* those of a page directory below PDX(UTOP)
  Perm,       \* permission bits of an entry
  TablePerm,  \* PTE_P | PTE_U | PTE_W, what pgdir_walk gives a page table
  NoPte,      \* an entry whose PTE_P is clear
  RefMax      \* largest value of pp_ref

Mapping == [pg : Page, perm : Perm]
Pte == Mapping \cup {NoPte}
VA == UIdx \X Idx
PageContent == [Idx -> Pte]
Memory == [free : Seq(Page), ref : [Page -> 0..RefMax], mem : [Page -> PageContent]]

ASSUME NoPteAssumption == NoPte \notin Mapping
ASSUME UIdxAssumption == UIdx \subseteq Idx
ASSUME PermAssumption == TablePerm \in Perm
ASSUME RefMaxAssumption == RefMax \in Nat \ {0}
ASSUME FiniteAssumption == IsFiniteSet(Page) /\ IsFiniteSet(Idx)

ZeroPage == [i \in Idx |-> NoPte]

----------------------------------------------------------------------------
(* The allocator.                                                          *)

OutOfMemory(k) == k.free = <<>>

(* Operators named Wrong... are what the code must not do; the runs show   *)
(* that the properties notice the difference.                              *)

\* What page_alloc returns; when OutOfMemory it returns NULL and changes nothing.
Allocated(k) == Head(k.free)

\* ALLOC_ZERO is ignored.
WrongPageAlloc(k, zero) == [k EXCEPT !.free = Tail(@)]

PageAlloc(k, zero) ==
  [k EXCEPT !.free = Tail(@),
            !.mem[Allocated(k)] = IF zero THEN ZeroPage ELSE @]

PageFree(k, p) == [k EXCEPT !.free = <<p>> \o @]

Incref(k, p) == [k EXCEPT !.ref[p] = IF @ = RefMax THEN 0 ELSE @ + 1]

Decremented(k, p) == [k EXCEPT !.ref[p] = IF @ = 0 THEN RefMax ELSE @ - 1]

\* The page is not freed with its last reference.
WrongPageDecref(k, p) == Decremented(k, p)

PageDecref(k, p) ==
  IF Decremented(k, p).ref[p] = 0
  THEN PageFree(Decremented(k, p), p)
  ELSE Decremented(k, p)

----------------------------------------------------------------------------
(* Page tables: d is the page directory, x an index of it, va an address.  *)

SetEntry(k, t, i, e) == [k EXCEPT !.mem[t][i] = e]

HasTable(k, d, x) == k.mem[d][x] # NoPte

\* pgdir_walk(d, va, 1) returns NULL.
WalkFails(k, d, x) == ~HasTable(k, d, x) /\ OutOfMemory(k)

\* The new page table is not counted.
WrongWalk(k, d, x) ==
  IF HasTable(k, d, x) \/ OutOfMemory(k)
  THEN k
  ELSE SetEntry(PageAlloc(k, TRUE), d, x, [pg |-> Allocated(k), perm |-> TablePerm])

\* The memory after pgdir_walk(d, va, 1) with PDX(va) = x.
Walk(k, d, x) ==
  IF HasTable(k, d, x) \/ OutOfMemory(k)
  THEN k
  ELSE SetEntry(Incref(PageAlloc(k, TRUE), Allocated(k)),
                d, x, [pg |-> Allocated(k), perm |-> TablePerm])

TableOf(k, d, x) == k.mem[d][x].pg

\* The entry page_lookup finds (pgdir_walk with create = 0).
PageLookup(k, d, va) ==
  IF HasTable(k, d, va[1]) THEN k.mem[TableOf(k, d, va[1])][va[2]] ELSE NoPte

\* The entry is left present.
WrongPageRemove(k, d, va) ==
  IF PageLookup(k, d, va) = NoPte THEN k ELSE PageDecref(k, PageLookup(k, d, va).pg)

PageRemove(k, d, va) ==
  IF PageLookup(k, d, va) = NoPte
  THEN k
  ELSE SetEntry(PageDecref(k, PageLookup(k, d, va).pg),
                TableOf(k, d, va[1]), va[2], NoPte)

\* The old mapping is removed before the count goes up.
WrongPageInsert(k, d, p, va, perm) ==
  IF WalkFails(k, d, va[1])
  THEN k
  ELSE LET kw == Incref(PageRemove(Walk(k, d, va[1]), d, va), p)
       IN  SetEntry(kw, TableOf(kw, d, va[1]), va[2], [pg |-> p, perm |-> perm])

\* page_insert: the count goes up before an old mapping is removed.
PageInsert(k, d, p, va, perm) ==
  IF WalkFails(k, d, va[1])
  THEN k
  ELSE LET kw == PageRemove(Incref(Walk(k, d, va[1]), p), d, va)
       IN  SetEntry(kw, TableOf(kw, d, va[1]), va[2], [pg |-> p, perm |-> perm])
============================================================================
