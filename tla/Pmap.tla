-------------------------------- MODULE Pmap --------------------------------
(***************************************************************************)
(* The interface of pmap.c as its callers use it (env.c and the checks of  *)
(* pmap.c): a single kernel thread, so a call is one step; user programs   *)
(* and the MMU run between the calls, which is where stale page contents   *)
(* and stale TLB entries come from.                                        *)
(***************************************************************************)
EXTENDS PageInv

CONSTANTS
  Root,   \* the page directories in use (kern_pgdir, env_pgdir)
  Junk    \* what a program may leave in a page, read as a page table

ASSUME RootAssumption == Root \subseteq Page /\ Root # {}
ASSUME JunkAssumption == Junk \subseteq PageContent

VARIABLES
  k,      \* page_free_list, pp_ref and the content of memory
  held,   \* pages a caller got from page_alloc and still has to map or free
  cr3,    \* the page directory loaded in the processor
  tlb,    \* the translations the processor has cached
  ret     \* whether the last call that allocates returned NULL or -E_NO_MEM

vars == <<k, held, cr3, tlb, ret>>

EmptyTlb == [va \in VA |-> NoPte]

TypeOK ==
  /\ k \in Memory
  /\ held \subseteq Page
  /\ cr3 \in Root
  /\ tlb \in [VA -> Pte]
  /\ ret \in {"ok", "nomem"}

\* After page_init: the directories are in use, every other page is free.
Init ==
  /\ k \in [free : {s \in [1..Cardinality(Page \ Root) -> Page \ Root] :
                      \A i, j \in DOMAIN s : s[i] = s[j] => i = j},
            ref : {[p \in Page |-> 0]},
            mem : {[p \in Page |-> ZeroPage]}]
  /\ held = {}
  /\ cr3 \in Root
  /\ tlb = EmptyTlb
  /\ ret = "ok"

DoPageAlloc(zero) ==
  /\ ~OutOfMemory(k)
  /\ k' = PageAlloc(k, zero)
  /\ held' = held \cup {Allocated(k)}
  /\ ret' = "ok"
  /\ UNCHANGED <<cr3, tlb>>

PageAllocFails ==
  /\ OutOfMemory(k)
  /\ ret' = "nomem"
  /\ UNCHANGED <<k, held, cr3, tlb>>

\* pp_ref of a page a caller holds is 0, what page_free asks for.
DoPageFree(p) ==
  /\ p \in held
  /\ k' = PageFree(k, p)
  /\ held' = held \ {p}
  /\ ret' = "ok"
  /\ UNCHANGED <<cr3, tlb>>

(* A caller inserts a page it holds or one that is mapped already; RefMax  *)
(* bounds the mappings of one page.                                        *)
DoPageInsert(d, p, va, perm) ==
  /\ p \in held \cup MappedPages(k, Root)
  /\ k.ref[p] < RefMax
  /\ ~WalkFails(k, d, va[1])
  /\ k' = PageInsert(k, d, p, va, perm)
  /\ held' = held \ {p}
  /\ tlb' = IF PageLookup(k, d, va) = NoPte THEN tlb ELSE [tlb EXCEPT ![va] = NoPte]
  /\ ret' = "ok"
  /\ UNCHANGED cr3

PageInsertFails(d, p, va) ==
  /\ p \in held \cup MappedPages(k, Root)
  /\ WalkFails(k, d, va[1])
  /\ ret' = "nomem"
  /\ UNCHANGED <<k, held, cr3, tlb>>

\* Not what the code does: the TLB entry survives.
WrongDoPageRemove(d, va) ==
  /\ PageLookup(k, d, va) # NoPte
  /\ k' = PageRemove(k, d, va)
  /\ ret' = "ok"
  /\ UNCHANGED <<held, cr3, tlb>>

\* tlb_invalidate flushes va whatever directory is loaded.
DoPageRemove(d, va) ==
  /\ PageLookup(k, d, va) # NoPte
  /\ k' = PageRemove(k, d, va)
  /\ tlb' = [tlb EXCEPT ![va] = NoPte]
  /\ ret' = "ok"
  /\ UNCHANGED <<held, cr3>>

(* What env_free does to a page table whose entries it has page_remove()d, *)
(* in a directory that is not loaded.                                      *)
DropTable(d, x) ==
  /\ d # cr3
  /\ HasTable(k, d, x)
  /\ \A i \in Idx : k.mem[TableOf(k, d, x)][i] = NoPte
  /\ k' = PageDecref(SetEntry(k, d, x, NoPte), TableOf(k, d, x))
  /\ ret' = "ok"
  /\ UNCHANGED <<held, cr3, tlb>>

LoadCr3(d) ==
  /\ cr3' = d
  /\ tlb' = EmptyTlb
  /\ UNCHANGED <<k, held, ret>>

\* The MMU caches the translation of an address some program uses.
Touch(va) ==
  /\ PageLookup(k, cr3, va) # NoPte
  /\ tlb' = [tlb EXCEPT ![va] = PageLookup(k, cr3, va)]
  /\ UNCHANGED <<k, held, cr3, ret>>

\* A program writes a page that is mapped, or the kernel one that it holds.
Scribble(p, c) ==
  /\ p \in held \cup MappedPages(k, Root)
  /\ k' = [k EXCEPT !.mem[p] = c]
  /\ UNCHANGED <<held, cr3, tlb, ret>>

Next ==
  \/ \E zero \in BOOLEAN : DoPageAlloc(zero)
  \/ PageAllocFails
  \/ \E p \in Page : DoPageFree(p)
  \/ \E d \in Root, p \in Page, va \in VA, perm \in Perm : DoPageInsert(d, p, va, perm)
  \/ \E d \in Root, p \in Page, va \in VA : PageInsertFails(d, p, va)
  \/ \E d \in Root, va \in VA : DoPageRemove(d, va)
  \/ \E d \in Root, x \in UIdx : DropTable(d, x)
  \/ \E d \in Root : LoadCr3(d)
  \/ \E va \in VA : Touch(va)
  \/ \E p \in Page, c \in Junk : Scribble(p, c)

Spec == Init /\ [][Next]_vars

----------------------------------------------------------------------------
(* The free list has no page twice and holds exactly the pages that no     *)
(* entry refers to and no caller holds (page_alloc, page_free,             *)
(* page_decref): no page in use is handed out, and none is leaked.         *)
FreeListSound == FreeSound(k, Root, held)

(* pp_ref equals the number of entries that refer to the page, through     *)
(* re-insertion of a page where it is mapped already and through page      *)
(* tables built in pages with old content (page_insert, page_remove,       *)
(* pgdir_walk).                                                            *)
RefCountExact == RefExact(k, Root)

(* A page table belongs to one directory entry, is mapped nowhere, and no  *)
(* entry below UTOP leads to a page directory (pgdir_walk, page_insert).   *)
TablesExclusive == TablesSound(k, Root)

(* A translation the processor has cached is the one the loaded tables     *)
(* give: page_remove and page_insert invalidate what they change.          *)
TLBCoherent == \A va \in VA : tlb[va] # NoPte => tlb[va] = PageLookup(k, cr3, va)

(* The inductive invariant: everything above, and that a held page is not  *)
(* referred to.                                                            *)
IInv == TypeOK /\ Good(k, Root, held) /\ TLBCoherent

----------------------------------------------------------------------------
(* The refinement: read the address spaces off the page tables.            *)

CONSTANT NoPage   \* no page table, in the abstract specification

ASSUME NoPageAssumption == NoPage \notin Page

SpaceOf == [d \in Root |-> [va \in VA |-> PageLookup(k, d, va)]]
TableMap ==
  [d \in Root |-> [x \in UIdx |-> IF HasTable(k, d, x) THEN TableOf(k, d, x) ELSE NoPage]]

Abs == INSTANCE PageMap WITH space <- SpaceOf, table <- TableMap

(* Every call of pmap.c does to the address spaces what PageMap says and   *)
(* nothing else: an insertion or removal changes one address of one        *)
(* directory, and an allocation fails only when every page is in use.      *)
AbsSpec == Abs!Spec
=============================================================================
