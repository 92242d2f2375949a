------------------------------- MODULE MemInit -------------------------------
(***************************************************************************)
(* mem_init (pmap.c): from the memory the boot loader leaves to the free   *)
(* list and the kernel's page tables, with the checks that run on the way. *)
(*                                                                         *)
(* Pages are numbers: a physical page by its address / PGSIZE, a linear    *)
(* one by n for the address <<n \div NPT, n % NPT>>.                       *)
(***************************************************************************)
EXTENDS PageOps, Integers

CONSTANTS
  NPT,           \* entries of a directory or a table
  IoPage, ExtPage,    \* IOPHYSMEM, EXTPHYSMEM
  KernEnd,       \* the first page after the kernel's image
  StackPage,     \* bootstack
  PagesSize, EnvsSize,   \* pages the arrays pages and envs take
  LowEnd,        \* entry_pgdir maps the pages below
  UENVS, UPAGES, UVPT, ULIM, KSTACK, KERNBASE,   \* PDX of each; KSTACK is PDX(KSTACKTOP - 1)
  Machines       \* pairs <<npages, npages_basemem>>

\* The first page after the kernel, its directory and its arrays.
ArraysEnd == KernEnd + 1 + PagesSize + EnvsSize

\* Of UPAGES, UENVS, the stack and KERNBASE.
TablesNeeded == 3 + NPT - KERNBASE

(* inc/memlayout.h in order; the arrays fit where they are mapped, all     *)
(* physical pages at KERNBASE, the kernel, its arrays and its page tables  *)
(* below what entry_pgdir maps; the machine has its base memory and room   *)
(* for the kernel.                                                         *)
ASSUME LayoutAssumption ==
  /\ NPT \in Nat /\ UENVS \in Nat /\ UPAGES \in Nat /\ UVPT \in Nat
  /\ ULIM \in Nat /\ KSTACK \in Nat /\ KERNBASE \in Nat
  /\ 1 < UENVS /\ UENVS < UPAGES /\ UPAGES < UVPT /\ UVPT < ULIM
  /\ ULIM <= KSTACK /\ KSTACK < KERNBASE /\ KERNBASE < NPT
  /\ Idx = 0..NPT-1 /\ UIdx = 0..UENVS-1
  /\ Page = 0..(NPT - KERNBASE) * NPT - 1
  /\ Perm = SUBSET {"U", "W"} /\ TablePerm = {"U", "W"} /\ RefMax > 1
  /\ IoPage \in Nat /\ ExtPage \in Nat /\ StackPage \in Nat /\ KernEnd \in Nat /\ LowEnd \in Nat
  /\ IoPage < ExtPage /\ ExtPage <= StackPage /\ StackPage < KernEnd
  /\ PagesSize \in 1..NPT /\ EnvsSize \in 1..NPT
  /\ KernEnd + 1 + PagesSize + NPT <= (NPT - KERNBASE) * NPT
  /\ ArraysEnd + TablesNeeded <= LowEnd
  /\ \A m \in Machines : /\ m[1] \in ArraysEnd..(NPT - KERNBASE) * NPT
                         /\ m[2] \in 1..IoPage

VARIABLES
  phys,          \* the memory state of PageOps
  npages, npages_basemem,
  nextfree,      \* of boot_alloc
  kern_pgdir, pages, envs,
  taken,         \* history: the pages boot_alloc handed out
  pos,           \* how far a loop is: page_init, check_page_free_list, boot_map_region
  halves,        \* pp1 and pp2 of check_page_free_list: low pages and others
  region,        \* the boot_map_region under way
  loaded,        \* in cr3: "entry" (entry_pgdir) or "kern"
  pc

machine == <<npages, npages_basemem>>
arrays == <<nextfree, kern_pgdir, pages, envs, taken>>
loop == <<pos, halves, region>>
setupVars == <<phys, machine, arrays, loop, loaded, pc>>

\* A page of the same byte all over, or in its first bytes only, read as a table.
Filled(perm) == [x \in Idx |-> [pg |-> 0, perm |-> perm]]
Started(c, perm) == [c EXCEPT ![0] = [pg |-> 0, perm |-> perm]]

(* What memory and the array pages hold is whatever was there before.      *)
SetupInit ==
  /\ \E m \in Machines : npages = m[1] /\ npages_basemem = m[2]
  /\ \E c \in {ZeroPage, Filled({"U", "W"})}, r \in 0..1 :
       phys = [free |-> <<>>, ref |-> [p \in Page |-> r], mem |-> [p \in Page |-> c]]
  /\ nextfree = KernEnd
  /\ kern_pgdir = 0 /\ pages = 0 /\ envs = 0 /\ taken = {}
  /\ pos = 0 /\ halves = [low |-> <<>>, high |-> <<>>] /\ region = 1
  /\ loaded = "entry" /\ pc = "dir"

----------------------------------------------------------------------------
(* boot_alloc and page_init.                                               *)

BootAlloc(n) ==
  /\ nextfree' = nextfree + n
  /\ taken' = taken \cup nextfree .. nextfree + n - 1

CreateDir ==
  /\ pc = "dir"
  /\ BootAlloc(1) /\ kern_pgdir' = nextfree
  /\ phys' = [phys EXCEPT !.mem[nextfree] =
             [ZeroPage EXCEPT ![UVPT] = [pg |-> nextfree, perm |-> {"U"}]]]
  /\ pc' = "arrays"
  /\ UNCHANGED <<machine, pages, envs, loop, loaded>>

AllocPages ==
  /\ pc = "arrays" /\ pages = 0
  /\ BootAlloc(PagesSize) /\ pages' = nextfree
  /\ UNCHANGED <<phys, machine, kern_pgdir, envs, loop, loaded, pc>>

AllocEnvs ==
  /\ pc = "arrays" /\ pages # 0
  /\ BootAlloc(EnvsSize) /\ envs' = nextfree
  /\ pos' = 1 /\ pc' = "init"
  /\ UNCHANGED <<phys, machine, kern_pgdir, pages, halves, region, loaded>>

\* The array envs is forgotten.
WrongMed == envs

\* The first page after what boot_alloc handed out.
Med == envs + EnvsSize

PageInit ==
  /\ pc = "init"
  /\ IF pos = npages_basemem
     THEN pos' = Med /\ UNCHANGED <<phys, pc>>
     ELSE IF pos >= npages
          THEN pc' = "sort" /\ pos' = 0 /\ UNCHANGED phys
          ELSE /\ phys' = PageFree([phys EXCEPT !.ref[pos] = 0], pos)
               /\ pos' = pos + 1
               /\ UNCHANGED pc
  /\ UNCHANGED <<machine, arrays, halves, region, loaded>>

----------------------------------------------------------------------------
(* The checks of the free list and the allocator: what they leave behind,  *)
(* and a panic if an assertion fails.                                      *)

Listed == {phys.free[n] : n \in DOMAIN phys.free}

FreeListAsserts ==
  /\ \A p \in Listed :
       /\ p < npages /\ p \notin {0, IoPage, ExtPage - 1, ExtPage}
       /\ p < ExtPage \/ p >= nextfree
  /\ \E p \in Listed : p < ExtPage
  /\ \E p \in Listed : p >= ExtPage

IsLow(p) == p < LowEnd

\* Every page goes to the same half.
WrongSortPage ==
  /\ pc = "sort" /\ pos < Len(phys.free)
  /\ halves' = [halves EXCEPT !.low = Append(@, phys.free[pos + 1])]
  /\ pos' = pos + 1
  /\ UNCHANGED <<phys, machine, arrays, region, loaded, pc>>

\* An iteration of the loop that puts low pages first.
SortPage ==
  /\ pc = "sort" /\ pos < Len(phys.free)
  /\ halves' = IF IsLow(phys.free[pos + 1])
               THEN [halves EXCEPT !.low = Append(@, phys.free[pos + 1])]
               ELSE [halves EXCEPT !.high = Append(@, phys.free[pos + 1])]
  /\ pos' = pos + 1
  /\ UNCHANGED <<phys, machine, arrays, region, loaded, pc>>

\* memset(page2kva(pp), 0x97, 128) of every page of S on the list.
Poisoned(m, S) ==
  [m EXCEPT !.mem = [p \in Page |->
     IF p \in S THEN Started(@[p], {"U", "W"}) ELSE @[p]]]

CheckLow ==
  /\ pc = "sort" /\ pos = Len(phys.free)
  /\ phys' = Poisoned([phys EXCEPT !.free = halves.low \o halves.high], {p \in Listed : IsLow(p)})
  /\ pc' = IF FreeListAsserts THEN "alloc" ELSE "panic"
  /\ pos' = 0
  /\ UNCHANGED <<machine, arrays, halves, region, loaded>>

CheckAll ==
  /\ pc = "list"
  /\ phys' = Poisoned(phys, Listed)
  /\ pc' = IF FreeListAsserts THEN "installed" ELSE "panic"
  /\ UNCHANGED <<machine, arrays, loop, loaded>>

Forced(m, d, x, p) == [SetEntry(m, d, x, NoPte) EXCEPT !.ref[p] = 0]

\* The first three pages go through the allocator and come back; the third is cleared.
CheckPageAlloc ==
  /\ pc = "alloc"
  /\ IF Len(phys.free) < 3
     THEN pc' = "panic" /\ UNCHANGED phys
     ELSE /\ LET a == phys.free[1]
                 b == phys.free[2]
                 c == phys.free[3]
                 k1 == PageFree(PageFree(PageFree([phys EXCEPT !.free = <<>>], a), b), c)
                 k2 == PageAlloc(PageAlloc(PageAlloc(k1, FALSE), FALSE), FALSE)
                 k3 == PageAlloc(PageFree([k2 EXCEPT !.mem[c] = Filled({})], c), TRUE)
             IN  /\ phys' = PageFree(PageFree(PageFree([k3 EXCEPT !.free = SubSeq(phys.free, 4, Len(phys.free))],
                                                    c), b), a)
                 /\ pc' = IF k1.free = <<c, b, a>> /\ OutOfMemory(k2) /\ k3.mem[c] = ZeroPage
                          THEN "page" ELSE "panic"
  /\ UNCHANGED <<machine, arrays, loop, loaded>>

(* check_page, on pages a, b and c and nothing else free: the calls it     *)
(* makes, one memory after the other, and what it asserts of them.         *)
PageCalls(k0, d, a, b, c) ==
  LET k1 == PageInsert(PageFree(k0, a), d, b, <<0, 0>>, {"W"})
      k2 == PageInsert(k1, d, c, <<0, 1>>, {"W"})
      k3 == PageInsert(k2, d, c, <<0, 1>>, {"W"})
      k4 == PageInsert(k3, d, c, <<0, 1>>, {"W", "U"})
      k5 == PageInsert(k4, d, c, <<0, 1>>, {"W"})
      k6 == PageInsert(k5, d, b, <<0, 1>>, {"W"})
      k7 == PageRemove(PageAlloc(k6, FALSE), d, <<0, 0>>)
      k8 == PageRemove(k7, d, <<0, 1>>)
      k9 == Walk(PageFree(Forced(PageAlloc(k8, FALSE), d, 0, a), a), d, 1)
      k10 == [Forced(k9, d, 1, a) EXCEPT !.mem[a] = Filled({"U", "W"})]
      k11 == Walk(PageFree(k10, a), d, 0)
      Maps(m, x, p) == PageLookup(m, d, <<0, x>>) # NoPte /\ PageLookup(m, d, <<0, x>>).pg = p
      Allows(m, f) == f \in PageLookup(m, d, <<0, 1>>).perm
  IN  [after |-> Forced(k11, d, 0, a),
       asserts |->
         /\ PageLookup(k0, d, <<0, 0>>) = NoPte /\ WalkFails(k0, d, 0)
         /\ TableOf(k1, d, 0) = a /\ Maps(k1, 0, b) /\ k1.ref[b] = 1 /\ k1.ref[a] = 1
         /\ \A m \in {k2, k3} : Maps(m, 1, c) /\ m.ref[c] = 1 /\ OutOfMemory(m)
         /\ Maps(k4, 1, c) /\ k4.ref[c] = 1 /\ Allows(k4, "U") /\ "U" \in k4.mem[d][0].perm
         /\ Allows(k5, "W") /\ ~Allows(k5, "U") /\ WalkFails(k5, d, 1)
         /\ ~Allows(k6, "U") /\ Maps(k6, 0, b) /\ Maps(k6, 1, b)
         /\ k6.ref[b] = 2 /\ k6.ref[c] = 0 /\ k6.free = <<c>>
         /\ PageLookup(k7, d, <<0, 0>>) = NoPte /\ Maps(k7, 1, b)
         /\ k7.ref[b] = 1 /\ k7.ref[c] = 0
         /\ \A x \in 0..1 : PageLookup(k8, d, <<0, x>>) = NoPte
         /\ k8.ref[b] = 0 /\ k8.ref[c] = 0 /\ k8.free = <<b>>
         /\ TableOf(k8, d, 0) = a /\ k8.ref[a] = 1
         /\ TableOf(k9, d, 1) = a /\ k11.mem[a] = ZeroPage]

CheckPage ==
  /\ pc = "page"
  /\ LET a == phys.free[1]
         b == phys.free[2]
         c == phys.free[3]
         calls == PageCalls([phys EXCEPT !.free = <<>>], kern_pgdir, a, b, c)
         back == [calls.after EXCEPT !.free = SubSeq(phys.free, 4, Len(phys.free))]
     IN  /\ phys' = PageFree(PageFree(PageFree(back, a), b), c)
         /\ pc' = IF calls.asserts THEN "map" ELSE "panic"
  /\ UNCHANGED <<machine, arrays, loop, loaded>>

\* "forcibly take pp0 back"
TakenBack(m, d, a) == PageFree(Forced(m, d, 0, a), a)

\* check_page_installed_pgdir, which writes the pages it maps.
CheckInstalled ==
  /\ pc = "installed"
  /\ IF Len(phys.free) < 3
     THEN pc' = "panic" /\ UNCHANGED phys
     ELSE LET a == phys.free[1]
              b == phys.free[2]
              c == phys.free[3]
              k0 == [phys EXCEPT !.free = <<a>> \o SubSeq(@, 4, Len(@)),
                              !.mem[b] = Filled({}), !.mem[c] = Started(ZeroPage, {"W"})]
              k1 == PageInsert(k0, kern_pgdir, b, <<0, 1>>, {"W"})
              k2 == PageInsert(k1, kern_pgdir, c, <<0, 1>>, {"W"})
              k3 == PageRemove(k2, kern_pgdir, <<0, 1>>)
          IN  /\ phys' = TakenBack(k3, kern_pgdir, a)
              /\ pc' = IF /\ k1.ref[b] = 1 /\ k2.ref[c] = 1 /\ k2.ref[b] = 0 /\ k3.ref[c] = 0
                          /\ TableOf(k3, kern_pgdir, 0) = a /\ k3.ref[a] = 1
                       THEN "done" ELSE "panic"
  /\ UNCHANGED <<machine, arrays, loop, loaded>>

----------------------------------------------------------------------------
(* boot_map_region, four times, and the new page tables.                   *)

\* The array pages can be written.
WrongRegions ==
  <<[va |-> UPAGES * NPT, size |-> NPT, pa |-> pages, perm |-> {"U", "W"}],
    [va |-> UENVS * NPT, size |-> NPT, pa |-> envs, perm |-> {"U"}],
    [va |-> KSTACK * NPT + NPT - 1, size |-> 1, pa |-> StackPage, perm |-> {"W"}],
    [va |-> KERNBASE * NPT, size |-> (NPT - KERNBASE) * NPT, pa |-> 0, perm |-> {"W"}]>>

Regions ==
  <<[va |-> UPAGES * NPT, size |-> NPT, pa |-> pages, perm |-> {"U"}],
    [va |-> UENVS * NPT, size |-> NPT, pa |-> envs, perm |-> {"U"}],
    [va |-> KSTACK * NPT + NPT - 1, size |-> 1, pa |-> StackPage, perm |-> {"W"}],
    [va |-> KERNBASE * NPT, size |-> (NPT - KERNBASE) * NPT, pa |-> 0, perm |-> {"W"}]>>

\* An iteration of boot_map_region: no reference of the page it maps is counted.
MapPage ==
  /\ pc = "map" /\ region \in DOMAIN Regions /\ pos < Regions[region].size
  /\ LET r == Regions[region]
         x == (r.va + pos) \div NPT
         kw == Walk(phys, kern_pgdir, x)
     IN  IF WalkFails(phys, kern_pgdir, x)
         THEN pc' = "panic" /\ UNCHANGED <<phys, pos>>
         ELSE /\ phys' = SetEntry(kw, TableOf(kw, kern_pgdir, x), (r.va + pos) % NPT,
                               [pg |-> r.pa + pos, perm |-> r.perm])
              /\ pos' = pos + 1
              /\ UNCHANGED pc
  /\ UNCHANGED <<machine, arrays, halves, region, loaded>>

RegionMapped ==
  /\ pc = "map" /\ region \in DOMAIN Regions /\ pos = Regions[region].size
  /\ region' = region + 1 /\ pos' = 0
  /\ UNCHANGED <<phys, machine, arrays, halves, loaded, pc>>

At(n) == PageLookup(phys, kern_pgdir, <<n \div NPT, n % NPT>>)
MapsTo(n, p) == At(n) # NoPte /\ At(n).pg = p

KernPgdirAsserts ==
  /\ \A n \in 0..PagesSize-1 : MapsTo(UPAGES * NPT + n, pages + n)
  /\ \A n \in 0..EnvsSize-1 : MapsTo(UENVS * NPT + n, envs + n)
  /\ \A n \in 0..npages-1 : MapsTo(KERNBASE * NPT + n, n)
  /\ MapsTo(KSTACK * NPT + NPT - 1, StackPage) /\ At(KSTACK * NPT) = NoPte
  /\ \A x \in Idx :
       HasTable(phys, kern_pgdir, x) <=> x \in {UVPT, KSTACK, UPAGES, UENVS} \cup KERNBASE..NPT-1
  /\ \A x \in KERNBASE..NPT-1 : "W" \in phys.mem[kern_pgdir][x].perm

\* check_kern_pgdir, then lcr3.
LoadKern ==
  /\ pc = "map" /\ region \notin DOMAIN Regions
  /\ IF KernPgdirAsserts
     THEN loaded' = "kern" /\ pc' = "list"
     ELSE pc' = "panic" /\ UNCHANGED loaded
  /\ UNCHANGED <<phys, machine, arrays, loop>>

Stopped == pc \in {"panic", "done"} /\ UNCHANGED setupVars

SetupNext ==
  \/ CreateDir \/ AllocPages \/ AllocEnvs \/ PageInit
  \/ SortPage \/ CheckLow \/ CheckAll \/ CheckPageAlloc \/ CheckPage \/ CheckInstalled
  \/ MapPage \/ RegionMapped \/ LoadKern
  \/ Stopped

SetupSpec == SetupInit /\ [][SetupNext]_setupVars

----------------------------------------------------------------------------
Tables == {TableOf(phys, kern_pgdir, x) : x \in {y \in Idx \ {UVPT} : HasTable(phys, kern_pgdir, y)}}

\* What is never free: page 0, the I/O hole, the kernel, what boot_alloc handed out.
Reserved ==
  {p \in Page : p = 0 \/ p >= npages \/ (p >= npages_basemem /\ p < KernEnd)} \cup taken

(* Between the steps of mem_init the free list holds each page once that   *)
(* is memory, not in use since the machine started and not a page table of *)
(* kern_pgdir; a page on it has no references (page_init, boot_alloc,      *)
(* boot_map_region).                                                       *)
ListExact ==
  pc \notin {"dir", "arrays", "init", "sort"} =>
    /\ Listed = Page \ (Reserved \cup Tables)
    /\ Len(phys.free) = Cardinality(Listed)
    /\ \A p \in Listed : phys.ref[p] = 0
    /\ \A t \in Tables : phys.ref[t] = 1

(* Before kern_pgdir is loaded only memory that entry_pgdir maps is        *)
(* written (check_page_free_list, pgdir_walk).                             *)
OnlyLow == [][loaded = "entry" => \A p \in Page : phys'.mem[p] # phys.mem[p] => IsLow(p)]_setupVars

UserMay(n, f) == At(n) # NoPte /\ {"U", f} \subseteq At(n).perm \cap phys.mem[kern_pgdir][n \div NPT].perm

(* "From UTOP to ULIM, the user is allowed to read but not write.  Above   *)
(* ULIM the user cannot read or write" (mem_init), at every moment.        *)
Permissions ==
  kern_pgdir # 0 =>
    \A n \in UENVS * NPT .. NPT * NPT - 1 :
      ~UserMay(n, "W") /\ (n >= ULIM * NPT => ~UserMay(n, "U"))

(* The kernel's own checks pass when two pages of base memory can be given *)
(* out and more pages above the kernel than its page tables take           *)
(* (check_page_free_list, check_page_alloc, check_page, check_kern_pgdir,  *)
(* check_page_installed_pgdir).                                            *)
ChecksPass ==
  npages > ArraysEnd + TablesNeeded /\ npages_basemem > 2 => pc # "panic"

(* What env_setup_vm copies: no user address is mapped, UVPT leads to the  *)
(* directory itself and all memory is at KERNBASE (mem_init).              *)
HandsOver ==
  pc = "done" =>
    /\ \A x \in UIdx : ~HasTable(phys, kern_pgdir, x)
    /\ TableOf(phys, kern_pgdir, UVPT) = kern_pgdir
    /\ \A n \in 0..npages-1 : MapsTo(KERNBASE * NPT + n, n)

\* kern_pgdir grants what is documented, on the way and when it is handed over.
DirectoryRight == Permissions /\ HandsOver
=============================================================================
