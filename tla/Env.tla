--------------------------------- MODULE Env ---------------------------------
(***************************************************************************)
(* Environments (env.c): the table envs with its free list and ids, and    *)
(* the address space each environment gets from pmap.c.  A caller creates, *)
(* runs and frees environments in any order that env.c allows; env_destroy,*)
(* which never returns to its caller, is left to the kernel as a whole.    *)
(*                                                                         *)
(* The kernel does one thing at a time, but env_create and env_free are    *)
(* loops that may panic half-way, so each of their iterations is a step.   *)
(***************************************************************************)
EXTENDS PageInv

CONSTANTS
  Slot,               \* indices of envs
  NoEnv,              \* a null struct Env pointer
  NoPage,             \* a null env_pgdir
  GenMax,             \* largest generation an env_id has room for
  KernDir,            \* the page of kern_pgdir
  KernTable,          \* the page table it shares with every environment
  UVX,                \* PDX(UVPT)
  UserRead, UserWrite,  \* PTE_U | PTE_P, PTE_U | PTE_W | PTE_P
  Binary,             \* the programs that may be loaded
  StackVA,            \* USTACKTOP - PGSIZE
  Data,               \* what loading a segment leaves in a page
  PageOrder,          \* page_free_list after page_init
  SlotOrder,          \* envs, in order
  MaxPast             \* environments freed, at most (bounds the runs)

(* A binary is [magic, segs]: whether the ELF magic is right, and its      *)
(* program headers [load, fits, pages]: of type ELF_PROG_LOAD or not,      *)
(* p_filesz <= p_memsz or not, and the addresses of its pages in order.    *)
ASSUME EnvAssumption ==
  /\ NoEnv \notin Slot /\ NoPage \notin Page
  /\ {KernDir, KernTable} \subseteq Page /\ KernDir # KernTable
  /\ UVX \in Idx \ UIdx /\ {UserRead, UserWrite} \subseteq Perm
  /\ GenMax \in Nat \ {0} /\ StackVA \in VA /\ Data \in PageContent

Segment == [load : BOOLEAN, fits : BOOLEAN, pages : Seq(VA)]

(* Programs are linked to run below UTOP; the bound on the environments    *)
(* freed is below the number of ids a slot has before they come around.    *)
ASSUME BinaryAssumption == Binary \subseteq [magic : BOOLEAN, segs : Seq(Segment)]
ASSUME PastAssumption == MaxPast \in Nat /\ MaxPast < GenMax

OnceEach(s, S) ==
  /\ s \in Seq(S)
  /\ \A i, j \in DOMAIN s : s[i] = s[j] => i = j
  /\ \A x \in S : \E i \in DOMAIN s : s[i] = x

ASSUME OrderAssumption ==
  OnceEach(PageOrder, Page \ {KernDir, KernTable}) /\ OnceEach(SlotOrder, Slot)

VARIABLES
  k,        \* memory
  envs,     \* env_status, generation of env_id, env_parent_id and env_pgdir of each slot
  envFree,  \* env_free_list
  curenv,
  cr3,
  op,       \* what the kernel is doing: "idle", a stage of env_create or env_free, a panic
  cur,      \* the environment it is doing it to
  segs,     \* load_icode: the program headers from the current one on
  region,   \* region_alloc: the addresses that have no page yet
  lost,     \* history: pages that region_alloc allocated and could not map
  past      \* history: the ids of the environments that were freed

vars == <<k, envs, envFree, curenv, cr3, op, cur, segs, region, lost, past>>

Panics == {"panic_setup", "panic_region", "panic_binary", "panic_fault"}
\* Also over: env_create went on with a struct Env pointer that nobody set.
Stops == Panics \cup {"wild"}

FreeEnvs == {envFree[i] : i \in DOMAIN envFree}
Live == Slot \ FreeEnvs
DirOf(s) == envs[s].pgdir

\* The directories in use; the kernel's page table is a page like them: not counted, not freed.
Dirs == {KernDir, KernTable} \cup {DirOf(s) : s \in Live}

KernMap ==
  [i \in Idx |-> CASE i \in UIdx -> NoPte
                   [] i = UVX -> [pg |-> KernDir, perm |-> UserRead]
                   [] OTHER -> [pg |-> KernTable, perm |-> TablePerm]]

\* env_free_list is built from the first environment to the last.
WrongFreeEnvs == [i \in DOMAIN SlotOrder |-> SlotOrder[Len(SlotOrder) + 1 - i]]

\* Built from the last to the first.
FirstFreeEnvs == SlotOrder

(* After mem_init and env_init.  env_init sets env_id to 0, here           *)
(* generation 0, but leaves env_status as boot_alloc found it: it may be   *)
(* anything.                                                               *)
Init ==
  /\ k = [free |-> PageOrder,
          ref |-> [p \in Page |-> IF p = KernTable THEN 1 ELSE 0],
          mem |-> [p \in Page |-> IF p = KernDir THEN KernMap ELSE ZeroPage]]
  /\ envs \in [Slot -> [status : {"free", "runnable"}, gen : {0}, parent : {<<0, NoEnv>>},
                        pgdir : {NoPage}]]
  /\ envFree = FirstFreeEnvs
  /\ curenv = NoEnv /\ cr3 = KernDir
  /\ op = "idle" /\ cur = NoEnv /\ segs = <<>> /\ region = <<>>
  /\ lost = {} /\ past = {}

----------------------------------------------------------------------------
(* Ids.                                                                    *)

IdOf(s) == <<envs[s].gen, s>>

\* The generation does not change from one environment to the next.
WrongNextGen(g) == IF g = 0 THEN 1 ELSE g

\* Generation after g in env_alloc; past GenMax the id would be negative.
NextGen(g) == IF g = GenMax THEN 1 ELSE g + 1

\* envid2env for an id that is not 0: the slot, or NoEnv for -E_BAD_ENV.
Envid2Env(id, checkperm) ==
  LET e == id[2]
  IN  IF \/ envs[e].status = "free"
         \/ IdOf(e) # id
         \/ checkperm /\ e # curenv /\ envs[e].parent # IdOf(curenv)
      THEN NoEnv
      ELSE e

----------------------------------------------------------------------------
(* env_create.                                                             *)

\* env_setup_vm: the kernel's directory, but UVPT leads to the environment's own.
SetupVm(p) ==
  LET m == Incref(PageAlloc(k, TRUE), p)
  IN  [m EXCEPT !.mem[p] = [k.mem[KernDir] EXCEPT ![UVX] = [pg |-> p, perm |-> UserRead]]]

\* env_create does not look at the -E_NO_FREE_ENV of env_alloc.
EnvAllocFails ==
  /\ op = "idle" /\ envFree = <<>>
  /\ op' = "wild"
  /\ UNCHANGED <<k, envs, envFree, curenv, cr3, cur, segs, region, lost, past>>

\* env_alloc(&new, 0), which env_setup_vm makes panic for want of a page.
EnvAlloc(b) ==
  /\ op = "idle" /\ envFree # <<>>
  /\ IF OutOfMemory(k)
     THEN op' = "panic_setup" /\ UNCHANGED <<k, envs, envFree, cr3, cur, segs>>
     ELSE LET e == Head(envFree)
          IN  /\ k' = SetupVm(Allocated(k))
              /\ envs' = [envs EXCEPT ![e] =
                   [status |-> "runnable", gen |-> NextGen(@.gen), parent |-> <<0, NoEnv>>,
                    pgdir |-> Allocated(k)]]
              /\ envFree' = Tail(envFree)
              /\ cur' = e /\ segs' = b.segs
              /\ IF b.magic
                 THEN op' = "header" /\ cr3' = Allocated(k)
                 ELSE op' = "panic_binary" /\ UNCHANGED cr3
  /\ UNCHANGED <<curenv, region, lost, past>>

\* load_icode looks at the next program header.
Header ==
  /\ op = "header" /\ segs # <<>>
  /\ LET h == Head(segs)
     IN  IF ~h.load
         THEN op' = "copy" /\ UNCHANGED region
         ELSE IF ~h.fits
              THEN op' = "panic_binary" /\ UNCHANGED region
              ELSE op' = "region" /\ region' = h.pages
  /\ UNCHANGED <<k, envs, envFree, curenv, cr3, cur, segs, lost, past>>

\* An iteration of region_alloc, for a segment or the stack: page_insert may fail unnoticed.
RegionPage ==
  /\ op \in {"region", "stack"} /\ region # <<>>
  /\ LET p == Allocated(k)
         m == PageAlloc(k, FALSE)
         va == Head(region)
     IN  IF OutOfMemory(k)
         THEN op' = "panic_region" /\ UNCHANGED <<k, region, lost>>
         ELSE /\ k' = PageInsert(m, DirOf(cur), p, va, UserWrite)
              /\ lost' = IF WalkFails(m, DirOf(cur), va[1]) THEN lost \cup {p} ELSE lost
              /\ region' = Tail(region)
              /\ UNCHANGED op
  /\ UNCHANGED <<envs, envFree, curenv, cr3, cur, segs, past>>

RegionDone ==
  /\ op \in {"region", "stack"} /\ region = <<>>
  /\ op' = IF op = "region" THEN "copy" ELSE "idle"
  /\ UNCHANGED <<k, envs, envFree, curenv, cr3, cur, segs, region, lost, past>>

(* memset and memcpy of the segment, whatever its type: a page fault in    *)
(* the kernel, which panics, where a page is not mapped.                   *)
Copy ==
  /\ op = "copy"
  /\ LET d == DirOf(cur)
         VAs == {Head(segs).pages[i] : i \in DOMAIN Head(segs).pages}
         written == {PageLookup(k, d, va).pg : va \in VAs}
     IN  IF \E va \in VAs : PageLookup(k, d, va) = NoPte
         THEN op' = "panic_fault" /\ UNCHANGED <<k, segs>>
         ELSE /\ k' = [k EXCEPT !.mem = [p \in Page |-> IF p \in written THEN Data ELSE @[p]]]
              /\ segs' = Tail(segs)
              /\ op' = "header"
  /\ UNCHANGED <<envs, envFree, curenv, cr3, cur, region, lost, past>>

\* The last header is done: one page for the stack.
Stack ==
  /\ op = "header" /\ segs = <<>>
  /\ op' = "stack" /\ region' = <<StackVA>> /\ cr3' = KernDir
  /\ UNCHANGED <<k, envs, envFree, curenv, cur, segs, lost, past>>

----------------------------------------------------------------------------
(* env_run and env_free.                                                   *)

\* env_run does not set the status.
WrongRun(e) ==
  /\ curenv' = e /\ cr3' = DirOf(e)
  /\ UNCHANGED <<k, envs, envFree, op, cur, segs, region, lost, past>>

\* env_run; the environment that ran before keeps its status.
Run(e) ==
  /\ envs' = [envs EXCEPT ![e].status = "running"]
  /\ curenv' = e /\ cr3' = DirOf(e)
  /\ UNCHANGED <<k, envFree, op, cur, segs, region, lost, past>>

EnvRun(e) == op = "idle" /\ e \in Live /\ Run(e)

\* The directory stays loaded while it is taken apart.
WrongEnvFree(e) ==
  /\ op = "idle" /\ e \in Live /\ Cardinality(past) < MaxPast
  /\ op' = "free" /\ cur' = e
  /\ UNCHANGED <<k, envs, envFree, curenv, cr3, segs, region, lost, past>>

EnvFree(e) ==
  /\ op = "idle" /\ e \in Live /\ Cardinality(past) < MaxPast
  /\ op' = "free" /\ cur' = e
  /\ cr3' = IF e = curenv THEN KernDir ELSE cr3
  /\ UNCHANGED <<k, envs, envFree, curenv, segs, region, lost, past>>

\* The loops go through the directory and its tables in order; any order will do.
FreeMapping(va) ==
  /\ op = "free" /\ PageLookup(k, DirOf(cur), va) # NoPte
  /\ k' = PageRemove(k, DirOf(cur), va)
  /\ UNCHANGED <<envs, envFree, curenv, cr3, op, cur, segs, region, lost, past>>

Emptied(d, x) == \A i \in Idx : k.mem[TableOf(k, d, x)][i] = NoPte

\* The directory lets go of the page table, which stays counted.
WrongFreeTable(x) ==
  /\ op = "free" /\ HasTable(k, DirOf(cur), x) /\ Emptied(DirOf(cur), x)
  /\ k' = SetEntry(k, DirOf(cur), x, NoPte)
  /\ UNCHANGED <<envs, envFree, curenv, cr3, op, cur, segs, region, lost, past>>

FreeTable(x) ==
  /\ op = "free" /\ HasTable(k, DirOf(cur), x) /\ Emptied(DirOf(cur), x)
  /\ k' = PageDecref(SetEntry(k, DirOf(cur), x, NoPte), TableOf(k, DirOf(cur), x))
  /\ UNCHANGED <<envs, envFree, curenv, cr3, op, cur, segs, region, lost, past>>

\* The slot goes back to env_free_list while its id keeps the generation.
FreeDir ==
  /\ op = "free" /\ \A x \in UIdx : ~HasTable(k, DirOf(cur), x)
  /\ k' = PageDecref(k, DirOf(cur))
  /\ envs' = [envs EXCEPT ![cur].status = "free", ![cur].pgdir = NoPage]
  /\ envFree' = <<cur>> \o envFree
  /\ past' = past \cup {IdOf(cur)}
  /\ op' = "idle"
  /\ UNCHANGED <<curenv, cr3, cur, segs, region, lost>>

\* After a panic: while (1) monitor(NULL).
Monitor == op \in Stops /\ UNCHANGED vars

Next ==
  \/ \E b \in Binary : EnvAlloc(b)
  \/ EnvAllocFails
  \/ Header \/ RegionPage \/ RegionDone \/ Copy \/ Stack
  \/ \E e \in Slot : EnvRun(e) \/ EnvFree(e)
  \/ \E va \in VA : FreeMapping(va)
  \/ \E x \in UIdx : FreeTable(x)
  \/ FreeDir
  \/ Monitor

Spec == Init /\ [][Next]_vars

----------------------------------------------------------------------------
(* Memory is accounted for exactly, in the middle of loading and freeing   *)
(* too: what a freed environment had is free again, and nothing that       *)
(* another one or the kernel uses is (env_setup_vm, region_alloc,          *)
(* env_free).  The pages that region_alloc loses stay allocated.           *)
EnvMemory == Good(k, Dirs, lost)

(* Above UTOP an environment sees what the kernel maps there, and at UVPT  *)
(* its own page tables, not another's (env_setup_vm, env_free).            *)
KernelHalf ==
  \A s \in Live, i \in Idx \ UIdx :
    k.mem[DirOf(s)][i] = IF i = UVX THEN [pg |-> DirOf(s), perm |-> UserRead]
                                    ELSE k.mem[KernDir][i]

\* No page is mapped twice, in one address space or in two (region_alloc).
Isolated == \A p \in MappedPages(k, Dirs) : k.ref[p] = 1

(* The loaded directory is the kernel's or that of an environment that is  *)
(* not being freed (lcr3 in env_free, env_run and load_icode).             *)
LoadedDirUsable ==
  cr3 = KernDir \/ \E s \in Live : cr3 = DirOf(s) /\ ~(op = "free" /\ s = cur)

\* The kernel can run on whatever directory is loaded.
KernelRuns == KernelHalf /\ LoadedDirUsable

(* The id of an environment that was freed never finds the one that uses   *)
(* its slot now, nor does any id find a slot that is free: not even before *)
(* the first use of a slot, when env_status is arbitrary (envid2env,       *)
(* env_alloc).  MaxPast keeps the generations from coming around.          *)
IdsCurrent ==
  \A g \in 1..GenMax, s \in Slot :
    Envid2Env(<<g, s>>, FALSE) = s => s \in Live /\ <<g, s>> \notin past

----------------------------------------------------------------------------
(* The inductive invariant, in parts.                                      *)

EnvType ==
  /\ envs \in [Slot -> [status : {"free", "runnable", "running"}, gen : 0..GenMax,
                        parent : {<<0, NoEnv>>}, pgdir : Page \cup {NoPage}]]
  /\ envFree \in Seq(Slot)
  /\ segs \in Seq(Segment) /\ region \in Seq(VA)
  /\ op \in {"region", "copy"} => segs # <<>>

(* A slot is live or on env_free_list, once; its generation says which of  *)
(* its ids are those of freed environments.                                *)
SlotsSound ==
  /\ \A i, j \in DOMAIN envFree : envFree[i] = envFree[j] => i = j
  /\ \A s \in Live : envs[s].status # "free" /\ envs[s].gen # 0
  /\ \A s \in FreeEnvs : envs[s].status = "free" \/ envs[s].gen = 0
  /\ past = {id \in (1..GenMax) \X Slot :
               IF id[2] \in Live THEN id[1] < envs[id[2]].gen ELSE id[1] <= envs[id[2]].gen}
  /\ IsFiniteSet(past)
  /\ Cardinality(past) <= IF op = "free" THEN MaxPast - 1 ELSE MaxPast

(* Every live environment has a directory of its own, counted once, and    *)
(* the user half of kern_pgdir is empty.                                   *)
DirsSound ==
  /\ \A s \in Live : DirOf(s) \in Page \ {KernDir, KernTable} /\ k.ref[DirOf(s)] = 1
  /\ \A s, t \in Live : DirOf(s) = DirOf(t) => s = t
  /\ \A x \in UIdx : ~HasTable(k, KernDir, x)

\* No two addresses are mapped to one page.
MappedOnce ==
  \A c, d \in Dirs, u, v \in VA :
    /\ PageLookup(k, c, u) # NoPte /\ PageLookup(k, d, v) # NoPte
    /\ PageLookup(k, c, u).pg = PageLookup(k, d, v).pg
    => c = d /\ u = v

\* What is loaded, by what the kernel is doing.
LoadedSound ==
  \/ cr3 = KernDir
  \/ curenv \in Live /\ cr3 = DirOf(curenv) /\ (op = "free" => curenv # cur)
  \/ cur \in Live /\ cr3 = DirOf(cur) /\ op \notin {"idle", "stack", "free"}

EnvInv ==
  /\ EnvType /\ SlotsSound /\ DirsSound /\ EnvMemory /\ KernelHalf /\ MappedOnce /\ LoadedSound
  /\ op \in {"header", "region", "copy", "stack", "free"} => cur \in Live
=============================================================================
