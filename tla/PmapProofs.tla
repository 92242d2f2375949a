----------------------------- MODULE PmapProofs -----------------------------
(***************************************************************************)
(* Every call of pmap.c, whatever the program and the MMU do in between,   *)
(* keeps the free list, the reference counts, the page tables and the TLB  *)
(* consistent: for any number of pages and page directories, any size of   *)
(* the tables and any content of reused pages.                             *)
(*                                                                         *)
(* PageInvProofs shows that each call keeps Good and how it changes the    *)
(* translations; here this becomes an invariant of the specification.      *)
(*                                                                         *)
(* The second half is mem_init, which runs before any of these calls is    *)
(* made from outside: SetupInv, its inductive invariant, and what follows  *)
(* from it for every machine and every layout that LayoutAssumption        *)
(* allows.  Nothing in the first half uses LayoutAssumption.               *)
(***************************************************************************)
EXTENDS Pmap, MemInit, PageInvProofs, SequenceTheorems

USE UIdxAssumption

----------------------------------------------------------------------------
(* The initial states.                                                     *)

\* page_init threads every page that is no directory on the free list.
LEMMA FullList ==
  ASSUME NEW S, IsFiniteSet(S), NEW s \in [1..Cardinality(S) -> S],
         \A i, j \in DOMAIN s : s[i] = s[j] => i = j
  PROVE  s \in Seq(S) /\ \A p \in S : \E i \in DOMAIN s : s[i] = p
<1>1. Cardinality(S) \in Nat
  BY FS_CardinalityType
<1>2. s \in Seq(S)
  BY <1>1
<1>3. s \in Injection(1..Cardinality(S), S)
  BY DEF Injection, IsInjective
<1>4. Cardinality(1..Cardinality(S)) = Cardinality(S)
  BY <1>1, FS_Interval
<1>5. s \in Surjection(1..Cardinality(S), S)
  BY <1>3, <1>4, FS_Injection
<1>6. \A p \in S : \E i \in 1..Cardinality(S) : s[i] = p
  BY <1>5 DEF Surjection
<1> QED
  BY <1>2, <1>6

LEMMA InitGood == Init => IInv
<1> SUFFICES ASSUME Init PROVE IInv
  OBVIOUS
<1> DEFINE S == Page \ Root
<1>1. IsFiniteSet(S) /\ Root \in SUBSET Page
  BY FiniteAssumption, RootAssumption, FS_Subset
<1>2. /\ k.free \in [1..Cardinality(S) -> S]
      /\ Once(k)
      /\ k.ref = [p \in Page |-> 0] /\ k.mem = [p \in Page |-> ZeroPage]
      /\ k = [free |-> k.free, ref |-> k.ref, mem |-> k.mem]
  BY DEF Init, Once
<1>3. k.free \in Seq(S) /\ \A p \in S : \E i \in DOMAIN k.free : k.free[i] = p
  BY <1>1, <1>2, FullList DEF Once
<1>4. FreePages(k) = S
  BY <1>2, <1>3 DEF FreePages
<1>5. k \in Memory
  <2>1. k.free \in Seq(Page)
    BY <1>3
  <2>2. ZeroPage \in PageContent
    BY PteFacts DEF ZeroPage, PageContent
  <2>3. k.ref \in [Page -> 0..RefMax] /\ k.mem \in [Page -> PageContent]
    BY <1>2, <2>2, RefMaxAssumption
  <2> QED
    BY <1>2, <2>1, <2>3 DEF Memory
<1>6. \A p \in Page, i \in Idx : k.mem[p][i] = NoPte
  BY <1>2 DEF ZeroPage
<1>7. \A d \in Root, x \in UIdx : ~HasTable(k, d, x)
  BY <1>1, <1>6 DEF HasTable
<1>8. \A q : RefSlots(k, Root, q) = {}
  <2>1. \A q : \A s \in LiveSlots(k, Root) : ~SlotRefers(k, s, q)
    BY <1>1, <1>5, <1>6, SlotsType, NoPteAssumption DEF SlotRefers
  <2> QED
    BY <2>1 DEF RefSlots
<1>9. \A p \in Page : k.ref[p] = 0
  BY <1>2
<1>10. Good(k, Root, {})
  <2>1. \A p \in Page : p \in FreePages(k) <=> k.ref[p] = 0 /\ p \notin Root \cup {}
    BY <1>4, <1>9
  <2>2. \A p \in Page \ Root : k.ref[p] = Cardinality(RefSlots(k, Root, p))
    BY <1>8, <1>9, FS_EmptySet
  <2> QED
    BY <1>1, <1>2, <1>5, <1>7, <1>8, <2>1, <2>2, GoodWhole
<1>11. TypeOK
  BY <1>5, PteFacts DEF Init, TypeOK, EmptyTlb
<1>12. TLBCoherent
  BY DEF Init, TLBCoherent, EmptyTlb
<1> QED
  BY <1>10, <1>11, <1>12 DEF Init, IInv

----------------------------------------------------------------------------
(* The steps.                                                              *)

\* A call that changes no translation leaves the TLB coherent.
LEMMA SameCoherent ==
  ASSUME IInv, SameLookup(k, k', Root), UNCHANGED <<cr3, tlb>>
  PROVE  TLBCoherent'
BY DEF IInv, TypeOK, TLBCoherent, SameLookup

\* The types follow from Good, except for what it does not speak of.
LEMMA GoodType ==
  ASSUME Good(k', Root, held'), cr3' \in Root, tlb' \in [VA -> Pte], ret' \in {"ok", "nomem"}
  PROVE  TypeOK'
BY GoodParts DEF TypeOK

LEMMA InvParts ==
  ASSUME IInv
  PROVE  /\ Good(k, Root, held) /\ TLBCoherent
         /\ cr3 \in Root /\ tlb \in [VA -> Pte] /\ ret \in {"ok", "nomem"}
BY DEF IInv, TypeOK

LEMMA StepAlloc ==
  ASSUME IInv, NEW zero \in BOOLEAN, DoPageAlloc(zero)
  PROVE  IInv'
<1>1. Good(k, Root, held) /\ ~OutOfMemory(k)
  BY InvParts DEF DoPageAlloc
<1>2. /\ k' = PageAlloc(k, zero) /\ held' = held \cup {Allocated(k)} /\ ret' = "ok"
      /\ UNCHANGED <<cr3, tlb>>
  BY DEF DoPageAlloc
<1>3. Good(k', Root, held')
  <2>1. /\ Good(PageAlloc(k, zero), Root, held \cup {Allocated(k)})
        /\ Allocated(k) \in Page \ held
        /\ TablePages(PageAlloc(k, zero), Root) = TablePages(k, Root)
        /\ \A t \in Page \ {Allocated(k)} : PageAlloc(k, zero).mem[t] = k.mem[t]
        /\ Allocated(k) \notin Root \cup TablePages(k, Root)
    BY <1>1, GoodAlloc
  <2> QED
    BY <1>2, <2>1
<1>4. SameLookup(k, k', Root)
  BY <1>1, <1>2, LookupAlloc
<1> QED
  BY <1>2, <1>3, <1>4, InvParts, GoodType, SameCoherent DEF IInv

LEMMA StepFree ==
  ASSUME IInv, NEW p \in Page, DoPageFree(p)
  PROVE  IInv'
<1>1. Good(k, Root, held) /\ p \in held
  BY InvParts DEF DoPageFree
<1>2. /\ k' = PageFree(k, p) /\ held' = held \ {p} /\ ret' = "ok" /\ UNCHANGED <<cr3, tlb>>
  BY DEF DoPageFree
<1>3. Good(k', Root, held')
  BY <1>1, <1>2, GoodFree
<1>4. SameLookup(k, k', Root)
  BY <1>1, <1>2, LookupFree
<1> QED
  BY <1>2, <1>3, <1>4, InvParts, GoodType, SameCoherent DEF IInv

(* The TLB entry of va is flushed when there was a mapping to flush; when  *)
(* there was none, coherence says that there is no TLB entry either.       *)
LEMMA StepInsert ==
  ASSUME IInv, NEW d \in Root, NEW p \in Page, NEW va \in VA, NEW perm \in Perm,
         DoPageInsert(d, p, va, perm)
  PROVE  IInv'
<1> DEFINE e == [pg |-> p, perm |-> perm]
<1>1. /\ Good(k, Root, held) /\ TLBCoherent /\ cr3 \in Root /\ tlb \in [VA -> Pte]
  BY InvParts
<1>2. /\ p \in held \cup MappedPages(k, Root) /\ k.ref[p] < RefMax
      /\ ~WalkFails(k, d, va[1])
      /\ k' = PageInsert(k, d, p, va, perm) /\ held' = held \ {p} /\ ret' = "ok"
      /\ tlb' = (IF PageLookup(k, d, va) = NoPte THEN tlb ELSE [tlb EXCEPT ![va] = NoPte])
      /\ cr3' = cr3
  BY DEF DoPageInsert
<1>3. /\ Good(PageInsert(k, d, p, va, perm), Root, held \ {p})
      /\ LookupChanged(k, PageInsert(k, d, p, va, perm), Root, d, va, [pg |-> p, perm |-> perm])
  BY <1>1, <1>2, GoodInsert
<1>4. Good(k', Root, held') /\ LookupChanged(k, k', Root, d, va, e)
  BY <1>2, <1>3
<1> HIDE DEF e
<1>5. tlb' \in [VA -> Pte]
  BY <1>1, <1>2, PteFacts
<1>6. ASSUME NEW v \in VA, tlb'[v] # NoPte
      PROVE  tlb'[v] = PageLookup(k', cr3', v)
  <2>1. tlb'[v] = tlb[v] /\ tlb[v] = PageLookup(k, cr3, v)
    BY <1>1, <1>2, <1>6 DEF TLBCoherent
  <2>2. ~(cr3 = d /\ v = va)
    BY <1>1, <1>2, <1>6, <2>1
  <2>3. PageLookup(k', cr3, v) = PageLookup(k, cr3, v)
    BY <1>1, <1>4, <2>2 DEF LookupChanged
  <2> QED
    BY <1>2, <2>1, <2>3
<1>7. TLBCoherent'
  BY <1>6 DEF TLBCoherent
<1> QED
  BY <1>1, <1>2, <1>4, <1>5, <1>7, GoodType DEF IInv

LEMMA StepRemove ==
  ASSUME IInv, NEW d \in Root, NEW va \in VA, DoPageRemove(d, va)
  PROVE  IInv'
<1>1. /\ Good(k, Root, held) /\ TLBCoherent /\ cr3 \in Root /\ tlb \in [VA -> Pte]
  BY InvParts
<1>2. /\ PageLookup(k, d, va) # NoPte /\ k' = PageRemove(k, d, va)
      /\ tlb' = [tlb EXCEPT ![va] = NoPte] /\ ret' = "ok" /\ UNCHANGED <<held, cr3>>
  BY DEF DoPageRemove
<1>3. Good(k', Root, held')
  BY <1>1, <1>2, GoodRemove
<1>4. LookupChanged(k, k', Root, d, va, NoPte)
  BY <1>1, <1>2, LookupRemove
<1>5. tlb' \in [VA -> Pte]
  BY <1>1, <1>2, PteFacts
<1>6. ASSUME NEW v \in VA, tlb'[v] # NoPte
      PROVE  tlb'[v] = PageLookup(k', cr3', v)
  <2>1. v # va /\ tlb'[v] = tlb[v] /\ tlb[v] = PageLookup(k, cr3, v)
    BY <1>1, <1>2, <1>6 DEF TLBCoherent
  <2> QED
    BY <1>1, <1>2, <1>4, <2>1 DEF LookupChanged
<1>7. TLBCoherent'
  BY <1>6 DEF TLBCoherent
<1> QED
  BY <1>1, <1>2, <1>3, <1>5, <1>7, GoodType DEF IInv

LEMMA StepDrop ==
  ASSUME IInv, NEW d \in Root, NEW x \in UIdx, DropTable(d, x)
  PROVE  IInv'
<1>1. /\ Good(k, Root, held) /\ HasTable(k, d, x)
      /\ \A i \in Idx : k.mem[TableOf(k, d, x)][i] = NoPte
  BY InvParts DEF DropTable
<1>2. /\ k' = PageDecref(SetEntry(k, d, x, NoPte), TableOf(k, d, x))
      /\ ret' = "ok" /\ UNCHANGED <<held, cr3, tlb>>
  BY DEF DropTable
<1>3. Good(k', Root, held) /\ k'.mem = [k.mem EXCEPT ![d][x] = NoPte]
  BY <1>1, <1>2, GoodDrop
<1>4. SameLookup(k, k', Root)
  BY <1>1, <1>3, LookupDrop
<1> QED
  BY <1>2, <1>3, <1>4, InvParts, GoodType, SameCoherent DEF IInv

LEMMA StepScribble ==
  ASSUME IInv, NEW p \in Page, NEW c \in Junk, Scribble(p, c)
  PROVE  IInv'
<1>1. Good(k, Root, held) /\ p \in held \cup MappedPages(k, Root) /\ c \in PageContent
  BY InvParts, JunkAssumption DEF Scribble
<1>2. k' = [k EXCEPT !.mem[p] = c] /\ UNCHANGED <<held, cr3, tlb, ret>>
  BY DEF Scribble
<1>3. Good(k', Root, held')
  <2> DEFINE m == [k EXCEPT !.mem[p] = c]
  <2>1. /\ Good(m, Root, held)
        /\ \A t \in Root \cup TablePages(k, Root) : m.mem[t] = k.mem[t]
        /\ TablePages(m, Root) = TablePages(k, Root)
    BY <1>1, GoodScribble
  <2> HIDE DEF m
  <2> QED
    BY <1>2, <2>1 DEF m
<1>4. SameLookup(k, k', Root)
  BY <1>1, <1>2, LookupScribble
<1> QED
  BY <1>2, <1>3, <1>4, InvParts, GoodType, SameCoherent DEF IInv

\* The steps that change neither memory nor what is held.
LEMMA StepOther ==
  ASSUME IInv, UNCHANGED <<k, held>>, cr3' \in Root, tlb' \in [VA -> Pte],
         ret' \in {"ok", "nomem"}, TLBCoherent'
  PROVE  IInv'
<1>1. Good(k', Root, held')
  BY InvParts
<1> QED
  BY <1>1, GoodType DEF IInv

LEMMA NextKeeps == IInv /\ [Next]_vars => IInv'
<1> SUFFICES ASSUME IInv, [Next]_vars PROVE IInv'
  OBVIOUS
<1>1. cr3 \in Root /\ tlb \in [VA -> Pte] /\ ret \in {"ok", "nomem"} /\ TLBCoherent
  BY InvParts
<1>2. CASE \E zero \in BOOLEAN : DoPageAlloc(zero)
  BY <1>2, StepAlloc
<1>3. CASE PageAllocFails
  BY <1>1, <1>3, StepOther DEF PageAllocFails, TLBCoherent
<1>4. CASE \E p \in Page : DoPageFree(p)
  BY <1>4, StepFree
<1>5. CASE \E d \in Root, p \in Page, va \in VA, perm \in Perm : DoPageInsert(d, p, va, perm)
  BY <1>5, StepInsert
<1>6. CASE \E d \in Root, p \in Page, va \in VA : PageInsertFails(d, p, va)
  BY <1>1, <1>6, StepOther DEF PageInsertFails, TLBCoherent
<1>7. CASE \E d \in Root, va \in VA : DoPageRemove(d, va)
  BY <1>7, StepRemove
<1>8. CASE \E d \in Root, x \in UIdx : DropTable(d, x)
  BY <1>8, StepDrop
<1>9. CASE \E d \in Root : LoadCr3(d)
  <2>1. tlb' = EmptyTlb /\ cr3' \in Root /\ UNCHANGED <<k, held, ret>>
    BY <1>9 DEF LoadCr3
  <2>2. tlb' \in [VA -> Pte] /\ TLBCoherent'
    BY <2>1, PteFacts DEF EmptyTlb, TLBCoherent
  <2> QED
    BY <1>1, <2>1, <2>2, StepOther
<1>10. CASE \E va \in VA : Touch(va)
  <2>1. PICK va \in VA : Touch(va)
    BY <1>10
  <2>2. /\ PageLookup(k, cr3, va) # NoPte
        /\ tlb' = [tlb EXCEPT ![va] = PageLookup(k, cr3, va)]
        /\ UNCHANGED <<k, held, cr3, ret>>
    BY <2>1 DEF Touch
  <2>3. PageLookup(k, cr3, va) \in Pte
    <3>1. HasTable(k, cr3, va[1])
      BY <2>2 DEF PageLookup
    <3>2. /\ va[1] \in UIdx /\ va[2] \in Idx
          /\ TableOf(k, cr3, va[1]) \in TablePages(k, Root)
          /\ PageLookup(k, cr3, va) = k.mem[TableOf(k, cr3, va[1])][va[2]]
      BY <1>1, <3>1, InvParts, WalkedSlot
    <3> QED
      BY <3>2, InvParts, GoodParts, TablesType, EntryType
  <2>4. tlb' \in [VA -> Pte] /\ TLBCoherent'
    BY <1>1, <2>2, <2>3 DEF TLBCoherent
  <2> QED
    BY <1>1, <2>2, <2>4, StepOther
<1>11. CASE \E p \in Page, c \in Junk : Scribble(p, c)
  BY <1>11, StepScribble
<1>12. CASE UNCHANGED vars
  BY <1>1, <1>12, StepOther DEF vars, TLBCoherent
<1> QED
  BY <1>2, <1>3, <1>4, <1>5, <1>6, <1>7, <1>8, <1>9, <1>10, <1>11, <1>12 DEF Next

----------------------------------------------------------------------------
(* Everything pmap.c relies on between two calls holds in every reachable  *)
(* state (the inductive invariant).                                        *)
THEOREM Invariance == Spec => []IInv
<1>1. Init => IInv
  BY InitGood
<1>2. IInv /\ [Next]_vars => IInv'
  BY NextKeeps
<1> QED
  BY <1>1, <1>2, PTL DEF Spec

\* The variables of Pmap keep their types; no count leaves 0..RefMax.
THEOREM Typing == Spec => []TypeOK
<1>1. IInv => TypeOK
  BY DEF IInv
<1> QED
  BY <1>1, Invariance, PTL

(* page_free_list is free of cycles and holds exactly the pages that are   *)
(* not in use: page_alloc never hands a page out twice and none is leaked. *)
THEOREM FreeListCorrect == Spec => []FreeListSound
<1>1. IInv => FreeListSound
  BY DEF IInv, Good, FreeListSound
<1> QED
  BY <1>1, Invariance, PTL

\* pp_ref counts the entries that refer to a page.
THEOREM RefCountCorrect == Spec => []RefCountExact
<1>1. IInv => RefCountExact
  BY DEF IInv, Good, RefCountExact
<1> QED
  BY <1>1, Invariance, PTL

\* A page table has one directory entry as its owner and is mapped nowhere.
THEOREM TablesCorrect == Spec => []TablesExclusive
<1>1. IInv => TablesExclusive
  BY DEF IInv, Good, TablesExclusive
<1> QED
  BY <1>1, Invariance, PTL

\* The processor never uses a translation that the tables no longer contain.
THEOREM TLBCorrect == Spec => []TLBCoherent
<1>1. IInv => TLBCoherent
  BY DEF IInv
<1> QED
  BY <1>1, Invariance, PTL

----------------------------------------------------------------------------
(* Pmap implements PageMap: the address spaces and page tables read off    *)
(* memory change as PageMap says.                                          *)

(* PageMap counts a page as available exactly when it is on the free list; *)
(* its sets of mapped pages and of page tables are those of PageInv.       *)
LEMMA AbsView ==
  ASSUME IInv
  PROVE  /\ Abs!Mapped = MappedPages(k, Root)
         /\ Abs!Tables = TablePages(k, Root)
         /\ Abs!Available = FreePages(k)
<1>1. Good(k, Root, held) /\ k \in Memory /\ Root \in SUBSET Page
  BY InvParts, GoodParts
<1>2. Abs!Mapped = MappedPages(k, Root)
  <2>1. MappedPages(k, Root) \subseteq Page
    BY DEF MappedPages
  <2>2. \A p : p \in MappedPages(k, Root)
              <=> \E d \in Root, va \in VA :
                    PageLookup(k, d, va) # NoPte /\ PageLookup(k, d, va).pg = p
    BY <1>1, MappedChar
  <2>3. \A d \in Root, va \in VA : SpaceOf[d][va] = PageLookup(k, d, va)
    BY DEF SpaceOf
  <2> QED
    BY <2>1, <2>2, <2>3 DEF Abs!Mapped, Abs!VA, VA
<1>3. Abs!Tables = TablePages(k, Root)
  <2>1. \A d \in Root, x \in UIdx :
          TableMap[d][x] = IF HasTable(k, d, x) THEN TableOf(k, d, x) ELSE NoPage
    BY DEF TableMap
  <2>2. \A d \in Root, x \in UIdx : HasTable(k, d, x) => TableOf(k, d, x) \in Page
    BY <1>1, EntryType, PteFacts DEF HasTable, TableOf
  <2> QED
    BY <2>1, <2>2, NoPageAssumption DEF Abs!Tables, TablePages
<1> QED
  BY <1>1, <1>2, <1>3, FreeChar DEF Abs!Available

LEMMA SameSpace ==
  ASSUME SameLookup(k, k', Root)
  PROVE  SpaceOf' = SpaceOf
BY DEF SameLookup, SpaceOf

LEMMA SameTableMap ==
  ASSUME SameDirs(k, k', Root)
  PROVE  TableMap' = TableMap
BY DEF SameDirs, TableMap, HasTable, TableOf

\* A function of two arguments that differs from another at one point.
LEMMA OnePoint ==
  ASSUME NEW S, NEW T, NEW f, NEW g, NEW d \in S, NEW x \in T, NEW e,
         f = [c \in S |-> [y \in T |-> f[c][y]]],
         g = [c \in S |-> [y \in T |-> g[c][y]]],
         \A c \in S, y \in T : g[c][y] = IF c = d /\ y = x THEN e ELSE f[c][y]
  PROVE  g = [f EXCEPT ![d][x] = e] /\ g[d][x] = e
OBVIOUS

LEMMA ChangedSpace ==
  ASSUME NEW d \in Root, NEW va \in VA, NEW e, LookupChanged(k, k', Root, d, va, e)
  PROVE  SpaceOf' = [SpaceOf EXCEPT ![d][va] = e] /\ SpaceOf'[d][va] = e
<1>1. \A c \in Root, v \in VA :
        PageLookup(k', c, v) = IF c = d /\ v = va THEN e ELSE PageLookup(k, c, v)
  BY DEF LookupChanged
<1> QED
  BY <1>1 DEF SpaceOf

\* One page table changes: entry x of directory d becomes e.
LEMMA ChangedTable ==
  ASSUME NEW d \in Root, NEW x \in UIdx,
         \A c \in Root, y \in UIdx : ~(c = d /\ y = x) => k'.mem[c][y] = k.mem[c][y],
         NEW t, t = IF HasTable(k', d, x) THEN TableOf(k', d, x) ELSE NoPage
  PROVE  TableMap' = [TableMap EXCEPT ![d][x] = t] /\ TableMap'[d][x] = t
<1>1. /\ TableMap = [c \in Root |-> [y \in UIdx |-> TableMap[c][y]]]
      /\ TableMap' = [c \in Root |-> [y \in UIdx |-> TableMap'[c][y]]]
  BY DEF TableMap
<1>2. \A c \in Root, y \in UIdx :
        TableMap'[c][y] = IF c = d /\ y = x THEN t ELSE TableMap[c][y]
  BY DEF TableMap, HasTable, TableOf
<1> QED
  BY <1>1, <1>2, OnePoint

\* Memory that keeps its directories and translations is no step of PageMap.
LEMMA AbsStutter ==
  ASSUME SameLookup(k, k', Root), SameDirs(k, k', Root), UNCHANGED <<held, ret>>
  PROVE  UNCHANGED Abs!vars
BY SameSpace, SameTableMap DEF Abs!vars

LEMMA AbsAlloc ==
  ASSUME IInv, NEW zero \in BOOLEAN, DoPageAlloc(zero)
  PROVE  \E p \in Page : Abs!Alloc(p)
<1> DEFINE h == Allocated(k)
<1>1. /\ Good(k, Root, held) /\ ~OutOfMemory(k) /\ k \in Memory
      /\ k' = PageAlloc(k, zero) /\ held' = held \cup {h} /\ ret' = "ok"
  BY InvParts, GoodParts DEF DoPageAlloc
<1>2. SpaceOf' = SpaceOf
  BY <1>1, LookupAlloc, SameSpace
<1>3. /\ h \in Page /\ h \notin Root
      /\ \A t \in Page \ {h} : k'.mem[t] = k.mem[t]
  BY <1>1, GoodAlloc
<1>4. h \in FreePages(k)
  BY <1>1, GoodParts DEF Memory, OutOfMemory, Allocated, FreePages
<1> HIDE DEF h
<1>5. TableMap' = TableMap
  BY <1>3, RootAssumption, SameTableMap DEF SameDirs
<1> QED
  BY <1>1, <1>2, <1>3, <1>4, <1>5, AbsView DEF Abs!Alloc

LEMMA AbsFree ==
  ASSUME IInv, NEW p \in Page, DoPageFree(p)
  PROVE  Abs!Free(p)
<1>1. /\ Good(k, Root, held) /\ p \in held /\ k \in Memory
      /\ k' = PageFree(k, p) /\ held' = held \ {p} /\ ret' = "ok"
  BY InvParts, GoodParts DEF DoPageFree
<1>2. SpaceOf' = SpaceOf
  BY <1>1, LookupFree, SameSpace
<1>3. TableMap' = TableMap
  BY <1>1, FreeFields, SameTableMap DEF SameDirs
<1> QED
  BY <1>1, <1>2, <1>3 DEF Abs!Free

\* An empty free list is what PageMap calls no page available.
LEMMA AbsExhausted ==
  ASSUME IInv, OutOfMemory(k)
  PROVE  Abs!Available = {}
<1>1. FreePages(k) = {}
  BY DEF OutOfMemory, FreePages
<1> QED
  BY <1>1, AbsView

LEMMA AbsInsert ==
  ASSUME IInv, NEW d \in Root, NEW p \in Page, NEW va \in VA, NEW perm \in Perm,
         DoPageInsert(d, p, va, perm)
  PROVE  \E t \in Page : Abs!Map(d, p, va, perm, t)
<1> DEFINE x == va[1]
           kw == Walk(k, d, x)
           e == [pg |-> p, perm |-> perm]
           t == TableOf(kw, d, x)
<1>1. /\ Good(k, Root, held) /\ x \in UIdx
      /\ p \in held \cup MappedPages(k, Root) /\ k.ref[p] < RefMax
      /\ ~WalkFails(k, d, va[1])
      /\ k' = PageInsert(k, d, p, va, perm) /\ held' = held \ {p} /\ ret' = "ok"
  BY InvParts DEF DoPageInsert, VA
<1>2. LookupChanged(k, k', Root, d, va, e) /\ SameDirs(kw, k', Root)
  BY <1>1, GoodInsert
<1>3. Good(kw, Root, held) /\ HasTable(kw, d, x)
  BY <1>1, GoodWalk
<1>4. /\ \A c \in Root, y \in UIdx : ~(c = d /\ y = x) => kw.mem[c][y] = k.mem[c][y]
      /\ HasTable(k, d, x) => kw = k
      /\ ~HasTable(k, d, x) => t \in FreePages(k)
  BY <1>1, WalkDirs
<1> HIDE DEF kw, e, x
<1>5. t \in Page
  BY <1>1, <1>3, GoodParts, EntryType, PteFacts, RootAssumption DEF HasTable, TableOf
<1>6. SpaceOf' = [SpaceOf EXCEPT ![d][va] = e] /\ SpaceOf'[d][va] = e
  BY <1>2, ChangedSpace
<1>7. TableMap' = [TableMap EXCEPT ![d][x] = t] /\ TableMap'[d][x] = t
  <2>1. HasTable(k', d, x) /\ TableOf(k', d, x) = t
    BY <1>1, <1>2, <1>3 DEF SameDirs, HasTable, TableOf
  <2>2. \A c \in Root, y \in UIdx : ~(c = d /\ y = x) => k'.mem[c][y] = k.mem[c][y]
    BY <1>2, <1>4 DEF SameDirs
  <2> HIDE DEF t
  <2> QED
    BY <1>1, <2>1, <2>2, ChangedTable
<1>8. t = TableMap[d][x] \/ (TableMap[d][x] = NoPage /\ t \in Abs!Available)
  BY <1>1, <1>4, AbsView DEF TableMap
<1>9. p \in held \cup Abs!Mapped
  BY <1>1, AbsView
<1> HIDE DEF t
<1> QED
  BY <1>1, <1>5, <1>6, <1>7, <1>8, <1>9 DEF Abs!Map, e, x

LEMMA AbsInsertFails ==
  ASSUME IInv, NEW d \in Root, NEW p \in Page, NEW va \in VA, PageInsertFails(d, p, va)
  PROVE  Abs!MapFails(d, p, va)
<1>1. /\ p \in held \cup MappedPages(k, Root) /\ ~HasTable(k, d, va[1]) /\ OutOfMemory(k)
      /\ ret' = "nomem" /\ UNCHANGED <<k, held>> /\ va[1] \in UIdx
  BY DEF PageInsertFails, WalkFails, VA
<1>2. UNCHANGED <<SpaceOf, TableMap>>
  BY <1>1 DEF SpaceOf, TableMap
<1>3. TableMap[d][va[1]] = NoPage
  BY <1>1 DEF TableMap
<1> QED
  BY <1>1, <1>2, <1>3, AbsView, AbsExhausted DEF Abs!MapFails

LEMMA AbsRemove ==
  ASSUME IInv, NEW d \in Root, NEW va \in VA, DoPageRemove(d, va)
  PROVE  Abs!Unmap(d, va)
<1>1. /\ Good(k, Root, held) /\ PageLookup(k, d, va) # NoPte
      /\ k' = PageRemove(k, d, va) /\ ret' = "ok" /\ UNCHANGED held
  BY InvParts DEF DoPageRemove
<1>2. SpaceOf' = [SpaceOf EXCEPT ![d][va] = NoPte] /\ SpaceOf'[d][va] = NoPte
  BY <1>1, LookupRemove, ChangedSpace
<1>3. TableMap' = TableMap
  BY <1>1, DirsRemove, SameTableMap
<1>4. SpaceOf[d][va] # NoPte
  BY <1>1 DEF SpaceOf
<1> QED
  BY <1>1, <1>2, <1>3, <1>4 DEF Abs!Unmap

LEMMA AbsDrop ==
  ASSUME IInv, NEW d \in Root, NEW x \in UIdx, DropTable(d, x)
  PROVE  Abs!Drop(d, x)
<1>1. /\ Good(k, Root, held) /\ HasTable(k, d, x) /\ k.mem \in [Page -> PageContent]
      /\ \A i \in Idx : k.mem[TableOf(k, d, x)][i] = NoPte
      /\ k' = PageDecref(SetEntry(k, d, x, NoPte), TableOf(k, d, x))
      /\ ret' = "ok" /\ UNCHANGED held
  BY InvParts, GoodParts DEF DropTable
<1>2. k'.mem = [k.mem EXCEPT ![d][x] = NoPte]
  BY <1>1, GoodDrop
<1>3. SpaceOf' = SpaceOf
  BY <1>1, <1>2, LookupDrop, SameSpace
<1>4. \A c \in Root, y \in UIdx :
        k'.mem[c][y] = IF c = d /\ y = x THEN NoPte ELSE k.mem[c][y]
  BY <1>1, <1>2, RootAssumption DEF PageContent
<1>5. ~HasTable(k', d, x)
  BY <1>4 DEF HasTable
<1>6. TableMap' = [TableMap EXCEPT ![d][x] = NoPage] /\ TableMap'[d][x] = NoPage
  BY <1>4, <1>5, ChangedTable
<1>7. TableMap[d][x] # NoPage
  BY <1>1, GoodParts, EntryType, PteFacts, RootAssumption, NoPageAssumption
  DEF TableMap, HasTable, TableOf
<1>8. \A i \in Idx : SpaceOf[d][<<x, i>>] = NoPte
  BY <1>1 DEF SpaceOf, VA, PageLookup
<1> QED
  BY <1>1, <1>3, <1>6, <1>7, <1>8 DEF Abs!Drop

LEMMA AbsScribble ==
  ASSUME IInv, NEW p \in Page, NEW c \in Junk, Scribble(p, c)
  PROVE  UNCHANGED Abs!vars
<1>1. /\ Good(k, Root, held) /\ p \in held \cup MappedPages(k, Root) /\ c \in PageContent
      /\ k' = [k EXCEPT !.mem[p] = c] /\ UNCHANGED <<held, ret>>
  BY InvParts, JunkAssumption DEF Scribble
<1>2. SameLookup(k, k', Root)
  BY <1>1, LookupScribble
<1>3. SameDirs(k, k', Root)
  <2> DEFINE m == [k EXCEPT !.mem[p] = c]
  <2>1. /\ Good(m, Root, held)
        /\ \A t \in Root \cup TablePages(k, Root) : m.mem[t] = k.mem[t]
        /\ TablePages(m, Root) = TablePages(k, Root)
    BY <1>1, GoodScribble
  <2> HIDE DEF m
  <2> QED
    BY <1>1, <2>1 DEF SameDirs, m
<1> QED
  BY <1>1, <1>2, <1>3, AbsStutter

\* The steps that leave memory alone.
LEMMA AbsOther ==
  ASSUME UNCHANGED <<k, held, ret>>
  PROVE  UNCHANGED Abs!vars
BY DEF Abs!vars, SpaceOf, TableMap

\* The initial address spaces are empty.
LEMMA AbsInit == Init => Abs!Init
<1> SUFFICES ASSUME Init PROVE Abs!Init
  OBVIOUS
<1>1. \A d \in Root, x \in UIdx : ~HasTable(k, d, x)
  BY RootAssumption DEF Init, HasTable, ZeroPage
<1>2. SpaceOf = [d \in Root |-> [va \in VA |-> NoPte]]
  BY <1>1 DEF SpaceOf, PageLookup, VA
<1>3. TableMap = [d \in Root |-> [x \in UIdx |-> NoPage]]
  BY <1>1 DEF TableMap
<1> QED
  BY <1>2, <1>3 DEF Init, Abs!Init, Abs!VA, VA

LEMMA AbsNext == IInv /\ [Next]_vars => [Abs!Next]_(Abs!vars)
<1> SUFFICES ASSUME IInv, [Next]_vars PROVE Abs!Next \/ UNCHANGED Abs!vars
  OBVIOUS
<1>1. CASE \E zero \in BOOLEAN : DoPageAlloc(zero)
  BY <1>1, AbsAlloc DEF Abs!Next
<1>2. CASE PageAllocFails
  <2>1. OutOfMemory(k) /\ ret' = "nomem" /\ UNCHANGED <<k, held>>
    BY <1>2 DEF PageAllocFails
  <2>2. UNCHANGED <<SpaceOf, TableMap>>
    BY <2>1 DEF SpaceOf, TableMap
  <2>3. Abs!AllocFails
    BY <2>1, <2>2, AbsExhausted DEF Abs!AllocFails
  <2> QED
    BY <2>3 DEF Abs!Next
<1>3. CASE \E p \in Page : DoPageFree(p)
  BY <1>3, AbsFree DEF Abs!Next
<1>4. CASE \E d \in Root, p \in Page, va \in VA, perm \in Perm : DoPageInsert(d, p, va, perm)
  <2>1. PICK d \in Root, p \in Page, va \in VA, perm \in Perm : DoPageInsert(d, p, va, perm)
    BY <1>4
  <2>2. \E t \in Page : Abs!Map(d, p, va, perm, t)
    BY <2>1, AbsInsert
  <2> QED
    BY <2>2 DEF Abs!Next, Abs!VA, VA
<1>5. CASE \E d \in Root, p \in Page, va \in VA : PageInsertFails(d, p, va)
  <2>1. PICK d \in Root, p \in Page, va \in VA : PageInsertFails(d, p, va)
    BY <1>5
  <2>2. Abs!MapFails(d, p, va)
    BY <2>1, AbsInsertFails
  <2> QED
    BY <2>2 DEF Abs!Next, Abs!VA, VA
<1>6. CASE \E d \in Root, va \in VA : DoPageRemove(d, va)
  <2>1. PICK d \in Root, va \in VA : DoPageRemove(d, va)
    BY <1>6
  <2>2. Abs!Unmap(d, va)
    BY <2>1, AbsRemove
  <2> QED
    BY <2>2 DEF Abs!Next, Abs!VA, VA
<1>7. CASE \E d \in Root, x \in UIdx : DropTable(d, x)
  BY <1>7, AbsDrop DEF Abs!Next
<1>8. CASE \E d \in Root : LoadCr3(d)
  BY <1>8, AbsOther DEF LoadCr3
<1>9. CASE \E va \in VA : Touch(va)
  BY <1>9, AbsOther DEF Touch
<1>10. CASE \E p \in Page, c \in Junk : Scribble(p, c)
  BY <1>10, AbsScribble
<1>11. CASE UNCHANGED vars
  BY <1>11, AbsOther DEF vars
<1> QED
  BY <1>1, <1>2, <1>3, <1>4, <1>5, <1>6, <1>7, <1>8, <1>9, <1>10, <1>11 DEF Next

(* Whatever sequence of calls pmap.c serves, its callers see address       *)
(* spaces that change one address at a time, an allocation that fails only *)
(* when every page is in use, and never a page that is in use handed out.  *)
THEOREM Implementation == Spec => AbsSpec
<1>1. Init => Abs!Init
  BY AbsInit
<1>2. IInv /\ [Next]_vars => [Abs!Next]_(Abs!vars)
  BY AbsNext
<1> QED
  BY <1>1, <1>2, Invariance, PTL DEF Spec, AbsSpec, Abs!Spec

----------------------------------------------------------------------------
(* mem_init.                                                               *)

Early == {"dir", "arrays", "init", "sort"}

\* The pages boot_map_region maps in each of its four calls, and has mapped.
Frames == (NPT - KERNBASE) * NPT

Sizes == <<NPT, NPT, 1, Frames>>

Done ==
  [r \in 1..4 |-> IF pc \in Early \/ r > region THEN 0
                  ELSE IF r < region THEN Sizes[r] ELSE pos]

\* Of the tables at KERNBASE.
Rows(n) == (n \div NPT) + (IF n % NPT = 0 THEN 0 ELSE 1)

\* The kernel's page tables there are when dn pages of each region are mapped.
Begun(dn, x) ==
  \/ x = UPAGES /\ dn[1] > 0
  \/ x = UENVS /\ dn[2] > 0
  \/ x = KSTACK /\ dn[3] > 0
  \/ x >= KERNBASE /\ x - KERNBASE < Rows(dn[4])

One(n) == IF n > 0 THEN 1 ELSE 0
Count(dn) == One(dn[1]) + One(dn[2]) + One(dn[3]) + Rows(dn[4])

AtBase(n, x, j) ==
  IF x >= KERNBASE /\ (x - KERNBASE) * NPT + j < n
  THEN [pg |-> (x - KERNBASE) * NPT + j, perm |-> {"W"}] ELSE NoPte

\* Entry j of the table for directory entry x.
Entry(dn, x, j) ==
  IF x = UPAGES /\ j < dn[1] THEN [pg |-> KernEnd + 1 + j, perm |-> {"U"}]
  ELSE IF x = UENVS /\ j < dn[2] THEN [pg |-> KernEnd + 1 + PagesSize + j, perm |-> {"U"}]
  ELSE IF x = KSTACK /\ j = NPT - 1 /\ dn[3] > 0 THEN [pg |-> StackPage, perm |-> {"W"}]
  ELSE AtBase(dn[4], x, j)

Usable == (1..npages_basemem-1) \cup (ArraysEnd..npages-1)
Ample == npages > ArraysEnd + TablesNeeded

\* A page above the kernel that is no page table when memory is Ample.
Spare == IF npages > LowEnd THEN npages - 1 ELSE ArraysEnd

\* The pages the kernel's tables are made of.
ForTables == IF Ample THEN (ArraysEnd..LowEnd-1) \ {Spare} ELSE 0..LowEnd-1

TableAt(m, dn, x) ==
  /\ m.mem[KernEnd][x] \in Mapping
  /\ m.mem[KernEnd][x].perm = TablePerm
  /\ m.mem[KernEnd][x].pg \in Usable \cap ForTables
  /\ m.ref[m.mem[KernEnd][x].pg] = 1
  /\ \A j \in Idx : m.mem[m.mem[KernEnd][x].pg][j] = Entry(dn, x, j)

DirHas(m, dn) ==
  /\ m.mem[KernEnd][UVPT] = [pg |-> KernEnd, perm |-> {"U"}]
  /\ \A x \in Idx : Begun(dn, x) => TableAt(m, dn, x)
  /\ \A x \in Idx : x # UVPT /\ ~Begun(dn, x) => m.mem[KernEnd][x] = NoPte
  /\ \A x, y \in Idx :
       Begun(dn, x) /\ Begun(dn, y) /\ m.mem[KernEnd][x].pg = m.mem[KernEnd][y].pg => x = y

IsTable(m, dn, p) == \E x \in Idx : Begun(dn, x) /\ m.mem[KernEnd][x].pg = p

ListHas(m, dn) ==
  /\ Once(m)
  /\ \A p \in Page : p \in FreePages(m) <=> p \in Usable /\ ~IsTable(m, dn, p)
  /\ \A p \in FreePages(m) : m.ref[p] = 0
  /\ Len(m.free) + Count(dn) = (npages - ArraysEnd) + (npages_basemem - 1)
  /\ \A x \in DOMAIN m.free : x + Count(dn) <= TablesNeeded => m.free[x] \in ForTables

\* The list of page_init when base pages below e and the others below u are on it.
FreedList(e, u) ==
  [x \in 1..(u - ArraysEnd) + (e - 1) |->
     IF x <= u - ArraysEnd THEN u - x ELSE e - (x - (u - ArraysEnd))]

Highs == IF npages > LowEnd THEN npages - LowEnd ELSE 0

Booted ==
  /\ kern_pgdir = KernEnd /\ pages = KernEnd + 1 /\ envs = KernEnd + 1 + PagesSize
  /\ nextfree = ArraysEnd /\ taken = KernEnd..ArraysEnd-1

InDir ==
  /\ nextfree = KernEnd /\ kern_pgdir = 0 /\ pages = 0 /\ envs = 0 /\ taken = {}
  /\ phys.free = <<>>

InArrays ==
  /\ kern_pgdir = KernEnd /\ envs = 0
  /\ \/ pages = 0 /\ nextfree = KernEnd + 1
     \/ pages = KernEnd + 1 /\ nextfree = KernEnd + 1 + PagesSize
  /\ taken = KernEnd..nextfree-1
  /\ phys.free = <<>>

InInit ==
  /\ \/ pos \in 1..npages_basemem /\ phys.free = FreedList(pos, ArraysEnd)
     \/ pos \in ArraysEnd..npages /\ phys.free = FreedList(npages_basemem, pos)
  /\ \A p \in FreePages(phys) : phys.ref[p] = 0

InSort ==
  /\ phys.free = FreedList(npages_basemem, npages)
  /\ pos \in 0..Len(phys.free)
  /\ halves.high = [x \in 1..(IF pos <= Highs THEN pos ELSE Highs) |-> npages - x]
  /\ halves.low = [x \in 1..(IF pos <= Highs THEN 0 ELSE pos - Highs) |-> phys.free[x + Highs]]
  /\ \A p \in FreePages(phys) : phys.ref[p] = 0

LaterPlaces ==
  /\ region \in 1..5
  /\ pos \in 0..(IF region = 5 THEN 0 ELSE Sizes[region])
  /\ pc \in {"alloc", "page"} => region = 1 /\ pos = 0
  /\ pc \in {"list", "installed", "done"} => region = 5
  /\ pc = "page" => Len(phys.free) >= 3
  /\ Ample /\ npages_basemem > 2 => pc # "panic"

Machine == npages \in ArraysEnd..Frames /\ npages_basemem \in 1..IoPage

\* The inductive invariant of mem_init.
SetupInv ==
  /\ Machine
  /\ phys \in Memory
  /\ pc \in Early \cup {"alloc", "page", "map", "list", "installed", "done", "panic"}
  /\ loaded \in {"entry", "kern"}
  /\ loaded = "kern" => pc \in {"list", "installed", "done", "panic"}
  /\ pc \in {"list", "installed", "done"} => loaded = "kern"
  /\ pc \in Early => region = 1 /\ halves \in [low : Seq(Page), high : Seq(Page)]
  /\ pc \in {"dir", "arrays", "init"} => halves = [low |-> <<>>, high |-> <<>>]
  /\ pc # "dir" => DirHas(phys, Done)
  /\ pc = "dir" => InDir
  /\ pc = "arrays" => InArrays
  /\ pc \notin {"dir", "arrays"} => Booted
  /\ pc = "init" => InInit
  /\ pc = "sort" => InSort
  /\ pc \notin Early => ListHas(phys, Done) /\ LaterPlaces

----------------------------------------------------------------------------
(* Numbers.                                                                *)

\* A row of n entries ends where the next begins.
LEMMA RowMultiple ==
  ASSUME NEW n \in Nat \ {0}, NEW p \in Nat, NEW q \in Nat, p < q
  PROVE  p * n + n <= q * n
OBVIOUS

\* A page number is its row and its place in the row.
LEMMA RowSplit ==
  ASSUME NEW n \in Nat \ {0}, NEW a \in Nat
  PROVE  a = (a \div n) * n + (a % n) /\ a % n \in 0..n-1 /\ a \div n \in Nat
OBVIOUS

\* Rows and columns are compared row first.
LEMMA RowOrder ==
  ASSUME NEW n \in Nat \ {0}, NEW p \in Nat, NEW q \in Nat, NEW j \in 0..n-1, NEW o \in 0..n-1
  PROVE  /\ p * n + j < q * n + o <=> p < q \/ (p = q /\ j < o)
         /\ p * n + j = q * n + o <=> p = q /\ j = o
<1> DEFINE P == p * n
           Q == q * n
<1>1. P \in Nat /\ Q \in Nat
  OBVIOUS
<1>2. p < q => P + n <= Q
  BY RowMultiple
<1>3. q < p => Q + n <= P
  BY RowMultiple
<1>4. p = q => P = Q
  OBVIOUS
<1> HIDE DEF P, Q
<1>5. p < q \/ q < p \/ p = q
  OBVIOUS
<1>6. /\ P + j < Q + o <=> p < q \/ (p = q /\ j < o)
      /\ P + j = Q + o <=> p = q /\ j = o
  BY <1>1, <1>2, <1>3, <1>4, <1>5
<1> QED
  BY <1>6 DEF P, Q

\* The row and the place of a page number are unique.
LEMMA RowParts ==
  ASSUME NEW n \in Nat \ {0}, NEW p \in Nat, NEW j \in 0..n-1
  PROVE  (p * n + j) \div n = p /\ (p * n + j) % n = j
<1> DEFINE a == p * n + j
           q == a \div n
           o == a % n
<1>1. a \in Nat
  OBVIOUS
<1>2. a = q * n + o /\ o \in 0..n-1 /\ q \in Nat
  BY <1>1, RowSplit
<1>3. p * n + j = q * n + o
  BY <1>2
<1> HIDE DEF q, o
<1>4. p = q /\ j = o
  BY <1>2, <1>3, RowOrder
<1> QED
  BY <1>4 DEF q, o

\* Rows(n) tables hold n entries.
LEMMA RowsCount ==
  ASSUME NEW n \in Nat
  PROVE  /\ Rows(n) \in Nat
         /\ \A y \in Nat : y < Rows(n) <=> y * NPT < n
         /\ n % NPT = 0 => Rows(n) = n \div NPT
         /\ n % NPT # 0 => Rows(n) = (n \div NPT) + 1
<1>0. NPT \in Nat \ {0}
  BY LayoutAssumption
<1> DEFINE q == n \div NPT
           o == n % NPT
<1>1. n = q * NPT + o /\ o \in 0..NPT-1 /\ q \in Nat
  BY <1>0, RowSplit
<1>2. Rows(n) = q + (IF o = 0 THEN 0 ELSE 1)
  BY DEF Rows
<1> HIDE DEF q, o
<1>3. Rows(n) \in Nat
  BY <1>1, <1>2
<1>4. ASSUME NEW y \in Nat PROVE y < Rows(n) <=> y * NPT < n
  <2>1. 0 \in 0..NPT-1 /\ y * NPT + 0 = y * NPT
    BY <1>0
  <2>2. y * NPT + 0 < q * NPT + o <=> y < q \/ (y = q /\ 0 < o)
    BY <1>0, <1>1, <2>1, RowOrder
  <2>3. y * NPT < n <=> y < q \/ (y = q /\ 0 < o)
    BY <1>1, <2>1, <2>2
  <2>4. y < Rows(n) <=> y < q \/ (y = q /\ 0 < o)
    BY <1>1, <1>2
  <2> QED
    BY <2>3, <2>4
<1>5. (o = 0 => Rows(n) = q) /\ (o # 0 => Rows(n) = q + 1)
  BY <1>1, <1>2
<1> QED
  BY <1>3, <1>4, <1>5, Zenon DEF q, o

\* Row r of the tables at KERNBASE takes its first entry from 0 and its last from NPT - 1.
LEMMA RowNext ==
  ASSUME NEW n \in Nat
  PROVE  /\ n % NPT = 0 => Rows(n + 1) = Rows(n) + 1
         /\ n % NPT # 0 => Rows(n + 1) = Rows(n)
         /\ Rows(n + 1) = (n \div NPT) + 1
<1>0. NPT \in Nat \ {0}
  BY LayoutAssumption
<1> DEFINE q == n \div NPT
           o == n % NPT
<1>1. n = q * NPT + o /\ o \in 0..NPT-1 /\ q \in Nat
  BY <1>0, RowSplit
<1>2. (o = 0 => Rows(n) = q) /\ (o # 0 => Rows(n) = q + 1)
  BY RowsCount, Zenon DEF q, o
<1> HIDE DEF q, o
<1>3. Rows(n + 1) \in Nat /\ \A y \in Nat : y < Rows(n + 1) <=> y * NPT < n + 1
  BY RowsCount
<1>4. q * NPT < n + 1
  <2> DEFINE Q == q * NPT
  <2>1. Q \in Nat /\ n = Q + o /\ o \in Nat
    BY <1>0, <1>1
  <2> HIDE DEF Q
  <2>2. Q < n + 1
    BY <2>1
  <2> QED
    BY <2>2 DEF Q
<1>5. ~((q + 1) * NPT < n + 1)
  <2> DEFINE Q == q * NPT
             S == (q + 1) * NPT
  <2>1. Q \in Nat /\ S \in Nat /\ n = Q + o /\ NPT \in Nat
    BY <1>0, <1>1
  <2>2. Q + NPT <= S
    BY <1>0, <1>1, RowMultiple
  <2> HIDE DEF Q, S
  <2>3. ~(S < n + 1)
    BY <1>1, <2>1, <2>2
  <2> QED
    BY <2>3 DEF S
<1>6. q < Rows(n + 1) /\ ~(q + 1 < Rows(n + 1))
  BY <1>1, <1>3, <1>4, <1>5
<1>7. Rows(n + 1) = q + 1
  BY <1>1, <1>3, <1>6
<1>8. (o = 0 => Rows(n + 1) = Rows(n) + 1) /\ (o # 0 => Rows(n + 1) = Rows(n))
  BY <1>2, <1>7, <1>1
<1> QED
  BY <1>7, <1>8, Zenon DEF q, o

----------------------------------------------------------------------------
(* The layout.                                                             *)

\* The types of the layout's constants, and what LayoutAssumption says of them.
LEMMA Layout ==
  /\ NPT \in Nat \ {0} /\ Frames \in Nat
  /\ UENVS \in Nat /\ UPAGES \in Nat /\ UVPT \in Nat /\ ULIM \in Nat /\ KSTACK \in Nat /\ KERNBASE \in Nat
  /\ KernEnd \in Nat /\ LowEnd \in Nat /\ IoPage \in Nat /\ ExtPage \in Nat /\ StackPage \in Nat
  /\ PagesSize \in Nat /\ EnvsSize \in Nat /\ ArraysEnd \in Nat /\ TablesNeeded \in Nat
  /\ Page = 0..Frames-1 /\ Idx = 0..NPT-1 /\ UIdx = 0..UENVS-1
  /\ KernEnd + 1 + PagesSize + NPT <= Frames /\ ArraysEnd + TablesNeeded <= LowEnd
  /\ TablesNeeded = 3 + (NPT - KERNBASE) /\ TablesNeeded > 3
  /\ ArraysEnd = KernEnd + 1 + PagesSize + EnvsSize /\ ArraysEnd <= Frames
  /\ {"W"} \in Perm /\ {"U"} \in Perm /\ {} \in Perm /\ {"U", "W"} \in Perm
<1>1. NPT \in Nat \ {0} /\ NPT - KERNBASE \in Nat \ {0}
  BY LayoutAssumption
<1>2. Frames \in Nat
  BY <1>1 DEF Frames
<1>3. /\ Page = 0..Frames-1 /\ KernEnd + 1 + PagesSize + NPT <= Frames
  BY LayoutAssumption DEF Frames
<1>4. PagesSize \in Nat /\ EnvsSize \in Nat /\ PagesSize <= NPT /\ EnvsSize <= NPT
  BY <1>1, LayoutAssumption
<1> QED
  BY <1>1, <1>2, <1>3, <1>4, LayoutAssumption DEF ArraysEnd, TablesNeeded

\* Where the loop of boot_map_region is when it has mapped n pages.
Place(r, n, x, j) ==
  /\ r = 1 => x = UPAGES /\ j = n
  /\ r = 2 => x = UENVS /\ j = n
  /\ r = 3 => x = KSTACK /\ j = NPT - 1
  /\ r = 4 => x = KERNBASE + (n \div NPT) /\ j = n % NPT

\* The page that boot_map_region maps as number n of call r goes to the table
\* and the entry that Done and Entry say.
LEMMA MapPlace ==
  ASSUME NEW r \in 1..4, NEW n \in Nat, n < Sizes[r]
  PROVE  Place(r, n, (Regions[r].va + n) \div NPT, (Regions[r].va + n) % NPT)
<1> DEFINE x == (Regions[r].va + n) \div NPT
           j == (Regions[r].va + n) % NPT
<1>1. NPT \in Nat \ {0} /\ UPAGES \in Nat /\ UENVS \in Nat /\ KSTACK \in Nat /\ KERNBASE \in Nat
  BY Layout
<1>2. CASE r = 1
  <2>1. Regions[r].va = UPAGES * NPT /\ n \in 0..NPT-1
    BY <1>1, <1>2 DEF Regions, Sizes
  <2>2. (UPAGES * NPT + n) \div NPT = UPAGES /\ (UPAGES * NPT + n) % NPT = n
    BY <1>1, <2>1, RowParts
  <2>3. x = UPAGES /\ j = n
    BY <2>1, <2>2, Zenon
  <2> QED
    BY <1>2, <2>3 DEF Place
<1>3. CASE r = 2
  <2>1. Regions[r].va = UENVS * NPT /\ n \in 0..NPT-1
    BY <1>1, <1>3 DEF Regions, Sizes
  <2>2. (UENVS * NPT + n) \div NPT = UENVS /\ (UENVS * NPT + n) % NPT = n
    BY <1>1, <2>1, RowParts
  <2>3. x = UENVS /\ j = n
    BY <2>1, <2>2, Zenon
  <2> QED
    BY <1>3, <2>3 DEF Place
<1>4. CASE r = 3
  <2>1. Regions[r].va = KSTACK * NPT + NPT - 1 /\ n = 0
    BY <1>1, <1>4 DEF Regions, Sizes
  <2>2. Regions[r].va + n = KSTACK * NPT + (NPT - 1) /\ NPT - 1 \in 0..NPT-1
    <3> DEFINE K == KSTACK * NPT
    <3>1. K \in Nat
      BY <1>1
    <3> HIDE DEF K
    <3>2. K + NPT - 1 + 0 = K + (NPT - 1)
      BY <1>1, <3>1
    <3> QED
      BY <1>1, <2>1, <3>2 DEF K
  <2>3. (KSTACK * NPT + (NPT - 1)) \div NPT = KSTACK /\ (KSTACK * NPT + (NPT - 1)) % NPT = NPT - 1
    BY <1>1, <2>2, RowParts
  <2>4. x = KSTACK /\ j = NPT - 1
    BY <2>2, <2>3, Zenon
  <2> QED
    BY <1>4, <2>4 DEF Place
<1>5. CASE r = 4
  <2>1. Regions[r].va = KERNBASE * NPT
    BY <1>5 DEF Regions
  <2> DEFINE q == n \div NPT
             o == n % NPT
  <2>2. n = q * NPT + o /\ o \in 0..NPT-1 /\ q \in Nat
    BY <1>1, RowSplit
  <2> HIDE DEF q, o
  <2>3. Regions[r].va + n = (KERNBASE + q) * NPT + o
    <3>1. (KERNBASE + q) * NPT = KERNBASE * NPT + q * NPT
      BY <1>1, <2>2
    <3> DEFINE K == KERNBASE * NPT
               Q == q * NPT
    <3>2. K \in Nat /\ Q \in Nat
      BY <1>1, <2>2
    <3> HIDE DEF K, Q
    <3>3. K + (Q + o) = (K + Q) + o
      BY <2>2, <3>2
    <3> QED
      BY <2>1, <2>2, <3>1, <3>3 DEF K, Q
  <2>4. x = KERNBASE + q /\ j = o
    <3>1. KERNBASE + q \in Nat
      BY <1>1, <2>2
    <3>2. ((KERNBASE + q) * NPT + o) \div NPT = KERNBASE + q /\ ((KERNBASE + q) * NPT + o) % NPT = o
      BY <1>1, <2>2, <3>1, RowParts
    <3> QED
      BY <2>3, <3>2, Zenon
  <2> QED
    BY <1>5, <2>4 DEF q, o, Place
<1>6. r = 1 \/ r = 2 \/ r = 3 \/ r = 4
  OBVIOUS
<1> QED
  BY <1>2, <1>3, <1>4, <1>5, <1>6, Zenon

\* How many pages of each region are mapped.
Progress == {dn \in [1..4 -> Nat] : \A r \in 1..4 : dn[r] <= Sizes[r]}

\* From dn to nn one more page is mapped, by the entry e at index j of the table of x.
OneMore(dn, nn, x, j, e) ==
  /\ x \in Idx /\ j \in Idx /\ x # UVPT /\ e \in Mapping
  /\ \A y \in Idx : Begun(nn, y) <=> Begun(dn, y) \/ y = x
  /\ \A y, o \in Idx : Entry(nn, y, o) = IF y = x /\ o = j THEN e ELSE Entry(dn, y, o)
  /\ ~Begun(dn, x) => \A o \in Idx : Entry(dn, x, o) = NoPte
  /\ Count(dn) \in Nat /\ Count(nn) = Count(dn) + (IF Begun(dn, x) THEN 0 ELSE 1)

\* The kernel never has more page tables than TablesNeeded.
LEMMA CountBound ==
  ASSUME NEW dn \in Progress
  PROVE  Count(dn) \in Nat /\ Count(dn) <= TablesNeeded
<1>1. dn[1] \in Nat /\ dn[2] \in Nat /\ dn[3] \in Nat /\ dn[4] \in Nat /\ dn[4] <= Frames
  BY Layout DEF Progress, Sizes
<1>2. Rows(dn[4]) \in Nat /\ \A y \in Nat : y < Rows(dn[4]) <=> y * NPT < dn[4]
  BY <1>1, RowsCount
<1> DEFINE N == NPT - KERNBASE
<1>3. N \in Nat /\ N * NPT = Frames
  BY LayoutAssumption DEF Frames
<1> HIDE DEF N
<1>4. ~(N < Rows(dn[4]))
  <2>1. N < Rows(dn[4]) <=> N * NPT < dn[4]
    BY <1>2, <1>3, Zenon
  <2>2. N < Rows(dn[4]) <=> Frames < dn[4]
    BY <1>3, <2>1, Zenon
  <2> QED
    BY <1>1, <2>2, Layout
<1>5. Rows(dn[4]) <= N
  BY <1>2, <1>3, <1>4
<1>6. TablesNeeded = 3 + N
  BY Layout DEF N
<1>7. One(dn[1]) \in 0..1 /\ One(dn[2]) \in 0..1 /\ One(dn[3]) \in 0..1
  BY DEF One
<1> QED
  BY <1>2, <1>3, <1>5, <1>6, <1>7 DEF Count

\* The numbers in a Progress.
LEMMA ProgressParts ==
  ASSUME NEW dn \in Progress
  PROVE  /\ dn[1] \in 0..NPT /\ dn[2] \in 0..NPT /\ dn[3] \in 0..1 /\ dn[4] \in 0..Frames
         /\ dn \in [1..4 -> Nat]
         /\ Rows(dn[4]) \in Nat /\ One(dn[1]) \in Nat /\ One(dn[2]) \in Nat /\ One(dn[3]) \in Nat
<1>1. dn \in [1..4 -> Nat] /\ \A r \in 1..4 : dn[r] <= Sizes[r]
  BY DEF Progress
<1>2. dn[1] \in 0..NPT /\ dn[2] \in 0..NPT /\ dn[3] \in 0..1 /\ dn[4] \in 0..Frames
  BY <1>1, Layout DEF Sizes
<1>3. One(dn[1]) \in Nat /\ One(dn[2]) \in Nat /\ One(dn[3]) \in Nat
  BY DEF One
<1> QED
  BY <1>1, <1>2, <1>3, RowsCount

\* One more page of one call is mapped.
LEMMA ProgressStep ==
  ASSUME NEW dn \in Progress, NEW r \in 1..4, dn[r] < Sizes[r]
  PROVE  /\ [dn EXCEPT ![r] = @ + 1] \in Progress
         /\ [dn EXCEPT ![r] = @ + 1][r] = dn[r] + 1
         /\ \A s \in 1..4 : s # r => [dn EXCEPT ![r] = @ + 1][s] = dn[s]
<1>1. Sizes[r] \in Nat
  BY Layout DEF Sizes
<1> QED
  BY <1>1 DEF Progress

\* Nothing below KERNBASE belongs to the last call.
LEMMA BelowBase ==
  \A n, x, j : x \in Idx /\ x < KERNBASE => AtBase(n, x, j) = NoPte
BY Layout DEF AtBase

\* Where the regions are.
LEMMA Places ==
  /\ UPAGES \in Idx /\ UENVS \in Idx /\ KSTACK \in Idx /\ UVPT \in Idx /\ KERNBASE \in Idx
  /\ UENVS < UPAGES /\ UPAGES < UVPT /\ UVPT < KSTACK /\ KSTACK < KERNBASE
  /\ NPT - 1 \in Idx /\ 0 \in Idx /\ 1 \in Idx /\ 0 < UENVS /\ 1 < UENVS
  /\ Idx = 0..NPT-1 /\ NPT \in Nat /\ \A x \in Idx : x \in Nat /\ x < NPT
BY LayoutAssumption

\* The entries of each table.
LEMMA EntryAt ==
  ASSUME NEW dn, NEW o
  PROVE  /\ Entry(dn, UPAGES, o) =
              IF o < dn[1] THEN [pg |-> KernEnd + 1 + o, perm |-> {"U"}] ELSE NoPte
         /\ Entry(dn, UENVS, o) =
              IF o < dn[2] THEN [pg |-> KernEnd + 1 + PagesSize + o, perm |-> {"U"}] ELSE NoPte
         /\ Entry(dn, KSTACK, o) =
              IF o = NPT - 1 /\ dn[3] > 0 THEN [pg |-> StackPage, perm |-> {"W"}] ELSE NoPte
         /\ \A x \in Idx \ {UPAGES, UENVS, KSTACK} : Entry(dn, x, o) = AtBase(dn[4], x, o)
<1>1. UENVS # UPAGES /\ UENVS # KSTACK /\ UPAGES # KSTACK
  BY Places
<1>2. \A x \in {UPAGES, UENVS, KSTACK} : AtBase(dn[4], x, o) = NoPte
  BY Places, BelowBase
<1>3. Entry(dn, UPAGES, o) = IF o < dn[1] THEN [pg |-> KernEnd + 1 + o, perm |-> {"U"}] ELSE NoPte
  BY <1>1, <1>2, Zenon DEF Entry
<1>4. Entry(dn, UENVS, o) =
        IF o < dn[2] THEN [pg |-> KernEnd + 1 + PagesSize + o, perm |-> {"U"}] ELSE NoPte
  BY <1>1, <1>2, Zenon DEF Entry
<1>5. Entry(dn, KSTACK, o) =
        IF o = NPT - 1 /\ dn[3] > 0 THEN [pg |-> StackPage, perm |-> {"W"}] ELSE NoPte
  BY <1>1, <1>2, Zenon DEF Entry
<1>6. \A x \in Idx \ {UPAGES, UENVS, KSTACK} : Entry(dn, x, o) = AtBase(dn[4], x, o)
  BY Zenon DEF Entry
<1> QED
  BY <1>3, <1>4, <1>5, <1>6, Zenon

\* Tables of other regions are not touched.
Untouched(dn, nn, x, o) == Entry(nn, x, o) = Entry(dn, x, o)

\* A call that does not advance leaves the entries of its tables alone.
LEMMA EntrySame ==
  ASSUME NEW dn, NEW nn, NEW o
  PROVE  /\ nn[1] = dn[1] => Untouched(dn, nn, UPAGES, o)
         /\ nn[2] = dn[2] => Untouched(dn, nn, UENVS, o)
         /\ nn[3] = dn[3] => Untouched(dn, nn, KSTACK, o)
         /\ nn[4] = dn[4] =>
              \A x \in Idx \ {UPAGES, UENVS, KSTACK} : Untouched(dn, nn, x, o)
BY EntryAt, Zenon DEF Untouched

\* One more page of the array of pages is mapped at UPAGES.
LEMMA StepPages ==
  ASSUME NEW dn \in Progress, dn[1] < NPT, NEW nn, nn = [dn EXCEPT ![1] = @ + 1]
  PROVE  OneMore(dn, nn, UPAGES, dn[1], [pg |-> KernEnd + 1 + dn[1], perm |-> {"U"}])
<1>1. /\ nn[1] = dn[1] + 1 /\ nn[2] = dn[2] /\ nn[3] = dn[3] /\ nn[4] = dn[4]
      /\ dn[1] \in Nat /\ dn[1] \in Idx /\ UPAGES \in Idx
  BY ProgressParts, Places
<1>2. [pg |-> KernEnd + 1 + dn[1], perm |-> {"U"}] \in Mapping
  <2>1. KernEnd + 1 + dn[1] \in Page
    BY <1>1, Layout
  <2> QED
    BY <2>1, Layout, PteFacts, Zenon
<1>3. \A y \in Idx : Begun(nn, y) <=> Begun(dn, y) \/ y = UPAGES
  BY <1>1, Places DEF Begun
<1>4. \A y, o \in Idx : Entry(nn, y, o) =
        IF y = UPAGES /\ o = dn[1] THEN [pg |-> KernEnd + 1 + dn[1], perm |-> {"U"}] ELSE Entry(dn, y, o)
  <2> SUFFICES ASSUME NEW y \in Idx, NEW o \in Idx
               PROVE  Entry(nn, y, o) =
                        IF y = UPAGES /\ o = dn[1] THEN [pg |-> KernEnd + 1 + dn[1], perm |-> {"U"}]
                        ELSE Entry(dn, y, o)
    OBVIOUS
  <2>1. o < nn[1] <=> o < dn[1] \/ o = dn[1]
    BY <1>1, Places
  <2>2. ~(dn[1] < dn[1])
    BY <1>1
  <2>3. CASE y = UPAGES
    BY <2>1, <2>2, <2>3, EntryAt, Zenon
  <2>4. CASE y # UPAGES
    <3>1. /\ Untouched(dn, nn, UENVS, o) /\ Untouched(dn, nn, KSTACK, o)
          /\ \A x \in Idx \ {UPAGES, UENVS, KSTACK} : Untouched(dn, nn, x, o)
      BY <1>1, EntrySame
    <3>2. Entry(nn, y, o) = Entry(dn, y, o)
      BY <2>4, <3>1, Zenon DEF Untouched
    <3> QED
      BY <2>4, <3>2, Zenon
  <2> QED
    BY <2>3, <2>4
<1>5. ~Begun(dn, UPAGES) => dn[1] = 0
  BY <1>1 DEF Begun
<1>6. ~Begun(dn, UPAGES) => \A o \in Idx : Entry(dn, UPAGES, o) = NoPte
  BY <1>1, <1>5, Places, BelowBase DEF Entry
<1>7. Begun(dn, UPAGES) <=> dn[1] > 0
  BY <1>1, Places DEF Begun
<1>8. Count(nn) = Count(dn) + (IF Begun(dn, UPAGES) THEN 0 ELSE 1)
  BY <1>1, <1>7, ProgressParts DEF Count, One
<1>9. UPAGES # UVPT
  BY Places
<1>20. Count(dn) \in Nat
  BY CountBound
<1> QED
  BY <1>20, <1>1, <1>2, <1>3, <1>4, <1>6, <1>8, <1>9, Zenon DEF OneMore

\* One more page of the array of environments is mapped at UENVS.
LEMMA StepEnvs ==
  ASSUME NEW dn \in Progress, dn[2] < NPT, NEW nn, nn = [dn EXCEPT ![2] = @ + 1]
  PROVE  OneMore(dn, nn, UENVS, dn[2], [pg |-> KernEnd + 1 + PagesSize + dn[2], perm |-> {"U"}])
<1>1. /\ nn[2] = dn[2] + 1 /\ nn[1] = dn[1] /\ nn[3] = dn[3] /\ nn[4] = dn[4]
      /\ dn[2] \in Nat /\ dn[2] \in Idx /\ UENVS \in Idx
  BY ProgressParts, Places
<1>2. [pg |-> KernEnd + 1 + PagesSize + dn[2], perm |-> {"U"}] \in Mapping
  <2>1. KernEnd + 1 + PagesSize + dn[2] \in Page
    BY <1>1, Layout
  <2> QED
    BY <2>1, Layout, PteFacts, Zenon
<1>3. \A y \in Idx : Begun(nn, y) <=> Begun(dn, y) \/ y = UENVS
  BY <1>1, Places DEF Begun
<1>4. \A y, o \in Idx : Entry(nn, y, o) =
        IF y = UENVS /\ o = dn[2] THEN [pg |-> KernEnd + 1 + PagesSize + dn[2], perm |-> {"U"}] ELSE Entry(dn, y, o)
  <2> SUFFICES ASSUME NEW y \in Idx, NEW o \in Idx
               PROVE  Entry(nn, y, o) =
                        IF y = UENVS /\ o = dn[2] THEN [pg |-> KernEnd + 1 + PagesSize + dn[2], perm |-> {"U"}]
                        ELSE Entry(dn, y, o)
    OBVIOUS
  <2>1. o < nn[2] <=> o < dn[2] \/ o = dn[2]
    BY <1>1, Places
  <2>2. ~(dn[2] < dn[2])
    BY <1>1
  <2>3. CASE y = UENVS
    BY <2>1, <2>2, <2>3, EntryAt, Zenon
  <2>4. CASE y # UENVS
    <3>1. /\ Untouched(dn, nn, UPAGES, o) /\ Untouched(dn, nn, KSTACK, o)
          /\ \A x \in Idx \ {UPAGES, UENVS, KSTACK} : Untouched(dn, nn, x, o)
      BY <1>1, EntrySame
    <3>2. Entry(nn, y, o) = Entry(dn, y, o)
      BY <2>4, <3>1, Zenon DEF Untouched
    <3> QED
      BY <2>4, <3>2, Zenon
  <2> QED
    BY <2>3, <2>4
<1>5. ~Begun(dn, UENVS) => dn[2] = 0
  BY <1>1 DEF Begun
<1>6. ~Begun(dn, UENVS) => \A o \in Idx : Entry(dn, UENVS, o) = NoPte
  BY <1>1, <1>5, Places, BelowBase DEF Entry
<1>7. Begun(dn, UENVS) <=> dn[2] > 0
  BY <1>1, Places DEF Begun
<1>8. Count(nn) = Count(dn) + (IF Begun(dn, UENVS) THEN 0 ELSE 1)
  BY <1>1, <1>7, ProgressParts DEF Count, One
<1>9. UENVS # UVPT
  BY Places
<1>20. Count(dn) \in Nat
  BY CountBound
<1> QED
  BY <1>20, <1>1, <1>2, <1>3, <1>4, <1>6, <1>8, <1>9, Zenon DEF OneMore

\* The page of the kernel stack is mapped below KSTACKTOP.
LEMMA StepStack ==
  ASSUME NEW dn \in Progress, dn[3] < 1, NEW nn, nn = [dn EXCEPT ![3] = @ + 1]
  PROVE  OneMore(dn, nn, KSTACK, NPT - 1, [pg |-> StackPage, perm |-> {"W"}])
<1>1. /\ nn[3] = 1 /\ dn[3] = 0 /\ nn[1] = dn[1] /\ nn[2] = dn[2] /\ nn[4] = dn[4]
      /\ NPT - 1 \in Idx /\ KSTACK \in Idx
  BY ProgressParts, Places
<1>2. [pg |-> StackPage, perm |-> {"W"}] \in Mapping
  BY Layout, LayoutAssumption, PteFacts
<1>3. \A y \in Idx : Begun(nn, y) <=> Begun(dn, y) \/ y = KSTACK
  BY <1>1, Places DEF Begun
<1>4. \A y, o \in Idx : Entry(nn, y, o) =
        IF y = KSTACK /\ o = NPT - 1 THEN [pg |-> StackPage, perm |-> {"W"}] ELSE Entry(dn, y, o)
  BY <1>1, Places, BelowBase DEF Entry
<1>6. \A o \in Idx : Entry(dn, KSTACK, o) = NoPte
  BY <1>1, Places, BelowBase DEF Entry
<1>7. ~Begun(dn, KSTACK)
  BY <1>1, Places DEF Begun
<1>8. Count(nn) = Count(dn) + (IF Begun(dn, KSTACK) THEN 0 ELSE 1)
  BY <1>1, <1>7, ProgressParts DEF Count, One
<1>9. KSTACK # UVPT
  BY Places
<1>20. Count(dn) \in Nat
  BY CountBound
<1> QED
  BY <1>20, <1>1, <1>2, <1>3, <1>4, <1>6, <1>8, <1>9, Zenon DEF OneMore

\* One more page of physical memory is mapped at KERNBASE.
LEMMA StepBase ==
  ASSUME NEW dn \in Progress, dn[4] < Frames, NEW nn, nn = [dn EXCEPT ![4] = @ + 1],
         NEW q \in Nat, NEW o \in 0..NPT-1, dn[4] = q * NPT + o,
         Rows(dn[4] + 1) = q + 1, Rows(dn[4]) = IF o = 0 THEN q ELSE q + 1
  PROVE  OneMore(dn, nn, KERNBASE + q, o, [pg |-> dn[4], perm |-> {"W"}])
<1>1. /\ nn[4] = dn[4] + 1 /\ nn[1] = dn[1] /\ nn[2] = dn[2] /\ nn[3] = dn[3]
      /\ o \in Idx /\ dn[4] \in Nat
  BY ProgressParts, Places
<1>2. q < NPT - KERNBASE
  <2>1. NPT - KERNBASE \in Nat /\ NPT \in Nat \ {0}
    BY LayoutAssumption
  <2> DEFINE N == NPT - KERNBASE
             Q == q * NPT
  <2>2. Frames = N * NPT /\ Q \in Nat /\ Frames \in Nat
    BY <2>1, Layout DEF Frames
  <2> HIDE DEF N
  <2>3. N = q \/ N < q => Frames <= Q
    BY <2>1, <2>2, RowMultiple DEF N
  <2> HIDE DEF Q
  <2>4. Q <= dn[4]
    BY <1>1, <2>2 DEF Q
  <2> QED
    BY <1>1, <2>1, <2>2, <2>3, <2>4 DEF N
<1>3. KERNBASE + q \in Idx /\ KERNBASE + q # UVPT
  BY <1>2, Places
<1>4. [pg |-> dn[4], perm |-> {"W"}] \in Mapping
  <2>1. dn[4] \in Page
    BY <1>1, Layout
  <2> QED
    BY <2>1, Layout, PteFacts, Zenon
<1>5. \A y \in Idx : Begun(nn, y) <=> Begun(dn, y) \/ y = KERNBASE + q
  BY <1>1, Places DEF Begun
<1>6. \A y, c \in Idx : Entry(nn, y, c) =
        IF y = KERNBASE + q /\ c = o THEN [pg |-> dn[4], perm |-> {"W"}] ELSE Entry(dn, y, c)
  <2> SUFFICES ASSUME NEW y \in Idx, NEW c \in Idx
               PROVE  Entry(nn, y, c) = IF y = KERNBASE + q /\ c = o
                                        THEN [pg |-> dn[4], perm |-> {"W"}] ELSE Entry(dn, y, c)
    OBVIOUS
  <2>1. CASE y < KERNBASE
    <3>1. y # KERNBASE + q
      BY <2>1, Places
    <3>2. AtBase(nn[4], y, c) = NoPte /\ AtBase(dn[4], y, c) = NoPte
      BY <2>1, BelowBase, Zenon
    <3>3. Entry(nn, y, c) = Entry(dn, y, c)
      BY <1>1, <3>2, Zenon DEF Entry
    <3> QED
      BY <3>1, <3>3, Zenon
  <2>2. CASE y >= KERNBASE
    <3> DEFINE z == y - KERNBASE
               L == z * NPT + c
    <3>1. z \in Nat /\ y = KERNBASE + z /\ y \in Idx \ {UPAGES, UENVS, KSTACK} /\ c \in 0..NPT-1
      BY <2>2, Places
    <3>2. Entry(nn, y, c) = AtBase(nn[4], y, c) /\ Entry(dn, y, c) = AtBase(dn[4], y, c)
      BY <3>1, EntryAt, Zenon
    <3>3. \A m : AtBase(m, y, c) = IF L < m THEN [pg |-> L, perm |-> {"W"}] ELSE NoPte
      BY <2>2, Zenon DEF AtBase
    <3>4. L \in Nat
      BY <3>1, Layout
    <3>5. L = dn[4] <=> z = q /\ c = o
      BY <3>1, RowOrder, Layout
    <3> HIDE DEF L, z
    <3>6. L < dn[4] + 1 <=> L < dn[4] \/ L = dn[4]
      BY <1>1, <3>4
    <3>7. y = KERNBASE + q <=> z = q
      BY <3>1, Places
    <3>8. ~(dn[4] < dn[4])
      BY <1>1
    <3> QED
      BY <1>1, <3>2, <3>3, <3>5, <3>6, <3>7, <3>8, Zenon
  <2> QED
    BY <2>1, <2>2, Places
<1>7. Begun(dn, KERNBASE + q) <=> o # 0
  BY <1>1, Places DEF Begun
<1>8. ~Begun(dn, KERNBASE + q) => \A c \in Idx : Entry(dn, KERNBASE + q, c) = NoPte
  <2> SUFFICES ASSUME o = 0, NEW c \in Idx PROVE Entry(dn, KERNBASE + q, c) = NoPte
    BY <1>7
  <2>1. KERNBASE + q \in Idx \ {UPAGES, UENVS, KSTACK} /\ (KERNBASE + q) - KERNBASE = q /\ c \in 0..NPT-1
    BY <1>3, Places
  <2>2. Entry(dn, KERNBASE + q, c) = AtBase(dn[4], KERNBASE + q, c)
    BY <2>1, EntryAt, Zenon
  <2> DEFINE L == q * NPT + c
  <2>3. ~(L < dn[4])
    BY <2>1, RowOrder, Layout
  <2> HIDE DEF L
  <2>4. ~(((KERNBASE + q) - KERNBASE) * NPT + c < dn[4])
    BY <2>1, <2>3, Zenon DEF L
  <2> QED
    BY <2>2, <2>4, Zenon DEF AtBase
<1>9. Count(nn) = Count(dn) + (IF Begun(dn, KERNBASE + q) THEN 0 ELSE 1)
  BY <1>1, <1>7, ProgressParts DEF Count
<1>20. Count(dn) \in Nat
  BY CountBound
<1> QED
  BY <1>20, <1>1, <1>3, <1>4, <1>5, <1>6, <1>8, <1>9, Zenon DEF OneMore

\* The entry the loop of boot_map_region writes.
Mapped(r, n) == [pg |-> Regions[r].pa + n, perm |-> Regions[r].perm]

\* Each of the four calls of boot_map_region maps one more page where its region says.
LEMMA MapStep ==
  ASSUME NEW r \in 1..4, NEW dn \in Progress, dn[r] < Sizes[r],
         NEW x, NEW j, x = (Regions[r].va + dn[r]) \div NPT, j = (Regions[r].va + dn[r]) % NPT,
         pages = KernEnd + 1, envs = KernEnd + 1 + PagesSize
  PROVE  /\ [dn EXCEPT ![r] = @ + 1] \in Progress
         /\ OneMore(dn, [dn EXCEPT ![r] = @ + 1], x, j, Mapped(r, dn[r]))
<1> DEFINE nn == [dn EXCEPT ![r] = @ + 1]
           e == Mapped(r, dn[r])
<1>1. dn[r] \in Nat /\ nn \in Progress
  BY ProgressStep DEF Progress
<1>2. /\ r = 1 => x = UPAGES /\ j = dn[1]
      /\ r = 2 => x = UENVS /\ j = dn[2]
      /\ r = 3 => x = KSTACK /\ j = NPT - 1
      /\ r = 4 => x = KERNBASE + (dn[4] \div NPT) /\ j = dn[4] % NPT
  <2>1. /\ r = 1 => x = UPAGES /\ j = dn[r]
        /\ r = 2 => x = UENVS /\ j = dn[r]
        /\ r = 3 => x = KSTACK /\ j = NPT - 1
        /\ r = 4 => x = KERNBASE + (dn[r] \div NPT) /\ j = dn[r] % NPT
    <3>1. Place(r, dn[r], x, j)
      BY <1>1, MapPlace
    <3> QED
      BY <3>1, Zenon DEF Place
  <2> QED
    BY <2>1, Zenon
<1>3. CASE r = 1
  <2>1. e = [pg |-> KernEnd + 1 + dn[1], perm |-> {"U"}] /\ dn[1] < NPT
    BY <1>3 DEF Mapped, Regions, Sizes
  <2> QED
    BY <1>1, <1>2, <1>3, <2>1, StepPages, Zenon
<1>4. CASE r = 2
  <2>1. e = [pg |-> KernEnd + 1 + PagesSize + dn[2], perm |-> {"U"}] /\ dn[2] < NPT
    BY <1>4 DEF Mapped, Regions, Sizes
  <2> QED
    BY <1>1, <1>2, <1>4, <2>1, StepEnvs, Zenon
<1>5. CASE r = 3
  <2>1. dn[3] = 0 /\ dn[3] < 1
    BY <1>5, ProgressParts DEF Sizes
  <2>2. e = [pg |-> StackPage, perm |-> {"W"}]
    <3>1. e = [pg |-> StackPage + 0, perm |-> {"W"}]
      BY <1>5, <2>1 DEF Mapped, Regions
    <3>2. StackPage + 0 = StackPage
      BY Layout
    <3> QED
      BY <3>1, <3>2, Zenon
  <2> QED
    BY <1>1, <1>2, <1>5, <2>1, <2>2, StepStack, Zenon
<1>6. CASE r = 4
  <2>1. e = [pg |-> 0 + dn[4], perm |-> {"W"}] /\ dn[4] < Frames
    BY <1>6 DEF Mapped, Regions, Sizes
  <2>2. 0 + dn[4] = dn[4]
    BY ProgressParts
  <2> DEFINE q == dn[4] \div NPT
             o == dn[4] % NPT
  <2>3. dn[4] \in Nat /\ NPT \in Nat \ {0}
    BY ProgressParts, Layout
  <2>4. dn[4] = q * NPT + o /\ o \in 0..NPT-1 /\ q \in Nat
    BY <2>3, RowSplit
  <2>5. Rows(dn[4] + 1) = q + 1 /\ (o = 0 => Rows(dn[4]) = q) /\ (o # 0 => Rows(dn[4]) = q + 1)
    BY <2>3, RowNext, RowsCount, Zenon
  <2>6. x = KERNBASE + q /\ j = o
    BY <1>2, <1>6
  <2> HIDE DEF q, o
  <2>7. Rows(dn[4]) = IF o = 0 THEN q ELSE q + 1
    BY <2>5, Zenon
  <2>8. nn = [dn EXCEPT ![4] = @ + 1]
    BY <1>6
  <2>9. OneMore(dn, nn, KERNBASE + q, o, [pg |-> dn[4], perm |-> {"W"}])
    BY <2>1, <2>4, <2>5, <2>7, <2>8, StepBase, Zenon
  <2> QED
    BY <1>1, <2>1, <2>2, <2>6, <2>9, Zenon
<1> QED
  BY <1>3, <1>4, <1>5, <1>6

----------------------------------------------------------------------------
(* The free list and the kernel's directory under changes of memory.       *)

\* The pages page_init may free are pages, never the directory or page 0.
LEMMA UsablePages ==
  ASSUME Machine
  PROVE  /\ KernEnd \in Page /\ \A p \in Usable : p \in Page /\ p # KernEnd /\ p # 0
         /\ \A p \in Page : p \in Nat
BY Layout, LayoutAssumption DEF Machine, Usable

\* A page table that has been begun hangs in the directory, on a page of the
\* free list that was meant for tables.
LEMMA TableParts ==
  ASSUME Machine, NEW m \in Memory, NEW dn, DirHas(m, dn), NEW x \in Idx, Begun(dn, x)
  PROVE  /\ HasTable(m, KernEnd, x) /\ TableOf(m, KernEnd, x) = m.mem[KernEnd][x].pg
         /\ m.mem[KernEnd][x].pg \in Usable \cap ForTables
         /\ m.mem[KernEnd][x].pg \in Page /\ m.mem[KernEnd][x].pg # KernEnd
         /\ IsTable(m, dn, m.mem[KernEnd][x].pg)
<1>1. TableAt(m, dn, x)
  BY DEF DirHas
<1>2. m.mem[KernEnd][x] \in Mapping /\ m.mem[KernEnd][x].pg \in Usable \cap ForTables
  BY <1>1 DEF TableAt
<1>3. m.mem[KernEnd][x] # NoPte
  BY <1>2, NoPteAssumption
<1> QED
  BY <1>2, <1>3, UsablePages DEF HasTable, TableOf, IsTable

\* The directory and the page tables are as before.
SameDir(m, mm, dn) ==
  /\ mm.mem[KernEnd] = m.mem[KernEnd]
  /\ \A p \in Page : IsTable(m, dn, p) => mm.mem[p] = m.mem[p] /\ mm.ref[p] = m.ref[p]

\* The directory stays right while its page and its tables are not written.
LEMMA DirKept ==
  ASSUME Machine, NEW m \in Memory, NEW mm, NEW dn, DirHas(m, dn), SameDir(m, mm, dn)
  PROVE  DirHas(mm, dn) /\ \A p : IsTable(mm, dn, p) <=> IsTable(m, dn, p)
<1>1. mm.mem[KernEnd] = m.mem[KernEnd]
  BY DEF SameDir
<1>2. \A p : IsTable(mm, dn, p) <=> IsTable(m, dn, p)
  BY <1>1 DEF IsTable
<1>3. ASSUME NEW x \in Idx, Begun(dn, x) PROVE TableAt(mm, dn, x)
  <2>1. TableAt(m, dn, x)
    BY <1>3 DEF DirHas
  <2> DEFINE t == m.mem[KernEnd][x].pg
  <2>2. t \in Page /\ IsTable(m, dn, t)
    BY <1>3, TableParts
  <2>3. mm.mem[t] = m.mem[t] /\ mm.ref[t] = m.ref[t]
    BY <2>2 DEF SameDir
  <2> QED
    BY <1>1, <2>1, <2>3 DEF TableAt
<1> QED
  BY <1>1, <1>2, <1>3 DEF DirHas

\* The list, and the counts of the pages on it, are as before.
LEMMA ListKept ==
  ASSUME Machine, NEW m \in Memory, NEW mm, NEW dn, ListHas(m, dn),
         \A p : IsTable(mm, dn, p) <=> IsTable(m, dn, p),
         mm.free = m.free, \A p \in FreePages(m) : mm.ref[p] = m.ref[p]
  PROVE  ListHas(mm, dn)
<1>1. FreePages(mm) = FreePages(m) /\ Once(mm)
  BY DEF FreePages, Once, ListHas
<1> QED
  BY <1>1 DEF ListHas

\* Free pages are memory, in use for nothing.
LEMMA FreeParts ==
  ASSUME Machine, NEW m \in Memory, NEW dn, DirHas(m, dn), ListHas(m, dn), NEW p \in FreePages(m)
  PROVE  p \in Page /\ p \in Usable /\ p # KernEnd /\ ~IsTable(m, dn, p) /\ m.ref[p] = 0
<1>1. p \in Page
  BY DEF FreePages, Memory
<1> QED
  BY <1>1, UsablePages DEF ListHas

\* What free pages hold is no matter.
LEMMA FreeWritten ==
  ASSUME Machine, NEW m \in Memory, NEW mm \in Memory, NEW dn, DirHas(m, dn), ListHas(m, dn),
         mm.free = m.free, mm.ref = m.ref,
         \A p \in Page \ FreePages(m) : mm.mem[p] = m.mem[p]
  PROVE  DirHas(mm, dn) /\ ListHas(mm, dn)
<1>1. KernEnd \in Page /\ KernEnd \notin FreePages(m)
  BY FreeParts, UsablePages
<1>2. \A p \in Page : IsTable(m, dn, p) => p \notin FreePages(m)
  BY FreeParts
<1>3. SameDir(m, mm, dn)
  BY <1>1, <1>2 DEF SameDir
<1> QED
  BY <1>3, DirKept, ListKept

\* What is on the list is a free page.
LEMMA FirstFree ==
  ASSUME Machine, NEW m \in Memory, NEW dn, ListHas(m, dn), NEW x \in DOMAIN m.free
  PROVE  m.free[x] \in Page /\ m.free[x] \in FreePages(m)
BY DEF Memory, FreePages

\* The first three pages in another order.
Reordered(f, g) ==
  /\ Len(f) >= 3 /\ Len(g) = Len(f)
  /\ \A x \in 4..Len(f) : g[x] = f[x]
  /\ g[1] # g[2] /\ g[1] # g[3] /\ g[2] # g[3]
  /\ {g[1], g[2], g[3]} = {f[1], f[2], f[3]}

\* Reordering the list keeps it right when the order no longer matters.
LEMMA ListReordered ==
  ASSUME Machine, NEW m \in Memory, NEW mm \in Memory, NEW dn, ListHas(m, dn),
         Reordered(m.free, mm.free), Count(dn) = 0 \/ Count(dn) = TablesNeeded,
         \A p : IsTable(mm, dn, p) <=> IsTable(m, dn, p),
         \A p \in FreePages(m) : mm.ref[p] = m.ref[p]
  PROVE  ListHas(mm, dn) /\ FreePages(mm) = FreePages(m)
<1> DEFINE f == m.free
           g == mm.free
<1>1. f \in Seq(Page) /\ g \in Seq(Page)
  BY MemoryParts
<1>2. /\ Len(f) \in Nat /\ Len(f) >= 3 /\ Len(g) = Len(f)
      /\ DOMAIN f = 1..Len(f) /\ DOMAIN g = 1..Len(f)
  BY <1>1 DEF Reordered
<1>3. /\ \A x \in 4..Len(f) : g[x] = f[x]
      /\ g[1] # g[2] /\ g[1] # g[3] /\ g[2] # g[3]
      /\ {g[1], g[2], g[3]} = {f[1], f[2], f[3]}
  BY DEF Reordered
<1>4. \A x, y \in DOMAIN f : f[x] = f[y] => x = y
  BY DEF ListHas, Once
<1> HIDE DEF f, g
<1>5. \A x \in DOMAIN f : x \in 4..Len(f) \/ x \in 1..3
  BY <1>2
<1>6. \A x \in 1..3 : x \in DOMAIN f /\ \E y \in 1..3 : g[x] = f[y]
  BY <1>2, <1>3
<1>7. \A y \in 1..3 : \E x \in 1..3 : g[x] = f[y]
  <2> SUFFICES ASSUME NEW y \in 1..3 PROVE f[y] \in {g[1], g[2], g[3]}
    OBVIOUS
  <2>1. f[y] \in {f[1], f[2], f[3]}
    OBVIOUS
  <2> QED
    BY <1>3, <2>1
<1>8. FreePages(mm) = FreePages(m)
  <2>1. \A x \in DOMAIN g : \E y \in DOMAIN f : g[x] = f[y]
    BY <1>2, <1>3, <1>5, <1>6
  <2>2. \A x \in DOMAIN f : \E y \in DOMAIN g : f[x] = g[y]
    BY <1>2, <1>3, <1>5, <1>6, <1>7
  <2>3. FreePages(mm) = {g[x] : x \in DOMAIN g} /\ FreePages(m) = {f[x] : x \in DOMAIN f}
    BY DEF FreePages, f, g
  <2> QED
    BY <2>1, <2>2, <2>3
<1>9. Once(mm)
  <2>1. \A x \in 1..3, y \in 4..Len(f) : g[x] # g[y]
    BY <1>2, <1>3, <1>4, <1>6
  <2>2. \A x, y \in 1..3 : g[x] = g[y] => x = y
    BY <1>3
  <2>3. \A x, y \in 4..Len(f) : g[x] = g[y] => x = y
    BY <1>2, <1>3, <1>4
  <2>4. \A x, y \in DOMAIN g : g[x] = g[y] => x = y
    BY <1>2, <1>5, <2>1, <2>2, <2>3
  <2> QED
    BY <2>4 DEF Once, g
<1>10. ASSUME NEW x \in DOMAIN mm.free, x + Count(dn) <= TablesNeeded
       PROVE  mm.free[x] \in ForTables
  <2>1. x \in DOMAIN g /\ x \in DOMAIN f /\ x \in Nat /\ x > 0
    BY <1>2 DEF g
  <2>2. TablesNeeded \in Nat /\ TablesNeeded > 3
    BY Layout
  <2>3. Count(dn) = 0
    BY <1>10, <2>1, <2>2
  <2>4. \A y \in DOMAIN f : y <= TablesNeeded => f[y] \in ForTables
    BY <2>3, <1>2 DEF ListHas, f
  <2>5. CASE x \in 4..Len(f)
    BY <1>3, <1>10, <2>1, <2>3, <2>4, <2>5 DEF g
  <2>6. CASE x \in 1..3
    <3>1. PICK y \in 1..3 : g[x] = f[y]
      BY <1>6, <2>6
    <3>2. f[y] \in ForTables
      BY <1>6, <2>2, <2>4
    <3> QED
      BY <3>1, <3>2 DEF g
  <2> QED
    BY <1>5, <2>1, <2>5, <2>6
<1>11. Len(mm.free) = Len(m.free)
  BY <1>2 DEF f, g
<1> QED
  BY <1>8, <1>9, <1>10, <1>11 DEF ListHas

----------------------------------------------------------------------------
(* An iteration of boot_map_region.                                        *)

\* w is m after pgdir_walk took the page a for a new table at index x of d.
NewTable(m, w, d, x, a) ==
  /\ w \in Memory /\ w.free = Tail(m.free)
  /\ w.ref = [m.ref EXCEPT ![a] = IF @ = RefMax THEN 0 ELSE @ + 1]
  /\ w.mem[a] = ZeroPage
  /\ w.mem[d][x] = [pg |-> a, perm |-> TablePerm]
  /\ \A y \in Idx : y # x => w.mem[d][y] = m.mem[d][y]
  /\ \A p \in Page : p # a /\ p # d => w.mem[p] = m.mem[p]

\* pgdir_walk takes the first page of the list for a new table and zeroes it.
LEMMA WalkTakes ==
  ASSUME NEW m \in Memory, NEW d \in Page, NEW x \in Idx, ~HasTable(m, d, x), ~OutOfMemory(m),
         Allocated(m) # d
  PROVE  Allocated(m) \in Page /\ NewTable(m, Walk(m, d, x), d, x, Allocated(m))
<1> DEFINE a == Allocated(m)
           m1 == PageAlloc(m, TRUE)
           m2 == Incref(m1, a)
           e == [pg |-> a, perm |-> TablePerm]
           w == SetEntry(m2, d, x, e)
<1>1. /\ a \in Page /\ m1 \in Memory /\ m1.free = Tail(m.free) /\ m1.ref = m.ref
      /\ m1.mem = [m.mem EXCEPT ![a] = ZeroPage]
  BY AllocFields
<1> HIDE DEF m1
<1>2. /\ m2 \in Memory /\ m2.free = m1.free /\ m2.mem = m1.mem
      /\ m2.ref = [m1.ref EXCEPT ![a] = IF @ = RefMax THEN 0 ELSE @ + 1]
  BY <1>1, IncrefFields
<1> HIDE DEF m2
<1>3. e \in Pte
  BY <1>1, PermAssumption DEF Pte, Mapping
<1> HIDE DEF e
<1>4. /\ w \in Memory /\ w.free = m2.free /\ w.ref = m2.ref /\ w.mem = [m2.mem EXCEPT ![d][x] = e]
  BY <1>2, <1>3, SetEntryFields
<1>5. w = Walk(m, d, x)
  BY Zenon DEF Walk, w, m2, m1, e
<1> HIDE DEF w
<1>6. m.mem \in [Page -> PageContent] /\ m.mem[d] \in [Idx -> Pte]
  BY MemoryParts DEF PageContent
<1>7. m2.mem[d] = m.mem[d] /\ m2.mem \in [Page -> PageContent] /\ m2.mem[a] = ZeroPage
  BY <1>1, <1>2, <1>6, MemoryParts
<1>8. /\ w.mem[a] = ZeroPage /\ w.mem[d] = [m.mem[d] EXCEPT ![x] = e]
      /\ \A p \in Page : p # a /\ p # d => w.mem[p] = m.mem[p]
  BY <1>1, <1>2, <1>4, <1>6, <1>7
<1>9. w.mem[d][x] = e /\ \A y \in Idx : y # x => w.mem[d][y] = m.mem[d][y]
  BY <1>6, <1>8
<1> QED
  BY <1>1, <1>2, <1>4, <1>5, <1>8, <1>9 DEF NewTable, e

\* Tables and the directory lie where entry_pgdir maps them.
LEMMA TablesLow ==
  /\ KernEnd < LowEnd /\ \A p \in ForTables : p \in Nat /\ p < LowEnd
BY Layout DEF ForTables

\* The region goes on in a table that is there.
LEMMA MapIntoTable ==
  ASSUME Machine, NEW m \in Memory, NEW dn, NEW nn, NEW x, NEW j, NEW e,
         OneMore(dn, nn, x, j, e), DirHas(m, dn), ListHas(m, dn), Begun(dn, x),
         NEW mm, mm = SetEntry(m, m.mem[KernEnd][x].pg, j, e)
  PROVE  /\ mm \in Memory /\ DirHas(mm, nn) /\ ListHas(mm, nn)
         /\ \A p \in Page : mm.mem[p] # m.mem[p] => p < LowEnd
<1> DEFINE t == m.mem[KernEnd][x].pg
<1>1. /\ x \in Idx /\ j \in Idx /\ x # UVPT /\ e \in Mapping
      /\ \A y \in Idx : Begun(nn, y) <=> Begun(dn, y) \/ y = x
      /\ \A y, o \in Idx : Entry(nn, y, o) = IF y = x /\ o = j THEN e ELSE Entry(dn, y, o)
      /\ Count(nn) = Count(dn) + 0 /\ Count(dn) \in Nat
  BY DEF OneMore
<1>2. t \in Page /\ t # KernEnd /\ t \in ForTables /\ IsTable(m, dn, t) /\ e \in Pte
  BY <1>1, TableParts, PteFacts DEF Pte
<1>3. /\ mm \in Memory /\ mm.free = m.free /\ mm.ref = m.ref
      /\ mm.mem = [m.mem EXCEPT ![t][j] = e]
  BY <1>1, <1>2, SetEntryFields
<1> HIDE DEF t
<1>4. m.mem \in [Page -> PageContent] /\ m.mem[t] \in [Idx -> Pte] /\ KernEnd \in Page
  BY <1>2, MemoryParts, UsablePages DEF PageContent
<1>5. /\ \A p \in Page : p # t => mm.mem[p] = m.mem[p]
      /\ \A o \in Idx : mm.mem[t][o] = IF o = j THEN e ELSE m.mem[t][o]
  BY <1>2, <1>3, <1>4
<1>6. mm.mem[KernEnd] = m.mem[KernEnd]
  BY <1>2, <1>4, <1>5
<1>7. \A y \in Idx : Begun(nn, y) <=> Begun(dn, y)
  BY <1>1
<1>8. ASSUME NEW y \in Idx, Begun(dn, y) PROVE TableAt(mm, nn, y)
  <2> DEFINE s == m.mem[KernEnd][y].pg
  <2>1. /\ m.mem[KernEnd][y] \in Mapping /\ m.mem[KernEnd][y].perm = TablePerm
        /\ s \in Usable \cap ForTables /\ m.ref[s] = 1
        /\ \A o \in Idx : m.mem[s][o] = Entry(dn, y, o)
    BY <1>8 DEF DirHas, TableAt
  <2>2. s \in Page /\ (s = t <=> y = x)
    BY <1>1, <1>8, TableParts DEF DirHas, t
  <2>3. \A o \in Idx : mm.mem[s][o] = Entry(nn, y, o)
    <3>1. CASE y = x
      BY <1>1, <1>5, <2>1, <2>2, <3>1
    <3>2. CASE y # x
      BY <1>1, <1>5, <2>1, <2>2, <3>2
    <3> QED
      BY <3>1, <3>2
  <2> QED
    BY <1>3, <1>6, <2>1, <2>3 DEF TableAt
<1>9. DirHas(mm, nn)
  BY <1>6, <1>7, <1>8 DEF DirHas
<1>10. \A p : IsTable(mm, nn, p) <=> IsTable(m, dn, p)
  BY <1>6, <1>7 DEF IsTable
<1>11. Count(nn) = Count(dn)
  BY <1>1
<1>12. ListHas(mm, nn)
  <2>1. FreePages(mm) = FreePages(m) /\ Once(mm)
    BY <1>3 DEF FreePages, Once, ListHas
  <2> QED
    BY <1>3, <1>10, <1>11, <2>1 DEF ListHas
<1> QED
  BY <1>2, <1>3, <1>5, <1>9, <1>12, TablesLow

\* The region needs a new table, which is taken from the list.
LEMMA MapNewTable ==
  ASSUME Machine, NEW m \in Memory, NEW dn \in Progress, NEW nn \in Progress, NEW x, NEW j, NEW e,
         OneMore(dn, nn, x, j, e), DirHas(m, dn), ListHas(m, dn), ~Begun(dn, x), ~OutOfMemory(m),
         NEW w, w = Walk(m, KernEnd, x),
         NEW mm, mm = SetEntry(w, TableOf(w, KernEnd, x), j, e)
  PROVE  /\ mm \in Memory /\ DirHas(mm, nn) /\ ListHas(mm, nn)
         /\ \A p \in Page : mm.mem[p] # m.mem[p] => p < LowEnd
<1> DEFINE a == Allocated(m)
<1>1. /\ x \in Idx /\ j \in Idx /\ x # UVPT /\ e \in Mapping
      /\ \A y \in Idx : Begun(nn, y) <=> Begun(dn, y) \/ y = x
      /\ \A y, o \in Idx : Entry(nn, y, o) = IF y = x /\ o = j THEN e ELSE Entry(dn, y, o)
      /\ \A o \in Idx : Entry(dn, x, o) = NoPte
      /\ Count(nn) = Count(dn) + 1 /\ Count(dn) \in Nat
  BY DEF OneMore
<1>2. Count(dn) + 1 <= TablesNeeded
  BY <1>1, CountBound
<1>3. m.free \in Seq(Page) /\ m.free # <<>> /\ Once(m)
  BY MemoryParts DEF OutOfMemory, ListHas
<1>4. 1 \in DOMAIN m.free /\ a = m.free[1] /\ a \in FreePages(m)
  BY <1>3 DEF Allocated, FreePages
<1>5. a \in Page /\ a \in Usable /\ a # KernEnd /\ ~IsTable(m, dn, a) /\ m.ref[a] = 0
  BY <1>4, FreeParts
<1>6. a \in ForTables
  BY <1>1, <1>2, <1>4 DEF ListHas
<1>7. ~HasTable(m, KernEnd, x) /\ KernEnd \in Page
  BY <1>1, UsablePages DEF DirHas, HasTable
<1>8. NewTable(m, w, KernEnd, x, a)
  BY <1>1, <1>5, <1>7, WalkTakes
<1> HIDE DEF a
<1>9. /\ w \in Memory /\ w.free = Tail(m.free)
      /\ w.ref = [m.ref EXCEPT ![a] = IF @ = RefMax THEN 0 ELSE @ + 1]
      /\ w.mem[a] = ZeroPage
      /\ w.mem[KernEnd][x] = [pg |-> a, perm |-> TablePerm]
      /\ \A y \in Idx : y # x => w.mem[KernEnd][y] = m.mem[KernEnd][y]
      /\ \A p \in Page : p # a /\ p # KernEnd => w.mem[p] = m.mem[p]
  BY <1>8 DEF NewTable
<1>10. mm = SetEntry(w, a, j, e) /\ e \in Pte
  BY <1>1, <1>9, PteFacts DEF TableOf, Pte
<1>11. /\ mm \in Memory /\ mm.free = Tail(m.free) /\ mm.ref = w.ref
       /\ mm.mem = [w.mem EXCEPT ![a][j] = e]
  BY <1>1, <1>5, <1>9, <1>10, SetEntryFields
<1>12. w.mem \in [Page -> PageContent] /\ w.mem[a] \in [Idx -> Pte]
  BY <1>5, <1>9, MemoryParts DEF PageContent
<1>13. /\ \A p \in Page : p # a => mm.mem[p] = w.mem[p]
       /\ \A o \in Idx : mm.mem[a][o] = IF o = j THEN e ELSE NoPte
  BY <1>5, <1>9, <1>11, <1>12 DEF ZeroPage
<1>14. mm.mem[KernEnd] = w.mem[KernEnd]
  BY <1>5, <1>7, <1>13
<1>15. mm.ref[a] = 1 /\ \A p \in Page : p # a => mm.ref[p] = m.ref[p]
  <2>1. RefMax > 1 /\ m.ref \in [Page -> 0..RefMax] /\ RefMax \in Nat
    BY LayoutAssumption, RefMaxAssumption, MemoryParts
  <2> QED
    BY <1>5, <1>9, <1>11, <2>1
<1>16. TableAt(mm, nn, x)
  <2>1. mm.mem[KernEnd][x] = [pg |-> a, perm |-> TablePerm]
    BY <1>9, <1>14
  <2>2. [pg |-> a, perm |-> TablePerm] \in Mapping
    BY <1>5, PteFacts, PermAssumption
  <2>3. \A o \in Idx : mm.mem[a][o] = Entry(nn, x, o)
    BY <1>1, <1>13
  <2> QED
    BY <1>5, <1>6, <1>15, <2>1, <2>2, <2>3 DEF TableAt
<1>17. ASSUME NEW y \in Idx, Begun(dn, y)
       PROVE  TableAt(mm, nn, y) /\ mm.mem[KernEnd][y] = m.mem[KernEnd][y] /\ m.mem[KernEnd][y].pg # a
  <2> DEFINE s == m.mem[KernEnd][y].pg
  <2>1. /\ m.mem[KernEnd][y] \in Mapping /\ m.mem[KernEnd][y].perm = TablePerm
        /\ s \in Usable \cap ForTables /\ m.ref[s] = 1
        /\ \A o \in Idx : m.mem[s][o] = Entry(dn, y, o)
    BY <1>17 DEF DirHas, TableAt
  <2>2. s \in Page /\ s # KernEnd /\ IsTable(m, dn, s)
    BY <1>17, TableParts
  <2>3. y # x /\ s # a
    BY <1>5, <1>17, <2>2
  <2>4. mm.mem[KernEnd][y] = m.mem[KernEnd][y]
    BY <1>9, <1>14, <2>3
  <2>5. mm.mem[s] = m.mem[s] /\ mm.ref[s] = m.ref[s]
    BY <1>9, <1>13, <1>15, <2>2, <2>3
  <2>6. \A o \in Idx : mm.mem[s][o] = Entry(nn, y, o)
    BY <1>1, <2>1, <2>3, <2>5
  <2> QED
    BY <2>1, <2>3, <2>4, <2>5, <2>6 DEF TableAt
<1>18. mm.mem[KernEnd][x].pg = a
  BY <1>9, <1>14
<1>19. DirHas(mm, nn)
  <2>1. mm.mem[KernEnd][UVPT] = [pg |-> KernEnd, perm |-> {"U"}]
    <3>1. UVPT \in Idx
      BY Places
    <3> QED
      BY <1>1, <1>9, <1>14, <3>1 DEF DirHas
  <2>2. \A y \in Idx : Begun(nn, y) => TableAt(mm, nn, y)
    BY <1>1, <1>16, <1>17
  <2>3. \A y \in Idx : y # UVPT /\ ~Begun(nn, y) => mm.mem[KernEnd][y] = NoPte
    <3>1. \A y \in Idx : y # UVPT /\ ~Begun(dn, y) => m.mem[KernEnd][y] = NoPte
      BY DEF DirHas
    <3> QED
      BY <1>1, <1>9, <1>14, <3>1
  <2>4. \A y, z \in Idx : Begun(nn, y) /\ Begun(nn, z)
                          /\ mm.mem[KernEnd][y].pg = mm.mem[KernEnd][z].pg => y = z
    <3>1. \A y, z \in Idx : Begun(dn, y) /\ Begun(dn, z)
                            /\ m.mem[KernEnd][y].pg = m.mem[KernEnd][z].pg => y = z
      BY DEF DirHas
    <3> QED
      BY <1>1, <1>17, <1>18, <3>1
  <2> QED
    BY <2>1, <2>2, <2>3, <2>4 DEF DirHas
<1>20. \A p : IsTable(mm, nn, p) <=> IsTable(m, dn, p) \/ p = a
  BY <1>1, <1>17, <1>18 DEF IsTable
<1>21. ListHas(mm, nn)
  <2>1. Once(mm) /\ FreePages(mm) = FreePages(m) \ {a}
    BY <1>3, <1>11, PopFree DEF a
  <2>2. \A p \in Page : p \in FreePages(mm) <=> p \in Usable /\ ~IsTable(mm, nn, p)
    BY <1>20, <2>1 DEF ListHas
  <2>3. \A p \in FreePages(mm) : mm.ref[p] = 0
    <3>1. \A p \in FreePages(m) : m.ref[p] = 0 /\ p \in Page
      BY FreeParts
    <3> QED
      BY <1>15, <2>1, <3>1
  <2>4. Len(mm.free) = Len(m.free) - 1 /\ Len(m.free) \in Nat
    BY <1>3, <1>11
  <2>5. Len(mm.free) + Count(nn) = Len(m.free) + Count(dn)
    BY <1>1, <2>4
  <2>6. ASSUME NEW y \in DOMAIN mm.free, y + Count(nn) <= TablesNeeded PROVE mm.free[y] \in ForTables
    <3>1. y + 1 \in DOMAIN m.free /\ mm.free[y] = m.free[y + 1] /\ y \in Nat
      BY <1>3, <1>11, <2>4
    <3>2. (y + 1) + Count(dn) <= TablesNeeded
      BY <1>1, <2>6, <3>1
    <3> QED
      BY <3>1, <3>2 DEF ListHas
  <2> QED
    BY <2>1, <2>2, <2>3, <2>5, <2>6 DEF ListHas
<1>22. a < LowEnd /\ KernEnd < LowEnd
  BY <1>6, TablesLow
<1>23. \A p \in Page : mm.mem[p] # m.mem[p] => p < LowEnd
  BY <1>9, <1>13, <1>22
<1> QED
  BY <1>11, <1>19, <1>21, <1>23

\* Both cases of an iteration of boot_map_region; it fails without memory for a table.
LEMMA MapOne ==
  ASSUME Machine, NEW m \in Memory, NEW dn \in Progress, NEW nn \in Progress, NEW x, NEW j, NEW e,
         OneMore(dn, nn, x, j, e), DirHas(m, dn), ListHas(m, dn),
         NEW w, w = Walk(m, KernEnd, x),
         NEW mm, mm = SetEntry(w, TableOf(w, KernEnd, x), j, e)
  PROVE  /\ HasTable(m, KernEnd, x) <=> Begun(dn, x)
         /\ ~WalkFails(m, KernEnd, x) =>
              /\ mm \in Memory /\ DirHas(mm, nn) /\ ListHas(mm, nn)
              /\ \A p \in Page : mm.mem[p] # m.mem[p] => p < LowEnd
<1>1. x \in Idx /\ x # UVPT
  BY DEF OneMore
<1>2. HasTable(m, KernEnd, x) <=> Begun(dn, x)
  BY <1>1, TableParts DEF DirHas, HasTable
<1>3. CASE Begun(dn, x)
  <2>1. w = m /\ TableOf(w, KernEnd, x) = m.mem[KernEnd][x].pg
    BY <1>2, <1>3 DEF Walk, TableOf
  <2>2. mm = SetEntry(m, m.mem[KernEnd][x].pg, j, e)
    BY <2>1
  <2>3. /\ mm \in Memory /\ DirHas(mm, nn) /\ ListHas(mm, nn)
        /\ \A p \in Page : mm.mem[p] # m.mem[p] => p < LowEnd
    BY <1>3, <2>2, MapIntoTable
  <2> QED
    BY <1>2, <2>3
<1>4. CASE ~Begun(dn, x)
  <2> SUFFICES ASSUME ~WalkFails(m, KernEnd, x)
               PROVE  /\ mm \in Memory /\ DirHas(mm, nn) /\ ListHas(mm, nn)
                      /\ \A p \in Page : mm.mem[p] # m.mem[p] => p < LowEnd
    BY <1>2
  <2>1. ~OutOfMemory(m)
    BY <1>2, <1>4 DEF WalkFails
  <2> QED
    BY <1>4, <2>1, MapNewTable
<1> QED
  BY <1>3, <1>4

----------------------------------------------------------------------------
(* The checks of the allocator and of the page tables.                     *)

\* What follows the first three pages of the list.
Rest(f) == SubSeq(f, 4, Len(f))

\* page_free puts a page in front of the list.
LEMMA Cons ==
  ASSUME NEW f \in Seq(Page), NEW p \in Page
  PROVE  /\ <<p>> \o f \in Seq(Page) /\ Len(<<p>> \o f) = Len(f) + 1 /\ (<<p>> \o f)[1] = p
         /\ \A x \in 1..Len(f) : (<<p>> \o f)[x + 1] = f[x]
         /\ Head(<<p>> \o f) = p /\ Tail(<<p>> \o f) = f /\ <<p>> \o f # <<>>
<1>1. <<p>> \in Seq(Page) /\ Len(<<p>>) = 1
  OBVIOUS
<1>2. <<p>> \o f \in Seq(Page) /\ Len(<<p>> \o f) = Len(f) + 1 /\ (<<p>> \o f)[1] = p
  BY <1>1
<1>3. \A x \in 1..Len(f) : (<<p>> \o f)[x + 1] = f[x]
  BY <1>1
<1>4. Tail(<<p>> \o f) = f
  <2>1. Tail(<<p>> \o f) \in Seq(Page) /\ Len(Tail(<<p>> \o f)) = Len(f)
    BY <1>2
  <2>2. \A x \in 1..Len(f) : Tail(<<p>> \o f)[x] = f[x]
    BY <1>2, <1>3
  <2> QED
    BY <2>1, <2>2
<1> QED
  BY <1>2, <1>3, <1>4

\* The list after its first three pages, and three pages put in front of it.
LEMMA RestOf ==
  ASSUME NEW f \in Seq(Page), Len(f) >= 3
  PROVE  /\ Rest(f) \in Seq(Page)
         /\ \A p, q, s \in Page : LET g == <<p>> \o (<<q>> \o (<<s>> \o Rest(f)))
              IN  /\ g \in Seq(Page) /\ Len(g) = Len(f) /\ g[1] = p /\ g[2] = q /\ g[3] = s
                  /\ \A x \in 4..Len(f) : g[x] = f[x]
<1> DEFINE r == Rest(f)
<1>1. r \in Seq(Page) /\ Len(r) = Len(f) - 3 /\ \A x \in 1..Len(r) : r[x] = f[x + 3]
  <2>1. Len(f) \in Int /\ 4 \in Int /\ 4 <= Len(f) + 1 /\ \A i \in 4..Len(f) : f[i] \in Page
    OBVIOUS
  <2>2. \A n \in Int : (\A i \in 4..n : f[i] \in Page) =>
          /\ SubSeq(f, 4, n) \in Seq(Page)
          /\ Len(SubSeq(f, 4, n)) = IF 4 <= n THEN n - 4 + 1 ELSE 0
          /\ \A i \in 1..n - 4 + 1 : SubSeq(f, 4, n)[i] = f[4 + i - 1]
    BY SubSeqProperties
  <2>3. /\ r \in Seq(Page)
        /\ Len(r) = IF 4 <= Len(f) THEN Len(f) - 4 + 1 ELSE 0
        /\ \A i \in 1..Len(f) - 4 + 1 : r[i] = f[4 + i - 1]
    BY <2>1, <2>2, Zenon DEF Rest
  <2> HIDE DEF r
  <2>4. Len(f) \in Nat
    OBVIOUS
  <2>5. Len(r) = Len(f) - 3
    <3>1. CASE 4 <= Len(f)
      BY <2>3, <2>4, <3>1
    <3>2. CASE ~(4 <= Len(f))
      <4>0. \A n \in Nat : n >= 3 /\ ~(4 <= n) => n = 3
        OBVIOUS
      <4>1. Len(f) = 3
        BY <2>4, <3>2, <4>0, Zenon
      <4>2. Len(r) = 0
        BY <2>3, <3>2
      <4> QED
        BY <4>1, <4>2
    <3> QED
      BY <3>1, <3>2
  <2>6. \A x \in 1..Len(r) : r[x] = f[x + 3]
    <3> SUFFICES ASSUME NEW x \in 1..Len(r) PROVE r[x] = f[x + 3]
      OBVIOUS
    <3>1. x \in 1..Len(f) - 4 + 1 /\ 4 + x - 1 = x + 3
      BY <2>4, <2>5
    <3> QED
      BY <2>3, <3>1
  <2> QED
    BY <2>3, <2>5, <2>6
<1> HIDE DEF r
<1>2. ASSUME NEW p \in Page, NEW q \in Page, NEW s \in Page
      PROVE  LET g == <<p>> \o (<<q>> \o (<<s>> \o r))
              IN  /\ g \in Seq(Page) /\ Len(g) = Len(f) /\ g[1] = p /\ g[2] = q /\ g[3] = s
                  /\ \A x \in 4..Len(f) : g[x] = f[x]
  <2> DEFINE g1 == <<s>> \o r
             g2 == <<q>> \o g1
             g == <<p>> \o g2
  <2>1. /\ g1 \in Seq(Page) /\ Len(g1) = Len(r) + 1 /\ g1[1] = s
        /\ \A x \in 1..Len(r) : g1[x + 1] = r[x]
    BY <1>1, Cons
  <2> HIDE DEF g1
  <2>2. /\ g2 \in Seq(Page) /\ Len(g2) = Len(g1) + 1 /\ g2[1] = q
        /\ \A x \in 1..Len(g1) : g2[x + 1] = g1[x]
    BY <2>1, Cons
  <2> HIDE DEF g2
  <2>3. /\ g \in Seq(Page) /\ Len(g) = Len(g2) + 1 /\ g[1] = p
        /\ \A x \in 1..Len(g2) : g[x + 1] = g2[x]
    BY <2>2, Cons
  <2> HIDE DEF g
  <2>4. Len(f) \in Nat /\ Len(r) \in Nat
    BY <1>1
  <2>5. g[2] = q /\ g[3] = s /\ Len(g) = Len(f)
    <3>1. 1 \in 1..Len(g2) /\ 2 \in 1..Len(g2) /\ 1 \in 1..Len(g1)
      BY <1>1, <2>1, <2>2, <2>4
    <3>2. g[1 + 1] = g2[1] /\ g[2 + 1] = g2[2] /\ g2[1 + 1] = g1[1]
      BY <2>2, <2>3, <3>1
    <3> QED
      BY <1>1, <2>1, <2>2, <2>3, <2>4, <3>2
  <2>6. ASSUME NEW x \in 4..Len(f) PROVE g[x] = f[x]
    <3>1. x - 3 \in 1..Len(r) /\ x - 2 \in 1..Len(g1) /\ x - 1 \in 1..Len(g2)
      BY <1>1, <2>1, <2>2, <2>4
    <3>2. g[(x - 1) + 1] = g2[x - 1] /\ g2[(x - 2) + 1] = g1[x - 2] /\ g1[(x - 3) + 1] = r[x - 3]
      BY <2>1, <2>2, <2>3, <3>1
    <3>3. (x - 1) + 1 = x /\ (x - 2) + 1 = x - 1 /\ (x - 3) + 1 = x - 2 /\ (x - 3) + 3 = x
      OBVIOUS
    <3>4. r[x - 3] = f[(x - 3) + 3]
      BY <1>1, <3>1
    <3> QED
      BY <3>2, <3>3, <3>4
  <2> QED
    BY <2>3, <2>5, <2>6 DEF g, g2, g1
<1> QED
  BY <1>1, <1>2 DEF r

\* w has the list f, the counts r and the contents c.
Is(w, f, r, c) == w \in Memory /\ w.free = f /\ w.ref = r /\ w.mem = c

Put(c, p, e) == [c EXCEPT ![p] = e]

\* Writing the content of a page twice is writing it once.
LEMMA PutAt ==
  ASSUME NEW c \in [Page -> PageContent], NEW p \in Page, NEW e \in PageContent
  PROVE  /\ Put(c, p, e) \in [Page -> PageContent] /\ Put(c, p, e)[p] = e
         /\ \A q \in Page : q # p => Put(c, p, e)[q] = c[q]
         /\ \A h \in PageContent : Put(Put(c, p, e), p, h) = Put(c, p, h)
BY DEF Put

\* page_free of a page of a memory whose parts are known.
LEMMA IsFreed ==
  ASSUME NEW w, NEW f, NEW r, NEW c, Is(w, f, r, c), NEW p \in Page
  PROVE  Is(PageFree(w, p), <<p>> \o f, r, c)
BY FreeFields DEF Is

\* page_alloc from a memory whose parts are known.
LEMMA IsTaken ==
  ASSUME NEW w, NEW f \in Seq(Page), NEW r, NEW c, NEW p \in Page, Is(w, <<p>> \o f, r, c)
  PROVE  /\ ~OutOfMemory(w) /\ Allocated(w) = p
         /\ Is(PageAlloc(w, FALSE), f, r, c)
         /\ Is(PageAlloc(w, TRUE), f, r, Put(c, p, ZeroPage))
<1>1. ~OutOfMemory(w) /\ Allocated(w) = p /\ Tail(w.free) = f
  BY Cons DEF Is, OutOfMemory, Allocated
<1>2. w \in Memory /\ w.ref = r /\ w.mem = c /\ c \in [Page -> PageContent]
  BY MemoryParts DEF Is
<1>3. Is(PageAlloc(w, FALSE), f, r, c)
  <2>1. [c EXCEPT ![p] = c[p]] = c
    BY <1>2
  <2> QED
    BY <1>1, <1>2, <2>1, AllocFields DEF Is
<1>4. Is(PageAlloc(w, TRUE), f, r, Put(c, p, ZeroPage))
  BY <1>1, <1>2, AllocFields DEF Is, Put
<1> QED
  BY <1>1, <1>3, <1>4

\* Setting page_free_list and filling a page in a memory whose parts are known.
LEMMA IsSet ==
  ASSUME NEW w, NEW f, NEW r, NEW c, Is(w, f, r, c)
  PROVE  /\ \A g \in Seq(Page) : Is([w EXCEPT !.free = g], g, r, c)
         /\ \A p \in Page, e \in PageContent :
              Is([w EXCEPT !.mem[p] = e], f, r, Put(c, p, e))
BY DEF Is, Memory, Put

\* Two sequences of the same length with the same elements are equal.
LEMMA SameList ==
  ASSUME NEW S, NEW f \in Seq(S), NEW g \in Seq(S), Len(g) = Len(f), \A x \in 1..Len(f) : g[x] = f[x]
  PROVE  g = f
OBVIOUS

\* Three pages put on the empty list.
LEMMA Triple ==
  ASSUME NEW p \in Page, NEW q \in Page, NEW s \in Page
  PROVE  /\ <<p>> \o <<>> = <<p>>
         /\ <<p>> \o (<<q>> \o (<<s>> \o <<>>)) = <<p, q, s>>
<1>1. <<s>> \o <<>> = <<s>> /\ <<p>> \o <<>> = <<p>>
  OBVIOUS
<1>2. <<q>> \o <<s>> = <<q, s>>
  <2> DEFINE g == <<q>> \o <<s>>
  <2>1. <<s>> \in Seq(Page) /\ Len(<<s>>) = 1 /\ <<s>>[1] = s
    OBVIOUS
  <2>2. <<q, s>> \in Seq(Page) /\ Len(<<q, s>>) = 2 /\ <<q, s>>[1] = q /\ <<q, s>>[2] = s
    OBVIOUS
  <2>3. /\ g \in Seq(Page) /\ Len(g) = Len(<<s>>) + 1 /\ g[1] = q
        /\ \A x \in 1..Len(<<s>>) : g[x + 1] = <<s>>[x]
    BY <2>1, Cons
  <2> HIDE DEF g
  <2>4. Len(g) = 2 /\ g[2] = s
    <3>1. g[1 + 1] = <<s>>[1]
      BY <2>1, <2>3
    <3> QED
      BY <2>1, <2>3, <3>1
  <2>5. \A x \in 1..Len(<<q, s>>) : g[x] = <<q, s>>[x]
    BY <2>2, <2>3, <2>4
  <2> QED
    BY <2>2, <2>3, <2>4, <2>5, SameList, Zenon DEF g
<1>3. <<p>> \o <<q, s>> = <<p, q, s>>
  <2> DEFINE t == <<q, s>>
             u == <<p, q, s>>
             g == <<p>> \o t
  <2>1. t \in Seq(Page) /\ Len(t) = 2 /\ t[1] = q /\ t[2] = s
    OBVIOUS
  <2>2. u \in Seq(Page) /\ Len(u) = 3 /\ u[1] = p /\ u[2] = q /\ u[3] = s
    OBVIOUS
  <2> HIDE DEF t, u
  <2>3. /\ g \in Seq(Page) /\ Len(g) = Len(t) + 1 /\ g[1] = p
        /\ \A x \in 1..Len(t) : g[x + 1] = t[x]
    BY <2>1, Cons
  <2> HIDE DEF g
  <2>4. Len(g) = 3 /\ g[2] = q /\ g[3] = s
    <3>1. g[1 + 1] = t[1] /\ g[2 + 1] = t[2]
      BY <2>1, <2>3
    <3> QED
      BY <2>1, <2>3, <3>1
  <2>5. \A x \in 1..Len(u) : g[x] = u[x]
    BY <2>2, <2>3, <2>4
  <2>6. g = u
    BY <2>2, <2>3, <2>4, <2>5, SameList, Zenon
  <2> QED
    BY <2>6, Zenon DEF g, t, u
<1> QED
  BY <1>1, <1>2, <1>3, Zenon

\* The first three pages of the list.
LEMMA FirstThree ==
  ASSUME Machine, NEW m \in Memory, NEW dn, DirHas(m, dn), ListHas(m, dn), Len(m.free) >= 3
  PROVE  /\ \A x \in 1..3 : /\ x \in DOMAIN m.free /\ m.free[x] \in FreePages(m)
                            /\ m.free[x] \in Page /\ m.free[x] # KernEnd /\ m.ref[m.free[x]] = 0
         /\ m.free[1] # m.free[2] /\ m.free[1] # m.free[3] /\ m.free[2] # m.free[3]
         /\ m.free \in Seq(Page) /\ Rest(m.free) \in Seq(Page)
<1>1. m.free \in Seq(Page) /\ Once(m) /\ Rest(m.free) \in Seq(Page)
  BY MemoryParts, RestOf DEF ListHas
<1>2. \A x \in 1..3 : x \in DOMAIN m.free /\ m.free[x] \in FreePages(m)
  BY <1>1 DEF FreePages
<1>3. \A x \in 1..3 : m.free[x] \in Page /\ m.free[x] # KernEnd /\ m.ref[m.free[x]] = 0
  BY <1>2, FreeParts
<1>4. m.free[1] # m.free[2] /\ m.free[1] # m.free[3] /\ m.free[2] # m.free[3]
  BY <1>1, <1>2 DEF Once
<1> QED
  BY <1>1, <1>2, <1>3, <1>4

\* What the checks fill pages with is content of a page.
LEMMA ContentFacts ==
  /\ ZeroPage \in PageContent /\ Filled({}) \in PageContent /\ Filled({"U", "W"}) \in PageContent
  /\ \A c \in PageContent : Started(c, {"U", "W"}) \in PageContent /\ Started(c, {"W"}) \in PageContent
<1>1. 0 \in Page /\ {} \in Perm /\ {"W"} \in Perm /\ {"U", "W"} \in Perm
  BY Layout, UsablePages, LayoutAssumption
<1>2. \A f \in {{}, {"W"}, {"U", "W"}} : [pg |-> 0, perm |-> f] \in Pte
  BY <1>1, PteFacts DEF Pte
<1>3. NoPte \in Pte
  BY DEF Pte
<1> QED
  BY <1>2, <1>3 DEF PageContent, ZeroPage, Filled, Started

\* The memories of check_page_alloc; mm is the one it leaves.
AllocChain(m, a, b, c, k1, k2, k3, mm) ==
  /\ a = m.free[1] /\ b = m.free[2] /\ c = m.free[3]
  /\ k1 = PageFree(PageFree(PageFree([m EXCEPT !.free = <<>>], a), b), c)
  /\ k2 = PageAlloc(PageAlloc(PageAlloc(k1, FALSE), FALSE), FALSE)
  /\ k3 = PageAlloc(PageFree([k2 EXCEPT !.mem[c] = Filled({})], c), TRUE)
  /\ mm = PageFree(PageFree(PageFree([k3 EXCEPT !.free = Rest(m.free)], c), b), a)

\* check_page_alloc passes and only clears the third page of the list.
LEMMA AllocCalls ==
  ASSUME Machine, NEW m \in Memory, NEW dn, DirHas(m, dn), ListHas(m, dn), Len(m.free) >= 3,
         NEW a, NEW b, NEW c, NEW k1, NEW k2, NEW k3, NEW mm, AllocChain(m, a, b, c, k1, k2, k3, mm)
  PROVE  /\ k1.free = <<c, b, a>> /\ OutOfMemory(k2) /\ k3.mem[c] = ZeroPage
         /\ Is(mm, m.free, m.ref, Put(m.mem, c, ZeroPage))
<1> DEFINE f == m.free
           r == m.ref
           t == m.mem
           t0 == Put(t, c, Filled({}))
           t1 == Put(t0, c, ZeroPage)
           nil == <<>>
           s1 == <<a>> \o nil
           s2 == <<b>> \o s1
           s3 == <<c>> \o s2
<1>1. /\ a \in Page /\ b \in Page /\ c \in Page /\ f \in Seq(Page) /\ Rest(f) \in Seq(Page)
      /\ nil \in Seq(Page) /\ t \in [Page -> PageContent] /\ Filled({}) \in PageContent
  <2>1. a = m.free[1] /\ b = m.free[2] /\ c = m.free[3]
    BY DEF AllocChain
  <2> QED
    BY <2>1, FirstThree, MemoryParts, ContentFacts
<1>2. Is(m, f, r, t)
  BY DEF Is
<1>3. s1 \in Seq(Page) /\ s2 \in Seq(Page) /\ s3 \in Seq(Page) /\ s3 = <<c, b, a>>
  BY <1>1, Cons, Triple
<1> DEFINE l0 == [m EXCEPT !.free = <<>>]
           l1 == PageFree(l0, a)
           l2 == PageFree(l1, b)
<1>4. Is(l0, nil, r, t)
  BY <1>1, <1>2, IsSet
<1> HIDE DEF l0, nil
<1>5. Is(l1, s1, r, t)
  BY <1>1, <1>4, IsFreed
<1> HIDE DEF l1, s1
<1>6. Is(l2, s2, r, t)
  BY <1>1, <1>5, IsFreed
<1> HIDE DEF l2, s2
<1>7. k1 = PageFree(l2, c)
  BY DEF AllocChain, l2, l1, l0, nil
<1>8. Is(k1, s3, r, t)
  BY <1>1, <1>6, <1>7, IsFreed
<1> DEFINE n1 == PageAlloc(k1, FALSE)
           n2 == PageAlloc(n1, FALSE)
<1>9. Is(n1, s2, r, t)
  BY <1>1, <1>3, <1>8, IsTaken
<1> HIDE DEF n1
<1>10. Is(n2, s1, r, t)
  BY <1>1, <1>3, <1>9, IsTaken DEF s2
<1> HIDE DEF n2
<1>11. k2 = PageAlloc(n2, FALSE)
  BY DEF AllocChain, n2, n1
<1>12. Is(k2, nil, r, t)
  BY <1>1, <1>10, <1>11, IsTaken DEF s1
<1>13. k1.free = <<c, b, a>> /\ OutOfMemory(k2)
  BY <1>3, <1>8, <1>12 DEF Is, OutOfMemory, nil
<1> DEFINE q0 == [k2 EXCEPT !.mem[c] = Filled({})]
           q1 == PageFree(q0, c)
<1>14. Is(q0, nil, r, t0)
  BY <1>1, <1>12, IsSet
<1> HIDE DEF q0, t0
<1>15. Is(q1, <<c>> \o nil, r, t0)
  BY <1>1, <1>14, IsFreed
<1> HIDE DEF q1
<1>16. k3 = PageAlloc(q1, TRUE)
  BY DEF AllocChain, q1, q0
<1>17. Is(k3, nil, r, t1)
  <2>1. nil \in Seq(Page) /\ c \in Page
    BY <1>1
  <2>2. Is(PageAlloc(q1, TRUE), nil, r, Put(t0, c, ZeroPage))
    <3> HIDE DEF f, r, t, s3, t1
    <3> QED
      BY <1>15, <2>1, IsTaken
  <2> QED
    BY <1>16, <2>2
<1>18. t1 = Put(t, c, ZeroPage) /\ t1[c] = ZeroPage
  <2>1. t \in [Page -> PageContent] /\ c \in Page /\ Filled({}) \in PageContent /\ ZeroPage \in PageContent
    BY <1>1, ContentFacts
  <2> HIDE DEF t
  <2>2. t1 = Put(t, c, ZeroPage)
    BY <2>1, PutAt DEF t0
  <2>3. Put(t, c, ZeroPage)[c] = ZeroPage
    BY <2>1, PutAt
  <2> QED
    BY <2>2, <2>3
<1>19. k3.mem[c] = ZeroPage
  BY <1>17, <1>18 DEF Is
<1> HIDE DEF t1
<1> DEFINE v0 == [k3 EXCEPT !.free = Rest(f)]
           v1 == PageFree(v0, c)
           v2 == PageFree(v1, b)
           g == <<a>> \o (<<b>> \o (<<c>> \o Rest(f)))
<1>20. Is(v0, Rest(f), r, t1)
  BY <1>1, <1>17, IsSet
<1> HIDE DEF v0
<1>21. Is(v1, <<c>> \o Rest(f), r, t1)
  BY <1>1, <1>20, IsFreed
<1> HIDE DEF v1
<1>22. Is(v2, <<b>> \o (<<c>> \o Rest(f)), r, t1)
  BY <1>1, <1>21, IsFreed
<1> HIDE DEF v2
<1>23. mm = PageFree(v2, a)
  BY DEF AllocChain, v2, v1, v0
<1>24. Is(mm, g, r, t1)
  BY <1>1, <1>22, <1>23, IsFreed
<1>25. g = f
  <2>1. /\ g \in Seq(Page) /\ Len(g) = Len(f) /\ g[1] = a /\ g[2] = b /\ g[3] = c
        /\ \A x \in 4..Len(f) : g[x] = f[x]
    <3> HIDE DEF f
    <3>1. Len(f) >= 3
      BY DEF f
    <3> QED
      <4>1. a \in Page /\ b \in Page /\ c \in Page /\ f \in Seq(Page)
        BY <1>1
      <4> QED
        BY <3>1, <4>1, RestOf
  <2> HIDE DEF g
  <2>2. \A x \in 1..Len(f) : g[x] = f[x]
    <3> SUFFICES ASSUME NEW x \in 1..Len(f) PROVE g[x] = f[x]
      OBVIOUS
    <3>1. x = 1 \/ x = 2 \/ x = 3 \/ x \in 4..Len(f)
      BY <1>1
    <3>2. a = f[1] /\ b = f[2] /\ c = f[3]
      BY DEF AllocChain
    <3> QED
      BY <2>1, <3>1, <3>2
  <2> QED
    BY <1>1, <2>1, <2>2, SameList, Zenon
<1> QED
  BY <1>13, <1>18, <1>19, <1>24, <1>25

(* The memory m of check_page, seen from o: the list f, the counts of the  *)
(* three pages and the first two entries of the directory d.               *)
Shows(m, o, d, a, b, c, f, ra, rb, rc, d0, d1) ==
  /\ m \in Memory /\ m.free = f
  /\ m.ref[a] = ra /\ m.ref[b] = rb /\ m.ref[c] = rc
  /\ \A p \in Page : p # a /\ p # b /\ p # c => m.ref[p] = o.ref[p]
  /\ m.mem[d][0] = d0 /\ m.mem[d][1] = d1
  /\ \A x \in Idx : x # 0 /\ x # 1 => m.mem[d][x] = o.mem[d][x]
  /\ \A p \in Page : p # a /\ p # d => m.mem[p] = o.mem[p]

\* The page table a has the entries e0 and e1 and no others.
HasTwo(m, a, e0, e1) ==
  /\ m.mem[a][0] = e0 /\ m.mem[a][1] = e1
  /\ \A x \in Idx : x # 0 /\ x # 1 => m.mem[a][x] = NoPte

Apart(d, a, b, c) ==
  /\ d \in Page /\ a \in Page /\ b \in Page /\ c \in Page
  /\ d # a /\ d # b /\ d # c /\ a # b /\ a # c /\ b # c

\* The entry for the page table a.
Hook(a) == [pg |-> a, perm |-> TablePerm]

\* The entry at x of the entries e0 and e1 is ex; with e there they are f0 and f1.
Slot(x, e0, e1, ex, e, f0, f1) ==
  \/ x = 0 /\ ex = e0 /\ f0 = e /\ f1 = e1
  \/ x = 1 /\ ex = e1 /\ f0 = e0 /\ f1 = e

\* The roles of the second and the third page can be exchanged.
LEMMA ShowsSwap ==
  ASSUME NEW m, NEW o, NEW d, NEW a, NEW b, NEW c, NEW f, NEW ra, NEW rb, NEW rc, NEW d0, NEW d1
  PROVE  /\ Shows(m, o, d, a, b, c, f, ra, rb, rc, d0, d1) <=>
              Shows(m, o, d, a, c, b, f, ra, rc, rb, d0, d1)
         /\ Apart(d, a, b, c) <=> Apart(d, a, c, b)
<1>1. Shows(m, o, d, a, b, c, f, ra, rb, rc, d0, d1) <=>
        Shows(m, o, d, a, c, b, f, ra, rc, rb, d0, d1)
  BY Zenon DEF Shows
<1>2. Apart(d, a, b, c) <=> Apart(d, a, c, b)
  BY DEF Apart
<1> QED
  BY <1>1, <1>2

\* page_free puts the page in front and changes no content.
LEMMA ShowsFree ==
  ASSUME NEW m, NEW o, NEW d, NEW a, NEW b, NEW c, NEW f, NEW ra, NEW rb, NEW rc, NEW d0, NEW d1,
         Shows(m, o, d, a, b, c, f, ra, rb, rc, d0, d1), NEW p \in Page
  PROVE  /\ Shows(PageFree(m, p), o, d, a, b, c, <<p>> \o f, ra, rb, rc, d0, d1)
         /\ PageFree(m, p).mem = m.mem
<1>1. m \in Memory /\ m.free = f
  BY DEF Shows
<1> DEFINE mm == PageFree(m, p)
<1>2. mm \in Memory /\ mm.free = <<p>> \o f /\ mm.ref = m.ref /\ mm.mem = m.mem
  BY <1>1, FreeFields
<1> HIDE DEF mm
<1>3. Shows(mm, o, d, a, b, c, <<p>> \o f, ra, rb, rc, d0, d1)
  BY <1>2, Zenon DEF Shows
<1> QED
  BY <1>2, <1>3 DEF mm

\* page_alloc without ALLOC_ZERO takes the first page and changes no content.
LEMMA ShowsAlloc ==
  ASSUME NEW m, NEW o, NEW d, NEW a, NEW b, NEW c, NEW f \in Seq(Page), NEW ra, NEW rb, NEW rc, NEW d0, NEW d1,
         NEW p \in Page, Shows(m, o, d, a, b, c, <<p>> \o f, ra, rb, rc, d0, d1)
  PROVE  /\ Shows(PageAlloc(m, FALSE), o, d, a, b, c, f, ra, rb, rc, d0, d1)
         /\ PageAlloc(m, FALSE).mem = m.mem
<1>1. m \in Memory /\ m.free = <<p>> \o f
  BY DEF Shows
<1>2. Is(m, <<p>> \o f, m.ref, m.mem)
  BY <1>1 DEF Is
<1> DEFINE mm == PageAlloc(m, FALSE)
<1>3. Is(mm, f, m.ref, m.mem)
  BY <1>2, IsTaken
<1> HIDE DEF mm
<1>4. mm \in Memory /\ mm.free = f /\ mm.ref = m.ref /\ mm.mem = m.mem
  BY <1>3 DEF Is
<1>5. Shows(mm, o, d, a, b, c, f, ra, rb, rc, d0, d1)
  BY <1>4, Zenon DEF Shows
<1> QED
  BY <1>4, <1>5 DEF mm

\* "forcibly take pp0 back": the directory entry and the reference of the table go.
LEMMA ShowsForced ==
  ASSUME NEW m, NEW o, NEW d, NEW a, NEW b, NEW c, NEW f, NEW ra, NEW rb, NEW rc, NEW d0, NEW d1,
         Shows(m, o, d, a, b, c, f, ra, rb, rc, d0, d1), Apart(d, a, b, c), NEW x, NEW dx, NEW f0, NEW f1,
         Slot(x, d0, d1, dx, NoPte, f0, f1)
  PROVE  /\ Shows(Forced(m, d, x, a), o, d, a, b, c, f, 0, rb, rc, f0, f1)
         /\ Forced(m, d, x, a).mem[a] = m.mem[a]
<1> DEFINE mm == Forced(m, d, x, a)
           ms == SetEntry(m, d, x, NoPte)
<1>1. /\ m \in Memory /\ d \in Page /\ a \in Page /\ x \in Idx /\ 0 \in Idx /\ 1 \in Idx /\ NoPte \in Pte
      /\ 0 \in 0..RefMax
  BY Places, RefMaxAssumption, PteFacts DEF Shows, Apart, Slot
<1>2. ms \in Memory /\ ms.free = m.free /\ ms.ref = m.ref /\ ms.mem = [m.mem EXCEPT ![d][x] = NoPte]
  BY <1>1, SetEntryFields
<1> DEFINE r0 == [ms.ref EXCEPT ![a] = 0]
<1>3. mm = [ms EXCEPT !.ref = r0]
  BY DEF Forced
<1> HIDE DEF ms, mm
<1>4. mm \in Memory /\ mm.free = m.free /\ mm.ref = [m.ref EXCEPT ![a] = 0] /\ mm.mem = ms.mem
  <2>1. r0 \in [Page -> 0..RefMax]
    BY <1>1, <1>2, MemoryParts
  <2> HIDE DEF r0
  <2>2. mm \in Memory /\ mm.free = ms.free /\ mm.ref = r0 /\ mm.mem = ms.mem
    BY <1>2, <1>3, <2>1, MemoryExcept
  <2> QED
    BY <1>2, <2>2 DEF r0
<1>5. m.mem \in [Page -> PageContent] /\ m.mem[d] \in [Idx -> Pte] /\ m.ref \in [Page -> 0..RefMax]
  BY <1>1, MemoryParts DEF PageContent
<1>6. /\ \A y \in Idx : mm.mem[d][y] = IF y = x THEN NoPte ELSE m.mem[d][y]
      /\ \A p \in Page : p # d => mm.mem[p] = m.mem[p]
  BY <1>1, <1>2, <1>4, <1>5
<1>7. mm.ref[a] = 0 /\ \A p \in Page : p # a => mm.ref[p] = m.ref[p]
  BY <1>1, <1>4, <1>5
<1>8. Shows(mm, o, d, a, b, c, f, 0, rb, rc, f0, f1)
  <2>1. mm.free = f /\ mm.ref[b] = rb /\ mm.ref[c] = rc
    BY <1>4, <1>7 DEF Shows, Apart
  <2>2. \A p \in Page : p # a /\ p # b /\ p # c => mm.ref[p] = o.ref[p]
    BY <1>7 DEF Shows
  <2>3. /\ mm.mem[d][0] = f0 /\ mm.mem[d][1] = f1
        /\ \A y \in Idx : y # 0 /\ y # 1 => mm.mem[d][y] = o.mem[d][y]
    BY <1>1, <1>6 DEF Shows, Slot
  <2>4. \A p \in Page : p # a /\ p # d => mm.mem[p] = o.mem[p]
    BY <1>6 DEF Shows
  <2> QED
    BY <1>4, <1>7, <2>1, <2>2, <2>3, <2>4 DEF Shows
<1>9. mm.mem[a] = m.mem[a]
  BY <1>6 DEF Apart
<1> QED
  BY <1>8, <1>9 DEF mm

\* pgdir_walk makes the page table a.
LEMMA ShowsWalk ==
  ASSUME NEW m, NEW o, NEW d, NEW a, NEW b, NEW c, NEW f \in Seq(Page), NEW rb, NEW rc, NEW d0, NEW d1,
         Shows(m, o, d, a, b, c, <<a>> \o f, 0, rb, rc, d0, d1), Apart(d, a, b, c), NEW x, NEW f0, NEW f1,
         Slot(x, d0, d1, NoPte, Hook(a), f0, f1)
  PROVE  /\ ~WalkFails(m, d, x)
         /\ Shows(Walk(m, d, x), o, d, a, b, c, f, 1, rb, rc, f0, f1)
         /\ HasTwo(Walk(m, d, x), a, NoPte, NoPte)
<1>1. /\ m \in Memory /\ d \in Page /\ a \in Page /\ d # a /\ x \in Idx /\ 0 \in Idx /\ 1 \in Idx
      /\ m.free = <<a>> \o f
  BY Places DEF Shows, Apart, Slot
<1>2. ~OutOfMemory(m) /\ Allocated(m) = a /\ Tail(m.free) = f
  BY <1>1, Cons DEF OutOfMemory, Allocated
<1>3. ~HasTable(m, d, x)
  BY DEF Shows, HasTable, Slot
<1> DEFINE w == Walk(m, d, x)
<1>4. NewTable(m, w, d, x, a)
  BY <1>1, <1>2, <1>3, WalkTakes
<1> HIDE DEF w
<1>5. /\ w \in Memory /\ w.free = f
      /\ w.ref = [m.ref EXCEPT ![a] = IF @ = RefMax THEN 0 ELSE @ + 1]
      /\ w.mem[a] = ZeroPage /\ w.mem[d][x] = Hook(a)
      /\ \A y \in Idx : y # x => w.mem[d][y] = m.mem[d][y]
      /\ \A p \in Page : p # a /\ p # d => w.mem[p] = m.mem[p]
  BY <1>2, <1>4 DEF NewTable, Hook
<1>6. w.ref[a] = 1 /\ \A p \in Page : p # a => w.ref[p] = m.ref[p]
  <2>1. m.ref \in [Page -> 0..RefMax] /\ m.ref[a] = 0 /\ RefMax # 0
    BY <1>1, MemoryParts, RefMaxAssumption DEF Shows
  <2> QED
    BY <1>1, <1>5, <2>1
<1>7. Shows(w, o, d, a, b, c, f, 1, rb, rc, f0, f1)
  <2>1. w.ref[b] = rb /\ w.ref[c] = rc
    BY <1>6 DEF Shows, Apart
  <2>2. \A p \in Page : p # a /\ p # b /\ p # c => w.ref[p] = o.ref[p]
    BY <1>6 DEF Shows
  <2>3. /\ w.mem[d][0] = f0 /\ w.mem[d][1] = f1
        /\ \A y \in Idx : y # 0 /\ y # 1 => w.mem[d][y] = o.mem[d][y]
    BY <1>1, <1>5 DEF Shows, Slot
  <2>4. \A p \in Page : p # a /\ p # d => w.mem[p] = o.mem[p]
    BY <1>5 DEF Shows
  <2> QED
    BY <1>5, <1>6, <2>1, <2>2, <2>3, <2>4 DEF Shows
<1>8. HasTwo(w, a, NoPte, NoPte)
  BY <1>1, <1>5 DEF HasTwo, ZeroPage
<1>9. ~WalkFails(m, d, x)
  BY <1>2 DEF WalkFails
<1> QED
  BY <1>7, <1>8, <1>9 DEF w

\* The memory mm is m with the entry e at index x of a.
Entered(m, mm, a, x, e) ==
  /\ m \in Memory /\ mm \in Memory /\ e \in Pte
  /\ mm.mem = [m.mem EXCEPT ![a][x] = e]

ListIs(m, f) == m.free = f

\* The counts of b and c are now rp and rq.
Counted(m, mm, b, c, rp, rq) == mm.ref = [m.ref EXCEPT ![b] = rp, ![c] = rq]

\* What is seen of it.
LEMMA ShowsEntered ==
  ASSUME NEW m, NEW o, NEW d, NEW a, NEW b, NEW c, NEW f, NEW ra, NEW rb, NEW rc, NEW d0, NEW d1,
         Shows(m, o, d, a, b, c, f, ra, rb, rc, d0, d1), Apart(d, a, b, c),
         NEW e0, NEW e1, HasTwo(m, a, e0, e1), NEW x, NEW ex, NEW e, NEW f0, NEW f1,
         Slot(x, e0, e1, ex, e, f0, f1),
         NEW mm, Entered(m, mm, a, x, e), NEW g, ListIs(mm, g),
         NEW rp, NEW rq, Counted(m, mm, b, c, rp, rq)
  PROVE  Shows(mm, o, d, a, b, c, g, ra, rp, rq, d0, d1) /\ HasTwo(mm, a, f0, f1)
<1>1. /\ m \in Memory /\ mm \in Memory /\ d \in Page /\ a \in Page /\ d # a /\ 0 \in Idx /\ 1 \in Idx
      /\ b \in Page /\ c \in Page /\ a # b /\ a # c /\ b # c
  BY Places DEF Shows, Apart, Entered
<1>0. x \in Idx
  BY <1>1 DEF Slot
<1>2. m.mem \in [Page -> PageContent] /\ m.mem[a] \in [Idx -> Pte] /\ m.ref \in [Page -> 0..RefMax]
  BY <1>1, MemoryParts DEF PageContent
<1>3. /\ \A y \in Idx : mm.mem[a][y] = IF y = x THEN e ELSE m.mem[a][y]
      /\ \A p \in Page : p # a => mm.mem[p] = m.mem[p]
  BY <1>0, <1>1, <1>2 DEF Entered
<1>4. /\ mm.ref[b] = rp /\ mm.ref[c] = rq /\ mm.free = g
      /\ \A p \in Page : p # b /\ p # c => mm.ref[p] = m.ref[p]
  BY <1>1, <1>2 DEF Counted, ListIs
<1>5. Shows(mm, o, d, a, b, c, g, ra, rp, rq, d0, d1)
  <2>1. mm.ref[a] = ra /\ \A p \in Page : p # a /\ p # b /\ p # c => mm.ref[p] = o.ref[p]
    BY <1>1, <1>4 DEF Shows
  <2>2. /\ mm.mem[d][0] = d0 /\ mm.mem[d][1] = d1
        /\ \A y \in Idx : y # 0 /\ y # 1 => mm.mem[d][y] = o.mem[d][y]
    BY <1>1, <1>3 DEF Shows
  <2>3. \A p \in Page : p # a /\ p # d => mm.mem[p] = o.mem[p]
    BY <1>3 DEF Shows
  <2> QED
    BY <1>1, <1>4, <2>1, <2>2, <2>3 DEF Shows
<1>6. HasTwo(mm, a, f0, f1)
  <2>1. CASE x = 0
    BY <1>1, <1>3, <2>1 DEF HasTwo, Slot
  <2>2. CASE x = 1
    BY <1>1, <1>3, <2>2 DEF HasTwo, Slot
  <2> QED
    BY <2>1, <2>2 DEF Slot
<1> QED
  BY <1>5, <1>6

\* page_insert of the page p at the address <<0, x>>, which enters e.
Enters(m, mm, d, p, x, e) ==
  \E perm \in Perm : mm = PageInsert(m, d, p, <<0, x>>, perm) /\ e = [pg |-> p, perm |-> perm]

\* A count of references and the next.
Up(r, n) == r \in Nat /\ n = r + 1 /\ n <= RefMax

Is1(e, p) == e # NoPte /\ e.pg = p

\* page_insert of the second page in the checks' own table: the entry, the
\* reference counts and the list after it.
LEMMA EntersFacts ==
  ASSUME NEW m, NEW o, NEW d, NEW a, NEW b, NEW c, NEW f, NEW rb, NEW rn, NEW rc, NEW d1,
         Shows(m, o, d, a, b, c, f, 1, rb, rc, Hook(a), d1), Apart(d, a, b, c), Up(rb, rn),
         NEW e0, NEW e1, HasTwo(m, a, e0, e1), NEW x, NEW ex, NEW e, NEW f0, NEW f1,
         Slot(x, e0, e1, ex, e, f0, f1), NEW mm, Enters(m, mm, d, b, x, e),
         ex = NoPte \/ (ex.pg = b /\ rb = 1) \/ (ex.pg = c /\ rc = 1)
  PROVE  /\ Entered(m, mm, a, x, e)
         /\ ex = NoPte => ListIs(mm, f) /\ Counted(m, mm, b, c, rn, rc)
         /\ Is1(ex, b) => ListIs(mm, f) /\ Counted(m, mm, b, c, rb, rc)
         /\ Is1(ex, c) => ListIs(mm, <<c>> \o f) /\ Counted(m, mm, b, c, rn, 0)
<1>1. /\ m \in Memory /\ d \in Page /\ a \in Page /\ d # a /\ 0 \in Idx /\ 1 \in Idx
      /\ b \in Page /\ c \in Page /\ b # c
      /\ Hung(m, d, 0, a) /\ m.ref[b] = rb /\ m.ref[c] = rc /\ m.free = f
  BY Places DEF Shows, Apart, Hung, Hook
<1>0. x \in Idx /\ m.mem[a][x] = ex
  BY <1>1 DEF HasTwo, Slot
<1>2. PICK perm \in Perm : mm = PageInsert(m, d, b, <<0, x>>, perm) /\ e = [pg |-> b, perm |-> perm]
  BY DEF Enters
<1>3. m.mem[a][x] # NoPte => m.ref[PageAt(m, a, x)] = 1
  BY <1>0, <1>1 DEF PageAt
<1>4. m.ref[b] < RefMax
  BY <1>1, RefMaxAssumption DEF Up
<1>5. Inserted(m, mm, a, x, b, perm)
  BY <1>0, <1>1, <1>2, <1>3, <1>4, OneInsert
<1>6. e \in Pte
  BY <1>1, <1>2, PteFacts DEF Pte
<1>7. Entered(m, mm, a, x, e)
  BY <1>1, <1>2, <1>5, <1>6 DEF Inserted, Entered
<1>8. m.ref \in [Page -> 0..RefMax]
  BY <1>1, MemoryParts
<1>9. ex = NoPte => ListIs(mm, f) /\ Counted(m, mm, b, c, rn, rc)
  <2> HAVE ex = NoPte
  <2>1. mm.free = m.free /\ mm.ref = [m.ref EXCEPT ![b] = @ + 1]
    BY <1>0, <1>5 DEF Inserted
  <2> QED
    BY <1>1, <1>8, <2>1 DEF Counted, ListIs, Up
<1>10. Is1(ex, b) => ListIs(mm, f) /\ Counted(m, mm, b, c, rb, rc)
  <2> HAVE Is1(ex, b)
  <2>1. mm.free = m.free /\ mm.ref = m.ref
    BY <1>0, <1>5 DEF Inserted, PageAt, Is1
  <2> QED
    BY <1>1, <1>8, <2>1 DEF Counted, ListIs
<1>11. Is1(ex, c) => ListIs(mm, <<c>> \o f) /\ Counted(m, mm, b, c, rn, 0)
  <2> HAVE Is1(ex, c)
  <2>1. mm.free = <<c>> \o m.free /\ mm.ref = [m.ref EXCEPT ![b] = @ + 1, ![c] = 0]
    BY <1>0, <1>1, <1>5 DEF Inserted, PageAt, Is1
  <2>2. ListIs(mm, <<c>> \o f)
    BY <1>1, <2>1 DEF ListIs
  <2>3. Counted(m, mm, b, c, rn, 0)
    BY <1>1, <1>8, <2>1 DEF Counted, Up
  <2> QED
    BY <2>2, <2>3
<1> QED
  BY <1>7, <1>9, <1>10, <1>11

\* The three ways: where nothing is, where b is, and where c is.
LEMMA InsertNew ==
  ASSUME NEW m, NEW o, NEW d, NEW a, NEW b, NEW c, NEW f, NEW rb, NEW rn, NEW rc, NEW d1,
         Shows(m, o, d, a, b, c, f, 1, rb, rc, Hook(a), d1), Apart(d, a, b, c), Up(rb, rn),
         NEW e0, NEW e1, HasTwo(m, a, e0, e1), NEW x, NEW e, NEW f0, NEW f1,
         Slot(x, e0, e1, NoPte, e, f0, f1), NEW mm, Enters(m, mm, d, b, x, e)
  PROVE  Shows(mm, o, d, a, b, c, f, 1, rn, rc, Hook(a), d1) /\ HasTwo(mm, a, f0, f1)
<1>1. Entered(m, mm, a, x, e) /\ ListIs(mm, f) /\ Counted(m, mm, b, c, rn, rc)
  BY EntersFacts
<1> QED
  BY <1>1, ShowsEntered, Zenon

\* Inserting the page where it is mapped changes only the permissions.
LEMMA InsertSame ==
  ASSUME NEW m, NEW o, NEW d, NEW a, NEW b, NEW c, NEW f, NEW rc, NEW d1,
         Shows(m, o, d, a, b, c, f, 1, 1, rc, Hook(a), d1), Apart(d, a, b, c), Up(1, 2),
         NEW e0, NEW e1, HasTwo(m, a, e0, e1), NEW x, NEW ex, Is1(ex, b), NEW e, NEW f0, NEW f1,
         Slot(x, e0, e1, ex, e, f0, f1), NEW mm, Enters(m, mm, d, b, x, e)
  PROVE  Shows(mm, o, d, a, b, c, f, 1, 1, rc, Hook(a), d1) /\ HasTwo(mm, a, f0, f1)
<1>0. ex.pg = b
  BY DEF Is1
<1>1. Entered(m, mm, a, x, e) /\ ListIs(mm, f) /\ Counted(m, mm, b, c, 1, rc)
  BY <1>0, EntersFacts
<1> QED
  BY <1>1, ShowsEntered, Zenon

\* Inserting over the only mapping of the other page frees that page.
LEMMA InsertOver ==
  ASSUME NEW m, NEW o, NEW d, NEW a, NEW b, NEW c, NEW f, NEW rb, NEW rn, NEW d1,
         Shows(m, o, d, a, b, c, f, 1, rb, 1, Hook(a), d1), Apart(d, a, b, c), Up(rb, rn),
         NEW e0, NEW e1, HasTwo(m, a, e0, e1), NEW x, NEW ex, Is1(ex, c), NEW e, NEW f0, NEW f1,
         Slot(x, e0, e1, ex, e, f0, f1), NEW mm, Enters(m, mm, d, b, x, e)
  PROVE  Shows(mm, o, d, a, b, c, <<c>> \o f, 1, rn, 0, Hook(a), d1) /\ HasTwo(mm, a, f0, f1)
<1>0. ex.pg = c
  BY DEF Is1
<1>1. Entered(m, mm, a, x, e) /\ ListIs(mm, <<c>> \o f) /\ Counted(m, mm, b, c, rn, 0)
  BY <1>0, EntersFacts
<1> DEFINE g == <<c>> \o f
<1>2. ListIs(mm, g)
  BY <1>1
<1> HIDE DEF g
<1>3. Shows(mm, o, d, a, b, c, g, 1, rn, 0, Hook(a), d1) /\ HasTwo(mm, a, f0, f1)
  BY <1>1, <1>2, ShowsEntered, Zenon
<1> QED
  BY <1>3 DEF g

\* page_remove at the address <<0, x>>.
Removes(m, mm, d, x) == mm = PageRemove(m, d, <<0, x>>)

\* With rn references left, b goes to the list f or stays.
Gone(rn, b, f, g) == (rn = 0 /\ g = <<b>> \o f) \/ (rn # 0 /\ g = f)

\* page_remove in the checks' own table: the entry, the counts and the list after it.
LEMMA RemoveFacts ==
  ASSUME NEW m, NEW o, NEW d, NEW a, NEW b, NEW c, NEW f, NEW rb, NEW rn, NEW rc, NEW d1,
         Shows(m, o, d, a, b, c, f, 1, rb, rc, Hook(a), d1), Apart(d, a, b, c), Up(rn, rb),
         NEW e0, NEW e1, HasTwo(m, a, e0, e1), NEW x, NEW ex, Is1(ex, b), NEW f0, NEW f1,
         Slot(x, e0, e1, ex, NoPte, f0, f1), NEW mm, Removes(m, mm, d, x), NEW g, Gone(rn, b, f, g)
  PROVE  Entered(m, mm, a, x, NoPte) /\ Counted(m, mm, b, c, rn, rc) /\ ListIs(mm, g)
<1>1. /\ m \in Memory /\ d \in Page /\ a \in Page /\ d # a /\ 0 \in Idx /\ 1 \in Idx
      /\ b \in Page /\ c \in Page /\ b # c
      /\ Hung(m, d, 0, a) /\ m.ref[b] = rb /\ m.ref[c] = rc /\ m.free = f
  BY Places DEF Shows, Apart, Hung, Hook
<1>0. x \in Idx /\ m.mem[a][x] = ex
  BY <1>1 DEF HasTwo, Slot
<1>2. m.mem[a][x] # NoPte /\ PageAt(m, a, x) = b
  BY <1>0 DEF PageAt, Is1
<1>3. mm = PageRemove(m, d, <<0, x>>) /\ m.ref[b] \in 1..RefMax /\ rb = rn + 1 /\ rn \in Nat
  BY <1>1, RefMaxAssumption DEF Removes, Up
<1>4. Released(m, mm, a, x, b)
  BY <1>0, <1>1, <1>2, <1>3, OneRemove
<1>5. NoPte \in Pte
  BY PteFacts
<1>6. Entered(m, mm, a, x, NoPte)
  BY <1>1, <1>4, <1>5 DEF Released, Entered
<1>7. m.ref \in [Page -> 0..RefMax]
  BY <1>1, MemoryParts
<1>8. Counted(m, mm, b, c, rn, rc)
  <2>1. mm.ref = [m.ref EXCEPT ![b] = m.ref[b] - 1]
    BY <1>4 DEF Released
  <2>2. m.ref[b] - 1 = rn
    BY <1>1, <1>3
  <2> QED
    BY <1>1, <1>7, <2>1, <2>2 DEF Counted
<1>9. ListIs(mm, g)
  <2>1. rn = 0 <=> m.ref[b] = 1
    BY <1>1, <1>3
  <2>2. /\ m.ref[b] = 1 => mm.free = <<b>> \o m.free
        /\ m.ref[b] # 1 => mm.free = m.free
    BY <1>4 DEF Released
  <2> QED
    BY <1>1, <2>1, <2>2, Zenon DEF ListIs, Gone
<1> QED
  BY <1>6, <1>8, <1>9

\* page_remove frees the page with its last reference and not before.
LEMMA RemoveOne ==
  ASSUME NEW m, NEW o, NEW d, NEW a, NEW b, NEW c, NEW f, NEW rb, NEW rn, NEW rc, NEW d1,
         Shows(m, o, d, a, b, c, f, 1, rb, rc, Hook(a), d1), Apart(d, a, b, c), Up(rn, rb),
         NEW e0, NEW e1, HasTwo(m, a, e0, e1), NEW x, NEW ex, Is1(ex, b), NEW f0, NEW f1,
         Slot(x, e0, e1, ex, NoPte, f0, f1), NEW mm, Removes(m, mm, d, x), NEW g, Gone(rn, b, f, g)
  PROVE  Shows(mm, o, d, a, b, c, g, 1, rn, rc, Hook(a), d1) /\ HasTwo(mm, a, f0, f1)
<1>1. Entered(m, mm, a, x, NoPte) /\ ListIs(mm, g) /\ Counted(m, mm, b, c, rn, rc)
  BY RemoveFacts
<1> QED
  BY <1>1, ShowsEntered, Zenon

\* Filling the first page, which is not mapped, shows nowhere else.
LEMMA ShowsFilled ==
  ASSUME NEW m, NEW o, NEW d, NEW a, NEW b, NEW c, NEW f, NEW ra, NEW rb, NEW rc, NEW d0, NEW d1,
         Shows(m, o, d, a, b, c, f, ra, rb, rc, d0, d1), Apart(d, a, b, c), NEW v \in PageContent
  PROVE  Shows([m EXCEPT !.mem[a] = v], o, d, a, b, c, f, ra, rb, rc, d0, d1)
<1> DEFINE mm == [m EXCEPT !.mem[a] = v]
<1>1. m \in Memory /\ a \in Page /\ d \in Page /\ a # d
  BY DEF Shows, Apart
<1>2. mm \in Memory /\ mm.free = m.free /\ mm.ref = m.ref /\ mm.mem = Put(m.mem, a, v)
  <2>1. Is(m, m.free, m.ref, m.mem)
    BY <1>1 DEF Is
  <2>2. Is(mm, m.free, m.ref, Put(m.mem, a, v))
    BY <1>1, <2>1, IsSet
  <2> QED
    BY <2>2 DEF Is
<1> HIDE DEF mm
<1>3. \A p \in Page : p # a => mm.mem[p] = m.mem[p]
  <2>1. m.mem \in [Page -> PageContent]
    BY <1>1, MemoryParts
  <2>2. \A p \in Page : p # a => Put(m.mem, a, v)[p] = m.mem[p]
    BY <1>1, <2>1, PutAt
  <2> QED
    BY <1>2, <2>2
<1>4. mm.mem[d] = m.mem[d]
  BY <1>1, <1>3
<1>5. Shows(mm, o, d, a, b, c, f, ra, rb, rc, d0, d1)
  BY <1>2, <1>3, <1>4 DEF Shows
<1> QED
  BY <1>5 DEF mm

\* What is read through the page table a.
LEMMA ShowsLookup ==
  ASSUME NEW m, NEW o, NEW d, NEW a, NEW b, NEW c, NEW f, NEW ra, NEW rb, NEW rc, NEW d1,
         Shows(m, o, d, a, b, c, f, ra, rb, rc, Hook(a), d1), Apart(d, a, b, c),
         NEW e0, NEW e1, HasTwo(m, a, e0, e1)
  PROVE  /\ HasTable(m, d, 0) /\ TableOf(m, d, 0) = a
         /\ PageLookup(m, d, <<0, 0>>) = e0 /\ PageLookup(m, d, <<0, 1>>) = e1
<1>1. m \in Memory /\ d \in Page /\ a \in Page /\ 0 \in Idx /\ Hung(m, d, 0, a)
  BY Places DEF Shows, Apart, Hung, Hook
<1>2. HasTable(m, d, 0) /\ TableOf(m, d, 0) = a /\ \A j : PageLookup(m, d, <<0, j>>) = m.mem[a][j]
  BY <1>1, HungFacts
<1> QED
  BY <1>2 DEF HasTwo

\* The entry check_page's table hangs at.
LEMMA HookFacts ==
  ASSUME NEW a \in Page
  PROVE  Hook(a) # NoPte /\ Hook(a).pg = a /\ "U" \in Hook(a).perm
<1>1. Hook(a) \in Mapping /\ Hook(a).pg = a /\ Hook(a).perm = TablePerm
  BY PteFacts, PermAssumption DEF Hook
<1> QED
  BY <1>1, NoPteAssumption, LayoutAssumption

\* A page table without entries is clear.
LEMMA TwoClear ==
  ASSUME NEW m \in Memory, NEW a \in Page, HasTwo(m, a, NoPte, NoPte)
  PROVE  m.mem[a] = ZeroPage
<1>1. m.mem[a] \in [Idx -> Pte]
  BY MemoryParts DEF PageContent
<1>2. \A x \in Idx : m.mem[a][x] = NoPte
  BY DEF HasTwo
<1> QED
  BY <1>1, <1>2 DEF ZeroPage

\* What check_page asserts of the memories after its calls.
Maps(m, d, x, p) == PageLookup(m, d, <<0, x>>) # NoPte /\ PageLookup(m, d, <<0, x>>).pg = p
Allows(m, d, f) == f \in PageLookup(m, d, <<0, 1>>).perm

AssertsHold(o, d, a, b, c, m1, m2, m3, m4, m5, m6, m7, m8, m9, m11) ==
  /\ PageLookup(o, d, <<0, 0>>) = NoPte /\ WalkFails(o, d, 0)
  /\ TableOf(m1, d, 0) = a /\ Maps(m1, d, 0, b) /\ m1.ref[b] = 1 /\ m1.ref[a] = 1
  /\ \A m \in {m2, m3} : Maps(m, d, 1, c) /\ m.ref[c] = 1 /\ OutOfMemory(m)
  /\ Maps(m4, d, 1, c) /\ m4.ref[c] = 1 /\ Allows(m4, d, "U") /\ "U" \in m4.mem[d][0].perm
  /\ Allows(m5, d, "W") /\ ~Allows(m5, d, "U") /\ WalkFails(m5, d, 1)
  /\ ~Allows(m6, d, "U") /\ Maps(m6, d, 0, b) /\ Maps(m6, d, 1, b)
  /\ m6.ref[b] = 2 /\ m6.ref[c] = 0 /\ m6.free = <<c>>
  /\ PageLookup(m7, d, <<0, 0>>) = NoPte /\ Maps(m7, d, 1, b)
  /\ m7.ref[b] = 1 /\ m7.ref[c] = 0
  /\ \A x \in 0..1 : PageLookup(m8, d, <<0, x>>) = NoPte
  /\ m8.ref[b] = 0 /\ m8.ref[c] = 0 /\ m8.free = <<b>>
  /\ TableOf(m8, d, 0) = a /\ m8.ref[a] = 1
  /\ TableOf(m9, d, 1) = a /\ m11.mem[a] = ZeroPage

PageChain(o, d, a, b, c, m1, m2, m3, m4, m5, m6, m7, m8, m9, m11) ==
  /\ m1 = PageInsert(PageFree(o, a), d, b, <<0, 0>>, {"W"})
  /\ m2 = PageInsert(m1, d, c, <<0, 1>>, {"W"})
  /\ m3 = PageInsert(m2, d, c, <<0, 1>>, {"W"})
  /\ m4 = PageInsert(m3, d, c, <<0, 1>>, {"W", "U"})
  /\ m5 = PageInsert(m4, d, c, <<0, 1>>, {"W"})
  /\ m6 = PageInsert(m5, d, b, <<0, 1>>, {"W"})
  /\ m7 = PageRemove(PageAlloc(m6, FALSE), d, <<0, 0>>)
  /\ m8 = PageRemove(m7, d, <<0, 1>>)
  /\ m9 = Walk(PageFree(Forced(PageAlloc(m8, FALSE), d, 0, a), a), d, 1)
  /\ m11 = Walk(PageFree([Forced(m9, d, 1, a) EXCEPT !.mem[a] = Filled({"U", "W"})], a), d, 0)

\* The calls of check_page are a chain of memories and the assertions between them.
LEMMA PageCallsForm ==
  ASSUME NEW o, NEW d, NEW a, NEW b, NEW c
  PROVE  \E m1, m2, m3, m4, m5, m6, m7, m8, m9, m11 :
           /\ PageChain(o, d, a, b, c, m1, m2, m3, m4, m5, m6, m7, m8, m9, m11)
           /\ PageCalls(o, d, a, b, c).after = Forced(m11, d, 0, a)
           /\ PageCalls(o, d, a, b, c).asserts <=>
                AssertsHold(o, d, a, b, c, m1, m2, m3, m4, m5, m6, m7, m8, m9, m11)
<1> DEFINE m1 == PageInsert(PageFree(o, a), d, b, <<0, 0>>, {"W"})
           m2 == PageInsert(m1, d, c, <<0, 1>>, {"W"})
           m3 == PageInsert(m2, d, c, <<0, 1>>, {"W"})
           m4 == PageInsert(m3, d, c, <<0, 1>>, {"W", "U"})
           m5 == PageInsert(m4, d, c, <<0, 1>>, {"W"})
           m6 == PageInsert(m5, d, b, <<0, 1>>, {"W"})
           m7 == PageRemove(PageAlloc(m6, FALSE), d, <<0, 0>>)
           m8 == PageRemove(m7, d, <<0, 1>>)
           m9 == Walk(PageFree(Forced(PageAlloc(m8, FALSE), d, 0, a), a), d, 1)
           m11 == Walk(PageFree([Forced(m9, d, 1, a) EXCEPT !.mem[a] = Filled({"U", "W"})], a), d, 0)
<1>1. PageChain(o, d, a, b, c, m1, m2, m3, m4, m5, m6, m7, m8, m9, m11)
  BY Zenon DEF PageChain
<1>2. PageCalls(o, d, a, b, c).after = Forced(m11, d, 0, a)
  BY DEF PageCalls
<1>3. PageCalls(o, d, a, b, c).asserts <=>
        AssertsHold(o, d, a, b, c, m1, m2, m3, m4, m5, m6, m7, m8, m9, m11)
  BY DEF PageCalls, AssertsHold, Maps, Allows
<1> HIDE DEF m1, m2, m3, m4, m5, m6, m7, m8, m9, m11
<1> QED
  BY <1>1, <1>2, <1>3

\* The two entries of the table check_page uses.
LEMMA SlotFacts ==
  \A e0, e1, e : Slot(0, e0, e1, e0, e, e, e1) /\ Slot(1, e0, e1, e1, e, e0, e)
BY DEF Slot

\* The reference counts check_page reaches.
LEMMA UpFacts == Up(0, 1) /\ Up(1, 2) /\ 0 # 1
<1>1. RefMax \in Nat /\ RefMax > 1
  BY LayoutAssumption, RefMaxAssumption
<1> QED
  BY <1>1 DEF Up

\* page_insert in terms of the entry it writes.
LEMMA EntersForm ==
  ASSUME NEW m, NEW d, NEW p \in Page, NEW x, NEW perm \in Perm
  PROVE  /\ Enters(m, PageInsert(m, d, p, <<0, x>>, perm), d, p, x, [pg |-> p, perm |-> perm])
         /\ Is1([pg |-> p, perm |-> perm], p)
<1>1. [pg |-> p, perm |-> perm] # NoPte
  BY PteFacts, NoPteAssumption
<1> QED
  BY <1>1 DEF Enters, Is1

\* The list without pages.
Nil == <<>>

\* The memories of check_page.
Seen(m, o, d, a, b, c, f, rb, rc, e0, e1) ==
  Shows(m, o, d, a, b, c, f, 1, rb, rc, Hook(a), NoPte) /\ HasTwo(m, a, e0, e1)

\* What check_page sees of the pages after page_insert, in its three uses.
LEMMA SeenInsert ==
  ASSUME NEW m, NEW o, NEW d, NEW a, NEW b, NEW c, NEW f, NEW rb, NEW rc,
         NEW e0, NEW e1, Seen(m, o, d, a, b, c, f, rb, rc, e0, e1), Apart(d, a, b, c),
         NEW x, NEW ex, NEW e, NEW f0, NEW f1, Slot(x, e0, e1, ex, e, f0, f1),
         NEW mm, Enters(m, mm, d, b, x, e), NEW rn, Up(rb, rn)
  PROVE  /\ ex = NoPte => Seen(mm, o, d, a, b, c, f, rn, rc, f0, f1)
         /\ Is1(ex, b) /\ rb = 1 => Seen(mm, o, d, a, b, c, f, 1, rc, f0, f1)
         /\ Is1(ex, c) /\ rc = 1 => Seen(mm, o, d, a, b, c, <<c>> \o f, rn, 0, f0, f1)
<1>1. Shows(m, o, d, a, b, c, f, 1, rb, rc, Hook(a), NoPte) /\ HasTwo(m, a, e0, e1)
  BY DEF Seen
<1>2. ASSUME ex = NoPte PROVE Seen(mm, o, d, a, b, c, f, rn, rc, f0, f1)
  <2>1. Slot(x, e0, e1, NoPte, e, f0, f1)
    BY <1>2
  <2>2. Shows(mm, o, d, a, b, c, f, 1, rn, rc, Hook(a), NoPte) /\ HasTwo(mm, a, f0, f1)
    BY <1>1, <2>1, InsertNew
  <2> QED
    BY <2>2 DEF Seen
<1>3. ASSUME Is1(ex, b), rb = 1 PROVE Seen(mm, o, d, a, b, c, f, 1, rc, f0, f1)
  <2>1. Shows(m, o, d, a, b, c, f, 1, 1, rc, Hook(a), NoPte)
    BY <1>1, <1>3
  <2>2. Shows(mm, o, d, a, b, c, f, 1, 1, rc, Hook(a), NoPte) /\ HasTwo(mm, a, f0, f1)
    BY <1>1, <1>3, <2>1, InsertSame, UpFacts
  <2> QED
    BY <2>2 DEF Seen
<1>4. ASSUME Is1(ex, c), rc = 1 PROVE Seen(mm, o, d, a, b, c, <<c>> \o f, rn, 0, f0, f1)
  <2> DEFINE g == <<c>> \o f
  <2>1. Shows(m, o, d, a, b, c, f, 1, rb, 1, Hook(a), NoPte)
    BY <1>1, <1>4
  <2>2. Shows(mm, o, d, a, b, c, g, 1, rn, 0, Hook(a), NoPte) /\ HasTwo(mm, a, f0, f1)
    BY <1>1, <1>4, <2>1, InsertOver
  <2> HIDE DEF g
  <2>3. Seen(mm, o, d, a, b, c, g, rn, 0, f0, f1)
    BY <2>2 DEF Seen
  <2> QED
    BY <2>3 DEF g
<1> QED
  BY <1>2, <1>3, <1>4

\* The roles of pp1 and pp2 can be exchanged.
LEMMA SeenSwap ==
  ASSUME NEW m, NEW o, NEW d, NEW a, NEW b, NEW c, NEW f, NEW rb, NEW rc, NEW e0, NEW e1
  PROVE  Seen(m, o, d, a, b, c, f, rb, rc, e0, e1) <=> Seen(m, o, d, a, c, b, f, rc, rb, e0, e1)
BY ShowsSwap, Zenon DEF Seen

\* What check_page sees of the pages after page_remove.
LEMMA SeenRemove ==
  ASSUME NEW m, NEW o, NEW d, NEW a, NEW b, NEW c, NEW f, NEW rb, NEW rc,
         NEW e0, NEW e1, Seen(m, o, d, a, b, c, f, rb, rc, e0, e1), Apart(d, a, b, c),
         NEW x, NEW ex, Is1(ex, b), NEW f0, NEW f1, Slot(x, e0, e1, ex, NoPte, f0, f1),
         NEW mm, Removes(m, mm, d, x), NEW rn, Up(rn, rb), NEW g, Gone(rn, b, f, g)
  PROVE  Seen(mm, o, d, a, b, c, g, rn, rc, f0, f1)
<1>1. Shows(m, o, d, a, b, c, f, 1, rb, rc, Hook(a), NoPte) /\ HasTwo(m, a, e0, e1)
  BY DEF Seen
<1>2. Shows(mm, o, d, a, b, c, g, 1, rn, rc, Hook(a), NoPte) /\ HasTwo(mm, a, f0, f1)
  BY <1>1, RemoveOne
<1> QED
  BY <1>2 DEF Seen

\* The memory check_page starts from.
Ready(o, d, a, b, c) ==
  /\ o \in Memory /\ Apart(d, a, b, c) /\ o.free = Nil
  /\ o.ref[a] = 0 /\ o.ref[b] = 0 /\ o.ref[c] = 0
  /\ o.mem[d][0] = NoPte /\ o.mem[d][1] = NoPte

Ent(p, perm) == [pg |-> p, perm |-> perm]

\* What the calls leave, up to the removals.
ChainSeen(o, d, a, b, c, m1, m2, m3, m4, m5, m6, m7, m8) ==
  LET bw == Ent(b, {"W"})
      cw == Ent(c, {"W"})
  IN  /\ Seen(m1, o, d, a, b, c, Nil, 1, 0, bw, NoPte)
      /\ \A m \in {m2, m3} : Seen(m, o, d, a, b, c, Nil, 1, 1, bw, cw)
      /\ Seen(m4, o, d, a, b, c, Nil, 1, 1, bw, Ent(c, {"W", "U"}))
      /\ Seen(m5, o, d, a, b, c, Nil, 1, 1, bw, cw)
      /\ Seen(m6, o, d, a, b, c, <<c>> \o Nil, 2, 0, bw, bw)
      /\ Seen(m7, o, d, a, b, c, Nil, 1, 0, NoPte, bw)
      /\ Seen(m8, o, d, a, b, c, <<b>> \o Nil, 0, 0, NoPte, NoPte)

\* The empty list and the permissions check_page passes.
LEMMA NilFacts == Nil \in Seq(Page) /\ {"W"} \in Perm /\ {"W", "U"} \in Perm
BY LayoutAssumption DEF Nil

\* The entries check_page's calls write.
LEMMA EntFacts ==
  ASSUME NEW p \in Page, NEW perm \in Perm
  PROVE  /\ Is1(Ent(p, perm), p)
         /\ \A m, d, x : Enters(m, PageInsert(m, d, p, <<0, x>>, perm), d, p, x, Ent(p, perm))
BY EntersForm DEF Ent

\* The page table is made and b inserted.
LEMMA FirstInsert ==
  ASSUME NEW o, NEW d, NEW a, NEW b, NEW c, Ready(o, d, a, b, c),
         NEW m1, m1 = PageInsert(PageFree(o, a), d, b, <<0, 0>>, {"W"})
  PROVE  Seen(m1, o, d, a, b, c, Nil, 1, 0, Ent(b, {"W"}), NoPte)
<1> DEFINE i0 == PageFree(o, a)
           i1 == Walk(i0, d, 0)
<1>1. d \in Page /\ a \in Page /\ b \in Page /\ Apart(d, a, b, c) /\ Nil \in Seq(Page) /\ {"W"} \in Perm
  BY NilFacts DEF Ready, Apart
<1>2. Shows(o, o, d, a, b, c, Nil, 0, 0, 0, NoPte, NoPte)
  BY DEF Shows, Ready
<1>3. Shows(i0, o, d, a, b, c, <<a>> \o Nil, 0, 0, 0, NoPte, NoPte)
  BY <1>1, <1>2, ShowsFree
<1>4. m1 = PageInsert(i0, d, b, <<0, 0>>, {"W"})
  OBVIOUS
<1> HIDE DEF i0
<1>5. /\ ~WalkFails(i0, d, 0) /\ Shows(i1, o, d, a, b, c, Nil, 1, 0, 0, Hook(a), NoPte)
      /\ HasTwo(i1, a, NoPte, NoPte)
  <2>1. Slot(0, NoPte, NoPte, NoPte, Hook(a), Hook(a), NoPte)
    BY SlotFacts
  <2> QED
    BY <1>1, <1>3, <2>1, ShowsWalk
<1>6. HasTable(i1, d, 0)
  BY <1>1, <1>5, HookFacts DEF Shows, HasTable
<1>0. i1 = Walk(i0, d, 0) /\ ~WalkFails(i0, d, 0)
  BY <1>5
<1> HIDE DEF i1
<1>7. m1 = PageInsert(i1, d, b, <<0, 0>>, {"W"})
  <2>1. PageInsert(i0, d, b, <<0, 0>>, {"W"}) = PageInsert(i1, d, b, <<0, 0>>, {"W"})
    BY <1>0, <1>6, InsertWalked
  <2> QED
    BY <1>4, <2>1, Zenon
<1> DEFINE e == Ent(b, {"W"})
<1>8. Enters(i1, m1, d, b, 0, e)
  BY <1>1, <1>7, EntFacts
<1>9. Slot(0, NoPte, NoPte, NoPte, e, e, NoPte)
  BY SlotFacts
<1> HIDE DEF e
<1>10. Shows(m1, o, d, a, b, c, Nil, 1, 1, 0, Hook(a), NoPte) /\ HasTwo(m1, a, e, NoPte)
  BY <1>1, <1>5, <1>8, <1>9, UpFacts, InsertNew
<1> QED
  BY <1>10 DEF Seen, e

\* What check_page sees after each of its calls.
LEMMA ChainLeaves ==
  ASSUME NEW o, NEW d, NEW a, NEW b, NEW c, Ready(o, d, a, b, c),
         NEW m1, NEW m2, NEW m3, NEW m4, NEW m5, NEW m6, NEW m7, NEW m8, NEW m9, NEW m11,
         PageChain(o, d, a, b, c, m1, m2, m3, m4, m5, m6, m7, m8, m9, m11)
  PROVE  ChainSeen(o, d, a, b, c, m1, m2, m3, m4, m5, m6, m7, m8)
<1> DEFINE bw == Ent(b, {"W"})
           cw == Ent(c, {"W"})
           cuw == Ent(c, {"W", "U"})
           i6 == PageAlloc(m6, FALSE)
<1>1. /\ Apart(d, a, b, c) /\ Apart(d, a, c, b) /\ b \in Page /\ c \in Page
      /\ Nil \in Seq(Page) /\ {"W"} \in Perm /\ {"W", "U"} \in Perm
  BY ShowsSwap, NilFacts DEF Ready, Apart
<1>2. Is1(bw, b) /\ Is1(cw, c) /\ Is1(cuw, c)
  BY <1>1, EntFacts
<1>3. Seen(m1, o, d, a, b, c, Nil, 1, 0, bw, NoPte)
  <2>1. m1 = PageInsert(PageFree(o, a), d, b, <<0, 0>>, {"W"})
    BY DEF PageChain
  <2> QED
    BY <2>1, FirstInsert
<1>4. Enters(m1, m2, d, c, 1, cw) /\ Enters(m2, m3, d, c, 1, cw) /\ Enters(m4, m5, d, c, 1, cw)
  BY <1>1, EntFacts DEF PageChain
<1>5. Enters(m3, m4, d, c, 1, cuw) /\ Enters(m5, m6, d, b, 1, bw)
  BY <1>1, EntFacts DEF PageChain
<1>6. Removes(i6, m7, d, 0) /\ Removes(m7, m8, d, 1)
  BY DEF PageChain, Removes
<1>7. /\ Slot(1, bw, NoPte, NoPte, cw, bw, cw) /\ Slot(1, bw, cw, cw, cw, bw, cw)
      /\ Slot(1, bw, cw, cw, cuw, bw, cuw) /\ Slot(1, bw, cuw, cuw, cw, bw, cw)
      /\ Slot(1, bw, cw, cw, bw, bw, bw)
      /\ Slot(0, bw, bw, bw, NoPte, NoPte, bw) /\ Slot(1, NoPte, bw, bw, NoPte, NoPte, NoPte)
  BY SlotFacts
<1>8. Gone(1, b, Nil, Nil) /\ Gone(0, b, Nil, <<b>> \o Nil)
  BY DEF Gone
<1> DEFINE gb == <<b>> \o Nil
           gc == <<c>> \o Nil
<1> HIDE DEF bw, cw, cuw
<1>9. Seen(m2, o, d, a, b, c, Nil, 1, 1, bw, cw)
  <2>1. Seen(m1, o, d, a, c, b, Nil, 0, 1, bw, NoPte)
    BY <1>3, SeenSwap
  <2>2. Seen(m2, o, d, a, c, b, Nil, 1, 1, bw, cw)
    BY <1>1, <1>4, <1>7, <2>1, UpFacts, SeenInsert
  <2> QED
    BY <2>2, SeenSwap
<1>10. Seen(m3, o, d, a, b, c, Nil, 1, 1, bw, cw)
  <2>1. Seen(m2, o, d, a, c, b, Nil, 1, 1, bw, cw)
    BY <1>9, SeenSwap
  <2>2. Seen(m3, o, d, a, c, b, Nil, 1, 1, bw, cw)
    BY <1>1, <1>2, <1>4, <1>7, <2>1, UpFacts, SeenInsert
  <2> QED
    BY <2>2, SeenSwap
<1>11. Seen(m4, o, d, a, b, c, Nil, 1, 1, bw, cuw)
  <2>1. Seen(m3, o, d, a, c, b, Nil, 1, 1, bw, cw)
    BY <1>10, SeenSwap
  <2>2. Seen(m4, o, d, a, c, b, Nil, 1, 1, bw, cuw)
    BY <1>1, <1>2, <1>5, <1>7, <2>1, UpFacts, SeenInsert
  <2> QED
    BY <2>2, SeenSwap
<1>12. Seen(m5, o, d, a, b, c, Nil, 1, 1, bw, cw)
  <2>1. Seen(m4, o, d, a, c, b, Nil, 1, 1, bw, cuw)
    BY <1>11, SeenSwap
  <2>2. Seen(m5, o, d, a, c, b, Nil, 1, 1, bw, cw)
    BY <1>1, <1>2, <1>4, <1>7, <2>1, UpFacts, SeenInsert
  <2> QED
    BY <2>2, SeenSwap
<1>13. Seen(m6, o, d, a, b, c, <<c>> \o Nil, 2, 0, bw, bw)
  BY <1>1, <1>2, <1>5, <1>7, <1>12, UpFacts, SeenInsert
<1>14. Seen(i6, o, d, a, b, c, Nil, 2, 0, bw, bw)
  BY <1>1, <1>13, ShowsAlloc DEF Seen, HasTwo
<1> HIDE DEF i6, gb, gc
<1>15. Seen(m7, o, d, a, b, c, Nil, 1, 0, NoPte, bw)
  BY <1>1, <1>2, <1>6, <1>7, <1>8, <1>14, UpFacts, SeenRemove
<1>16. Seen(m8, o, d, a, b, c, gb, 0, 0, NoPte, NoPte)
  <2>1. Gone(0, b, Nil, gb)
    BY <1>8 DEF gb
  <2> QED
    BY <1>1, <1>2, <1>6, <1>7, <1>15, <2>1, UpFacts, SeenRemove
<1> QED
  BY <1>3, <1>9, <1>10, <1>11, <1>12, <1>13, <1>15, <1>16 DEF ChainSeen, bw, cw, cuw, gb

\* The page table a is taken from the directory and made again at x.
LEMMA Rehung ==
  ASSUME NEW m, NEW o, NEW d, NEW a, NEW b, NEW c, NEW d0, NEW d1, NEW x, NEW f0, NEW f1,
         Shows(m, o, d, a, b, c, Nil, 0, 0, 0, d0, d1), Apart(d, a, b, c),
         Slot(x, d0, d1, NoPte, Hook(a), f0, f1)
  PROVE  /\ Shows(Walk(PageFree(m, a), d, x), o, d, a, b, c, Nil, 1, 0, 0, f0, f1)
         /\ HasTwo(Walk(PageFree(m, a), d, x), a, NoPte, NoPte)
<1>1. a \in Page /\ Nil \in Seq(Page)
  BY NilFacts DEF Apart
<1> DEFINE i == PageFree(m, a)
<1>2. Shows(i, o, d, a, b, c, <<a>> \o Nil, 0, 0, 0, d0, d1)
  BY <1>1, ShowsFree
<1> HIDE DEF i
<1>3. Shows(Walk(i, d, x), o, d, a, b, c, Nil, 1, 0, 0, f0, f1) /\ HasTwo(Walk(i, d, x), a, NoPte, NoPte)
  BY <1>1, <1>2, ShowsWalk
<1> QED
  BY <1>3 DEF i

\* At the end of check_page the three pages are unmapped and the directory entries clear.
LEMMA ChainEnds ==
  ASSUME NEW o, NEW d, NEW a, NEW b, NEW c, Ready(o, d, a, b, c),
         NEW m1, NEW m2, NEW m3, NEW m4, NEW m5, NEW m6, NEW m7, NEW m8, NEW m9, NEW m11,
         PageChain(o, d, a, b, c, m1, m2, m3, m4, m5, m6, m7, m8, m9, m11)
  PROVE  /\ Shows(m9, o, d, a, b, c, Nil, 1, 0, 0, NoPte, Hook(a))
         /\ Shows(Forced(m11, d, 0, a), o, d, a, b, c, Nil, 0, 0, 0, NoPte, NoPte)
         /\ m11.mem[a] = ZeroPage /\ Forced(m11, d, 0, a).mem[a] = ZeroPage
<1> DEFINE j8 == PageAlloc(m8, FALSE)
           f8 == Forced(j8, d, 0, a)
           f9 == Forced(m9, d, 1, a)
           f10 == [f9 EXCEPT !.mem[a] = Filled({"U", "W"})]
           f11 == Forced(m11, d, 0, a)
<1>1. /\ Apart(d, a, b, c) /\ a \in Page /\ b \in Page /\ Nil \in Seq(Page)
      /\ Filled({"U", "W"}) \in PageContent
  BY NilFacts, ContentFacts DEF Ready, Apart
<1>2. Seen(m8, o, d, a, b, c, <<b>> \o Nil, 0, 0, NoPte, NoPte)
  BY ChainLeaves DEF ChainSeen
<1>3. m9 = Walk(PageFree(f8, a), d, 1) /\ m11 = Walk(PageFree(f10, a), d, 0)
  BY DEF PageChain
<1>4. /\ Slot(0, Hook(a), NoPte, Hook(a), NoPte, NoPte, NoPte) /\ Slot(1, NoPte, NoPte, NoPte, Hook(a), NoPte, Hook(a))
      /\ Slot(1, NoPte, Hook(a), Hook(a), NoPte, NoPte, NoPte) /\ Slot(0, NoPte, NoPte, NoPte, Hook(a), Hook(a), NoPte)
  BY SlotFacts
<1>5. Shows(j8, o, d, a, b, c, Nil, 1, 0, 0, Hook(a), NoPte)
  BY <1>1, <1>2, ShowsAlloc DEF Seen
<1> HIDE DEF j8
<1>6. Shows(f8, o, d, a, b, c, Nil, 0, 0, 0, NoPte, NoPte)
  BY <1>1, <1>4, <1>5, ShowsForced
<1> HIDE DEF f8
<1>7. Shows(m9, o, d, a, b, c, Nil, 1, 0, 0, NoPte, Hook(a))
  BY <1>1, <1>3, <1>4, <1>6, Rehung
<1>8. Shows(f9, o, d, a, b, c, Nil, 0, 0, 0, NoPte, NoPte)
  BY <1>1, <1>4, <1>7, ShowsForced
<1> HIDE DEF f9
<1>9. Shows(f10, o, d, a, b, c, Nil, 0, 0, 0, NoPte, NoPte)
  BY <1>1, <1>8, ShowsFilled
<1> HIDE DEF f10
<1>10. Shows(m11, o, d, a, b, c, Nil, 1, 0, 0, Hook(a), NoPte) /\ HasTwo(m11, a, NoPte, NoPte)
  BY <1>1, <1>3, <1>4, <1>9, Rehung
<1>11. m11.mem[a] = ZeroPage
  BY <1>1, <1>10, TwoClear DEF Shows
<1>12. Shows(f11, o, d, a, b, c, Nil, 0, 0, 0, NoPte, NoPte) /\ f11.mem[a] = m11.mem[a]
  BY <1>1, <1>4, <1>10, ShowsForced
<1> QED
  BY <1>7, <1>11, <1>12

\* Every assertion between the calls of check_page holds.
LEMMA ChainAsserts ==
  ASSUME NEW o, NEW d, NEW a, NEW b, NEW c, Ready(o, d, a, b, c),
         NEW m1, NEW m2, NEW m3, NEW m4, NEW m5, NEW m6, NEW m7, NEW m8, NEW m9, NEW m11,
         PageChain(o, d, a, b, c, m1, m2, m3, m4, m5, m6, m7, m8, m9, m11)
  PROVE  AssertsHold(o, d, a, b, c, m1, m2, m3, m4, m5, m6, m7, m8, m9, m11)
<1> DEFINE bw == Ent(b, {"W"})
           cw == Ent(c, {"W"})
           cuw == Ent(c, {"W", "U"})
           gb == <<b>> \o Nil
           gc == <<c>> \o Nil
<1>1. Apart(d, a, b, c) /\ a \in Page /\ b \in Page /\ c \in Page /\ {"W"} \in Perm /\ {"W", "U"} \in Perm
  BY NilFacts DEF Ready, Apart
<1>2. /\ Seen(m1, o, d, a, b, c, Nil, 1, 0, bw, NoPte)
      /\ \A m \in {m2, m3} : Seen(m, o, d, a, b, c, Nil, 1, 1, bw, cw)
      /\ Seen(m4, o, d, a, b, c, Nil, 1, 1, bw, cuw) /\ Seen(m5, o, d, a, b, c, Nil, 1, 1, bw, cw)
      /\ Seen(m6, o, d, a, b, c, gc, 2, 0, bw, bw) /\ Seen(m7, o, d, a, b, c, Nil, 1, 0, NoPte, bw)
      /\ Seen(m8, o, d, a, b, c, gb, 0, 0, NoPte, NoPte)
  BY ChainLeaves, Zenon DEF ChainSeen
<1>3. /\ bw # NoPte /\ bw.pg = b /\ cw # NoPte /\ cw.pg = c /\ cuw # NoPte /\ cuw.pg = c
  BY <1>1, EntFacts DEF Is1
<1>4. "U" \notin bw.perm /\ "W" \in cw.perm /\ "U" \notin cw.perm /\ "U" \in cuw.perm
  BY DEF Ent
<1>5. Hook(a) # NoPte /\ Hook(a).pg = a /\ "U" \in Hook(a).perm
  BY <1>1, HookFacts
<1>6. gc = <<c>> /\ gb = <<b>>
  BY <1>1, Triple DEF Nil
<1> HIDE DEF bw, cw, cuw, gb, gc
<1>7. \A m, f, rb, rc, e0, e1 : Seen(m, o, d, a, b, c, f, rb, rc, e0, e1) =>
        /\ m.free = f /\ m.ref[a] = 1 /\ m.ref[b] = rb /\ m.ref[c] = rc
        /\ HasTable(m, d, 0) /\ TableOf(m, d, 0) = a /\ "U" \in m.mem[d][0].perm
        /\ m.mem[d][1] = NoPte
        /\ PageLookup(m, d, <<0, 0>>) = e0 /\ PageLookup(m, d, <<0, 1>>) = e1
  <2> SUFFICES ASSUME NEW m, NEW f, NEW rb, NEW rc, NEW e0, NEW e1, Seen(m, o, d, a, b, c, f, rb, rc, e0, e1)
               PROVE  /\ m.free = f /\ m.ref[a] = 1 /\ m.ref[b] = rb /\ m.ref[c] = rc
                      /\ HasTable(m, d, 0) /\ TableOf(m, d, 0) = a /\ "U" \in m.mem[d][0].perm
                      /\ m.mem[d][1] = NoPte
                      /\ PageLookup(m, d, <<0, 0>>) = e0 /\ PageLookup(m, d, <<0, 1>>) = e1
    BY Zenon
  <2>1. Shows(m, o, d, a, b, c, f, 1, rb, rc, Hook(a), NoPte) /\ HasTwo(m, a, e0, e1)
    BY DEF Seen
  <2>2. /\ HasTable(m, d, 0) /\ TableOf(m, d, 0) = a
        /\ PageLookup(m, d, <<0, 0>>) = e0 /\ PageLookup(m, d, <<0, 1>>) = e1
    BY <1>1, <2>1, ShowsLookup
  <2>3. /\ m.free = f /\ m.ref[a] = 1 /\ m.ref[b] = rb /\ m.ref[c] = rc
        /\ m.mem[d][0] = Hook(a) /\ m.mem[d][1] = NoPte
    BY <2>1 DEF Shows
  <2> QED
    BY <1>5, <2>2, <2>3
<1>8. PageLookup(o, d, <<0, 0>>) = NoPte /\ WalkFails(o, d, 0)
  BY DEF Ready, PageLookup, HasTable, WalkFails, OutOfMemory, Nil
<1>9. TableOf(m1, d, 0) = a /\ Maps(m1, d, 0, b) /\ m1.ref[b] = 1 /\ m1.ref[a] = 1
  BY <1>2, <1>3, <1>7 DEF Maps
<1>10. \A m \in {m2, m3} : Maps(m, d, 1, c) /\ m.ref[c] = 1 /\ OutOfMemory(m)
  BY <1>2, <1>3, <1>7 DEF Maps, OutOfMemory, Nil
<1>11. Maps(m4, d, 1, c) /\ m4.ref[c] = 1 /\ Allows(m4, d, "U") /\ "U" \in m4.mem[d][0].perm
  BY <1>2, <1>3, <1>4, <1>7 DEF Maps, Allows
<1>12. Allows(m5, d, "W") /\ ~Allows(m5, d, "U") /\ WalkFails(m5, d, 1)
  BY <1>2, <1>3, <1>4, <1>7 DEF Allows, WalkFails, HasTable, OutOfMemory, Nil
<1>13. /\ ~Allows(m6, d, "U") /\ Maps(m6, d, 0, b) /\ Maps(m6, d, 1, b)
       /\ m6.ref[b] = 2 /\ m6.ref[c] = 0 /\ m6.free = <<c>>
  BY <1>2, <1>3, <1>4, <1>6, <1>7 DEF Maps, Allows
<1>14. /\ PageLookup(m7, d, <<0, 0>>) = NoPte /\ Maps(m7, d, 1, b)
       /\ m7.ref[b] = 1 /\ m7.ref[c] = 0
  BY <1>2, <1>3, <1>7 DEF Maps
<1>15. /\ \A x \in 0..1 : PageLookup(m8, d, <<0, x>>) = NoPte
       /\ m8.ref[b] = 0 /\ m8.ref[c] = 0 /\ m8.free = <<b>>
       /\ TableOf(m8, d, 0) = a /\ m8.ref[a] = 1
  <2>1. /\ PageLookup(m8, d, <<0, 0>>) = NoPte /\ PageLookup(m8, d, <<0, 1>>) = NoPte
        /\ m8.ref[b] = 0 /\ m8.ref[c] = 0 /\ m8.free = <<b>>
        /\ TableOf(m8, d, 0) = a /\ m8.ref[a] = 1
    BY <1>2, <1>6, <1>7
  <2>2. \A x \in 0..1 : x = 0 \/ x = 1
    OBVIOUS
  <2> QED
    BY <2>1, <2>2
<1>16. TableOf(m9, d, 1) = a /\ m11.mem[a] = ZeroPage
  BY <1>5, ChainEnds DEF Shows, TableOf
<1> QED
  BY <1>8, <1>9, <1>10, <1>11, <1>12, <1>13, <1>14, <1>15, <1>16, Zenon DEF AssertsHold

\* check_page passes whenever three free pages are at the head of the list, and
\* gives back what it used.
LEMMA PageCallsPass ==
  ASSUME NEW o, NEW d, NEW a, NEW b, NEW c, Ready(o, d, a, b, c)
  PROVE  /\ PageCalls(o, d, a, b, c).asserts
         /\ Shows(PageCalls(o, d, a, b, c).after, o, d, a, b, c, Nil, 0, 0, 0, NoPte, NoPte)
<1>1. PICK m1, m2, m3, m4, m5, m6, m7, m8, m9, m11 :
           /\ PageChain(o, d, a, b, c, m1, m2, m3, m4, m5, m6, m7, m8, m9, m11)
           /\ PageCalls(o, d, a, b, c).after = Forced(m11, d, 0, a)
           /\ PageCalls(o, d, a, b, c).asserts <=>
                AssertsHold(o, d, a, b, c, m1, m2, m3, m4, m5, m6, m7, m8, m9, m11)
  BY PageCallsForm, Zenon
<1>2. AssertsHold(o, d, a, b, c, m1, m2, m3, m4, m5, m6, m7, m8, m9, m11)
  BY <1>1, ChainAsserts
<1>3. Shows(Forced(m11, d, 0, a), o, d, a, b, c, Nil, 0, 0, 0, NoPte, NoPte)
  BY <1>1, ChainEnds
<1> QED
  BY <1>1, <1>2, <1>3, Zenon

\* The first three pages of the list.
Firsts(m, a, b, c) == a = m.free[1] /\ b = m.free[2] /\ c = m.free[3]

\* The kernel's directory has no page tables below UENVS.
LEMMA UserSide ==
  ASSUME NEW m, NEW dn, DirHas(m, dn)
  PROVE  \A x \in Idx : x < UENVS => m.mem[KernEnd][x] = NoPte /\ ~Begun(dn, x)
<1> SUFFICES ASSUME NEW x \in Idx, x < UENVS PROVE m.mem[KernEnd][x] = NoPte /\ ~Begun(dn, x)
  OBVIOUS
<1>1. ~Begun(dn, x) /\ x # UVPT
  BY Places DEF Begun
<1> QED
  BY <1>1 DEF DirHas

\* The first three pages of the list are free, different and no page tables.
LEMMA FirstsApart ==
  ASSUME Machine, NEW m \in Memory, NEW dn, DirHas(m, dn), ListHas(m, dn), Len(m.free) >= 3,
         NEW a, NEW b, NEW c, Firsts(m, a, b, c)
  PROVE  /\ Apart(KernEnd, a, b, c) /\ m.ref[a] = 0 /\ m.ref[b] = 0 /\ m.ref[c] = 0
         /\ m.mem[KernEnd][0] = NoPte /\ m.mem[KernEnd][1] = NoPte
         /\ Shows(m, m, KernEnd, a, b, c, m.free, 0, 0, 0, NoPte, NoPte)
         /\ a \in FreePages(m) /\ b \in FreePages(m) /\ c \in FreePages(m)
         /\ ~IsTable(m, dn, a) /\ ~IsTable(m, dn, b) /\ ~IsTable(m, dn, c)
<1>1. \A x \in 1..3 : /\ m.free[x] \in FreePages(m)
                      /\ m.free[x] \in Page /\ m.free[x] # KernEnd /\ m.ref[m.free[x]] = 0
  BY FirstThree
<1>2. m.free[1] # m.free[2] /\ m.free[1] # m.free[3] /\ m.free[2] # m.free[3] /\ KernEnd \in Page
  BY FirstThree, UsablePages
<1>3. Apart(KernEnd, a, b, c) /\ m.ref[a] = 0 /\ m.ref[b] = 0 /\ m.ref[c] = 0
  BY <1>1, <1>2 DEF Apart, Firsts
<1>4. m.mem[KernEnd][0] = NoPte /\ m.mem[KernEnd][1] = NoPte
  BY UserSide, Places
<1>5. a \in FreePages(m) /\ b \in FreePages(m) /\ c \in FreePages(m)
  BY <1>1 DEF Firsts
<1>6. ~IsTable(m, dn, a) /\ ~IsTable(m, dn, b) /\ ~IsTable(m, dn, c)
  BY <1>5, FreeParts
<1>7. Shows(m, m, KernEnd, a, b, c, m.free, 0, 0, 0, NoPte, NoPte)
  BY <1>3, <1>4 DEF Shows
<1> QED
  BY <1>3, <1>4, <1>5, <1>6, <1>7

\* n is m with something written to b and c.
Prepared(m, n, b, c) ==
  /\ n \in Memory /\ n.ref = m.ref /\ n.mem[KernEnd] = m.mem[KernEnd]
  /\ \A p \in Page : p # b /\ p # c => n.mem[p] = m.mem[p]

\* The pages are back on the list and out of the directory.
LEMMA Restored ==
  ASSUME Machine, NEW m \in Memory, NEW dn, DirHas(m, dn), ListHas(m, dn), Len(m.free) >= 3,
         Count(dn) = 0 \/ Count(dn) = TablesNeeded,
         NEW a, NEW b, NEW c, Firsts(m, a, b, c), NEW n, NEW mm, NEW g, Reordered(m.free, g),
         Prepared(m, n, b, c),
         Shows(mm, n, KernEnd, a, b, c, g, 0, 0, 0, NoPte, NoPte)
  PROVE  /\ mm \in Memory /\ DirHas(mm, dn) /\ ListHas(mm, dn) /\ mm.free = g
         /\ \A p \in Page : p # a /\ p # b /\ p # c => mm.mem[p] = m.mem[p]
<1>1. /\ Apart(KernEnd, a, b, c) /\ m.ref[a] = 0 /\ m.ref[b] = 0 /\ m.ref[c] = 0
      /\ m.mem[KernEnd][0] = NoPte /\ m.mem[KernEnd][1] = NoPte
      /\ ~IsTable(m, dn, a) /\ ~IsTable(m, dn, b) /\ ~IsTable(m, dn, c)
  BY FirstsApart
<1>2. /\ mm \in Memory /\ mm.free = g /\ mm.ref[a] = 0 /\ mm.ref[b] = 0 /\ mm.ref[c] = 0
      /\ \A p \in Page : p # a /\ p # b /\ p # c => mm.ref[p] = m.ref[p]
      /\ mm.mem[KernEnd][0] = NoPte /\ mm.mem[KernEnd][1] = NoPte
      /\ \A x \in Idx : x # 0 /\ x # 1 => mm.mem[KernEnd][x] = m.mem[KernEnd][x]
      /\ \A p \in Page : p # a /\ p # KernEnd => mm.mem[p] = n.mem[p]
  BY DEF Shows, Prepared
<1>3. KernEnd \in Page /\ a \in Page /\ KernEnd # a /\ KernEnd # b /\ KernEnd # c
  BY <1>1 DEF Apart
<1>4. mm.mem[KernEnd] = m.mem[KernEnd]
  <2>1. mm.mem[KernEnd] \in [Idx -> Pte] /\ m.mem[KernEnd] \in [Idx -> Pte]
    BY <1>2, <1>3, MemoryParts DEF PageContent
  <2>2. \A x \in Idx : mm.mem[KernEnd][x] = m.mem[KernEnd][x]
    BY <1>1, <1>2
  <2> QED
    BY <2>1, <2>2
<1>5. \A p \in Page : mm.ref[p] = m.ref[p]
  BY <1>1, <1>2
<1>6. \A p \in Page : p # a /\ p # b /\ p # c => mm.mem[p] = m.mem[p]
  BY <1>2, <1>4 DEF Prepared
<1>7. SameDir(m, mm, dn)
  BY <1>1, <1>4, <1>5, <1>6 DEF SameDir
<1>8. DirHas(mm, dn) /\ \A p : IsTable(mm, dn, p) <=> IsTable(m, dn, p)
  BY <1>7, DirKept
<1>9. Reordered(m.free, mm.free)
  BY <1>2
<1>10. \A p \in FreePages(m) : mm.ref[p] = m.ref[p]
  BY <1>5, FreeParts
<1>11. ListHas(mm, dn)
  BY <1>2, <1>8, <1>9, <1>10, ListReordered
<1> QED
  BY <1>2, <1>6, <1>8, <1>11

\* Putting the three pages back in another order reorders the list.
LEMMA ReorderedRest ==
  ASSUME NEW m \in Memory, Len(m.free) >= 3, NEW p \in Page, NEW q \in Page, NEW s \in Page,
         p # q, p # s, q # s, {p, q, s} = {m.free[1], m.free[2], m.free[3]}
  PROVE  Reordered(m.free, <<p>> \o (<<q>> \o (<<s>> \o Rest(m.free))))
<1>1. m.free \in Seq(Page)
  BY MemoryParts
<1> DEFINE g == <<p>> \o (<<q>> \o (<<s>> \o Rest(m.free)))
<1>2. /\ g \in Seq(Page) /\ Len(g) = Len(m.free) /\ g[1] = p /\ g[2] = q /\ g[3] = s
      /\ \A x \in 4..Len(m.free) : g[x] = m.free[x]
  BY <1>1, RestOf
<1> HIDE DEF g
<1>3. Reordered(m.free, g)
  BY <1>2 DEF Reordered
<1> QED
  BY <1>3 DEF g

\* Setting page_free_list changes nothing else.
LEMMA ListSet ==
  ASSUME NEW m \in Memory, NEW f \in Seq(Page), NEW o, NEW d, NEW a, NEW b, NEW c, NEW g, NEW ra, NEW rb, NEW rc,
         NEW d0, NEW d1, Shows(m, o, d, a, b, c, g, ra, rb, rc, d0, d1)
  PROVE  Shows([m EXCEPT !.free = f], o, d, a, b, c, f, ra, rb, rc, d0, d1)
<1> DEFINE mm == [m EXCEPT !.free = f]
<1>1. mm \in Memory /\ mm.free = f /\ mm.ref = m.ref /\ mm.mem = m.mem
  BY MemoryExcept
<1> HIDE DEF mm
<1>2. Shows(mm, o, d, a, b, c, f, ra, rb, rc, d0, d1)
  BY <1>1, Zenon DEF Shows
<1> QED
  BY <1>2 DEF mm

PageChecked(m, a, b, c, mm) ==
  mm = PageFree(PageFree(PageFree(
         [PageCalls([m EXCEPT !.free = <<>>], KernEnd, a, b, c).after EXCEPT !.free = Rest(m.free)], a), b), c)

\* check_page passes and leaves the directory and, reordered, the list.
LEMMA CheckPageKeeps ==
  ASSUME Machine, NEW m \in Memory, NEW dn, DirHas(m, dn), ListHas(m, dn), Len(m.free) >= 3,
         Count(dn) = 0 \/ Count(dn) = TablesNeeded,
         NEW a, NEW b, NEW c, Firsts(m, a, b, c), NEW mm, PageChecked(m, a, b, c, mm)
  PROVE  /\ PageCalls([m EXCEPT !.free = <<>>], KernEnd, a, b, c).asserts
         /\ mm \in Memory /\ DirHas(mm, dn) /\ ListHas(mm, dn) /\ Len(mm.free) = Len(m.free)
         /\ \A p \in Page : p # a => mm.mem[p] = m.mem[p]
<1> DEFINE o == [m EXCEPT !.free = <<>>]
           after == PageCalls(o, KernEnd, a, b, c).after
           back == [after EXCEPT !.free = Rest(m.free)]
           g == <<c>> \o (<<b>> \o (<<a>> \o Rest(m.free)))
<1>1. /\ Apart(KernEnd, a, b, c) /\ m.ref[a] = 0 /\ m.ref[b] = 0 /\ m.ref[c] = 0
      /\ m.mem[KernEnd][0] = NoPte /\ m.mem[KernEnd][1] = NoPte
  BY FirstsApart
<1>2. /\ a \in Page /\ b \in Page /\ c \in Page /\ a # b /\ a # c /\ b # c
      /\ Rest(m.free) \in Seq(Page)
  BY <1>1, FirstThree DEF Apart
<1>3. o \in Memory /\ o.free = Nil /\ o.ref = m.ref /\ o.mem = m.mem
  BY MemoryExcept, NilFacts DEF Nil
<1>9. PageCalls([m EXCEPT !.free = <<>>], KernEnd, a, b, c) = PageCalls(o, KernEnd, a, b, c)
  OBVIOUS
<1> HIDE DEF o
<1>4. Ready(o, KernEnd, a, b, c)
  BY <1>1, <1>3 DEF Ready
<1>5. PageCalls(o, KernEnd, a, b, c).asserts /\ Shows(after, o, KernEnd, a, b, c, Nil, 0, 0, 0, NoPte, NoPte)
  BY <1>4, PageCallsPass
<1> HIDE DEF after
<1>6. Shows(back, o, KernEnd, a, b, c, Rest(m.free), 0, 0, 0, NoPte, NoPte)
  <2>1. after \in Memory
    BY <1>5 DEF Shows
  <2> DEFINE r == Rest(m.free)
  <2>2. r \in Seq(Page) /\ back = [after EXCEPT !.free = r]
    BY <1>2
  <2> HIDE DEF back, r
  <2>3. Shows(back, o, KernEnd, a, b, c, r, 0, 0, 0, NoPte, NoPte)
    <3>1. Shows([after EXCEPT !.free = r], o, KernEnd, a, b, c, r, 0, 0, 0, NoPte, NoPte)
      BY <1>5, <2>1, <2>2, ListSet
    <3> QED
      BY <2>2, <3>1
  <2> QED
    BY <2>3 DEF r
<1> DEFINE f1 == <<a>> \o Rest(m.free)
           f2 == <<b>> \o f1
           f3 == <<c>> \o f2
<1>7. mm = PageFree(PageFree(PageFree(back, a), b), c)
  BY <1>9 DEF PageChecked, o, after
<1> HIDE DEF back
<1>8. Shows(mm, o, KernEnd, a, b, c, f3, 0, 0, 0, NoPte, NoPte)
  <2> DEFINE n1 == PageFree(back, a)
             n2 == PageFree(n1, b)
             n3 == PageFree(n2, c)
             r == Rest(m.free)
  <2>1. mm = n3
    BY <1>7
  <2>2. Shows(n1, o, KernEnd, a, b, c, f1, 0, 0, 0, NoPte, NoPte)
    BY <1>2, <1>6, ShowsFree
  <2> HIDE DEF n1, f1
  <2>3. Shows(n2, o, KernEnd, a, b, c, f2, 0, 0, 0, NoPte, NoPte)
    BY <1>2, <2>2, ShowsFree
  <2> HIDE DEF n2, f2
  <2>4. Shows(n3, o, KernEnd, a, b, c, f3, 0, 0, 0, NoPte, NoPte)
    BY <1>2, <2>3, ShowsFree
  <2> QED
    BY <2>1, <2>4
<1>10. Reordered(m.free, f3)
  <2>1. {c, b, a} = {m.free[1], m.free[2], m.free[3]}
    BY DEF Firsts
  <2> QED
    BY <1>2, <2>1, ReorderedRest
<1>11. Prepared(m, o, b, c)
  BY <1>3 DEF Prepared
<1> HIDE DEF f1, f2, f3
<1>12. /\ mm \in Memory /\ DirHas(mm, dn) /\ ListHas(mm, dn) /\ mm.free = f3
       /\ \A p \in Page : p # a /\ p # b /\ p # c => mm.mem[p] = m.mem[p]
  BY <1>8, <1>10, <1>11, Restored
<1>13. Len(mm.free) = Len(m.free)
  BY <1>10, <1>12 DEF Reordered
<1>14. mm.mem[b] = m.mem[b] /\ mm.mem[c] = m.mem[c]
  BY <1>1, <1>2, <1>3, <1>8 DEF Shows, Apart
<1>15. PageCalls([m EXCEPT !.free = <<>>], KernEnd, a, b, c).asserts
  BY <1>5, <1>9
<1> QED
  BY <1>12, <1>13, <1>14, <1>15

InstalledChain(m, a, b, c, k0, k1, k2, k3, mm) ==
  /\ k0 = [m EXCEPT !.free = <<a>> \o Rest(m.free),
                    !.mem[b] = Filled({}), !.mem[c] = Started(ZeroPage, {"W"})]
  /\ k1 = PageInsert(k0, KernEnd, b, <<0, 1>>, {"W"})
  /\ k2 = PageInsert(k1, KernEnd, c, <<0, 1>>, {"W"})
  /\ k3 = PageRemove(k2, KernEnd, <<0, 1>>)
  /\ mm = PageFree(Forced(k3, KernEnd, 0, a), a)

\* The memory mm is m with the list f, and u and v in two pages.
Written(m, mm, f, b, u, c, v) == mm = [m EXCEPT !.free = f, !.mem[b] = u, !.mem[c] = v]

\* check_page_installed_pgdir fills two pages.
LEMMA TwoWritten ==
  ASSUME NEW m \in Memory, NEW f \in Seq(Page), NEW b \in Page, NEW c \in Page, b # c,
         NEW u \in PageContent, NEW v \in PageContent, NEW mm, Written(m, mm, f, b, u, c, v)
  PROVE  /\ mm \in Memory /\ mm.free = f /\ mm.ref = m.ref
         /\ \A p \in Page : p # b /\ p # c => mm.mem[p] = m.mem[p]
<1>1. mm \in Memory
  BY DEF Memory, Written
<1>2. mm.free = f /\ mm.ref = m.ref /\ mm.mem = [m.mem EXCEPT ![b] = u, ![c] = v]
  BY DEF Memory, Written
<1> QED
  BY <1>1, <1>2, MemoryParts

\* The first page becomes the page table for address 0.
LEMMA TableMade ==
  ASSUME NEW o \in Memory, NEW d, NEW a, NEW b, NEW c, NEW f \in Seq(Page),
         Shows(o, o, d, a, b, c, <<a>> \o f, 0, 0, 0, NoPte, NoPte), Apart(d, a, b, c),
         NEW m1, m1 = PageInsert(o, d, b, <<0, 1>>, {"W"})
  PROVE  Seen(m1, o, d, a, b, c, f, 1, 0, NoPte, Ent(b, {"W"}))
<1> DEFINE i1 == Walk(o, d, 0)
           e == Ent(b, {"W"})
<1>1. a \in Page /\ b \in Page /\ {"W"} \in Perm
  BY NilFacts DEF Apart
<1>2. /\ ~WalkFails(o, d, 0) /\ Shows(i1, o, d, a, b, c, f, 1, 0, 0, Hook(a), NoPte)
      /\ HasTwo(i1, a, NoPte, NoPte)
  <2>1. Slot(0, NoPte, NoPte, NoPte, Hook(a), Hook(a), NoPte)
    BY SlotFacts
  <2> QED
    BY <2>1, ShowsWalk
<1>3. HasTable(i1, d, 0)
  BY <1>1, <1>2, HookFacts DEF Shows, HasTable
<1>4. i1 = Walk(o, d, 0) /\ ~WalkFails(o, d, 0)
  BY <1>2
<1> HIDE DEF i1
<1>5. m1 = PageInsert(i1, d, b, <<0, 1>>, {"W"})
  <2>1. PageInsert(o, d, b, <<0, 1>>, {"W"}) = PageInsert(i1, d, b, <<0, 1>>, {"W"})
    BY <1>3, <1>4, InsertWalked
  <2> QED
    BY <2>1, Zenon
<1>6. Enters(i1, m1, d, b, 1, e)
  BY <1>1, <1>5, EntFacts
<1>7. Slot(1, NoPte, NoPte, NoPte, e, NoPte, e)
  BY SlotFacts
<1> HIDE DEF e
<1>8. Shows(m1, o, d, a, b, c, f, 1, 1, 0, Hook(a), NoPte) /\ HasTwo(m1, a, NoPte, e)
  BY <1>2, <1>6, <1>7, UpFacts, InsertNew
<1> QED
  BY <1>8 DEF Seen, e

\* check_page_installed_pgdir passes and leaves the directory and, reordered, the list.
LEMMA InstalledKeeps ==
  ASSUME Machine, NEW m \in Memory, NEW dn, DirHas(m, dn), ListHas(m, dn), Len(m.free) >= 3,
         Count(dn) = 0 \/ Count(dn) = TablesNeeded,
         NEW a, NEW b, NEW c, Firsts(m, a, b, c), NEW k0, NEW k1, NEW k2, NEW k3, NEW mm,
         InstalledChain(m, a, b, c, k0, k1, k2, k3, mm)
  PROVE  /\ k1.ref[b] = 1 /\ k2.ref[c] = 1 /\ k2.ref[b] = 0 /\ k3.ref[c] = 0
         /\ TableOf(k3, KernEnd, 0) = a /\ k3.ref[a] = 1
         /\ mm \in Memory /\ DirHas(mm, dn) /\ ListHas(mm, dn)
<1> DEFINE d == KernEnd
           r == Rest(m.free)
           bw == Ent(b, {"W"})
           cw == Ent(c, {"W"})
           f1 == <<a>> \o r
           f2 == <<b>> \o r
           f3 == <<c>> \o f2
           f4 == <<a>> \o f3
           n3 == Forced(k3, d, 0, a)
<1>1. /\ Apart(d, a, b, c) /\ Apart(d, a, c, b) /\ m.ref[a] = 0 /\ m.ref[b] = 0 /\ m.ref[c] = 0
      /\ m.mem[KernEnd][0] = NoPte /\ m.mem[KernEnd][1] = NoPte
  BY FirstsApart, ShowsSwap
<1>2. /\ a \in Page /\ b \in Page /\ c \in Page /\ a # b /\ a # c /\ b # c /\ d # b /\ d # c /\ d \in Page
      /\ r \in Seq(Page) /\ f1 \in Seq(Page) /\ {"W"} \in Perm
  BY <1>1, FirstThree, Cons, NilFacts DEF Apart
<1>3. /\ k0 \in Memory /\ k0.free = f1 /\ k0.ref = m.ref
      /\ \A p \in Page : p # b /\ p # c => k0.mem[p] = m.mem[p]
  <2> DEFINE u == Filled({})
             v == Started(ZeroPage, {"W"})
  <2>1. u \in PageContent /\ v \in PageContent
    BY ContentFacts
  <2>2. Written(m, k0, f1, b, u, c, v)
    BY DEF InstalledChain, Written
  <2> HIDE DEF f1, u, v
  <2> QED
    BY <1>2, <2>1, <2>2, TwoWritten
<1>4. /\ k1 = PageInsert(k0, d, b, <<0, 1>>, {"W"}) /\ Enters(k1, k2, d, c, 1, cw)
      /\ Removes(k2, k3, d, 1) /\ mm = PageFree(n3, a)
  BY <1>2, EntFacts DEF InstalledChain, Removes
<1>5. Is1(bw, b) /\ Is1(cw, c)
  BY <1>2, EntFacts
<1>6. /\ Slot(1, NoPte, bw, bw, cw, NoPte, cw) /\ Slot(1, NoPte, cw, cw, NoPte, NoPte, NoPte)
      /\ Slot(0, Hook(a), NoPte, Hook(a), NoPte, NoPte, NoPte)
  BY SlotFacts
<1>7. Gone(0, c, f2, f3)
  BY DEF Gone
<1>8. Shows(k0, k0, d, a, b, c, f1, 0, 0, 0, NoPte, NoPte)
  BY <1>1, <1>2, <1>3 DEF Shows
<1> HIDE DEF r, d
<1>9. Seen(k1, k0, d, a, b, c, r, 1, 0, NoPte, bw)
  BY <1>1, <1>2, <1>3, <1>4, <1>8, TableMade
<1> HIDE DEF bw, cw, f1, f3, f4, n3
<1>10. Seen(k2, k0, d, a, c, b, f2, 1, 0, NoPte, cw)
  <2>1. Seen(k1, k0, d, a, c, b, r, 0, 1, NoPte, bw)
    BY <1>9, SeenSwap
  <2> QED
    BY <1>1, <1>4, <1>5, <1>6, <2>1, UpFacts, SeenInsert
<1> HIDE DEF f2
<1>11. Seen(k3, k0, d, a, c, b, f3, 0, 0, NoPte, NoPte)
  BY <1>1, <1>4, <1>5, <1>6, <1>7, <1>10, UpFacts, SeenRemove
<1>12. Shows(n3, k0, d, a, c, b, f3, 0, 0, 0, NoPte, NoPte)
  <2>1. Shows(k3, k0, d, a, c, b, f3, 1, 0, 0, Hook(a), NoPte)
    BY <1>11 DEF Seen
  <2> QED
    BY <1>1, <1>6, <2>1, ShowsForced DEF n3
<1>13. Shows(mm, k0, d, a, b, c, f4, 0, 0, 0, NoPte, NoPte)
  <2>1. Shows(mm, k0, d, a, c, b, f4, 0, 0, 0, NoPte, NoPte)
    BY <1>2, <1>4, <1>12, ShowsFree DEF f4
  <2> QED
    BY <2>1, ShowsSwap
<1>14. Reordered(m.free, f4)
  <2>1. {a, c, b} = {m.free[1], m.free[2], m.free[3]}
    BY DEF Firsts
  <2> QED
    BY <1>2, <2>1, ReorderedRest DEF f4, f3, f2, r
<1>15. Prepared(m, k0, b, c)
  BY <1>2, <1>3 DEF Prepared, d
<1>16. mm \in Memory /\ DirHas(mm, dn) /\ ListHas(mm, dn)
  <2>1. Shows(mm, k0, KernEnd, a, b, c, f4, 0, 0, 0, NoPte, NoPte)
    BY <1>13 DEF d
  <2> QED
    BY <1>14, <1>15, <2>1, Restored
<1>17. /\ k1.ref[b] = 1 /\ k2.ref[c] = 1 /\ k2.ref[b] = 0 /\ k3.ref[c] = 0 /\ k3.ref[a] = 1
       /\ k3.mem[d][0] = Hook(a)
  <2>1. k1.ref[b] = 1
    BY <1>9 DEF Seen, Shows
  <2>2. k2.ref[c] = 1 /\ k2.ref[b] = 0
    BY <1>10 DEF Seen, Shows
  <2>3. k3.ref[c] = 0 /\ k3.ref[a] = 1 /\ k3.mem[d][0] = Hook(a)
    BY <1>11 DEF Seen, Shows
  <2> QED
    BY <2>1, <2>2, <2>3
<1>18. TableOf(k3, KernEnd, 0) = a
  BY <1>17 DEF TableOf, Hook, d
<1> QED
  BY <1>16, <1>17, <1>18

\* What is said of the machine stays.
LEMMA SameMachine ==
  ASSUME UNCHANGED machine
  PROVE  /\ Machine' <=> Machine
         /\ (DirHas(phys, Done))' <=> DirHas(phys', Done')
         /\ (ListHas(phys, Done))' <=> ListHas(phys', Done')
         /\ (Ample' <=> Ample) /\ Highs' = Highs
         /\ npages' = npages /\ npages_basemem' = npages_basemem /\ Usable' = Usable
<1>1. npages' = npages /\ npages_basemem' = npages_basemem
  BY DEF machine
<1>2. Machine' <=> Machine
  BY <1>1 DEF Machine
<1>3. Usable' = Usable /\ (Ample' <=> Ample) /\ Spare' = Spare /\ Highs' = Highs
  BY <1>1, Zenon DEF Usable, Ample, Spare, Highs
<1>4. ForTables' = ForTables
  BY <1>3, Zenon DEF ForTables
<1>5. (DirHas(phys, Done))' <=> DirHas(phys', Done')
  BY <1>3, <1>4, Zenon DEF DirHas, TableAt
<1>6. (ListHas(phys, Done))' <=> ListHas(phys', Done')
  BY <1>1, <1>3, <1>4, Zenon DEF ListHas, Once, FreePages, IsTable
<1> QED
  BY <1>1, <1>2, <1>3, <1>5, <1>6

\* Nothing is mapped yet, and all is.
None == [r \in 1..4 |-> 0]
Full == [r \in 1..4 |-> Sizes[r]]

\* The number of pages of each call of boot_map_region.
LEMMA SizesNat == \A r \in 1..4 : Sizes[r] \in Nat /\ Sizes[r] > 0 /\ Regions[r].size = Sizes[r]
<1>1. NPT \in Nat \ {0} /\ NPT - KERNBASE \in Nat \ {0} /\ Frames \in Nat
  BY Layout, LayoutAssumption
<1>2. Frames > 0
  <2>1. Frames = (NPT - KERNBASE) * NPT
    BY DEF Frames
  <2>2. \A m, n \in Nat \ {0} : m * n > 0
    OBVIOUS
  <2> QED
    BY <1>1, <2>1, <2>2
<1> QED
  BY <1>1, <1>2 DEF Sizes, Regions, Frames

\* Before the first call nothing is mapped.
LEMMA DoneNone ==
  /\ pc \in Early \/ (region = 1 /\ pos = 0) => Done = None
  /\ None \in Progress /\ Count(None) = 0 /\ \A x \in Idx : ~Begun(None, x)
<1>1. pc \in Early \/ (region = 1 /\ pos = 0) => Done = None
  <2> HAVE pc \in Early \/ (region = 1 /\ pos = 0)
  <2>1. \A r \in 1..4 : (IF pc \in Early \/ r > region THEN 0
                         ELSE IF r < region THEN Sizes[r] ELSE pos) = 0
    OBVIOUS
  <2> QED
    BY <2>1, Zenon DEF Done, None
<1>2. None \in Progress
  BY SizesNat DEF None, Progress
<1>3. Rows(0) = 0
  <2>1. Rows(0) \in Nat /\ (0 < Rows(0) <=> 0 * NPT < 0)
    BY RowsCount
  <2>2. ~(0 * NPT < 0)
    BY Layout
  <2> QED
    BY <2>1, <2>2
<1>4. Count(None) = 0
  BY <1>3 DEF Count, One, None
<1>5. \A x \in Idx : ~Begun(None, x)
  BY <1>3, Places DEF Begun, None
<1> QED
  BY <1>1, <1>2, <1>4, <1>5

\* After the last call everything is mapped.
LEMMA DoneFull ==
  /\ pc \notin Early /\ region = 5 => Done = Full
  /\ Full \in Progress /\ Count(Full) = TablesNeeded
  /\ Rows(Frames) = NPT - KERNBASE
<1>1. pc \notin Early /\ region = 5 => Done = Full
  <2> HAVE pc \notin Early /\ region = 5
  <2>1. \A r \in 1..4 : (IF pc \in Early \/ r > region THEN 0
                         ELSE IF r < region THEN Sizes[r] ELSE pos) = Sizes[r]
    OBVIOUS
  <2> QED
    BY <2>1, Zenon DEF Done, Full
<1>2. Full \in Progress
  BY SizesNat DEF Full, Progress
<1> DEFINE N == NPT - KERNBASE
<1>3. N \in Nat /\ N * NPT = Frames /\ NPT \in Nat \ {0}
  BY LayoutAssumption, Layout DEF Frames
<1>4. Rows(Frames) = N
  <2> HIDE DEF N
  <2>1. (N * NPT + 0) \div NPT = N /\ (N * NPT + 0) % NPT = 0
    BY <1>3, RowParts
  <2>2. N * NPT + 0 = Frames
    BY <1>3, Layout
  <2>3. Frames \div NPT = N /\ Frames % NPT = 0
    BY <2>1, <2>2
  <2> QED
    BY <2>3, <1>3 DEF Rows
<1>5. Count(Full) = TablesNeeded
  <2>1. One(Full[1]) = 1 /\ One(Full[2]) = 1 /\ One(Full[3]) = 1 /\ Full[4] = Frames
    BY SizesNat DEF One, Full, Sizes
  <2> QED
    BY <1>4, <2>1, Layout DEF Count
<1> QED
  BY <1>1, <1>2, <1>4, <1>5

\* After an iteration of boot_map_region and after its last one.
LEMMA DoneNext ==
  ASSUME pc \notin Early, region \in 1..4, pos \in 0..Sizes[region]
  PROVE  /\ Done \in Progress /\ Done[region] = pos
         /\ pc' = pc /\ region' = region /\ pos' = pos + 1 => Done' = [Done EXCEPT ![region] = @ + 1]
         /\ pc' = pc /\ pos = Sizes[region] /\ region' = region + 1 /\ pos' = 0 => Done' = Done
<1>1. \A r \in 1..4 : Done[r] = IF r > region THEN 0 ELSE IF r < region THEN Sizes[r] ELSE pos
  BY DEF Done
<1>2. Done \in Progress /\ Done[region] = pos
  <2>1. \A r \in 1..4 : Done[r] \in Nat /\ Done[r] <= Sizes[r]
    BY <1>1, SizesNat
  <2>2. Done[region] = pos
    BY <1>1
  <2>3. Done = [r \in 1..4 |-> Done[r]]
    BY DEF Done
  <2>4. Done \in [1..4 -> Nat]
    BY <2>1, <2>3
  <2> QED
    BY <2>1, <2>2, <2>4 DEF Progress
<1>3. ASSUME pc' = pc, region' = region, pos' = pos + 1
      PROVE  Done' = [Done EXCEPT ![region] = @ + 1]
  <2>1. Done' = [r \in 1..4 |-> IF r > region THEN 0 ELSE IF r < region THEN Sizes[r] ELSE pos + 1]
    BY <1>3 DEF Done
  <2>2. \A r \in 1..4 : (IF r > region THEN 0 ELSE IF r < region THEN Sizes[r] ELSE pos + 1) =
                         [Done EXCEPT ![region] = @ + 1][r]
    BY <1>1, <1>2 DEF Progress
  <2> QED
    BY <1>2, <2>1, <2>2 DEF Progress
<1>4. ASSUME pc' = pc, pos = Sizes[region], region' = region + 1, pos' = 0
      PROVE  Done' = Done
  <2>1. Done' = [r \in 1..4 |-> IF r > region + 1 THEN 0 ELSE IF r < region + 1 THEN Sizes[r] ELSE 0]
    BY <1>4 DEF Done
  <2>2. \A r \in 1..4 : (IF r > region + 1 THEN 0 ELSE IF r < region + 1 THEN Sizes[r] ELSE 0) = Done[r]
    BY <1>1, <1>4
  <2> QED
    BY <1>2, <2>1, <2>2 DEF Progress
<1> QED
  BY <1>2, <1>3, <1>4

Later == {"alloc", "page", "map", "list", "installed", "done", "panic"}
LoadedRight ==
  /\ loaded \in {"entry", "kern"}
  /\ loaded = "kern" => pc \in {"list", "installed", "done", "panic"}
  /\ pc \in {"list", "installed", "done"} => loaded = "kern"

\* What holds between the checks.
LaterInv ==
  /\ Machine /\ phys \in Memory /\ Booted /\ pc \in Later /\ LoadedRight
  /\ DirHas(phys, Done) /\ ListHas(phys, Done) /\ LaterPlaces

\* The invariant once page_init and the sort are over.
LEMMA LaterForm == pc \notin Early => (SetupInv <=> LaterInv)
<1> HAVE pc \notin Early
<1>1. pc \notin {"dir", "arrays", "init", "sort"}
  BY DEF Early
<1>2. SetupInv => LaterInv
  BY <1>1 DEF SetupInv, LaterInv, LoadedRight, Later, Early
<1>3. LaterInv => SetupInv
  BY <1>1 DEF SetupInv, LaterInv, LoadedRight, Later, Early
<1> QED
  BY <1>2, <1>3

\* The steps after them are not the steps before.
LEMMA LaterNot == pc \in Later => pc \notin Early
BY DEF Later, Early

\* The pages written are low before kern_pgdir is loaded.
LowWrites == loaded = "entry" => \A p \in Page : phys'.mem[p] # phys.mem[p] => IsLow(p)

\* A step that keeps the machine and the arrays keeps the invariant when it keeps
\* the list, the directory and the place in the program.
LEMMA LaterNext ==
  ASSUME LaterInv, UNCHANGED <<machine, arrays>>, pc' \in Later, LoadedRight',
         phys' \in Memory, DirHas(phys', Done'), ListHas(phys', Done'), LaterPlaces'
  PROVE  LaterInv'
<1>1. UNCHANGED machine /\ UNCHANGED arrays
  OBVIOUS
<1>2. Machine' /\ (DirHas(phys, Done))' /\ (ListHas(phys, Done))'
  BY <1>1, SameMachine DEF LaterInv
<1>3. Booted'
  BY <1>1 DEF LaterInv, Booted, arrays
<1> QED
  BY <1>2, <1>3 DEF LaterInv, Later

\* The list is long enough when memory is ample.
LEMMA AmpleList ==
  ASSUME Machine, NEW m \in Memory, NEW dn \in Progress, ListHas(m, dn)
  PROVE  /\ Len(m.free) \in Nat
         /\ Ample => ~OutOfMemory(m)
         /\ Ample /\ npages_basemem > 2 => Len(m.free) >= 3
<1>1. /\ Len(m.free) \in Nat /\ Count(dn) \in Nat /\ Count(dn) <= TablesNeeded
      /\ Len(m.free) + Count(dn) = (npages - ArraysEnd) + (npages_basemem - 1)
  BY MemoryParts, CountBound DEF ListHas
<1>2. npages \in Nat /\ npages_basemem \in Nat \ {0} /\ ArraysEnd \in Nat /\ TablesNeeded \in Nat
  BY Layout DEF Machine
<1>3. Ample => Len(m.free) > 0
  BY <1>1, <1>2 DEF Ample
<1>4. Ample /\ npages_basemem > 2 => Len(m.free) >= 3
  BY <1>1, <1>2 DEF Ample
<1>5. Len(m.free) > 0 => m.free # <<>>
  BY MemoryParts
<1> QED
  BY <1>1, <1>3, <1>4, <1>5 DEF OutOfMemory

\* check_page_alloc gives every page back and asserts nothing false.
LEMMA AllocStep == LaterInv /\ CheckPageAlloc => LaterInv' /\ LowWrites
<1> SUFFICES ASSUME LaterInv, CheckPageAlloc PROVE LaterInv' /\ LowWrites
  OBVIOUS
<1>1. /\ Machine /\ phys \in Memory /\ DirHas(phys, Done) /\ ListHas(phys, Done) /\ LaterPlaces
      /\ pc = "alloc" /\ region = 1 /\ pos = 0 /\ pc \notin Early
      /\ LoadedRight /\ UNCHANGED <<machine, arrays>> /\ region' = region /\ pos' = pos /\ loaded' = loaded
  BY DEF LaterInv, CheckPageAlloc, LaterPlaces, loop, Early
<1>2. Done = None /\ None \in Progress /\ Count(None) = 0
  BY <1>1, DoneNone
<1>0. UNCHANGED machine
  BY <1>1
<1>3. (Ample' <=> Ample) /\ npages_basemem' = npages_basemem
  BY <1>0, SameMachine
<1>4. CASE Len(phys.free) < 3
  <2>1. pc' = "panic" /\ phys' = phys
    BY <1>4 DEF CheckPageAlloc
  <2>2. pc' \notin Early /\ pc' \in Later
    BY <2>1 DEF Early, Later
  <2>3. Done' = None
    BY <1>1, <2>2, DoneNone DEF Done, None
  <2>4. ~(Ample /\ npages_basemem > 2)
    BY <1>1, <1>2, <1>4, AmpleList
  <2>5. LaterPlaces'
    BY <1>1, <1>3, <2>1, <2>4 DEF LaterPlaces
  <2>6. LoadedRight'
    BY <1>1, <2>1 DEF LoadedRight
  <2> QED
    BY <1>1, <1>2, <2>1, <2>2, <2>3, <2>5, <2>6, LaterNext DEF LowWrites
<1>5. CASE ~(Len(phys.free) < 3)
  <2>0. Len(phys.free) >= 3
    BY <1>1, <1>2, <1>5, AmpleList
  <2> DEFINE a == phys.free[1]
             b == phys.free[2]
             c == phys.free[3]
             k1 == PageFree(PageFree(PageFree([phys EXCEPT !.free = <<>>], a), b), c)
             k2 == PageAlloc(PageAlloc(PageAlloc(k1, FALSE), FALSE), FALSE)
             k3 == PageAlloc(PageFree([k2 EXCEPT !.mem[c] = Filled({})], c), TRUE)
  <2>1. /\ phys' = PageFree(PageFree(PageFree([k3 EXCEPT !.free = Rest(phys.free)], c), b), a)
        /\ pc' = IF k1.free = <<c, b, a>> /\ OutOfMemory(k2) /\ k3.mem[c] = ZeroPage
                 THEN "page" ELSE "panic"
    BY <1>5 DEF CheckPageAlloc, Rest
  <2>2. AllocChain(phys, a, b, c, k1, k2, k3, phys')
    BY <2>1 DEF AllocChain
  <2> HIDE DEF k1, k2, k3
  <2>3. /\ k1.free = <<c, b, a>> /\ OutOfMemory(k2) /\ k3.mem[c] = ZeroPage
        /\ Is(phys', phys.free, phys.ref, Put(phys.mem, c, ZeroPage))
    BY <1>1, <2>0, <2>2, AllocCalls
  <2>4. pc' = "page"
    BY <2>1, <2>3
  <2>5. pc' \notin Early /\ pc' \in Later
    BY <2>4 DEF Early, Later
  <2>6. Done' = None
    BY <1>1, <2>5, DoneNone DEF Done, None
  <2>7. c \in Page /\ c \in FreePages(phys) /\ c \in ForTables
    <3>1. c \in Page /\ c \in FreePages(phys) /\ 3 \in DOMAIN phys.free
      BY <1>1, <2>0, FirstThree
    <3>2. 3 + Count(None) <= TablesNeeded
      BY <1>2, Layout
    <3> QED
      BY <1>1, <1>2, <3>1, <3>2 DEF ListHas
  <2> HIDE DEF a, b, c
  <2>8. /\ phys' \in Memory /\ phys'.free = phys.free /\ phys'.ref = phys.ref
        /\ \A p \in Page : p # c => phys'.mem[p] = phys.mem[p]
    <3>1. phys.mem \in [Page -> PageContent] /\ ZeroPage \in PageContent
      BY <1>1, MemoryParts, ContentFacts
    <3>2. \A p \in Page : p # c => Put(phys.mem, c, ZeroPage)[p] = phys.mem[p]
      BY <2>7, <3>1, PutAt
    <3> QED
      BY <2>3, <3>2 DEF Is
  <2>9. \A p \in Page \ FreePages(phys) : phys'.mem[p] = phys.mem[p]
    BY <2>7, <2>8
  <2>10. DirHas(phys', None) /\ ListHas(phys', None)
    BY <1>1, <1>2, <2>8, <2>9, FreeWritten
  <2>11. LaterPlaces'
    BY <1>1, <2>0, <2>4, <2>8 DEF LaterPlaces
  <2>12. LoadedRight'
    BY <1>1, <2>4 DEF LoadedRight
  <2>13. LowWrites
    BY <2>7, <2>8, TablesLow DEF LowWrites, IsLow
  <2> QED
    BY <1>1, <2>5, <2>6, <2>8, <2>10, <2>11, <2>12, <2>13, LaterNext
<1> QED
  BY <1>4, <1>5

\* check_page gives every page back and asserts nothing false.
LEMMA PageStep == LaterInv /\ CheckPage => LaterInv' /\ LowWrites
<1> SUFFICES ASSUME LaterInv, CheckPage PROVE LaterInv' /\ LowWrites
  OBVIOUS
<1>1. /\ Machine /\ phys \in Memory /\ DirHas(phys, Done) /\ ListHas(phys, Done) /\ LaterPlaces
      /\ pc = "page" /\ region = 1 /\ pos = 0 /\ pc \notin Early /\ Len(phys.free) >= 3
      /\ LoadedRight /\ UNCHANGED <<machine, arrays>> /\ region' = region /\ pos' = pos /\ loaded' = loaded
      /\ kern_pgdir = KernEnd
  BY DEF LaterInv, CheckPage, LaterPlaces, loop, Early, Booted
<1>2. Done = None /\ None \in Progress /\ Count(None) = 0
  BY <1>1, DoneNone
<1>0. UNCHANGED machine
  BY <1>1
<1>3. (Ample' <=> Ample) /\ npages_basemem' = npages_basemem
  BY <1>0, SameMachine
<1> DEFINE a == phys.free[1]
           b == phys.free[2]
           c == phys.free[3]
           calls == PageCalls([phys EXCEPT !.free = <<>>], KernEnd, a, b, c)
<1>4. /\ phys' = PageFree(PageFree(PageFree([calls.after EXCEPT !.free = Rest(phys.free)], a), b), c)
      /\ pc' = IF calls.asserts THEN "map" ELSE "panic"
  BY <1>1, Zenon DEF CheckPage, Rest
<1>5. PageChecked(phys, a, b, c, phys') /\ Firsts(phys, a, b, c)
  BY <1>4, Zenon DEF PageChecked, Firsts
<1>6. a \in Page /\ a \in FreePages(phys) /\ a \in ForTables
  <2>1. a \in Page /\ a \in FreePages(phys) /\ 1 \in DOMAIN phys.free
    BY <1>1, FirstThree
  <2>2. 1 + Count(None) <= TablesNeeded
    BY <1>2, Layout
  <2> QED
    BY <1>1, <1>2, <2>1, <2>2 DEF ListHas
<1>7. calls.asserts = TRUE \/ calls.asserts # TRUE
  OBVIOUS
<1>8. pc' = "map" \/ ~calls.asserts
  BY <1>4
<1> HIDE DEF a, b, c
<1>9. /\ PageCalls([phys EXCEPT !.free = <<>>], KernEnd, a, b, c).asserts
      /\ phys' \in Memory /\ DirHas(phys', None) /\ ListHas(phys', None)
      /\ \A p \in Page : p # a => phys'.mem[p] = phys.mem[p]
  BY <1>1, <1>2, <1>5, CheckPageKeeps
<1>10. pc' = "map"
  BY <1>8, <1>9
<1>11. pc' \notin Early /\ pc' \in Later
  BY <1>10 DEF Early, Later
<1>12. Done' = None
  BY <1>1, <1>11, DoneNone DEF Done, None
<1>13. LaterPlaces'
  BY <1>1, <1>10 DEF LaterPlaces
<1>14. LoadedRight'
  BY <1>1, <1>10 DEF LoadedRight
<1>15. LowWrites
  BY <1>6, <1>9, TablesLow DEF LowWrites, IsLow
<1> QED
  BY <1>1, <1>9, <1>11, <1>12, <1>13, <1>14, <1>15, LaterNext

\* check_page_installed_pgdir gives every page back and asserts nothing false.
LEMMA InstalledStep == LaterInv /\ CheckInstalled => LaterInv' /\ LowWrites
<1> SUFFICES ASSUME LaterInv, CheckInstalled PROVE LaterInv' /\ LowWrites
  OBVIOUS
<1>1. /\ Machine /\ phys \in Memory /\ DirHas(phys, Done) /\ ListHas(phys, Done) /\ LaterPlaces
      /\ pc = "installed" /\ region = 5 /\ pos = 0 /\ pc \notin Early
      /\ LoadedRight /\ UNCHANGED <<machine, arrays>> /\ region' = region /\ pos' = pos /\ loaded' = loaded
      /\ kern_pgdir = KernEnd /\ loaded = "kern"
  BY DEF LaterInv, CheckInstalled, LaterPlaces, loop, Early, Booted, LoadedRight
<1>2. Done = Full /\ Full \in Progress /\ Count(Full) = TablesNeeded
  BY <1>1, DoneFull
<1>0. UNCHANGED machine
  BY <1>1
<1>3. (Ample' <=> Ample) /\ npages_basemem' = npages_basemem
  BY <1>0, SameMachine
<1>4. LowWrites
  BY <1>1 DEF LowWrites
<1>5. CASE Len(phys.free) < 3
  <2>1. pc' = "panic" /\ phys' = phys
    BY <1>5 DEF CheckInstalled
  <2>2. pc' \notin Early /\ pc' \in Later
    BY <2>1 DEF Early, Later
  <2>3. Done' = Full
    BY <1>1, <2>2, DoneFull DEF Done, Full
  <2>4. ~(Ample /\ npages_basemem > 2)
    BY <1>1, <1>2, <1>5, AmpleList
  <2>5. LaterPlaces'
    BY <1>1, <1>3, <2>1, <2>4 DEF LaterPlaces
  <2>6. LoadedRight'
    BY <1>1, <2>1 DEF LoadedRight
  <2> QED
    BY <1>1, <1>2, <1>4, <2>1, <2>2, <2>3, <2>5, <2>6, LaterNext
<1>6. CASE ~(Len(phys.free) < 3)
  <2>0. Len(phys.free) >= 3
    BY <1>1, <1>2, <1>6, AmpleList
  <2> DEFINE a == phys.free[1]
             b == phys.free[2]
             c == phys.free[3]
             k0 == [phys EXCEPT !.free = <<a>> \o Rest(@),
                                !.mem[b] = Filled({}), !.mem[c] = Started(ZeroPage, {"W"})]
             k1 == PageInsert(k0, KernEnd, b, <<0, 1>>, {"W"})
             k2 == PageInsert(k1, KernEnd, c, <<0, 1>>, {"W"})
             k3 == PageRemove(k2, KernEnd, <<0, 1>>)
  <2>1. /\ phys' = PageFree(Forced(k3, KernEnd, 0, a), a)
        /\ pc' = IF /\ k1.ref[b] = 1 /\ k2.ref[c] = 1 /\ k2.ref[b] = 0 /\ k3.ref[c] = 0
                    /\ TableOf(k3, KernEnd, 0) = a /\ k3.ref[a] = 1
                 THEN "done" ELSE "panic"
    BY <1>1, <1>6 DEF CheckInstalled, TakenBack, Rest
  <2>2. InstalledChain(phys, a, b, c, k0, k1, k2, k3, phys') /\ Firsts(phys, a, b, c)
    BY <2>1 DEF InstalledChain, Firsts
  <2> HIDE DEF a, b, c, k0, k1, k2, k3
  <2>3. /\ k1.ref[b] = 1 /\ k2.ref[c] = 1 /\ k2.ref[b] = 0 /\ k3.ref[c] = 0
        /\ TableOf(k3, KernEnd, 0) = a /\ k3.ref[a] = 1
        /\ phys' \in Memory /\ DirHas(phys', Full) /\ ListHas(phys', Full)
    BY <1>1, <1>2, <2>0, <2>2, InstalledKeeps
  <2>4. pc' = "done"
    BY <2>1, <2>3
  <2>5. pc' \notin Early /\ pc' \in Later
    BY <2>4 DEF Early, Later
  <2>6. Done' = Full
    BY <1>1, <2>5, DoneFull DEF Done, Full
  <2>7. LaterPlaces'
    BY <1>1, <2>4 DEF LaterPlaces
  <2>8. LoadedRight'
    BY <1>1, <2>4 DEF LoadedRight
  <2> QED
    BY <1>1, <1>4, <2>3, <2>5, <2>6, <2>7, <2>8, LaterNext
<1> QED
  BY <1>5, <1>6

\* The assertions of check_page_free_list.
LEMMA ListAsserts ==
  ASSUME Machine, nextfree = ArraysEnd, Listed \subseteq Usable, 1 \in Listed, Spare \in Listed
  PROVE  FreeListAsserts
<1>1. /\ npages \in Nat /\ npages_basemem \in 1..IoPage /\ ArraysEnd \in Nat /\ LowEnd \in Nat /\ IoPage \in Nat
      /\ ExtPage \in Nat /\ IoPage < ExtPage /\ ExtPage < ArraysEnd /\ npages >= ArraysEnd
  <2>1. /\ IoPage \in Nat /\ ExtPage \in Nat /\ StackPage \in Nat /\ KernEnd \in Nat /\ PagesSize \in Nat /\ EnvsSize \in Nat
        /\ ArraysEnd \in Nat /\ LowEnd \in Nat
    BY Layout
  <2>2. IoPage < ExtPage /\ ExtPage <= StackPage /\ StackPage < KernEnd
    BY LayoutAssumption
  <2>3. ArraysEnd = KernEnd + 1 + PagesSize + EnvsSize
    BY DEF ArraysEnd
  <2>4. npages \in ArraysEnd..Frames /\ npages_basemem \in 1..IoPage /\ Frames \in Nat
    BY Layout DEF Machine
  <2> QED
    BY <2>1, <2>2, <2>3, <2>4
<1>2. \A p \in Listed : p \in 1..npages_basemem-1 \/ p \in ArraysEnd..npages-1
  BY DEF Usable
<1>3. \A p \in Listed :
       /\ p < npages /\ p \notin {0, IoPage, ExtPage - 1, ExtPage}
       /\ p < ExtPage \/ p >= nextfree
  <2> SUFFICES ASSUME NEW p \in Listed
               PROVE  /\ p < npages /\ p \notin {0, IoPage, ExtPage - 1, ExtPage}
                      /\ p < ExtPage \/ p >= nextfree
    OBVIOUS
  <2>1. CASE p \in 1..npages_basemem-1
    BY <1>1, <2>1
  <2>2. CASE p \in ArraysEnd..npages-1
    BY <1>1, <2>2
  <2> QED
    BY <1>2, <2>1, <2>2
<1>4. 1 < ExtPage
  BY <1>1, <1>2
<1>5. Spare >= ExtPage
  BY <1>1 DEF Spare
<1> QED
  BY <1>3, <1>4, <1>5 DEF FreeListAsserts

\* With ample memory a page above the kernel is on the list and never a page table.
LEMMA AmpleSpare ==
  ASSUME Machine, Ample
  PROVE  Spare \in Usable /\ Spare \notin ForTables /\ Spare \in Page
<1>1. /\ npages \in Nat /\ ArraysEnd \in Nat /\ LowEnd \in Nat /\ TablesNeeded \in Nat /\ ArraysEnd + TablesNeeded <= LowEnd
      /\ npages > ArraysEnd + TablesNeeded /\ npages <= Frames /\ Frames \in Nat /\ Page = 0..Frames-1
      /\ TablesNeeded > 3
  BY Layout DEF Machine, Ample
<1>2. Spare \in ArraysEnd..npages-1
  BY <1>1 DEF Spare
<1>3. Spare \notin ForTables
  BY DEF ForTables
<1> QED
  BY <1>1, <1>2, <1>3 DEF Usable

\* With enough base memory page 1 is on the list and never a page table.
LEMMA AmpleBase ==
  ASSUME Machine, Ample, npages_basemem > 2
  PROVE  1 \in Usable /\ 1 \notin ForTables /\ 1 \in Page
<1>1. npages_basemem \in 1..IoPage /\ IoPage \in Nat /\ ArraysEnd \in Nat /\ ArraysEnd > 1 /\ LowEnd \in Nat /\ 1 \in Page
  <2>1. IoPage \in Nat /\ StackPage \in Nat /\ KernEnd \in Nat /\ PagesSize \in Nat /\ EnvsSize \in Nat /\ LowEnd \in Nat
    BY Layout
  <2>2. StackPage < KernEnd
    BY LayoutAssumption
  <2>3. ArraysEnd \in Nat /\ ArraysEnd > 1 /\ ArraysEnd <= Frames /\ Page = 0..Frames-1 /\ Frames \in Nat
    BY <2>1, <2>2, Layout DEF ArraysEnd
  <2> QED
    BY <2>1, <2>3 DEF Machine
<1>2. 1 \notin ForTables
  BY <1>1 DEF ForTables
<1> QED
  BY <1>1, <1>2 DEF Usable

\* Neither is ever a page table.
LEMMA SpareFree ==
  ASSUME Machine, NEW m \in Memory, NEW dn, DirHas(m, dn), ListHas(m, dn), Ample, npages_basemem > 2
  PROVE  1 \in FreePages(m) /\ Spare \in FreePages(m)
<1>1. \A p : IsTable(m, dn, p) => p \in ForTables
  BY TableParts DEF IsTable
<1> QED
  BY <1>1, AmpleSpare, AmpleBase DEF ListHas

\* check_page_free_list fills the free pages with 0x97 and changes nothing else.
LEMMA PoisonedFacts ==
  ASSUME NEW m \in Memory, NEW S
  PROVE  /\ Poisoned(m, S) \in Memory /\ Poisoned(m, S).free = m.free /\ Poisoned(m, S).ref = m.ref
         /\ \A p \in Page : p \notin S => Poisoned(m, S).mem[p] = m.mem[p]
<1> DEFINE c == [p \in Page |-> IF p \in S THEN Started(m.mem[p], {"U", "W"}) ELSE m.mem[p]]
<1>1. c \in [Page -> PageContent]
  BY MemoryParts, ContentFacts
<1>2. Poisoned(m, S) = [m EXCEPT !.mem = c]
  BY DEF Poisoned
<1>3. \A p \in Page : p \notin S => c[p] = m.mem[p]
  OBVIOUS
<1> HIDE DEF c
<1>4. [m EXCEPT !.mem = c] \in Memory /\ [m EXCEPT !.mem = c].free = m.free
      /\ [m EXCEPT !.mem = c].ref = m.ref /\ [m EXCEPT !.mem = c].mem = c
  BY <1>1 DEF Memory
<1> QED
  BY <1>2, <1>3, <1>4

\* check_page_free_list(0), after the kernel's directory is loaded.
LEMMA AllStep == LaterInv /\ CheckAll => LaterInv' /\ LowWrites
<1> SUFFICES ASSUME LaterInv, CheckAll PROVE LaterInv' /\ LowWrites
  OBVIOUS
<1>1. /\ Machine /\ phys \in Memory /\ DirHas(phys, Done) /\ ListHas(phys, Done) /\ LaterPlaces
      /\ pc = "list" /\ region = 5 /\ pos = 0 /\ pc \notin Early
      /\ LoadedRight /\ UNCHANGED <<machine, arrays>> /\ region' = region /\ pos' = pos /\ loaded' = loaded
      /\ nextfree = ArraysEnd /\ loaded = "kern"
  BY DEF LaterInv, CheckAll, LaterPlaces, loop, Early, Booted, LoadedRight
<1>2. Done = Full /\ Full \in Progress
  BY <1>1, DoneFull
<1>0. UNCHANGED machine
  BY <1>1
<1>3. (Ample' <=> Ample) /\ npages_basemem' = npages_basemem
  BY <1>0, SameMachine
<1>4. LowWrites
  BY <1>1 DEF LowWrites
<1>5. Listed = FreePages(phys)
  BY DEF Listed, FreePages
<1>6. phys' = Poisoned(phys, Listed) /\ pc' = IF FreeListAsserts THEN "installed" ELSE "panic"
  BY DEF CheckAll
<1>7. /\ phys' \in Memory /\ phys'.free = phys.free /\ phys'.ref = phys.ref
      /\ \A p \in Page : p \notin FreePages(phys) => phys'.mem[p] = phys.mem[p]
  BY <1>1, <1>5, <1>6, PoisonedFacts
<1>8. DirHas(phys', Full) /\ ListHas(phys', Full)
  BY <1>1, <1>2, <1>7, FreeWritten
<1>9. Ample /\ npages_basemem > 2 => FreeListAsserts
  <2> HAVE Ample /\ npages_basemem > 2
  <2>1. 1 \in FreePages(phys) /\ Spare \in FreePages(phys)
    BY <1>1, SpareFree
  <2>2. FreePages(phys) \subseteq Usable
    BY <1>1, FreeParts
  <2> QED
    BY <1>1, <1>5, <2>1, <2>2, ListAsserts
<1>10. pc' \in {"installed", "panic"} /\ (Ample /\ npages_basemem > 2 => pc' = "installed")
  BY <1>6, <1>9
<1>11. pc' \notin Early /\ pc' \in Later
  BY <1>10 DEF Early, Later
<1>12. Done' = Full
  BY <1>1, <1>11, DoneFull DEF Done, Full
<1>13. LaterPlaces'
  BY <1>1, <1>3, <1>10 DEF LaterPlaces
<1>14. LoadedRight'
  BY <1>1, <1>10 DEF LoadedRight
<1> QED
  BY <1>1, <1>4, <1>7, <1>8, <1>11, <1>12, <1>13, <1>14, LaterNext

\* One page mapped by boot_map_region, with a new page table when its row begins;
\* the table comes from pages entry_pgdir maps.
LEMMA MapPageStep == LaterInv /\ MapPage => LaterInv' /\ LowWrites
<1> SUFFICES ASSUME LaterInv, MapPage PROVE LaterInv' /\ LowWrites
  OBVIOUS
<1>1. /\ Machine /\ phys \in Memory /\ DirHas(phys, Done) /\ ListHas(phys, Done) /\ LaterPlaces
      /\ pc = "map" /\ pc \notin Early /\ LoadedRight /\ UNCHANGED <<machine, arrays>> /\ region' = region
      /\ loaded' = loaded /\ kern_pgdir = KernEnd /\ pages = KernEnd + 1 /\ envs = KernEnd + 1 + PagesSize
      /\ region \in DOMAIN Regions /\ pos < Regions[region].size
  BY DEF LaterInv, MapPage, LaterPlaces, Early, Booted
<1>2. region \in 1..4 /\ pos \in 0..Sizes[region] /\ pos < Sizes[region] /\ pos \in Nat /\ region # 5
  <2>1. region \in 1..4
    BY <1>1 DEF Regions
  <2>2. Sizes[region] \in Nat /\ Regions[region].size = Sizes[region]
    BY <2>1, SizesNat
  <2>3. pos \in 0..Sizes[region]
    BY <1>1, <2>1 DEF LaterPlaces
  <2> QED
    BY <1>1, <2>1, <2>2, <2>3
<1>0. UNCHANGED machine
  BY <1>1
<1>3. (Ample' <=> Ample) /\ npages_basemem' = npages_basemem
  BY <1>0, SameMachine
<1> DEFINE dn == Done
           nn == [dn EXCEPT ![region] = @ + 1]
           x == (Regions[region].va + pos) \div NPT
           j == (Regions[region].va + pos) % NPT
           e == Mapped(region, pos)
           w == Walk(phys, KernEnd, x)
           mm == SetEntry(w, TableOf(w, KernEnd, x), j, e)
<1>4. Done \in Progress /\ Done[region] = pos
  BY <1>1, <1>2, DoneNext
<1>5. nn \in Progress /\ OneMore(dn, nn, x, j, e)
  <2>1. dn \in Progress /\ dn[region] = pos
    BY <1>4
  <2> HIDE DEF dn
  <2> DEFINE y == (Regions[region].va + dn[region]) \div NPT
             o == (Regions[region].va + dn[region]) % NPT
  <2>2. [dn EXCEPT ![region] = @ + 1] \in Progress
        /\ OneMore(dn, [dn EXCEPT ![region] = @ + 1], y, o, Mapped(region, dn[region]))
    BY <1>1, <1>2, <2>1, MapStep
  <2> QED
    BY <2>1, <2>2, Zenon
<1>6. CASE WalkFails(phys, KernEnd, x)
  <2>1. pc' = "panic" /\ phys' = phys /\ pos' = pos
    BY <1>1, <1>6 DEF MapPage
  <2>2. pc' \notin Early /\ pc' \in Later
    BY <2>1 DEF Early, Later
  <2>3. Done' = Done
    BY <1>1, <2>1, <2>2 DEF Done
  <2>4. ~Ample
    BY <1>1, <1>4, <1>6, AmpleList DEF WalkFails
  <2>5. LaterPlaces'
    BY <1>1, <1>2, <1>3, <2>1, <2>4 DEF LaterPlaces
  <2>6. LoadedRight'
    BY <1>1, <2>1 DEF LoadedRight
  <2> QED
    BY <1>1, <2>1, <2>2, <2>3, <2>5, <2>6, LaterNext DEF LowWrites
<1>7. CASE ~WalkFails(phys, KernEnd, x)
  <2>1. phys' = mm /\ pos' = pos + 1 /\ pc' = pc
    BY <1>1, <1>7 DEF MapPage, Mapped
  <2> HIDE DEF x, j, e
  <2>2. /\ mm \in Memory /\ DirHas(mm, nn) /\ ListHas(mm, nn)
        /\ \A p \in Page : mm.mem[p] # phys.mem[p] => p < LowEnd
    <3> HIDE DEF nn
    <3>1. DirHas(phys, dn) /\ ListHas(phys, dn) /\ dn \in Progress
      BY <1>1, <1>4
    <3> HIDE DEF dn
    <3> QED
      BY <1>1, <1>5, <1>7, <3>1, MapOne
  <2> HIDE DEF mm
  <2>3. pc' \in Later
    BY <1>1, <2>1 DEF Later
  <2>4. Done' = nn
    BY <1>1, <1>2, <2>1, DoneNext
  <2>5. LaterPlaces'
    BY <1>1, <1>2, <1>3, <2>1, SizesNat DEF LaterPlaces
  <2>6. LoadedRight'
    BY <1>1, <2>1 DEF LoadedRight
  <2>7. LowWrites
    BY <2>1, <2>2 DEF LowWrites, IsLow
  <2> HIDE DEF nn
  <2> QED
    BY <1>1, <2>1, <2>2, <2>3, <2>4, <2>5, <2>6, <2>7, LaterNext
<1> QED
  BY <1>6, <1>7

\* A call of boot_map_region ends, or there is no memory for its page table.
LEMMA RegionStep == LaterInv /\ RegionMapped => LaterInv' /\ LowWrites
<1> SUFFICES ASSUME LaterInv, RegionMapped PROVE LaterInv' /\ LowWrites
  OBVIOUS
<1>1. /\ Machine /\ phys \in Memory /\ DirHas(phys, Done) /\ ListHas(phys, Done) /\ LaterPlaces
      /\ pc = "map" /\ pc \notin Early /\ LoadedRight /\ UNCHANGED <<machine, arrays>> /\ region' = region + 1
      /\ pos' = 0 /\ loaded' = loaded /\ pc' = pc /\ phys' = phys
      /\ region \in DOMAIN Regions /\ pos = Regions[region].size
  BY DEF LaterInv, RegionMapped, Early
<1>2. region \in 1..4 /\ pos = Sizes[region] /\ pos \in 0..Sizes[region]
  <2>1. region \in 1..4
    BY <1>1 DEF Regions
  <2>2. Sizes[region] \in Nat /\ Regions[region].size = Sizes[region]
    BY <2>1, SizesNat
  <2> QED
    BY <1>1, <2>1, <2>2
<1>0. UNCHANGED machine
  BY <1>1
<1>3. (Ample' <=> Ample) /\ npages_basemem' = npages_basemem
  BY <1>0, SameMachine
<1>4. Done' = Done
  BY <1>1, <1>2, DoneNext
<1>5. LaterPlaces'
  BY <1>1, <1>2, <1>3, SizesNat DEF LaterPlaces
<1>6. LoadedRight' /\ pc' \in Later /\ LowWrites
  BY <1>1 DEF LoadedRight, Later, LowWrites
<1> QED
  BY <1>1, <1>4, <1>5, <1>6, LaterNext

----------------------------------------------------------------------------
(* What the kernel's directory maps.                                       *)

\* What page_lookup finds.
Looked(dn, x, j) == IF Begun(dn, x) THEN Entry(dn, x, j) ELSE NoPte

\* Looking up an address in the kernel's directory gives what has been mapped there.
LEMMA DirLooked ==
  ASSUME Machine, phys \in Memory, kern_pgdir = KernEnd, NEW dn, DirHas(phys, dn),
         NEW x \in Idx, x # UVPT
  PROVE  /\ HasTable(phys, kern_pgdir, x) <=> Begun(dn, x)
         /\ \A j \in Idx : PageLookup(phys, kern_pgdir, <<x, j>>) = Looked(dn, x, j)
         /\ Begun(dn, x) => phys.mem[kern_pgdir][x].perm = {"U", "W"}
<1>1. CASE Begun(dn, x)
  <2>1. HasTable(phys, KernEnd, x) /\ TableOf(phys, KernEnd, x) = phys.mem[KernEnd][x].pg
    BY <1>1, TableParts
  <2>2. TableAt(phys, dn, x)
    BY <1>1 DEF DirHas
  <2>3. phys.mem[KernEnd][x].perm = {"U", "W"}
    BY <2>2, LayoutAssumption DEF TableAt
  <2>4. \A j \in Idx : phys.mem[phys.mem[KernEnd][x].pg][j] = Entry(dn, x, j)
    BY <2>2 DEF TableAt
  <2>5. \A j \in Idx : PageLookup(phys, kern_pgdir, <<x, j>>) = Looked(dn, x, j)
    BY <1>1, <2>1, <2>4 DEF PageLookup, Looked
  <2> QED
    BY <1>1, <2>1, <2>3, <2>5
<1>2. CASE ~Begun(dn, x)
  <2>1. phys.mem[KernEnd][x] = NoPte
    BY <1>2 DEF DirHas
  <2>2. ~HasTable(phys, kern_pgdir, x)
    BY <2>1 DEF HasTable
  <2> QED
    BY <1>2, <2>2 DEF PageLookup, Looked
<1> QED
  BY <1>1, <1>2

\* The entry of a page number is the one of its row and its place.
LEMMA AtPlace ==
  ASSUME NEW x \in Idx, NEW j \in Idx
  PROVE  At(x * NPT + j) = PageLookup(phys, kern_pgdir, <<x, j>>)
<1>1. (x * NPT + j) \div NPT = x /\ (x * NPT + j) % NPT = j
  BY Layout, Places, RowParts
<1> QED
  BY <1>1, Zenon DEF At

\* The directory leads to p from entry j of the table for x.
Leads(dn, x, j, p, f) == Begun(dn, x) /\ Entry(dn, x, j) = [pg |-> p, perm |-> f]

\* A page is mapped where it should be.
LEMMA MapsRight ==
  ASSUME Machine, phys \in Memory, kern_pgdir = KernEnd, NEW dn, DirHas(phys, dn),
         NEW x \in Idx \ {UVPT}, NEW j \in Idx, NEW p \in Page, NEW f \in Perm, Leads(dn, x, j, p, f)
  PROVE  MapsTo(x * NPT + j, p)
<1>1. At(x * NPT + j) = PageLookup(phys, kern_pgdir, <<x, j>>)
  BY AtPlace
<1>2. PageLookup(phys, kern_pgdir, <<x, j>>) = Looked(dn, x, j)
  BY DirLooked
<1>3. At(x * NPT + j) = [pg |-> p, perm |-> f]
  BY <1>1, <1>2, Zenon DEF Looked, Leads
<1> DEFINE e == At(x * NPT + j)
<1>4. e \in Mapping /\ e.pg = p
  <2> HIDE DEF e
  <2>1. e = [pg |-> p, perm |-> f]
    BY <1>3 DEF e
  <2> QED
    BY <2>1, PteFacts
<1>5. e # NoPte
  BY <1>4, NoPteAssumption
<1> HIDE DEF e
<1> QED
  BY <1>4, <1>5, Zenon DEF MapsTo, e

\* The tables that are complete in the end.
LEMMA BegunFull ==
  \A x \in Idx : Begun(Full, x) <=> x \in {UPAGES, UENVS, KSTACK} \cup KERNBASE..NPT-1
<1>1. Full[1] > 0 /\ Full[2] > 0 /\ Full[3] > 0 /\ Full[4] = Frames
  BY SizesNat DEF Full, Sizes
<1>2. Rows(Full[4]) = NPT - KERNBASE
  BY <1>1, DoneFull
<1> QED
  BY <1>1, <1>2, Places DEF Begun

\* All physical memory is at KERNBASE.
LEMMA BaseMapped ==
  ASSUME Machine, phys \in Memory, kern_pgdir = KernEnd, DirHas(phys, Full), NEW n \in Page
  PROVE  MapsTo(KERNBASE * NPT + n, n)
<1> DEFINE q == n \div NPT
           o == n % NPT
<1>1. n \in Nat /\ n < Frames /\ NPT \in Nat \ {0} /\ KERNBASE \in Nat /\ Frames \in Nat
  BY Layout
<1>2. n = q * NPT + o /\ o \in 0..NPT-1 /\ q \in Nat
  BY <1>1, RowSplit
<1> HIDE DEF q, o
<1>3. q < NPT - KERNBASE
  <2> DEFINE N == NPT - KERNBASE
             Q == q * NPT
  <2>1. N \in Nat /\ N * NPT = Frames
    BY LayoutAssumption DEF Frames
  <2>2. Q \in Nat /\ Q <= n
    BY <1>1, <1>2
  <2> HIDE DEF N
  <2>3. N = q \/ N < q => Frames <= Q
    <3>1. N = q => Frames = Q
      BY <2>1
    <3>2. N < q => N * NPT + NPT <= q * NPT
      BY <1>1, <1>2, <2>1, RowMultiple
    <3> QED
      BY <1>1, <2>1, <2>2, <3>1, <3>2
  <2> HIDE DEF Q
  <2> QED
    BY <1>1, <1>2, <2>1, <2>2, <2>3 DEF N
<1> DEFINE x == KERNBASE + q
<1>4. x \in Idx /\ x # UVPT /\ o \in Idx /\ x \in Idx \ {UPAGES, UENVS, KSTACK} /\ x - KERNBASE = q /\ x >= KERNBASE
  BY <1>2, <1>3, Places
<1>5. Begun(Full, x)
  BY <1>4, BegunFull, Places
<1> HIDE DEF x
<1>6. Full[4] = Frames
  BY DEF Full, Sizes
<1>7. AtBase(Full[4], x, o) = [pg |-> n, perm |-> {"W"}]
  <2>1. (x - KERNBASE) * NPT + o = n
    BY <1>2, <1>4, Zenon
  <2> QED
    BY <1>1, <1>4, <1>6, <2>1, Zenon DEF AtBase
<1>8. Entry(Full, x, o) = [pg |-> n, perm |-> {"W"}]
  BY <1>4, <1>7, EntryAt, Zenon
<1>9. {"W"} \in Perm
  BY Layout
<1>10. MapsTo(x * NPT + o, n)
  <2>1. Leads(Full, x, o, n, {"W"})
    BY <1>5, <1>8, Zenon DEF Leads
  <2> QED
    BY <1>4, <1>9, <2>1, MapsRight
<1>11. x * NPT + o = KERNBASE * NPT + n
  <2>1. (KERNBASE + q) * NPT = KERNBASE * NPT + q * NPT
    BY <1>1, <1>2
  <2> DEFINE K == KERNBASE * NPT
             Q == q * NPT
  <2>2. K \in Nat /\ Q \in Nat
    BY <1>1, <1>2
  <2> HIDE DEF K, Q
  <2>3. (K + Q) + o = K + (Q + o)
    BY <1>2, <2>2
  <2>4. x * NPT = K + Q /\ n = Q + o
    BY <1>2, <2>1, Zenon DEF x, K, Q
  <2>5. x * NPT + o = K + n
    BY <2>3, <2>4, Zenon
  <2> QED
    BY <2>5 DEF K
<1> QED
  BY <1>10, <1>11, Zenon

----------------------------------------------------------------------------
(* check_kern_pgdir passes.                                                *)

\* The assertions of check_kern_pgdir hold when everything is mapped.
LEMMA KernAsserts ==
  ASSUME LaterInv, Done = Full
  PROVE  KernPgdirAsserts
<1>1. /\ Machine /\ phys \in Memory /\ kern_pgdir = KernEnd /\ DirHas(phys, Full)
      /\ pages = KernEnd + 1 /\ envs = KernEnd + 1 + PagesSize
  BY DEF LaterInv, Booted
<1>2. /\ UPAGES \in Idx /\ UENVS \in Idx /\ KSTACK \in Idx /\ UPAGES # UVPT /\ UENVS # UVPT /\ KSTACK # UVPT
      /\ Begun(Full, UPAGES) /\ Begun(Full, UENVS) /\ Begun(Full, KSTACK)
  BY Places, BegunFull
<1>3. /\ {"W"} \in Perm /\ {"U"} \in Perm /\ StackPage \in Page /\ NPT - 1 \in Idx /\ 0 \in Idx /\ NPT - 1 # 0
      /\ \A n \in 0..PagesSize-1 : n \in Idx /\ n < NPT /\ KernEnd + 1 + n \in Page
      /\ \A n \in 0..EnvsSize-1 : n \in Idx /\ n < NPT /\ KernEnd + 1 + PagesSize + n \in Page
  <2>1. /\ PagesSize \in Nat /\ EnvsSize \in Nat /\ PagesSize <= NPT /\ EnvsSize <= NPT /\ NPT \in Nat /\ KernEnd \in Nat
        /\ StackPage \in Nat /\ StackPage < KernEnd
    BY Layout, LayoutAssumption
  <2>2. Page = 0..Frames-1 /\ KernEnd + 1 + PagesSize + NPT <= Frames /\ Frames \in Nat /\ Idx = 0..NPT-1
    BY Layout
  <2>3. {"W"} \in Perm /\ {"U"} \in Perm /\ 1 \in Idx /\ NPT - 1 \in Idx
    BY Layout, Places
  <2> QED
    BY <2>1, <2>2, <2>3
<1>4. Full[1] = NPT /\ Full[2] = NPT /\ Full[3] = 1 /\ 1 > 0
  BY DEF Full, Sizes
<1>5. ASSUME NEW n \in 0..PagesSize-1 PROVE MapsTo(UPAGES * NPT + n, pages + n)
  <2>1. Entry(Full, UPAGES, n) = [pg |-> KernEnd + 1 + n, perm |-> {"U"}]
    BY <1>3, <1>4, EntryAt, Zenon
  <2> DEFINE p == KernEnd + 1 + n
  <2>2. p \in Page /\ n \in Idx
    BY <1>3
  <2>3. Entry(Full, UPAGES, n) = [pg |-> p, perm |-> {"U"}]
    BY <2>1
  <2> HIDE DEF p
  <2>5. Leads(Full, UPAGES, n, p, {"U"})
    BY <1>2, <2>3, Zenon DEF Leads
  <2>4. MapsTo(UPAGES * NPT + n, p)
    BY <1>1, <1>2, <1>3, <2>2, <2>5, MapsRight
  <2> QED
    BY <1>1, <2>4, Zenon DEF p
<1>6. ASSUME NEW n \in 0..EnvsSize-1 PROVE MapsTo(UENVS * NPT + n, envs + n)
  <2>1. Entry(Full, UENVS, n) = [pg |-> KernEnd + 1 + PagesSize + n, perm |-> {"U"}]
    BY <1>3, <1>4, EntryAt, Zenon
  <2> DEFINE p == KernEnd + 1 + PagesSize + n
  <2>2. p \in Page /\ n \in Idx
    BY <1>3
  <2>3. Entry(Full, UENVS, n) = [pg |-> p, perm |-> {"U"}]
    BY <2>1
  <2> HIDE DEF p
  <2>5. Leads(Full, UENVS, n, p, {"U"})
    BY <1>2, <2>3, Zenon DEF Leads
  <2>4. MapsTo(UENVS * NPT + n, p)
    BY <1>1, <1>2, <1>3, <2>2, <2>5, MapsRight
  <2> QED
    BY <1>1, <2>4, Zenon DEF p
<1>7. \A n \in 0..npages-1 : MapsTo(KERNBASE * NPT + n, n)
  <2>1. \A n \in 0..npages-1 : n \in Page
    BY <1>1, Layout DEF Machine
  <2> QED
    BY <1>1, <2>1, BaseMapped
<1>8. MapsTo(KSTACK * NPT + NPT - 1, StackPage)
  <2> DEFINE j == NPT - 1
  <2>1. Entry(Full, KSTACK, j) = [pg |-> StackPage, perm |-> {"W"}]
    BY <1>4, EntryAt, Zenon
  <2>2. j \in Idx
    BY <1>3
  <2>3. KSTACK * NPT + NPT - 1 = KSTACK * NPT + j
    <3> DEFINE K == KSTACK * NPT
    <3>1. K \in Nat /\ NPT \in Nat
      BY Layout
    <3> HIDE DEF K
    <3>2. K + NPT - 1 = K + (NPT - 1)
      BY <3>1
    <3> QED
      BY <3>2 DEF K
  <2> HIDE DEF j
  <2>5. Leads(Full, KSTACK, j, StackPage, {"W"})
    BY <1>2, <2>1, Zenon DEF Leads
  <2>4. MapsTo(KSTACK * NPT + j, StackPage)
    BY <1>1, <1>2, <1>3, <2>2, <2>5, MapsRight
  <2> QED
    BY <2>3, <2>4, Zenon
<1>9. At(KSTACK * NPT) = NoPte
  <2>1. Entry(Full, KSTACK, 0) = NoPte
    BY <1>3, EntryAt, Zenon
  <2>2. PageLookup(phys, kern_pgdir, <<KSTACK, 0>>) = NoPte
    BY <1>1, <1>2, <1>3, <2>1, DirLooked DEF Looked
  <2>3. KSTACK * NPT + 0 = KSTACK * NPT
    BY Layout
  <2>4. At(KSTACK * NPT + 0) = NoPte
    BY <1>2, <1>3, <2>2, AtPlace
  <2> QED
    BY <2>3, <2>4, Zenon
<1>10. HasTable(phys, kern_pgdir, UVPT)
  <2>1. phys.mem[KernEnd][UVPT] = [pg |-> KernEnd, perm |-> {"U"}]
    BY <1>1 DEF DirHas
  <2>2. KernEnd \in Page
    BY <1>1, UsablePages
  <2>3. phys.mem[KernEnd][UVPT] \in Mapping
    BY <1>3, <2>1, <2>2, PteFacts
  <2> QED
    BY <1>1, <2>3, NoPteAssumption DEF HasTable
<1>11. \A x \in Idx :
         HasTable(phys, kern_pgdir, x) <=> x \in {UVPT, KSTACK, UPAGES, UENVS} \cup KERNBASE..NPT-1
  <2> SUFFICES ASSUME NEW x \in Idx
               PROVE  HasTable(phys, kern_pgdir, x) <=> x \in {UVPT, KSTACK, UPAGES, UENVS} \cup KERNBASE..NPT-1
    OBVIOUS
  <2>1. CASE x = UVPT
    BY <1>10, <2>1
  <2>2. CASE x # UVPT
    <3>1. HasTable(phys, kern_pgdir, x) <=> x \in {UPAGES, UENVS, KSTACK} \cup KERNBASE..NPT-1
      BY <1>1, <2>2, DirLooked, BegunFull
    <3> QED
      BY <2>2, <3>1
  <2> QED
    BY <2>1, <2>2
<1>12. \A x \in KERNBASE..NPT-1 : "W" \in phys.mem[kern_pgdir][x].perm
  <2> SUFFICES ASSUME NEW x \in KERNBASE..NPT-1 PROVE "W" \in phys.mem[kern_pgdir][x].perm
    OBVIOUS
  <2>1. x \in Idx /\ x # UVPT
    BY Places
  <2>2. Begun(Full, x)
    BY <2>1, BegunFull
  <2>3. phys.mem[kern_pgdir][x].perm = {"U", "W"}
    BY <1>1, <2>1, <2>2, DirLooked
  <2> QED
    BY <2>3
<1> QED
  BY <1>5, <1>6, <1>7, <1>8, <1>9, <1>11, <1>12 DEF KernPgdirAsserts

\* check_kern_pgdir, and the kernel's directory loaded into cr3.
LEMMA LoadStep == LaterInv /\ LoadKern => LaterInv' /\ LowWrites
<1> SUFFICES ASSUME LaterInv, LoadKern PROVE LaterInv' /\ LowWrites
  OBVIOUS
<1>1. /\ Machine /\ phys \in Memory /\ DirHas(phys, Done) /\ ListHas(phys, Done) /\ LaterPlaces
      /\ pc = "map" /\ pc \notin Early /\ UNCHANGED <<machine, arrays>> /\ region' = region
      /\ pos' = pos /\ phys' = phys /\ region \notin DOMAIN Regions
  BY DEF LaterInv, LoadKern, Early, loop
<1>2. region = 5 /\ pos = 0
  <2>1. DOMAIN Regions = 1..4
    BY DEF Regions
  <2>2. region = 5
    BY <1>1, <2>1 DEF LaterPlaces
  <2> QED
    BY <1>1, <2>2 DEF LaterPlaces
<1>0. UNCHANGED machine
  BY <1>1
<1>3. (Ample' <=> Ample) /\ npages_basemem' = npages_basemem
  BY <1>0, SameMachine
<1>4. Done = Full
  BY <1>1, <1>2, DoneFull
<1>5. KernPgdirAsserts
  BY <1>4, KernAsserts
<1>6. loaded' = "kern" /\ pc' = "list"
  BY <1>5 DEF LoadKern
<1>7. Done' = Done /\ pc' \in Later
  BY <1>1, <1>6 DEF Done, Later, Early
<1>8. LaterPlaces'
  BY <1>1, <1>2, <1>3, <1>6 DEF LaterPlaces
<1>9. LoadedRight' /\ LowWrites
  BY <1>1, <1>6 DEF LoadedRight, LowWrites
<1> QED
  BY <1>1, <1>7, <1>8, <1>9, LaterNext

----------------------------------------------------------------------------
(* The steps up to the sorting of the free list.                           *)

NoHalves == [low |-> <<>>, high |-> <<>>]

\* What holds before the list is sorted.
EarlyInv ==
  /\ Machine /\ phys \in Memory /\ pc \in Early /\ loaded = "entry" /\ region = 1
  /\ halves \in [low : Seq(Page), high : Seq(Page)]
  /\ pc # "sort" => halves = NoHalves
  /\ pc # "dir" => DirHas(phys, None)
  /\ pc = "dir" => InDir
  /\ pc = "arrays" => InArrays
  /\ pc \notin {"dir", "arrays"} => Booted
  /\ pc = "init" => InInit
  /\ pc = "sort" => InSort

\* The invariant until page_init and the sort are over.
LEMMA EarlyForm == pc \in Early => (SetupInv <=> EarlyInv)
<1> HAVE pc \in Early
<1>1. Done = None
  BY DoneNone
<1>2. pc \in {"dir", "arrays", "init", "sort"}
  BY DEF Early
<1>3. SetupInv => EarlyInv
  BY <1>1, <1>2 DEF SetupInv, EarlyInv, NoHalves, Early
<1>4. EarlyInv => SetupInv
  BY <1>1, <1>2 DEF SetupInv, EarlyInv, NoHalves, Early
<1> QED
  BY <1>3, <1>4

\* The two forms of the invariant, of the next state.
LEMMA FormNext ==
  /\ pc' \in Early => (SetupInv' <=> EarlyInv')
  /\ pc' \notin Early => (SetupInv' <=> LaterInv')
<1>1. (pc \in Early => (SetupInv <=> EarlyInv))'
  BY EarlyForm, PTL
<1>2. (pc \notin Early => (SetupInv <=> LaterInv))'
  BY LaterForm, PTL
<1>3. Early' = Early
  BY DEF Early
<1> QED
  BY <1>1, <1>2, <1>3

\* When mem_init begins nothing is allocated.
LEMMA InitForm == SetupInit => SetupInv
<1> SUFFICES ASSUME SetupInit PROVE EarlyInv /\ pc \in Early
  BY EarlyForm
<1>1. Machine
  BY LayoutAssumption, Layout DEF SetupInit, Machine, Frames
<1>2. phys \in Memory /\ phys.free = <<>>
  <2>1. PICK c \in {ZeroPage, Filled({"U", "W"})}, r \in 0..1 :
          phys = [free |-> <<>>, ref |-> [p \in Page |-> r], mem |-> [p \in Page |-> c]]
    BY DEF SetupInit
  <2>2. c \in PageContent /\ r \in 0..RefMax
    BY ContentFacts, RefMaxAssumption
  <2> QED
    BY <2>1, <2>2 DEF Memory
<1>3. halves = NoHalves /\ NoHalves \in [low : Seq(Page), high : Seq(Page)]
  BY DEF SetupInit, NoHalves
<1>4. pc = "dir" /\ InDir /\ loaded = "entry" /\ region = 1
  BY <1>2 DEF SetupInit, InDir
<1> QED
  BY <1>1, <1>2, <1>3, <1>4 DEF EarlyInv, Early

\* The directory before anything is mapped.
LEMMA EmptyDir ==
  ASSUME Machine, NEW m \in Memory, NEW mm, DirHas(m, None), mm.mem[KernEnd] = m.mem[KernEnd]
  PROVE  DirHas(mm, None)
<1>1. \A p : ~IsTable(m, None, p)
  BY DoneNone DEF IsTable
<1>2. SameDir(m, mm, None)
  BY <1>1 DEF SameDir
<1> QED
  BY <1>2, DirKept

\* A directory without mappings depends on the memory only.
LEMMA SameNone ==
  UNCHANGED machine => ((DirHas(phys, None))' <=> DirHas(phys', None))
<1> HAVE UNCHANGED machine
<1>1. npages' = npages /\ npages_basemem' = npages_basemem
  BY DEF machine
<1>2. Usable' = Usable /\ (Ample' <=> Ample) /\ Spare' = Spare
  BY <1>1, Zenon DEF Usable, Ample, Spare
<1>3. ForTables' = ForTables
  BY <1>2, Zenon DEF ForTables
<1> QED
  BY <1>2, <1>3, Zenon DEF DirHas, TableAt

\* boot_alloc of the directory, which is mapped at UVPT.
LEMMA DirStep == EarlyInv /\ CreateDir => EarlyInv' /\ LowWrites
<1> SUFFICES ASSUME EarlyInv, CreateDir PROVE EarlyInv' /\ LowWrites
  OBVIOUS
<1>1. /\ Machine /\ phys \in Memory /\ loaded' = "entry" /\ region' = 1 /\ halves' = NoHalves
      /\ NoHalves \in [low : Seq(Page), high : Seq(Page)] /\ pc' = "arrays"
      /\ nextfree = KernEnd /\ taken = {} /\ pages' = 0 /\ envs' = 0 /\ phys.free = <<>>
      /\ UNCHANGED machine
  BY DEF EarlyInv, CreateDir, InDir, loop
<1>2. Machine'
  BY <1>1, SameMachine
<1> DEFINE c == [ZeroPage EXCEPT ![UVPT] = [pg |-> KernEnd, perm |-> {"U"}]]
<1>3. phys' = [phys EXCEPT !.mem[KernEnd] = c]
  BY <1>1 DEF CreateDir
<1>4. KernEnd \in Page /\ UVPT \in Idx /\ {"U"} \in Perm /\ KernEnd \in Nat
  BY <1>1, UsablePages, Places, Layout
<1>5. [pg |-> KernEnd, perm |-> {"U"}] \in Pte
  BY <1>4, PteFacts DEF Pte
<1>6. /\ c \in PageContent /\ c[UVPT] = [pg |-> KernEnd, perm |-> {"U"}]
      /\ \A x \in Idx : x # UVPT => c[x] = NoPte
  BY <1>4, <1>5, PteFacts DEF ZeroPage, PageContent
<1> HIDE DEF c
<1>7. /\ phys' \in Memory /\ phys'.free = <<>> /\ phys'.mem = [phys.mem EXCEPT ![KernEnd] = c]
  BY <1>1, <1>3, <1>4, <1>6 DEF Memory
<1>8. phys'.mem[KernEnd] = c /\ \A p \in Page : p # KernEnd => phys'.mem[p] = phys.mem[p]
  BY <1>1, <1>4, <1>7, MemoryParts
<1>9. DirHas(phys', None)
  BY <1>6, <1>8, DoneNone DEF DirHas
<1>10. (DirHas(phys, None))'
  BY <1>1, <1>9, SameNone
<1>11. kern_pgdir' = KernEnd /\ nextfree' = KernEnd + 1 /\ taken' = KernEnd..nextfree'-1
  <2>1. nextfree' = KernEnd + 1 /\ taken' = {} \cup (KernEnd..KernEnd + 1 - 1) /\ kern_pgdir' = KernEnd
    BY <1>1 DEF CreateDir, BootAlloc
  <2> QED
    BY <1>4, <2>1
<1>12. InArrays'
  BY <1>1, <1>7, <1>11 DEF InArrays
<1>13. LowWrites
  BY <1>8, TablesLow DEF LowWrites, IsLow
<1> QED
  BY <1>1, <1>2, <1>7, <1>10, <1>12, <1>13 DEF EarlyInv, Early

\* boot_alloc of the array of pages.
LEMMA PagesStep == EarlyInv /\ AllocPages => EarlyInv' /\ LowWrites
<1> SUFFICES ASSUME EarlyInv, AllocPages PROVE EarlyInv' /\ LowWrites
  OBVIOUS
<1>1. /\ Machine /\ phys \in Memory /\ loaded' = "entry" /\ region' = 1 /\ halves' = NoHalves
      /\ NoHalves \in [low : Seq(Page), high : Seq(Page)] /\ pc' = "arrays" /\ DirHas(phys, None)
      /\ nextfree = KernEnd + 1 /\ taken = KernEnd..nextfree-1 /\ kern_pgdir' = KernEnd /\ envs' = 0
      /\ phys' = phys /\ phys.free = <<>> /\ UNCHANGED machine
  <2>1. pc = "arrays" /\ pages = 0
    BY DEF AllocPages
  <2>2. InArrays /\ DirHas(phys, None) /\ halves = NoHalves
    BY <2>1 DEF EarlyInv
  <2>3. KernEnd + 1 # 0
    BY Layout
  <2> QED
    BY <2>1, <2>2, <2>3 DEF EarlyInv, AllocPages, InArrays, loop
<1>2. Machine' /\ (DirHas(phys, None))'
  BY <1>1, SameMachine, SameNone
<1>3. pages' = KernEnd + 1 /\ nextfree' = KernEnd + 1 + PagesSize /\ taken' = KernEnd..nextfree'-1
  <2>1. /\ pages' = nextfree /\ nextfree' = nextfree + PagesSize
        /\ taken' = taken \cup (nextfree..nextfree + PagesSize - 1)
    BY DEF AllocPages, BootAlloc
  <2>2. KernEnd \in Nat /\ PagesSize \in Nat
    BY Layout
  <2>3. taken' = KernEnd..nextfree'-1
    BY <1>1, <2>1, <2>2
  <2> QED
    BY <1>1, <2>1, <2>3
<1>4. InArrays'
  BY <1>1, <1>3 DEF InArrays
<1>5. LowWrites
  BY <1>1 DEF LowWrites
<1> QED
  BY <1>1, <1>2, <1>4, <1>5 DEF EarlyInv, Early

----------------------------------------------------------------------------
(* The list page_init builds.                                              *)

\* What is on it, in which order.
OfBase(e, u, x) == e - (x - (u - ArraysEnd))

ListedTo(f, e, u) ==
  /\ f \in Seq(Page) /\ Len(f) = (u - ArraysEnd) + (e - 1)
  /\ \A x \in 1..Len(f) : f[x] = IF x <= u - ArraysEnd THEN u - x ELSE OfBase(e, u, x)

\* The list page_init has made so far, by the pages on it.
LEMMA FreedFacts ==
  ASSUME Machine, NEW e \in 1..npages_basemem, NEW u \in ArraysEnd..npages
  PROVE  /\ ListedTo(FreedList(e, u), e, u)
         /\ \A f : ListedTo(f, e, u) => f = FreedList(e, u)
<1> DEFINE A == u - ArraysEnd
           g == FreedList(e, u)
           n == A + (e - 1)
<1>1. /\ ArraysEnd \in Nat /\ Frames \in Nat /\ Page = 0..Frames-1 /\ npages <= Frames /\ npages \in Nat
      /\ npages_basemem \in Nat /\ npages_basemem < ArraysEnd
  BY Layout, LayoutAssumption DEF Machine, ArraysEnd
<1>2. A \in Nat /\ n \in Nat /\ e \in Nat /\ u \in Nat /\ e <= npages_basemem /\ u <= npages /\ e >= 1
  BY <1>1
<1>3. g = [x \in 1..n |-> IF x <= A THEN u - x ELSE OfBase(e, u, x)]
  BY DEF FreedList, OfBase
<1>4. \A x \in 1..n : (IF x <= A THEN u - x ELSE OfBase(e, u, x)) \in Page
  BY <1>1, <1>2 DEF OfBase
<1>5. g \in Seq(Page) /\ Len(g) = n
  BY <1>2, <1>3, <1>4
<1>6. ListedTo(g, e, u)
  BY <1>3, <1>5 DEF ListedTo
<1>7. ASSUME NEW f, ListedTo(f, e, u) PROVE f = g
  <2>1. f \in Seq(Page) /\ Len(f) = n /\ \A x \in 1..n : f[x] = g[x]
    BY <1>3, <1>7 DEF ListedTo
  <2> HIDE DEF g, n
  <2> QED
    BY <1>5, <2>1, SameList
<1> QED
  BY <1>6, <1>7

\* The numbers of the machine.
LEMMA MachineNumbers ==
  ASSUME Machine
  PROVE  /\ ArraysEnd \in Nat /\ LowEnd \in Nat /\ TablesNeeded \in Nat /\ Frames \in Nat /\ Page = 0..Frames-1
         /\ npages \in ArraysEnd..Frames /\ npages \in Nat /\ npages <= Frames
         /\ npages_basemem \in Nat /\ npages_basemem >= 1 /\ npages_basemem < ArraysEnd
         /\ ArraysEnd + TablesNeeded <= LowEnd /\ ArraysEnd <= npages
<1>1. IoPage < ExtPage /\ ExtPage <= StackPage /\ StackPage < KernEnd
  BY LayoutAssumption
<1>2. /\ IoPage \in Nat /\ ExtPage \in Nat /\ StackPage \in Nat /\ KernEnd \in Nat /\ PagesSize \in Nat
      /\ EnvsSize \in Nat
  BY Layout
<1>3. npages_basemem \in 1..IoPage /\ npages \in ArraysEnd..Frames
  BY DEF Machine
<1>4. IoPage < ArraysEnd
  BY <1>1, <1>2 DEF ArraysEnd
<1> QED
  BY <1>2, <1>3, <1>4, Layout

\* A page of base memory is freed.
LEMMA GrowBase ==
  ASSUME Machine, NEW e \in 1..npages_basemem-1
  PROVE  e \in Page /\ <<e>> \o FreedList(e, ArraysEnd) = FreedList(e + 1, ArraysEnd)
<1> DEFINE A == ArraysEnd
           f == FreedList(e, A)
           g == <<e>> \o f
<1>1. A \in Nat /\ A \in ArraysEnd..npages /\ e \in 1..npages_basemem /\ e + 1 \in 1..npages_basemem /\ e \in Page /\ e \in Nat
  BY MachineNumbers
<1> HIDE DEF A
<1>2. ListedTo(f, e, A)
  BY <1>1, FreedFacts DEF A
<1>3. f \in Seq(Page) /\ Len(f) = e - 1 /\ \A x \in 1..Len(f) : f[x] = e - x
  <2>1. f \in Seq(Page) /\ Len(f) = (A - ArraysEnd) + (e - 1)
        /\ \A x \in 1..Len(f) : f[x] = IF x <= A - ArraysEnd THEN A - x ELSE e - (x - (A - ArraysEnd))
    BY <1>2, Zenon DEF ListedTo, OfBase
  <2> HIDE DEF f
  <2>2. A - ArraysEnd = 0
    BY <1>1 DEF A
  <2> QED
    BY <1>1, <2>1, <2>2
<1> HIDE DEF f
<1>4. /\ g \in Seq(Page) /\ Len(g) = Len(f) + 1 /\ g[1] = e
      /\ \A x \in 1..Len(f) : g[x + 1] = f[x]
  BY <1>1, <1>3, Cons
<1> HIDE DEF g
<1>5. Len(g) = e
  BY <1>1, <1>3, <1>4
<1>6. \A x \in 1..Len(g) : g[x] = (e + 1) - x
  <2> SUFFICES ASSUME NEW x \in 1..Len(g) PROVE g[x] = (e + 1) - x
    OBVIOUS
  <2>1. CASE x = 1
    BY <1>1, <1>4, <2>1
  <2>2. CASE x # 1
    <3>1. x - 1 \in 1..Len(f) /\ (x - 1) + 1 = x
      BY <1>1, <1>3, <1>5, <2>2
    <3>2. g[(x - 1) + 1] = f[x - 1] /\ f[x - 1] = e - (x - 1)
      BY <1>3, <1>4, <3>1
    <3> QED
      BY <1>1, <3>1, <3>2
  <2> QED
    BY <2>1, <2>2
<1>7. ListedTo(g, e + 1, A)
  <2>1. A - ArraysEnd = 0
    BY <1>1 DEF A
  <2>2. Len(g) = (A - ArraysEnd) + ((e + 1) - 1)
    BY <1>1, <1>5, <2>1
  <2>3. \A x \in 1..Len(g) : ~(x <= A - ArraysEnd) /\ g[x] = OfBase(e + 1, A, x)
    BY <1>1, <1>5, <1>6, <2>1 DEF OfBase
  <2> QED
    BY <1>4, <2>2, <2>3, Zenon DEF ListedTo
<1>8. g = FreedList(e + 1, A)
  BY <1>1, <1>7, FreedFacts
<1> QED
  BY <1>1, <1>8, Zenon DEF g, f, A

\* A page above the kernel is freed.
LEMMA GrowAbove ==
  ASSUME Machine, NEW u \in ArraysEnd..npages-1
  PROVE  u \in Page /\ <<u>> \o FreedList(npages_basemem, u) = FreedList(npages_basemem, u + 1)
<1> DEFINE e == npages_basemem
           A == u - ArraysEnd
           f == FreedList(e, u)
           g == <<u>> \o f
<1>1. /\ u \in Nat /\ u \in Page /\ e \in 1..npages_basemem /\ u \in ArraysEnd..npages /\ u + 1 \in ArraysEnd..npages
      /\ A \in Nat /\ (u + 1) - ArraysEnd = A + 1 /\ e \in Nat /\ e >= 1
  BY MachineNumbers
<1> HIDE DEF e
<1>2. /\ f \in Seq(Page) /\ Len(f) = A + (e - 1)
      /\ \A x \in 1..Len(f) : f[x] = IF x <= A THEN u - x ELSE e - (x - A)
  <2>1. ListedTo(f, e, u)
    BY <1>1, FreedFacts
  <2> QED
    BY <2>1, Zenon DEF ListedTo, OfBase
<1> HIDE DEF f
<1>3. /\ g \in Seq(Page) /\ Len(g) = Len(f) + 1 /\ g[1] = u
      /\ \A x \in 1..Len(f) : g[x + 1] = f[x]
  BY <1>1, <1>2, Cons
<1> HIDE DEF g, A
<1>4. Len(g) = (A + 1) + (e - 1) /\ Len(g) \in Nat
  BY <1>1, <1>2, <1>3
<1>5. \A x \in 1..Len(g) : g[x] = IF x <= A + 1 THEN (u + 1) - x ELSE e - (x - (A + 1))
  <2> SUFFICES ASSUME NEW x \in 1..Len(g)
               PROVE  g[x] = IF x <= A + 1 THEN (u + 1) - x ELSE e - (x - (A + 1))
    OBVIOUS
  <2>1. CASE x = 1
    BY <1>1, <1>3, <2>1
  <2>2. CASE x # 1
    <3>1. x - 1 \in 1..Len(f) /\ (x - 1) + 1 = x /\ (x - 1 <= A <=> x <= A + 1)
      BY <1>1, <1>2, <1>4, <2>2
    <3>2. g[(x - 1) + 1] = f[x - 1]
      BY <1>3, <3>1
    <3>3. f[x - 1] = IF x - 1 <= A THEN u - (x - 1) ELSE e - ((x - 1) - A)
      BY <1>2, <3>1
    <3> QED
      BY <1>1, <3>1, <3>2, <3>3
  <2> QED
    BY <2>1, <2>2
<1>6. ListedTo(g, e, u + 1)
  <2>1. (u + 1) - ArraysEnd = A + 1
    BY <1>1 DEF A
  <2> QED
    BY <1>3, <1>4, <1>5, <2>1, Zenon DEF ListedTo, OfBase
<1>7. g = FreedList(e, u + 1)
  BY <1>1, <1>6, FreedFacts
<1> QED
  BY <1>1, <1>7, Zenon DEF g, f, e

\* page_init begins with an empty list.
LEMMA NothingFreed == ASSUME Machine PROVE FreedList(1, ArraysEnd) = <<>>
<1>1. ListedTo(<<>>, 1, ArraysEnd)
  <2>1. ArraysEnd \in Nat
    BY Layout
  <2>2. <<>> \in Seq(Page) /\ Len(<<>>) = 0
    OBVIOUS
  <2>3. 0 = (ArraysEnd - ArraysEnd) + (1 - 1) /\ \A x : x \notin 1..0
    BY <2>1
  <2> QED
    BY <2>2, <2>3, Zenon DEF ListedTo
<1>2. 1 \in 1..npages_basemem /\ ArraysEnd \in ArraysEnd..npages
  BY MachineNumbers
<1> QED
  BY <1>1, <1>2, FreedFacts

\* boot_alloc of the array of environments.
LEMMA EnvsStep == EarlyInv /\ AllocEnvs => EarlyInv' /\ LowWrites
<1> SUFFICES ASSUME EarlyInv, AllocEnvs PROVE EarlyInv' /\ LowWrites
  OBVIOUS
<1>1. /\ Machine /\ phys \in Memory /\ loaded' = "entry" /\ region' = 1 /\ halves' = NoHalves
      /\ NoHalves \in [low : Seq(Page), high : Seq(Page)] /\ pc' = "init" /\ DirHas(phys, None) /\ pos' = 1
      /\ nextfree = KernEnd + 1 + PagesSize /\ taken = KernEnd..nextfree-1 /\ kern_pgdir' = KernEnd
      /\ pages' = KernEnd + 1
      /\ phys' = phys /\ phys.free = <<>> /\ UNCHANGED machine
  <2>1. pc = "arrays" /\ pages # 0
    BY DEF AllocEnvs
  <2>2. InArrays /\ DirHas(phys, None) /\ halves = NoHalves
    BY <2>1 DEF EarlyInv
  <2> QED
    BY <2>1, <2>2 DEF EarlyInv, AllocEnvs, InArrays, loop
<1>2. Machine' /\ (DirHas(phys, None))'
  BY <1>1, SameMachine, SameNone
<1>3. Booted'
  <2>1. /\ envs' = nextfree /\ nextfree' = nextfree + EnvsSize
        /\ taken' = taken \cup (nextfree..nextfree + EnvsSize - 1)
    BY DEF AllocEnvs, BootAlloc
  <2>2. KernEnd \in Nat /\ PagesSize \in Nat /\ EnvsSize \in Nat /\ ArraysEnd = KernEnd + 1 + PagesSize + EnvsSize
    BY Layout
  <2>3. nextfree' = ArraysEnd /\ taken' = KernEnd..ArraysEnd-1
    BY <1>1, <2>1, <2>2
  <2> QED
    BY <1>1, <2>1, <2>3 DEF Booted
<1>4. InInit'
  <2>1. npages_basemem' = npages_basemem
    BY <1>1, SameMachine
  <2>2. phys'.free = FreedList(1, ArraysEnd) /\ 1 \in 1..npages_basemem
    BY <1>1, NothingFreed, MachineNumbers
  <2>3. FreePages(phys') = {}
    BY <1>1 DEF FreePages
  <2> QED
    BY <1>1, <2>1, <2>2, <2>3 DEF InInit, FreePages
<1>5. LowWrites
  BY <1>1 DEF LowWrites
<1> QED
  BY <1>1, <1>2, <1>3, <1>4, <1>5 DEF EarlyInv, Early

\* Freeing one more page.
LEMMA FreeOneMore ==
  ASSUME NEW m \in Memory, NEW p \in Page, NEW mm, mm = PageFree([m EXCEPT !.ref[p] = 0], p),
         \A q \in FreePages(m) : m.ref[q] = 0
  PROVE  /\ mm \in Memory /\ mm.free = <<p>> \o m.free /\ mm.mem = m.mem
         /\ \A q \in FreePages(mm) : mm.ref[q] = 0
<1> DEFINE z == [m EXCEPT !.ref[p] = 0]
<1>1. z \in Memory /\ z.free = m.free /\ z.mem = m.mem /\ z.ref = [m.ref EXCEPT ![p] = 0]
  <2> DEFINE r == [m.ref EXCEPT ![p] = 0]
  <2>1. r \in [Page -> 0..RefMax]
    BY MemoryParts, RefMaxAssumption
  <2>2. z = [m EXCEPT !.ref = r]
    BY DEF Memory
  <2> HIDE DEF r, z
  <2>3. z \in Memory /\ z.free = m.free /\ z.mem = m.mem /\ z.ref = r
    BY <2>1, <2>2, MemoryExcept
  <2> QED
    BY <2>3 DEF r
<1> HIDE DEF z
<1>2. mm = PageFree(z, p)
  BY DEF z
<1>3. mm \in Memory /\ mm.free = <<p>> \o m.free /\ mm.mem = m.mem /\ mm.ref = z.ref
  BY <1>1, <1>2, FreeFields
<1>4. m.free \in Seq(Page) /\ m.ref \in [Page -> 0..RefMax]
  BY MemoryParts
<1>5. \A q \in FreePages(mm) : q = p \/ q \in FreePages(m)
  <2> DEFINE f == m.free
             g == <<p>> \o f
  <2>1. f \in Seq(Page) /\ g \in Seq(Page) /\ Len(g) = Len(f) + 1 /\ g[1] = p /\ \A x \in 1..Len(f) : g[x + 1] = f[x]
    BY <1>4, Cons
  <2>2. FreePages(mm) = {g[x] : x \in DOMAIN g} /\ FreePages(m) = {f[x] : x \in DOMAIN f}
    BY <1>3, Zenon DEF FreePages
  <2> HIDE DEF f, g
  <2>3. Len(f) \in Nat /\ DOMAIN f = 1..Len(f) /\ DOMAIN g = 1..Len(f)+1
    BY <2>1
  <2>4. \A x \in DOMAIN f : x + 1 \in DOMAIN g /\ g[x + 1] = f[x]
    BY <2>1, <2>3
  <2>5. \A x \in DOMAIN g : x = 1 \/ (x - 1 \in DOMAIN f /\ (x - 1) + 1 = x)
    BY <2>3
  <2>6. \A x \in DOMAIN g : g[x] = p \/ \E y \in DOMAIN f : g[x] = f[y]
    BY <2>1, <2>4, <2>5
  <2> SUFFICES ASSUME NEW x \in DOMAIN g PROVE g[x] = p \/ \E y \in DOMAIN f : g[x] = f[y]
    BY <2>2, Zenon
  <2> QED
    BY <2>6
<1>6. \A q \in FreePages(m) : q \in Page
  BY <1>4 DEF FreePages
<1> QED
  BY <1>1, <1>3, <1>4, <1>5, <1>6

\* One page freed by page_init, which skips the hole and the kernel.
LEMMA PageInitStep == EarlyInv /\ PageInit => EarlyInv' /\ LowWrites
<1> SUFFICES ASSUME EarlyInv, PageInit PROVE EarlyInv' /\ LowWrites
  OBVIOUS
<1>1. /\ Machine /\ phys \in Memory /\ loaded' = "entry" /\ region' = 1 /\ halves' = NoHalves
      /\ NoHalves \in [low : Seq(Page), high : Seq(Page)] /\ DirHas(phys, None) /\ pc = "init"
      /\ Booted /\ InInit /\ UNCHANGED machine /\ UNCHANGED arrays
  <2>1. pc = "init" /\ halves' = halves /\ region' = region /\ loaded' = loaded /\ UNCHANGED <<machine, arrays>>
    BY DEF PageInit
  <2> QED
    BY <2>1 DEF EarlyInv
<1>2. Machine' /\ npages' = npages /\ npages_basemem' = npages_basemem /\ Highs' = Highs
  BY <1>1, SameMachine
<1>3. Booted'
  BY <1>1 DEF Booted, arrays
<1>4. envs + EnvsSize = ArraysEnd
  BY <1>1 DEF Booted, ArraysEnd
<1> DEFINE N == npages
           B == npages_basemem
<1>5. /\ N \in Nat /\ B \in Nat /\ B >= 1 /\ ArraysEnd \in Nat /\ B < ArraysEnd /\ ArraysEnd <= N
  BY <1>1, MachineNumbers
<1>6. \/ pos \in 1..B /\ phys.free = FreedList(pos, ArraysEnd)
      \/ pos \in ArraysEnd..N /\ phys.free = FreedList(B, pos)
  BY <1>1 DEF InInit
<1>7. \A p \in FreePages(phys) : phys.ref[p] = 0
  BY <1>1 DEF InInit
<1> HIDE DEF N, B
<1>8. CASE pos = npages_basemem
  <2>1. pos' = ArraysEnd /\ phys' = phys /\ pc' = "init"
    BY <1>1, <1>4, <1>8 DEF PageInit, Med
  <2>2. phys.free = FreedList(B, ArraysEnd)
    BY <1>5, <1>6, <1>8 DEF B
  <2>3. (DirHas(phys, None))'
    BY <1>1, <2>1, SameNone
  <2>4. InInit'
    BY <1>2, <1>5, <1>7, <2>1, <2>2 DEF InInit, FreePages, B, N
  <2>5. LowWrites
    BY <2>1 DEF LowWrites
  <2> QED
    BY <1>1, <1>2, <1>3, <2>1, <2>3, <2>4, <2>5 DEF EarlyInv, Early
<1>9. CASE pos # npages_basemem /\ pos >= npages
  <2>1. pos' = 0 /\ phys' = phys /\ pc' = "sort"
    BY <1>9 DEF PageInit
  <2>2. phys.free = FreedList(B, N)
    BY <1>5, <1>6, <1>9 DEF B, N
  <2>3. (DirHas(phys, None))'
    BY <1>1, <2>1, SameNone
  <2>4. InSort'
    <3>1. phys'.free = FreedList(npages_basemem', npages')
      BY <1>2, <2>1, <2>2, Zenon DEF B, N
    <3>2. pos' \in 0..Len(phys'.free)
      <4>1. Len(phys.free) \in Nat
        BY <1>1, MemoryParts
      <4> QED
        BY <2>1, <4>1
    <3>3. Highs \in Nat
      BY <1>5, Layout DEF Highs, N
    <3>4. halves'.high = <<>> /\ halves'.low = <<>>
      BY <1>1 DEF NoHalves
    <3>5. [x \in 1..(IF pos' <= Highs' THEN pos' ELSE Highs') |-> npages' - x] = <<>>
      <4>1. 1..(IF pos' <= Highs' THEN pos' ELSE Highs') = {}
        BY <1>2, <2>1, <3>3
      <4> QED
        BY <4>1
    <3>6. [x \in 1..(IF pos' <= Highs' THEN 0 ELSE pos' - Highs') |-> phys'.free[x + Highs']] = <<>>
      <4>1. 1..(IF pos' <= Highs' THEN 0 ELSE pos' - Highs') = {}
        BY <1>2, <2>1, <3>3
      <4> QED
        BY <4>1
    <3>7. \A p \in FreePages(phys') : phys'.ref[p] = 0
      BY <1>7, <2>1
    <3>8. (FreedList(npages_basemem, npages))' = FreedList(npages_basemem', npages')
      BY DEF FreedList
    <3>9. (\A p \in FreePages(phys) : phys.ref[p] = 0)'
      BY <3>7 DEF FreePages
    <3> QED
      BY <3>1, <3>2, <3>4, <3>5, <3>6, <3>8, <3>9, Zenon DEF InSort
  <2>5. LowWrites
    BY <2>1 DEF LowWrites
  <2> QED
    BY <1>1, <1>2, <1>3, <2>1, <2>3, <2>4, <2>5 DEF EarlyInv, Early
<1>10. CASE pos # npages_basemem /\ ~(pos >= npages)
  <2>1. phys' = PageFree([phys EXCEPT !.ref[pos] = 0], pos) /\ pos' = pos + 1 /\ pc' = "init"
    BY <1>1, <1>10 DEF PageInit
  <2>2. \/ pos \in 1..B-1 /\ phys.free = FreedList(pos, ArraysEnd)
        \/ pos \in ArraysEnd..N-1 /\ phys.free = FreedList(B, pos)
    BY <1>5, <1>6, <1>10 DEF B, N
  <2>3. pos \in Page
    BY <1>1, <2>2, GrowBase, GrowAbove DEF B, N
  <2>4. /\ phys' \in Memory /\ phys'.free = <<pos>> \o phys.free /\ phys'.mem = phys.mem
        /\ \A q \in FreePages(phys') : phys'.ref[q] = 0
    BY <1>1, <1>7, <2>1, <2>3, FreeOneMore
  <2>5. DirHas(phys', None)
    BY <1>1, <2>4, EmptyDir
  <2>6. (DirHas(phys, None))'
    BY <1>1, <2>5, SameNone
  <2>7. \/ pos + 1 \in 1..B /\ phys'.free = FreedList(pos + 1, ArraysEnd)
        \/ pos + 1 \in ArraysEnd..N /\ phys'.free = FreedList(B, pos + 1)
    <3>1. CASE pos \in 1..B-1 /\ phys.free = FreedList(pos, ArraysEnd)
      <4>1. <<pos>> \o FreedList(pos, ArraysEnd) = FreedList(pos + 1, ArraysEnd)
        BY <1>1, <3>1, GrowBase DEF B
      <4>2. pos + 1 \in 1..B
        BY <1>5, <3>1
      <4> QED
        BY <2>4, <3>1, <4>1, <4>2, Zenon
    <3>2. CASE pos \in ArraysEnd..N-1 /\ phys.free = FreedList(B, pos)
      <4>1. <<pos>> \o FreedList(B, pos) = FreedList(B, pos + 1)
        BY <1>1, <3>2, GrowAbove DEF B, N
      <4>2. pos + 1 \in ArraysEnd..N
        BY <1>5, <3>2
      <4> QED
        BY <2>4, <3>2, <4>1, <4>2, Zenon
    <3> QED
      BY <2>2, <3>1, <3>2
  <2>8. InInit'
    <3>1. \A e, u : (FreedList(e, u))' = FreedList(e', u')
      OBVIOUS
    <3>2. (\A p \in FreePages(phys) : phys.ref[p] = 0)'
      BY <2>4 DEF FreePages
    <3>3. \/ pos' \in 1..npages_basemem' /\ phys'.free = FreedList(pos', ArraysEnd)
          \/ pos' \in ArraysEnd..npages' /\ phys'.free = FreedList(npages_basemem', pos')
      BY <1>2, <2>1, <2>7, Zenon DEF B, N
    <3> QED
      BY <3>2, <3>3, Zenon DEF InInit, FreedList
  <2>9. LowWrites
    BY <2>4 DEF LowWrites
  <2> QED
    BY <1>1, <1>2, <1>3, <2>1, <2>4, <2>6, <2>8, <2>9 DEF EarlyInv, Early
<1> QED
  BY <1>8, <1>9, <1>10

----------------------------------------------------------------------------
(* The sorting of the list.                                                *)

\* A prefix of a sequence and the next element.
LEMMA AppendOne ==
  ASSUME NEW f \in Seq(Page), NEW n \in Nat, n < Len(f)
  PROVE  Append([x \in 1..n |-> f[x]], f[n + 1]) = [x \in 1..n+1 |-> f[x]]
<1> DEFINE g == [x \in 1..n |-> f[x]]
           h == [x \in 1..n+1 |-> f[x]]
<1>1. \A x \in 1..n+1 : f[x] \in Page
  OBVIOUS
<1>2. g \in Seq(Page) /\ Len(g) = n /\ h \in Seq(Page) /\ Len(h) = n + 1
  BY <1>1
<1>3. \A x \in 1..n : g[x] = f[x]
  OBVIOUS
<1>4. \A x \in 1..n+1 : h[x] = f[x]
  OBVIOUS
<1> HIDE DEF g, h
<1> DEFINE p == f[n + 1]
           a == Append(g, p)
<1>5. p \in Page
  BY <1>1
<1> HIDE DEF p
<1>6. a \in Seq(Page) /\ Len(a) = n + 1 /\ a[n + 1] = p /\ \A x \in 1..n : a[x] = g[x]
  BY <1>2, <1>5
<1> HIDE DEF a
<1>7. \A x \in 1..Len(h) : a[x] = h[x]
  BY <1>2, <1>3, <1>4, <1>6 DEF p
<1>8. a = h
  BY <1>2, <1>6, <1>7, SameList
<1> QED
  BY <1>8, Zenon DEF a, g, h, p

\* Above and below the end of what entry_pgdir maps.
LEMMA SortedOrder ==
  ASSUME Machine, NEW f, f = FreedList(npages_basemem, npages)
  PROVE  /\ f \in Seq(Page) /\ Len(f) = (npages - ArraysEnd) + (npages_basemem - 1)
         /\ Highs \in Nat /\ Highs <= npages - ArraysEnd /\ Highs <= Len(f)
         /\ \A x \in 1..Len(f) : IsLow(f[x]) <=> x > Highs
         /\ \A x \in 1..Highs : f[x] = npages - x
         /\ \A x \in 1..Len(f) : f[x] = IF x <= npages - ArraysEnd THEN npages - x
                                        ELSE npages_basemem - (x - (npages - ArraysEnd))
<1> DEFINE A == npages - ArraysEnd
<1>1. /\ npages \in Nat /\ npages_basemem \in Nat /\ ArraysEnd \in Nat /\ LowEnd \in Nat /\ ArraysEnd <= LowEnd
      /\ npages_basemem >= 1 /\ npages_basemem < ArraysEnd /\ ArraysEnd <= npages
      /\ npages_basemem \in 1..npages_basemem /\ npages \in ArraysEnd..npages
  BY MachineNumbers
<1>2. A \in Nat
  BY <1>1
<1>3. ListedTo(f, npages_basemem, npages)
  BY <1>1, FreedFacts
<1>4. /\ f \in Seq(Page) /\ Len(f) = A + (npages_basemem - 1)
      /\ \A x \in 1..Len(f) : f[x] = IF x <= A THEN npages - x ELSE npages_basemem - (x - A)
  BY <1>3, Zenon DEF ListedTo, OfBase
<1>5. Highs \in Nat /\ Highs <= A /\ Highs <= Len(f)
  BY <1>1, <1>4 DEF Highs
<1>6. ASSUME NEW x \in 1..Len(f) PROVE IsLow(f[x]) <=> x > Highs
  <2>1. CASE x <= A
    <3>1. f[x] = npages - x
      BY <1>4, <2>1
    <3>2. npages - x < LowEnd <=> x > Highs
      BY <1>1 DEF Highs
    <3> QED
      BY <3>1, <3>2 DEF IsLow
  <2>2. CASE ~(x <= A)
    <3>1. f[x] = npages_basemem - (x - A)
      BY <1>4, <2>2
    <3>2. x \in Nat
      OBVIOUS
    <3>3. f[x] < LowEnd /\ x > Highs
      BY <1>1, <1>2, <1>5, <2>2, <3>1, <3>2
    <3> QED
      BY <3>3 DEF IsLow
  <2> QED
    BY <2>1, <2>2
<1>7. \A x \in 1..Highs : f[x] = npages - x
  BY <1>1, <1>4, <1>5
<1> QED
  BY <1>4, <1>5, <1>6, <1>7

\* What the halves have got of the list f.
Hi(n) == [x \in 1..n |-> npages - x]
Lo(f, n) == [x \in 1..n |-> f[x + Highs]]

\* One more page above LowEnd leaves the first half of the list.
LEMMA HiGrows ==
  ASSUME Machine, NEW f, f = FreedList(npages_basemem, npages), NEW n \in Nat, n < Highs
  PROVE  Append(Hi(n), f[n + 1]) = Hi(n + 1)
<1>1. /\ f \in Seq(Page) /\ Highs \in Nat /\ Highs <= Len(f) /\ \A x \in 1..Highs : f[x] = npages - x
  BY SortedOrder
<1>2. [x \in 1..n |-> f[x]] = Hi(n) /\ [x \in 1..n+1 |-> f[x]] = Hi(n + 1)
  BY <1>1 DEF Hi
<1>3. n < Len(f)
  BY <1>1
<1>4. Append([x \in 1..n |-> f[x]], f[n + 1]) = [x \in 1..n+1 |-> f[x]]
  BY <1>1, <1>3, AppendOne
<1> QED
  BY <1>2, <1>4, Zenon

\* One more page below LowEnd leaves the second half of the list.
LEMMA LoGrows ==
  ASSUME Machine, NEW f, f = FreedList(npages_basemem, npages), NEW n \in Nat, n + Highs < Len(f)
  PROVE  Append(Lo(f, n), f[(n + Highs) + 1]) = Lo(f, n + 1)
<1> DEFINE L == Len(f) - Highs
           g == [x \in 1..L |-> f[x + Highs]]
<1>1. /\ f \in Seq(Page) /\ Highs \in Nat /\ Highs <= Len(f) /\ L \in Nat /\ n < L /\ Len(f) \in Nat
  BY SortedOrder
<1>2. \A x \in 1..L : f[x + Highs] \in Page /\ x + Highs \in 1..Len(f)
  BY <1>1
<1> HIDE DEF L
<1>3. g \in Seq(Page) /\ Len(g) = L /\ \A x \in 1..L : g[x] = f[x + Highs]
  BY <1>1, <1>2
<1> HIDE DEF g
<1>4. Append([x \in 1..n |-> g[x]], g[n + 1]) = [x \in 1..n+1 |-> g[x]]
  BY <1>1, <1>3, AppendOne
<1>5. [x \in 1..n |-> g[x]] = Lo(f, n) /\ [x \in 1..n+1 |-> g[x]] = Lo(f, n + 1)
  BY <1>1, <1>3 DEF Lo
<1>6. g[n + 1] = f[(n + Highs) + 1]
  <2>1. n + 1 \in 1..L /\ (n + 1) + Highs = (n + Highs) + 1
    BY <1>1
  <2> QED
    BY <1>3, <2>1
<1> QED
  BY <1>4, <1>5, <1>6, Zenon

HalvesAt(h, f, n) ==
  /\ h.high = Hi(IF n <= Highs THEN n ELSE Highs)
  /\ h.low = Lo(f, IF n <= Highs THEN 0 ELSE n - Highs)

\* One page appended to the half check_page_free_list(1) sorts it into.
LEMMA SortStep == EarlyInv /\ SortPage => EarlyInv' /\ LowWrites
<1> SUFFICES ASSUME EarlyInv, SortPage PROVE EarlyInv' /\ LowWrites
  OBVIOUS
<1> DEFINE f == phys.free
<1>1. /\ Machine /\ phys \in Memory /\ loaded' = "entry" /\ region' = 1 /\ pc' = "sort" /\ pos' = pos + 1
      /\ DirHas(phys, None) /\ Booted /\ phys' = phys /\ UNCHANGED machine /\ UNCHANGED arrays
      /\ halves \in [low : Seq(Page), high : Seq(Page)] /\ pos < Len(f) /\ InSort
  BY DEF EarlyInv, SortPage
<1>2. Machine' /\ npages' = npages /\ npages_basemem' = npages_basemem /\ Highs' = Highs
  BY <1>1, SameMachine
<1>3. Booted' /\ (DirHas(phys, None))'
  BY <1>1, SameNone DEF Booted, arrays
<1>4. /\ f = FreedList(npages_basemem, npages) /\ pos \in 0..Len(f) /\ HalvesAt(halves, f, pos)
      /\ \A p \in FreePages(phys) : phys.ref[p] = 0
  BY <1>1 DEF InSort, HalvesAt, Hi, Lo
<1> HIDE DEF f
<1>5. /\ f \in Seq(Page) /\ Len(f) \in Nat /\ Highs \in Nat /\ Highs <= Len(f)
      /\ \A x \in 1..Len(f) : IsLow(f[x]) <=> x > Highs
  BY <1>1, <1>4, SortedOrder
<1>6. pos \in Nat /\ pos + 1 \in 1..Len(f) /\ pos + 1 \in 0..Len(f) /\ f[pos + 1] \in Page
  BY <1>1, <1>4, <1>5
<1> DEFINE p == f[pos + 1]
<1>7. IsLow(p) <=> ~(pos < Highs)
  BY <1>5, <1>6
<1>8. halves' = IF IsLow(p) THEN [halves EXCEPT !.low = Append(@, p)] ELSE [halves EXCEPT !.high = Append(@, p)]
  BY DEF SortPage, f
<1>9. p \in Page
  BY <1>6
<1> HIDE DEF p
<1>10. halves' \in [low : Seq(Page), high : Seq(Page)]
  <2> DEFINE a == Append(halves.low, p)
             b == Append(halves.high, p)
  <2>1. a \in Seq(Page) /\ b \in Seq(Page)
    BY <1>1, <1>9
  <2>2. halves' = IF IsLow(p) THEN [halves EXCEPT !.low = a] ELSE [halves EXCEPT !.high = b]
    BY <1>8
  <2> HIDE DEF a, b
  <2> QED
    BY <1>1, <2>1, <2>2
<1>11. HalvesAt(halves', f, pos + 1)
  <2>1. CASE pos < Highs
    <3>1. halves'.high = Append(halves.high, p) /\ halves'.low = halves.low
      BY <1>1, <1>7, <1>8, <2>1
    <3>2. halves.high = Hi(pos) /\ halves.low = Lo(f, 0)
      <4>1. pos <= Highs
        BY <1>5, <1>6, <2>1
      <4> QED
        BY <1>4, <4>1, Zenon DEF HalvesAt
    <3>3. halves'.high = Hi(pos + 1)
      BY <1>1, <1>4, <1>6, <2>1, <3>1, <3>2, HiGrows DEF p
    <3>4. pos + 1 <= Highs
      BY <1>5, <1>6, <2>1
    <3> QED
      BY <3>1, <3>2, <3>3, <3>4, Zenon DEF HalvesAt
  <2>2. CASE ~(pos < Highs)
    <3> DEFINE n == pos - Highs
    <3>1. halves'.low = Append(halves.low, p) /\ halves'.high = halves.high
      BY <1>1, <1>7, <1>8, <2>2
    <3>2. n \in Nat /\ n + Highs = pos /\ n + Highs < Len(f) /\ pos >= Highs
      BY <1>1, <1>5, <1>6, <2>2
    <3>3. halves.high = Hi(Highs) /\ halves.low = Lo(f, n)
      <4>1. CASE pos <= Highs
        <5>1. pos = Highs /\ n = 0
          BY <1>5, <1>6, <3>2, <4>1
        <5> HIDE DEF n
        <5> QED
          BY <1>4, <4>1, <5>1, Zenon DEF HalvesAt
      <4>2. CASE ~(pos <= Highs)
        BY <1>4, <4>2, Zenon DEF HalvesAt
      <4> QED
        BY <4>1, <4>2
    <3>4. ~(pos + 1 <= Highs) /\ (pos + 1) - Highs = n + 1
      BY <1>5, <1>6, <3>2
    <3> HIDE DEF n
    <3>5. Append(Lo(f, n), f[(n + Highs) + 1]) = Lo(f, n + 1)
      BY <1>1, <1>4, <3>2, LoGrows
    <3>6. halves'.low = Lo(f, n + 1)
      BY <3>1, <3>2, <3>3, <3>5, Zenon DEF p
    <3> QED
      BY <3>1, <3>3, <3>4, <3>6, Zenon DEF HalvesAt
  <2> QED
    BY <2>1, <2>2
<1>12. InSort'
  <2>1. (\A q \in FreePages(phys) : phys.ref[q] = 0)'
    BY <1>1, <1>4 DEF FreePages
  <2>2. HalvesAt(halves', phys'.free, pos')
    BY <1>1, <1>11, Zenon DEF f
  <2>3. (HalvesAt(halves, phys.free, pos))'
    BY <1>2, <2>2, Zenon DEF HalvesAt, Hi, Lo
  <2>4. phys'.free = (FreedList(npages_basemem, npages))'
    BY <1>1, <1>2, <1>4 DEF FreedList, f
  <2>5. pos' \in 0..Len(phys'.free)
    BY <1>1, <1>6 DEF f
  <2> QED
    BY <2>1, <2>3, <2>4, <2>5 DEF InSort, HalvesAt, Hi, Lo
<1>13. LowWrites
  BY <1>1 DEF LowWrites
<1> QED
  BY <1>1, <1>2, <1>3, <1>10, <1>12, <1>13 DEF EarlyInv, Early

\* page_init puts each usable page once on the list.
LEMMA FreedOnce ==
  ASSUME Machine, NEW f, f = FreedList(npages_basemem, npages)
  PROVE  /\ \A x, y \in 1..Len(f) : f[x] = f[y] => x = y
         /\ \A x \in 1..Len(f) : f[x] \in Usable
         /\ \A p \in Usable : \E x \in 1..Len(f) : f[x] = p
<1> DEFINE A == npages - ArraysEnd
           B == npages_basemem
           N == npages
           L == Len(f)
<1>1. /\ N \in Nat /\ B \in Nat /\ ArraysEnd \in Nat /\ B >= 1 /\ B < ArraysEnd /\ ArraysEnd <= N
      /\ A \in Nat /\ A = N - ArraysEnd
  BY MachineNumbers
<1>2. /\ L = A + (B - 1) /\ \A x \in 1..L : f[x] = IF x <= A THEN N - x ELSE B - (x - A)
  BY SortedOrder
<1>3. Usable = (1..B-1) \cup (ArraysEnd..N-1)
  BY DEF Usable
<1> HIDE DEF A, B, N, L
<1>4. \A x \in 1..L : /\ x <= A => f[x] = N - x
                      /\ ~(x <= A) => f[x] = B - (x - A)
  BY <1>2
<1>5. ASSUME NEW x \in 1..L, NEW y \in 1..L, f[x] = f[y] PROVE x = y
  <2>1. x \in Nat /\ y \in Nat /\ L \in Nat
    BY <1>1, <1>2
  <2>2. CASE x <= A /\ y <= A
    BY <1>1, <1>4, <1>5, <2>1, <2>2
  <2>3. CASE ~(x <= A) /\ ~(y <= A)
    BY <1>1, <1>4, <1>5, <2>1, <2>3
  <2>4. CASE x <= A /\ ~(y <= A)
    BY <1>1, <1>4, <1>5, <2>1, <2>4
  <2>5. CASE ~(x <= A) /\ y <= A
    BY <1>1, <1>4, <1>5, <2>1, <2>5
  <2> QED
    BY <2>2, <2>3, <2>4, <2>5
<1>6. ASSUME NEW x \in 1..L PROVE f[x] \in Usable
  <2>1. CASE x <= A
    BY <1>1, <1>2, <1>3, <1>4, <2>1
  <2>2. CASE ~(x <= A)
    BY <1>1, <1>2, <1>3, <1>4, <2>2
  <2> QED
    BY <2>1, <2>2
<1>7. ASSUME NEW p \in Usable PROVE \E x \in 1..L : f[x] = p
  <2>1. CASE p \in ArraysEnd..N-1
    <3>1. N - p \in 1..L /\ N - p <= A /\ N - (N - p) = p
      BY <1>1, <1>2, <2>1
    <3> QED
      BY <1>4, <3>1
  <2>2. CASE p \in 1..B-1
    <3>1. (B - p) + A \in 1..L /\ ~((B - p) + A <= A) /\ B - (((B - p) + A) - A) = p
      BY <1>1, <1>2, <2>2
    <3> QED
      BY <1>4, <3>1
  <2> QED
    BY <1>3, <2>1, <2>2
<1> QED
  BY <1>5, <1>6, <1>7 DEF L

\* The list after the sort: x comes from the place Source(f, x).
Source(f, x) == IF x <= Len(f) - Highs THEN x + Highs ELSE x - (Len(f) - Highs)

\* Low pages first.
Sorted(f, g) == g = Lo(f, Len(f) - Highs) \o Hi(Highs)

\* The sorted list has the pages of the other list, each once.
LEMMA SortedList ==
  ASSUME Machine, NEW f, f = FreedList(npages_basemem, npages), NEW g, Sorted(f, g)
  PROVE  /\ g \in Seq(Page) /\ Len(g) = Len(f)
         /\ \A x \in 1..Len(f) : Source(f, x) \in 1..Len(f) /\ g[x] = f[Source(f, x)]
         /\ \A x, y \in 1..Len(f) : Source(f, x) = Source(f, y) => x = y
         /\ \A y \in 1..Len(f) : \E x \in 1..Len(f) : Source(f, x) = y
<1> DEFINE L == Len(f) - Highs
           l == Lo(f, L)
           h == Hi(Highs)
<1>1. /\ f \in Seq(Page) /\ Highs \in Nat /\ L \in Nat /\ Len(f) \in Nat /\ Len(f) = L + Highs
      /\ \A x \in 1..Highs : f[x] = npages - x
  BY SortedOrder
<1> HIDE DEF L
<1>2. \A x \in 1..L : x + Highs \in 1..Len(f) /\ f[x + Highs] \in Page
  BY <1>1
<1>3. \A x \in 1..Highs : x \in 1..Len(f) /\ npages - x = f[x] /\ f[x] \in Page
  BY <1>1
<1>4. l \in Seq(Page) /\ Len(l) = L /\ \A x \in 1..L : l[x] = f[x + Highs]
  BY <1>1, <1>2 DEF Lo
<1>5. h \in Seq(Page) /\ Len(h) = Highs /\ \A x \in 1..Highs : h[x] = f[x]
  BY <1>1, <1>3 DEF Hi
<1>6. g = l \o h
  BY DEF L, Sorted
<1> HIDE DEF l, h
<1> DEFINE c == l \o h
<1>12. /\ c \in Seq(Page) /\ Len(c) = Len(l) + Len(h)
       /\ \A x \in 1..Len(l) + Len(h) : c[x] = IF x <= Len(l) THEN l[x] ELSE h[x - Len(l)]
  BY <1>4, <1>5
<1> HIDE DEF c
<1>7. /\ g \in Seq(Page) /\ Len(g) = L + Highs
      /\ \A x \in 1..L + Highs : g[x] = IF x <= L THEN l[x] ELSE h[x - L]
  BY <1>4, <1>5, <1>6, <1>12, Zenon DEF c
<1>8. ASSUME NEW x \in 1..Len(f)
      PROVE  Source(f, x) \in 1..Len(f) /\ g[x] = f[Source(f, x)]
  <2>1. CASE x <= L
    <3>1. Source(f, x) = x + Highs /\ x \in 1..L
      BY <1>1, <2>1 DEF Source, L
    <3>2. g[x] = l[x] /\ l[x] = f[x + Highs]
      BY <1>1, <1>4, <1>7, <2>1, <3>1
    <3> QED
      BY <1>2, <3>1, <3>2
  <2>2. CASE ~(x <= L)
    <3>1. Source(f, x) = x - L
      BY <2>2 DEF Source, L
    <3>2. x - L \in 1..Highs
      BY <1>1, <2>2
    <3>3. g[x] = h[x - L] /\ h[x - L] = f[x - L]
      BY <1>1, <1>5, <1>7, <2>2, <3>2
    <3> QED
      BY <1>3, <3>1, <3>2, <3>3
  <2> QED
    BY <2>1, <2>2
<1>9. \A x, y \in 1..Len(f) : Source(f, x) = Source(f, y) => x = y
  BY <1>1 DEF Source, L
<1>10. ASSUME NEW y \in 1..Len(f) PROVE \E x \in 1..Len(f) : Source(f, x) = y
  <2>1. CASE y <= Highs
    <3>1. y + L \in 1..Len(f) /\ Source(f, y + L) = y
      BY <1>1, <2>1 DEF Source, L
    <3> QED
      BY <3>1
  <2>2. CASE ~(y <= Highs)
    <3>1. y - Highs \in 1..Len(f) /\ Source(f, y - Highs) = y
      BY <1>1, <2>2 DEF Source, L
    <3> QED
      BY <3>1
  <2> QED
    BY <2>1, <2>2
<1>11. Len(g) = Len(f)
  BY <1>1, <1>7
<1> QED
  BY <1>7, <1>8, <1>9, <1>10, <1>11

\* The first pages of the sorted list make the page tables.
LEMMA SortedFirst ==
  ASSUME Machine, NEW f, f = FreedList(npages_basemem, npages),
         NEW x \in 1..Len(f), x <= TablesNeeded
  PROVE  f[Source(f, x)] \in ForTables
<1> DEFINE A == npages - ArraysEnd
<1>1. /\ npages \in Nat /\ npages_basemem \in Nat /\ ArraysEnd \in Nat /\ LowEnd \in Nat /\ TablesNeeded \in Nat
      /\ npages_basemem >= 1 /\ npages_basemem < ArraysEnd /\ ArraysEnd <= npages
      /\ ArraysEnd + TablesNeeded <= LowEnd
  BY MachineNumbers
<1>2. /\ f \in Seq(Page) /\ Len(f) = A + (npages_basemem - 1) /\ Highs \in Nat /\ Highs <= A /\ A \in Nat
      /\ \A z \in 1..Len(f) : IsLow(f[z]) <=> z > Highs
      /\ \A z \in 1..Len(f) : f[z] = IF z <= A THEN npages - z ELSE npages_basemem - (z - A)
  BY <1>1, SortedOrder
<1>3. x <= Len(f) - Highs
  <2>1. CASE npages > LowEnd
    <3>1. Highs = npages - LowEnd
      BY <2>1 DEF Highs
    <3>2. Len(f) - Highs = (LowEnd - ArraysEnd) + (npages_basemem - 1)
      BY <1>1, <1>2, <3>1
    <3> QED
      BY <1>1, <3>2
  <2>2. CASE ~(npages > LowEnd)
    <3>1. Highs = 0
      BY <2>2 DEF Highs
    <3> QED
      BY <1>1, <1>2, <3>1
  <2> QED
    BY <2>1, <2>2
<1> DEFINE z == x + Highs
<1>4. Source(f, x) = z /\ z \in 1..Len(f) /\ z > Highs /\ x \in Nat /\ x > 0
  BY <1>1, <1>2, <1>3 DEF Source
<1>5. CASE ~Ample
  <2>1. ForTables = 0..LowEnd-1
    BY <1>5 DEF ForTables
  <2>2. f[z] < LowEnd /\ f[z] \in Page
    BY <1>2, <1>4 DEF IsLow
  <2>3. f[z] \in Nat
    BY <2>2, MachineNumbers
  <2> QED
    BY <1>1, <1>4, <2>1, <2>2, <2>3
<1>6. CASE Ample
  <2>1. ForTables = (ArraysEnd..LowEnd-1) \ {Spare} /\ npages > ArraysEnd + TablesNeeded
    BY <1>6 DEF ForTables, Ample
  <2>2. CASE npages > LowEnd
    <3>1. Highs = npages - LowEnd /\ Spare = npages - 1
      BY <2>2 DEF Highs, Spare
    <3>2. z <= A /\ npages - z = LowEnd - x
      BY <1>1, <1>4, <3>1
    <3>3. f[z] = LowEnd - x
      BY <1>2, <1>4, <3>2
    <3> QED
      BY <1>1, <1>4, <2>1, <2>2, <3>1, <3>3
  <2>3. CASE ~(npages > LowEnd)
    <3>1. Highs = 0 /\ Spare = ArraysEnd
      BY <2>3 DEF Highs, Spare
    <3>2. z <= A /\ npages - z = npages - x
      BY <1>1, <1>4, <2>1, <3>1
    <3>3. f[z] = npages - x
      BY <1>2, <1>4, <3>2
    <3> QED
      BY <1>1, <1>4, <2>1, <2>3, <3>1, <3>3
  <2> QED
    BY <2>2, <2>3
<1> QED
  BY <1>5, <1>6

\* The list after the sort is what the invariant says of it.
LEMMA SortedHas ==
  ASSUME Machine, NEW f, f = FreedList(npages_basemem, npages),
         NEW m \in Memory, Sorted(f, m.free), \A x \in 1..Len(f) : m.ref[f[x]] = 0
  PROVE  ListHas(m, None)
<1> DEFINE g == m.free
           L == Len(f)
           S(x) == Source(f, x)
<1>1. L \in Nat /\ L = (npages - ArraysEnd) + (npages_basemem - 1)
  BY SortedOrder, MachineNumbers
<1>2. /\ g \in Seq(Page) /\ Len(g) = L
      /\ \A x \in 1..L : S(x) \in 1..L /\ g[x] = f[S(x)]
      /\ \A x, y \in 1..L : S(x) = S(y) => x = y
      /\ \A y \in 1..L : \E x \in 1..L : S(x) = y
  <2>1. Sorted(f, g)
    OBVIOUS
  <2> HIDE DEF g
  <2> QED
    BY <2>1, SortedList
<1>3. /\ \A x, y \in 1..L : f[x] = f[y] => x = y
      /\ \A x \in 1..L : f[x] \in Usable
      /\ \A p \in Usable : \E x \in 1..L : f[x] = p
  BY FreedOnce
<1>4. \A x \in 1..L : x <= TablesNeeded => f[S(x)] \in ForTables
  BY SortedFirst
<1>5. \A x \in 1..L : m.ref[f[x]] = 0
  OBVIOUS
<1> HIDE DEF L, S, g
<1>6. DOMAIN g = 1..L
  BY <1>2
<1>7. Once(m)
  <2>1. ASSUME NEW x \in DOMAIN g, NEW y \in DOMAIN g, g[x] = g[y] PROVE x = y
    <3>1. S(x) \in 1..L /\ S(y) \in 1..L /\ f[S(x)] = f[S(y)]
      BY <1>2, <1>6, <2>1
    <3>2. S(x) = S(y)
      BY <1>3, <3>1
    <3> QED
      BY <1>2, <1>6, <3>2
  <2> QED
    BY <2>1 DEF Once, g
<1>8. \A p : p \in FreePages(m) <=> p \in Usable
  <2>1. FreePages(m) = {g[x] : x \in DOMAIN g}
    BY DEF FreePages, g
  <2>2. ASSUME NEW x \in DOMAIN g PROVE g[x] \in Usable
    <3>1. S(x) \in 1..L /\ g[x] = f[S(x)]
      BY <1>2, <1>6
    <3> QED
      BY <1>3, <3>1
  <2>3. \A p \in Usable : \E x \in DOMAIN g : g[x] = p
    <3> SUFFICES ASSUME NEW p \in Usable PROVE \E x \in DOMAIN g : g[x] = p
      OBVIOUS
    <3>1. PICK y \in 1..L : f[y] = p
      BY <1>3
    <3>2. PICK x \in 1..L : S(x) = y
      BY <1>2
    <3>3. g[x] = p
      BY <1>2, <3>1, <3>2
    <3> QED
      BY <1>6, <3>3
  <2> QED
    BY <2>1, <2>2, <2>3
<1>9. \A p : ~IsTable(m, None, p)
  BY DoneNone DEF IsTable
<1>10. \A p \in FreePages(m) : m.ref[p] = 0
  <2>1. ASSUME NEW x \in DOMAIN g PROVE m.ref[g[x]] = 0
    <3>1. S(x) \in 1..L /\ g[x] = f[S(x)]
      BY <1>2, <1>6
    <3> QED
      BY <1>5, <3>1
  <2> QED
    BY <2>1 DEF FreePages, g
<1>11. Len(m.free) + Count(None) = (npages - ArraysEnd) + (npages_basemem - 1)
  BY <1>1, <1>2, DoneNone DEF g
<1>12. ASSUME NEW x \in DOMAIN m.free, x + Count(None) <= TablesNeeded PROVE m.free[x] \in ForTables
  <2>1. x \in 1..L /\ x <= TablesNeeded
    <3>1. x \in 1..L
      BY <1>6, <1>12 DEF g
    <3>2. x + 0 <= TablesNeeded /\ L \in Nat
      BY <1>1, <1>12, DoneNone
    <3> QED
      BY <3>1, <3>2
  <2> QED
    BY <1>2, <1>4, <2>1 DEF g
<1> QED
  BY <1>7, <1>8, <1>9, <1>10, <1>11, <1>12 DEF ListHas

\* check_page_free_list(1): the sorted list has the same pages, those entry_pgdir
\* maps come first, and only those are filled.
LEMMA LowStep == EarlyInv /\ CheckLow => LaterInv' /\ LowWrites
<1> SUFFICES ASSUME EarlyInv, CheckLow PROVE LaterInv' /\ LowWrites
  OBVIOUS
<1> DEFINE f == phys.free
           g == halves.low \o halves.high
           m == [phys EXCEPT !.free = g]
           S == {p \in Listed : IsLow(p)}
<1>1. /\ Machine /\ phys \in Memory /\ loaded = "entry" /\ loaded' = loaded /\ region' = 1 /\ pos' = 0
      /\ pc' = (IF FreeListAsserts THEN "alloc" ELSE "panic")
      /\ DirHas(phys, None) /\ Booted /\ UNCHANGED machine /\ UNCHANGED arrays
      /\ halves \in [low : Seq(Page), high : Seq(Page)] /\ pos = Len(f) /\ InSort
      /\ phys' = Poisoned(m, S)
  BY DEF EarlyInv, CheckLow
<1>2. Machine' /\ (Ample' <=> Ample) /\ npages_basemem' = npages_basemem
  BY <1>1, SameMachine
<1>3. Booted'
  BY <1>1 DEF Booted, arrays
<1>4. /\ f = FreedList(npages_basemem, npages)
      /\ halves.high = Hi(IF pos <= Highs THEN pos ELSE Highs)
      /\ halves.low = Lo(f, IF pos <= Highs THEN 0 ELSE pos - Highs)
      /\ \A p \in FreePages(phys) : phys.ref[p] = 0
  BY <1>1 DEF InSort, Hi, Lo
<1>5. f \in Seq(Page) /\ Len(f) \in Nat /\ Highs \in Nat /\ Highs <= Len(f)
  BY <1>4, <1>1, SortedOrder
<1>6. Sorted(f, g)
  <2>1. CASE pos <= Highs
    <3>1. pos = Highs /\ Len(f) - Highs = 0
      BY <1>1, <1>5, <2>1
    <3> QED
      BY <1>4, <2>1, <3>1, Zenon DEF Sorted
  <2>2. CASE ~(pos <= Highs)
    BY <1>1, <1>4, <2>2, Zenon DEF Sorted
  <2> QED
    BY <2>1, <2>2
<1>7. Listed = FreePages(phys) /\ \A p \in Listed : \E x \in 1..Len(f) : f[x] = p
  BY <1>5 DEF Listed, FreePages
<1>8. \A x \in 1..Len(f) : phys.ref[f[x]] = 0 /\ f[x] \in Listed
  BY <1>4, <1>5, <1>7 DEF Listed
<1> HIDE DEF f
<1>9. g \in Seq(Page)
  BY <1>1, <1>4, <1>6, SortedList
<1> HIDE DEF g, S
<1>10. m \in Memory /\ m.free = g /\ m.ref = phys.ref /\ m.mem = phys.mem
  BY <1>1, <1>9, MemoryExcept
<1> HIDE DEF m
<1>11. /\ phys' \in Memory /\ phys'.free = g /\ phys'.ref = phys.ref
       /\ \A p \in Page : p \notin S => phys'.mem[p] = phys.mem[p]
  BY <1>1, <1>10, PoisonedFacts
<1>12. ListHas(phys', None)
  <2>1. Sorted(f, phys'.free) /\ \A x \in 1..Len(f) : phys'.ref[f[x]] = 0
    BY <1>6, <1>8, <1>11
  <2> QED
    BY <1>1, <1>4, <1>11, <2>1, SortedHas
<1>13. \A x \in 1..Len(f) : f[x] \in Usable
  BY <1>1, <1>4, FreedOnce
<1>14. Listed \subseteq Usable
  BY <1>7, <1>13
<1>15. DirHas(phys', None)
  <2>1. KernEnd \in Page /\ KernEnd \notin S
    BY <1>1, <1>14, UsablePages DEF S
  <2> QED
    BY <1>1, <1>11, <2>1, EmptyDir
<1>16. pc' \in Later /\ pc' \notin Early
  BY <1>1 DEF Later, Early
<1>17. Done' = None
  BY <1>1, <1>16 DEF Done, None, Early
<1>18. Ample /\ npages_basemem > 2 => pc' = "alloc"
  <2> HAVE Ample /\ npages_basemem > 2
  <2>1. Usable \subseteq Listed
    <3>1. \A p \in Usable : \E x \in 1..Len(f) : f[x] = p
      BY <1>1, <1>4, FreedOnce
    <3> QED
      BY <1>8, <3>1
  <2>2. 1 \in Listed /\ Spare \in Listed
    BY <1>1, <2>1, AmpleSpare, AmpleBase
  <2>3. nextfree = ArraysEnd
    BY <1>1 DEF Booted
  <2>4. FreeListAsserts
    BY <1>1, <1>14, <2>2, <2>3, ListAsserts
  <2> QED
    BY <1>1, <2>4
<1>19. LaterPlaces'
  BY <1>1, <1>2, <1>18, SizesNat DEF LaterPlaces
<1>20. (DirHas(phys, Done))' /\ (ListHas(phys, Done))'
  BY <1>1, <1>12, <1>15, <1>17, SameMachine
<1>21. LoadedRight'
  BY <1>1 DEF LoadedRight
<1>22. LowWrites
  BY <1>11 DEF LowWrites, S
<1> QED
  BY <1>2, <1>3, <1>11, <1>16, <1>19, <1>20, <1>21, <1>22 DEF LaterInv, Later

----------------------------------------------------------------------------
(* The invariant.                                                          *)

\* The directory is as memory holds it.
LEMMA StoppedStep == SetupInv /\ UNCHANGED setupVars => SetupInv' /\ LowWrites
<1> SUFFICES ASSUME SetupInv, UNCHANGED setupVars PROVE SetupInv' /\ LowWrites
  OBVIOUS
<1>1. /\ UNCHANGED machine /\ UNCHANGED arrays /\ UNCHANGED loop
      /\ phys' = phys /\ loaded' = loaded /\ pc' = pc
  BY DEF setupVars
<1>2. LowWrites
  BY <1>1 DEF LowWrites
<1>3. /\ npages' = npages /\ npages_basemem' = npages_basemem /\ nextfree' = nextfree /\ kern_pgdir' = kern_pgdir
      /\ pages' = pages /\ envs' = envs /\ taken' = taken /\ pos' = pos /\ halves' = halves /\ region' = region
  BY <1>1 DEF machine, arrays, loop
<1>4. Done' = Done
  BY <1>1, <1>3, Zenon DEF Done
<1>5. Machine' /\ (DirHas(phys, Done))' <=> DirHas(phys, Done)
  BY <1>1, <1>4, SameMachine DEF SetupInv
<1>6. CASE pc \in Early
  <2>1. EarlyInv
    BY <1>6, EarlyForm
  <2>2. InDir => InDir'
    BY <1>1, <1>3, Zenon DEF InDir
  <2>3. InArrays => InArrays'
    BY <1>1, <1>3, Zenon DEF InArrays
  <2>4. Booted => Booted'
    BY <1>1, <1>3, Zenon DEF Booted
  <2>5. InInit => InInit'
    <3>1. FreePages(phys)' = FreePages(phys)
      BY <1>1 DEF FreePages
    <3>2. (\A p \in FreePages(phys) : phys.ref[p] = 0) => (\A p \in FreePages(phys) : phys.ref[p] = 0)'
      BY <1>1, <3>1
    <3> QED
      BY <1>1, <1>3, <3>2 DEF InInit
  <2>6. InSort => InSort'
    <3>1. Highs' = Highs
      BY <1>1, SameMachine
    <3> QED
      <4>1. FreePages(phys)' = FreePages(phys)
        BY <1>1 DEF FreePages
      <4>2. (\A p \in FreePages(phys) : phys.ref[p] = 0) => (\A p \in FreePages(phys) : phys.ref[p] = 0)'
        BY <1>1, <4>1
      <4> QED
        BY <1>1, <1>3, <3>1, <4>2 DEF InSort
  <2>7. DirHas(phys, None) => (DirHas(phys, None))'
    BY <1>1, SameNone
  <2>8. Machine'
    BY <1>1, <2>1, SameMachine DEF EarlyInv
  <2>9. EarlyInv'
    BY <1>1, <1>3, <2>1, <2>2, <2>3, <2>4, <2>5, <2>6, <2>7, <2>8 DEF EarlyInv
  <2> QED
    BY <1>1, <1>2, <1>6, <2>9, FormNext
<1>7. CASE pc \notin Early
  <2>1. LaterInv
    BY <1>7, LaterForm
  <2>2. DirHas(phys', Done') /\ ListHas(phys', Done') /\ phys' \in Memory /\ pc' \in Later
    BY <1>1, <1>4, <2>1 DEF LaterInv
  <2>3. Ample' <=> Ample
    BY <1>1, SameMachine
  <2>4. LaterPlaces' /\ LoadedRight'
    BY <1>1, <1>3, <2>1, <2>3 DEF LaterInv, LaterPlaces, LoadedRight
  <2>5. LaterInv'
    BY <1>1, <2>1, <2>2, <2>4, LaterNext
  <2> QED
    BY <1>1, <1>2, <1>7, <2>5, FormNext
<1> QED
  BY <1>6, <1>7

\* Every step of mem_init keeps the invariant and fills only pages the loaded
\* directory maps.
LEMMA SetupNextKeeps == SetupInv /\ [SetupNext]_setupVars => SetupInv' /\ LowWrites
<1> SUFFICES ASSUME SetupInv, [SetupNext]_setupVars PROVE SetupInv' /\ LowWrites
  OBVIOUS
<1> USE DEF Early
<1>1. CASE CreateDir
  BY <1>1, EarlyForm, FormNext, DirStep DEF CreateDir
<1>2. CASE AllocPages
  <2>1. pc = "arrays" /\ pc' = pc
    BY <1>2 DEF AllocPages
  <2> QED
    BY <1>2, <2>1, EarlyForm, FormNext, PagesStep
<1>3. CASE AllocEnvs
  BY <1>3, EarlyForm, FormNext, EnvsStep DEF AllocEnvs
<1>4. CASE PageInit
  <2>1. pc = "init" /\ pc' \in {"init", "sort"}
    BY <1>4 DEF PageInit
  <2> QED
    BY <1>4, <2>1, EarlyForm, FormNext, PageInitStep
<1>5. CASE SortPage
  <2>1. pc = "sort" /\ pc' = pc
    BY <1>5 DEF SortPage
  <2> QED
    BY <1>5, <2>1, EarlyForm, FormNext, SortStep
<1>6. CASE CheckLow
  <2>1. pc = "sort" /\ pc' \notin Early
    BY <1>6 DEF CheckLow
  <2> QED
    BY <1>6, <2>1, EarlyForm, FormNext, LowStep
<1>7. pc \notin Early /\ (LaterInv => LaterInv' /\ LowWrites) => SetupInv' /\ LowWrites
  <2> HAVE pc \notin Early /\ (LaterInv => LaterInv' /\ LowWrites)
  <2>1. LaterInv'
    BY LaterForm
  <2>2. pc' \in Later
    BY <2>1 DEF LaterInv, Later
  <2>3. pc' \notin Early
    BY <2>2 DEF Later
  <2> QED
    BY <2>1, <2>3, LaterForm, FormNext
<1>8. CASE CheckAll
  BY <1>7, <1>8, AllStep DEF CheckAll
<1>9. CASE CheckPageAlloc
  BY <1>7, <1>9, AllocStep DEF CheckPageAlloc
<1>10. CASE CheckPage
  BY <1>7, <1>10, PageStep DEF CheckPage
<1>11. CASE CheckInstalled
  BY <1>7, <1>11, InstalledStep DEF CheckInstalled
<1>12. CASE MapPage
  BY <1>7, <1>12, MapPageStep DEF MapPage
<1>13. CASE RegionMapped
  BY <1>7, <1>13, RegionStep DEF RegionMapped
<1>14. CASE LoadKern
  BY <1>7, <1>14, LoadStep DEF LoadKern
<1>15. CASE Stopped \/ UNCHANGED setupVars
  BY <1>15, StoppedStep DEF Stopped
<1> QED
  BY <1>1, <1>2, <1>3, <1>4, <1>5, <1>6, <1>8, <1>9, <1>10, <1>11, <1>12, <1>13, <1>14, <1>15 DEF SetupNext

\* mem_init, on every machine and for every layout: until page_init the arrays are
\* where boot_alloc put them, and from then on the free list holds exactly the
\* usable pages that are no page tables, and the directory and its tables map
\* exactly what boot_map_region has reached.
THEOREM SetupCorrect == SetupSpec => []SetupInv
<1>1. SetupInit => SetupInv
  BY InitForm
<1>2. SetupInv /\ [SetupNext]_setupVars => SetupInv'
  BY SetupNextKeeps
<1> QED
  BY <1>1, <1>2, PTL DEF SetupSpec

\* mem_init writes only pages entry_pgdir maps until it loads kern_pgdir: the
\* page tables and what the checks fill come from the low half of the sorted list.
THEOREM LowMemoryFirst == SetupSpec => OnlyLow
<1>1. SetupInv /\ [SetupNext]_setupVars => [LowWrites]_setupVars
  BY SetupNextKeeps
<1>2. [LowWrites]_setupVars =>
        [loaded = "entry" => \A p \in Page : phys'.mem[p] # phys.mem[p] => IsLow(p)]_setupVars
  BY DEF LowWrites
<1> QED
  BY <1>1, <1>2, SetupCorrect, PTL DEF SetupSpec, OnlyLow

\* With memory for the page tables and one page more, and three base pages, none
\* of the checks of mem_init panics.
THEOREM SetupChecksPass == SetupSpec => []ChecksPass
<1>1. SetupInv => ChecksPass
  <2> SUFFICES ASSUME SetupInv, npages > ArraysEnd + TablesNeeded, npages_basemem > 2 PROVE pc # "panic"
    BY DEF ChecksPass
  <2>1. CASE pc \in Early
    BY <2>1 DEF Early
  <2>2. CASE pc \notin Early
    <3>1. LaterInv
      BY <2>2, LaterForm
    <3> QED
      BY <3>1 DEF LaterInv, LaterPlaces, Ample
  <2> QED
    BY <2>1, <2>2
<1> QED
  BY <1>1, SetupCorrect, PTL

----------------------------------------------------------------------------
(* What is free.                                                           *)

\* A list without a page twice is as long as it has pages.
LEMMA OnceLength ==
  ASSUME NEW f \in Seq(Page), \A x, y \in DOMAIN f : f[x] = f[y] => x = y
  PROVE  Len(f) = Cardinality({f[x] : x \in DOMAIN f})
<1> DEFINE S == 1..Len(f)
           T == {f[x] : x \in DOMAIN f}
<1>1. Len(f) \in Nat /\ DOMAIN f = S /\ f \in [S -> T]
  OBVIOUS
<1>2. f \in Surjection(S, T) /\ f \in Injection(S, T)
  BY <1>1 DEF Surjection, Injection, IsInjective
<1>3. IsFiniteSet(S) /\ Cardinality(S) = Len(f)
  <2>1. 1 \in Int /\ Len(f) \in Int
    BY <1>1
  <2>2. IsFiniteSet(S) /\ Cardinality(S) = IF 1 > Len(f) THEN 0 ELSE Len(f)-1+1
    BY <2>1, FS_Interval
  <2> QED
    BY <1>1, <2>2
<1>4. Cardinality(T) = Cardinality(S)
  <2> HIDE DEF S, T
  <2> QED
    BY <1>2, <1>3, FS_Surjection
<1> QED
  BY <1>3, <1>4

\* What boot_map_region took for page tables.
LEMMA TablesAre ==
  ASSUME LaterInv
  PROVE  \A p : p \in Tables <=> IsTable(phys, Done, p)
<1>1. Machine /\ phys \in Memory /\ kern_pgdir = KernEnd /\ DirHas(phys, Done)
  BY DEF LaterInv, Booted
<1>2. \A x \in Idx : Begun(Done, x) <=> x # UVPT /\ HasTable(phys, kern_pgdir, x)
  <2> SUFFICES ASSUME NEW x \in Idx
               PROVE  Begun(Done, x) <=> x # UVPT /\ HasTable(phys, kern_pgdir, x)
    OBVIOUS
  <2>1. CASE x # UVPT
    <3>1. HasTable(phys, kern_pgdir, x) <=> Begun(Done, x)
      BY <1>1, <2>1, DirLooked
    <3> QED
      BY <2>1, <3>1
  <2>2. CASE x = UVPT
    <3>1. ~Begun(Done, UVPT)
      BY Places DEF Begun
    <3> QED
      BY <2>2, <3>1
  <2> QED
    BY <2>1, <2>2
<1> QED
  BY <1>1, <1>2 DEF Tables, IsTable, TableOf

\* The pages page_init frees are the ones that are not in use.
LEMMA NotReserved ==
  ASSUME LaterInv
  PROVE  \A p \in Page : p \notin Reserved <=> p \in Usable
<1>1. /\ npages \in Nat /\ npages_basemem \in Nat /\ ArraysEnd \in Nat /\ KernEnd \in Nat
      /\ npages_basemem < KernEnd /\ KernEnd < ArraysEnd /\ ArraysEnd <= npages
  <2>1. Machine
    BY DEF LaterInv
  <2>2. IoPage < ExtPage /\ ExtPage <= StackPage /\ StackPage < KernEnd
    BY LayoutAssumption
  <2>3. /\ IoPage \in Nat /\ ExtPage \in Nat /\ StackPage \in Nat /\ KernEnd \in Nat /\ PagesSize \in Nat
        /\ EnvsSize \in Nat /\ ArraysEnd \in Nat
    BY Layout
  <2>4. npages_basemem \in 1..IoPage /\ npages \in Nat /\ ArraysEnd <= npages
    BY <2>1, MachineNumbers DEF Machine
  <2> QED
    BY <2>2, <2>3, <2>4 DEF ArraysEnd
<1>2. taken = KernEnd..ArraysEnd-1
  BY DEF LaterInv, Booted
<1>3. \A p \in Page : p \in Nat
  BY Layout
<1>4. \A p \in Page : p \in Reserved <=> \/ p = 0 \/ p >= npages \/ (p >= npages_basemem /\ p < KernEnd)
                                         \/ p \in KernEnd..ArraysEnd-1
  BY <1>2 DEF Reserved
<1> QED
  BY <1>1, <1>3, <1>4 DEF Usable

\* Before the checks and after them the free list holds the pages that are memory
\* and not in use, each once: no check loses a page or keeps one.
THEOREM FreeListExact == SetupSpec => []ListExact
<1>1. SetupInv => ListExact
  <2> SUFFICES ASSUME SetupInv, pc \notin {"dir", "arrays", "init", "sort"}
               PROVE  /\ Listed = Page \ (Reserved \cup Tables)
                      /\ Len(phys.free) = Cardinality(Listed)
                      /\ \A p \in Listed : phys.ref[p] = 0
                      /\ \A t \in Tables : phys.ref[t] = 1
    BY DEF ListExact
  <2>1. LaterInv
    BY LaterForm DEF Early
  <2>2. /\ Machine /\ phys \in Memory /\ DirHas(phys, Done) /\ Once(phys)
        /\ \A p \in Page : p \in FreePages(phys) <=> p \in Usable /\ ~IsTable(phys, Done, p)
        /\ \A p \in FreePages(phys) : phys.ref[p] = 0
    BY <2>1 DEF LaterInv, ListHas
  <2>3. Listed = FreePages(phys)
    BY DEF Listed, FreePages
  <2>4. phys.free \in Seq(Page)
    BY <2>2, MemoryParts
  <2>5. Listed \subseteq Page
    BY <2>3, <2>4 DEF FreePages
  <2>6. \A p \in Page : p \in Listed <=> p \notin Reserved /\ p \notin Tables
    BY <2>1, <2>2, <2>3, NotReserved, TablesAre
  <2>7. Listed = Page \ (Reserved \cup Tables)
    BY <2>5, <2>6
  <2>8. Len(phys.free) = Cardinality(Listed)
    BY <2>2, <2>4, OnceLength DEF Listed, Once
  <2>9. \A t \in Tables : phys.ref[t] = 1
    <3> SUFFICES ASSUME NEW t \in Tables PROVE phys.ref[t] = 1
      OBVIOUS
    <3>1. PICK x \in Idx : Begun(Done, x) /\ phys.mem[KernEnd][x].pg = t
      BY <2>1, TablesAre DEF IsTable
    <3>2. TableAt(phys, Done, x)
      BY <2>2, <3>1 DEF DirHas
    <3> QED
      BY <3>1, <3>2 DEF TableAt
  <2> QED
    BY <2>2, <2>3, <2>7, <2>8, <2>9
<1> QED
  BY <1>1, SetupCorrect, PTL

----------------------------------------------------------------------------
(* What the user may do.                                                   *)

\* The user has no entry that it can write.
LEMMA EntryPerm ==
  ASSUME NEW dn, NEW x \in Idx, NEW j \in Idx, Entry(dn, x, j) # NoPte
  PROVE  /\ Entry(dn, x, j).perm = {"U"} \/ Entry(dn, x, j).perm = {"W"}
         /\ x >= ULIM => Entry(dn, x, j).perm = {"W"}
<1>1. /\ UPAGES \in Nat /\ UENVS \in Nat /\ ULIM \in Nat /\ UPAGES < ULIM /\ UENVS < ULIM
      /\ UENVS # UPAGES /\ UENVS # KSTACK /\ UPAGES # KSTACK
  BY LayoutAssumption
<1>2. CASE x = UPAGES
  <2>1. Entry(dn, x, j) = [pg |-> KernEnd + 1 + j, perm |-> {"U"}]
    BY <1>2, EntryAt, Zenon
  <2>2. Entry(dn, x, j).perm = {"U"}
    BY <2>1
  <2> QED
    BY <1>1, <1>2, <2>2
<1>3. CASE x = UENVS
  <2>1. Entry(dn, x, j) = [pg |-> KernEnd + 1 + PagesSize + j, perm |-> {"U"}]
    BY <1>3, EntryAt, Zenon
  <2>2. Entry(dn, x, j).perm = {"U"}
    BY <2>1
  <2> QED
    BY <1>1, <1>3, <2>2
<1>4. CASE x = KSTACK
  <2>1. Entry(dn, x, j) = [pg |-> StackPage, perm |-> {"W"}]
    BY <1>4, EntryAt, Zenon
  <2> QED
    BY <2>1
<1>5. CASE x \notin {UPAGES, UENVS, KSTACK}
  <2>1. Entry(dn, x, j) = AtBase(dn[4], x, j)
    BY <1>5, EntryAt, Zenon
  <2>2. Entry(dn, x, j) = [pg |-> (x - KERNBASE) * NPT + j, perm |-> {"W"}]
    BY <2>1, Zenon DEF AtBase
  <2> QED
    BY <2>2
<1> QED
  BY <1>2, <1>3, <1>4, <1>5

\* No address of the kernel's directory is both writable and open to the user, and
\* none above ULIM is open to the user.
LEMMA UserDenied ==
  ASSUME Machine, phys \in Memory, kern_pgdir = KernEnd, DirHas(phys, Done),
         NEW x \in Idx, NEW j \in Idx, NEW f \in {"U", "W"}, f = "W" \/ x >= ULIM,
         PageLookup(phys, kern_pgdir, <<x, j>>) # NoPte
  PROVE  ~({"U", f} \subseteq PageLookup(phys, kern_pgdir, <<x, j>>).perm \cap phys.mem[kern_pgdir][x].perm)
<1>1. CASE x = UVPT
  <2>1. phys.mem[kern_pgdir][x].perm = {"U"}
    BY <1>1 DEF DirHas
  <2>2. UVPT < ULIM /\ UVPT \in Nat /\ ULIM \in Nat
    BY LayoutAssumption
  <2>3. f = "W"
    BY <1>1, <2>2
  <2> QED
    BY <2>1, <2>3
<1>2. CASE x # UVPT
  <2> DEFINE e == PageLookup(phys, kern_pgdir, <<x, j>>)
  <2>1. e = Looked(Done, x, j)
    BY <1>2, DirLooked
  <2>2. e # NoPte
    OBVIOUS
  <2> HIDE DEF e
  <2>3. e = Entry(Done, x, j)
    BY <2>1, <2>2, Zenon DEF Looked
  <2>4. (e.perm = {"U"} \/ e.perm = {"W"}) /\ (x >= ULIM => e.perm = {"W"})
    <3>1. Entry(Done, x, j) # NoPte
      BY <2>2, <2>3
    <3> QED
      BY <2>3, <3>1, EntryPerm
  <2>5. ~({"U", f} \subseteq e.perm)
    BY <2>4
  <2>6. ~({"U", f} \subseteq e.perm \cap phys.mem[kern_pgdir][x].perm)
    BY <2>5
  <2> QED
    BY <2>6 DEF e
<1> QED
  BY <1>1, <1>2

\* The permissions of every address, as far as boot_map_region has got.
LEMMA PermissionsKept == SetupInv => Permissions
<1> SUFFICES ASSUME SetupInv, kern_pgdir # 0, NEW n \in UENVS * NPT .. NPT * NPT - 1
             PROVE  ~UserMay(n, "W") /\ (n >= ULIM * NPT => ~UserMay(n, "U"))
  BY DEF Permissions
<1>1. pc # "dir"
  BY DEF SetupInv, InDir
<1>2. Machine /\ phys \in Memory /\ DirHas(phys, Done)
  BY <1>1 DEF SetupInv
<1>3. kern_pgdir = KernEnd
  BY <1>1 DEF SetupInv, InArrays, Booted
<1> DEFINE x == n \div NPT
           j == n % NPT
<1>4. NPT \in Nat \ {0} /\ UENVS \in Nat /\ ULIM \in Nat /\ Idx = 0..NPT-1
  BY Layout
<1>5. n \in Nat /\ n < NPT * NPT
  <2> DEFINE a == UENVS * NPT
             b == NPT * NPT
  <2>1. a \in Nat /\ b \in Nat
    BY <1>4
  <2>2. n \in a..b-1
    OBVIOUS
  <2> HIDE DEF a, b
  <2>3. n \in Nat /\ n < b
    BY <2>1, <2>2
  <2> QED
    BY <2>3 DEF b
<1>6. n = x * NPT + j /\ j \in 0..NPT-1 /\ x \in Nat
  BY <1>4, <1>5, RowSplit
<1>7. At(n) = PageLookup(phys, kern_pgdir, <<x, j>>)
  BY Zenon DEF At
<1>8. \A f : UserMay(n, f) <=>
        At(n) # NoPte /\ {"U", f} \subseteq At(n).perm \cap phys.mem[kern_pgdir][x].perm
  BY Zenon DEF UserMay
<1> HIDE DEF x, j
<1>9. x \in Idx /\ j \in Idx
  <2>1. 0 \in 0..NPT-1 /\ NPT * NPT + 0 = NPT * NPT
    BY <1>4
  <2>2. x * NPT + j < NPT * NPT + 0 <=> x < NPT \/ (x = NPT /\ j < 0)
    BY <1>4, <1>6, <2>1, RowOrder
  <2>3. x < NPT \/ (x = NPT /\ j < 0)
    BY <1>5, <1>6, <2>1, <2>2, Zenon
  <2> QED
    BY <1>4, <1>6, <2>3
<1>10. n >= ULIM * NPT => x >= ULIM
  <2>1. 0 \in 0..NPT-1 /\ ULIM * NPT + 0 = ULIM * NPT /\ ULIM * NPT \in Nat
    BY <1>4
  <2>2. x * NPT + j < ULIM * NPT + 0 <=> x < ULIM \/ (x = ULIM /\ j < 0)
    BY <1>4, <1>6, <2>1, RowOrder
  <2>3. x < ULIM => n < ULIM * NPT
    BY <1>6, <2>1, <2>2, Zenon
  <2> DEFINE u == ULIM * NPT
  <2>4. x < ULIM => n < u
    BY <2>3
  <2>5. u \in Nat
    BY <2>1
  <2> HIDE DEF u
  <2>6. n >= u => ~(n < u)
    BY <1>5, <2>5
  <2>7. n >= u => x >= ULIM
    BY <1>4, <1>6, <2>4, <2>6
  <2> QED
    BY <2>7 DEF u
<1>11. \A f \in {"U", "W"} : f = "W" \/ x >= ULIM => ~UserMay(n, f)
  <2> SUFFICES ASSUME NEW f \in {"U", "W"}, f = "W" \/ x >= ULIM, At(n) # NoPte
               PROVE  ~({"U", f} \subseteq At(n).perm \cap phys.mem[kern_pgdir][x].perm)
    BY <1>8
  <2>1. PageLookup(phys, kern_pgdir, <<x, j>>) # NoPte
    BY <1>7
  <2>2. ~({"U", f} \subseteq PageLookup(phys, kern_pgdir, <<x, j>>).perm \cap phys.mem[kern_pgdir][x].perm)
    BY <1>2, <1>3, <1>9, <2>1, UserDenied
  <2> QED
    BY <1>7, <2>2, Zenon
<1> QED
  BY <1>10, <1>11

\* What mem_init hands to the rest of the kernel.
LEMMA HandedOver == SetupInv => HandsOver
<1> SUFFICES ASSUME SetupInv, pc = "done"
             PROVE  /\ \A x \in UIdx : ~HasTable(phys, kern_pgdir, x)
                    /\ TableOf(phys, kern_pgdir, UVPT) = kern_pgdir
                    /\ \A n \in 0..npages-1 : MapsTo(KERNBASE * NPT + n, n)
  BY DEF HandsOver
<1>1. pc \notin Early
  BY DEF Early
<1>2. LaterInv
  BY <1>1, LaterForm
<1>3. Machine /\ phys \in Memory /\ DirHas(phys, Done) /\ kern_pgdir = KernEnd /\ region = 5
  BY <1>2 DEF LaterInv, Booted, LaterPlaces
<1>4. Done = Full
  BY <1>1, <1>3, DoneFull
<1>5. ASSUME NEW x \in UIdx PROVE ~HasTable(phys, kern_pgdir, x)
  <2>1. x \in Idx /\ x # UVPT /\ x \notin {UPAGES, UENVS, KSTACK} \cup KERNBASE..NPT-1
    BY Layout, Places
  <2>2. ~Begun(Full, x)
    BY <2>1, BegunFull
  <2> QED
    BY <1>3, <1>4, <2>1, <2>2, DirLooked
<1>6. TableOf(phys, kern_pgdir, UVPT) = kern_pgdir
  BY <1>3 DEF DirHas, TableOf
<1>7. \A n \in 0..npages-1 : MapsTo(KERNBASE * NPT + n, n)
  <2>1. \A n \in 0..npages-1 : n \in Page
    BY <1>3, MachineNumbers
  <2> QED
    BY <1>3, <1>4, <2>1, BaseMapped
<1> QED
  BY <1>5, <1>6, <1>7

\* From UENVS up the kernel's directory never lets the user write, nor read
\* above ULIM; what mem_init leaves to env_setup_vm maps all memory at
\* KERNBASE, itself at UVPT and no user address.
THEOREM DirectoryGrants == SetupSpec => []DirectoryRight
<1>1. SetupInv => DirectoryRight
  BY PermissionsKept, HandedOver DEF DirectoryRight
<1> QED
  BY <1>1, SetupCorrect, PTL
=============================================================================
