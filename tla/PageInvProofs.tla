--------------------------- MODULE PageInvProofs ---------------------------
(***************************************************************************)
(* Every call of pmap.c keeps the memory Good.                             *)
(***************************************************************************)
EXTENDS PageInv, FiniteSetTheorems, TLAPS

USE UIdxAssumption

----------------------------------------------------------------------------
(* What the sets of PageInv contain.                                       *)

LEMMA PteFacts ==
  /\ \A e \in Pte : e # NoPte <=> e \in Mapping
  /\ \A e \in Mapping : e.pg \in Page /\ e.perm \in Perm
  /\ \A p \in Page, perm \in Perm : [pg |-> p, perm |-> perm] \in Mapping
  /\ NoPte \in Pte
BY NoPteAssumption DEF Pte, Mapping

LEMMA EntryType ==
  ASSUME NEW k \in Memory, NEW t \in Page, NEW i \in Idx
  PROVE  k.mem[t][i] \in Pte
BY DEF Memory, PageContent

LEMMA TablesChar ==
  ASSUME NEW k \in Memory, NEW R \in SUBSET Page, NEW p
  PROVE  p \in TablePages(k, R)
         <=> \E d \in R, x \in UIdx : k.mem[d][x] # NoPte /\ k.mem[d][x].pg = p
BY EntryType, PteFacts DEF TablePages, HasTable, TableOf

LEMMA TablesType ==
  ASSUME NEW k \in Memory, NEW R \in SUBSET Page
  PROVE  TablePages(k, R) \subseteq Page
BY TablesChar, EntryType, PteFacts

LEMMA SlotsChar ==
  ASSUME NEW k \in Memory, NEW R \in SUBSET Page
  PROVE  \A t \in Page, i \in Idx :
           <<t, i>> \in LiveSlots(k, R) <=> (t \in R /\ i \in UIdx) \/ t \in TablePages(k, R)
BY DEF LiveSlots, PdeSlots

LEMMA SlotsType ==
  ASSUME NEW k \in Memory, NEW R \in SUBSET Page, NEW s \in LiveSlots(k, R)
  PROVE  s = <<s[1], s[2]>> /\ s[1] \in Page /\ s[2] \in Idx
BY TablesType DEF LiveSlots, PdeSlots

\* A set of slots is finite, so that pp_ref can count it.
LEMMA RefSlotsFinite ==
  ASSUME NEW k \in Memory, NEW R \in SUBSET Page, NEW p
  PROVE  IsFiniteSet(RefSlots(k, R, p)) /\ Cardinality(RefSlots(k, R, p)) \in Nat
<1>1. IsFiniteSet(Page \X Idx)
  BY FS_Product, FiniteAssumption
<1>2. RefSlots(k, R, p) \subseteq Page \X Idx
  BY SlotsType DEF RefSlots
<1> QED
  BY <1>1, <1>2, FS_Subset, FS_CardinalityType

----------------------------------------------------------------------------
(* How the slots that refer to a page change with an entry.                *)

\* m is k with entry i of page t changed to e.
EntryChanged(k, m, t, i, e) ==
  \A u \in Page, j \in Idx : m.mem[u][j] = IF u = t /\ j = i THEN e ELSE k.mem[u][j]

\* The content of pages that are no tables does not matter.
LEMMA DataWrites ==
  ASSUME NEW k \in Memory, NEW m \in Memory, NEW R \in SUBSET Page, NEW W \in SUBSET Page,
         \A p \in W : p \notin R \cup TablePages(k, R),
         \A t \in Page \ W : m.mem[t] = k.mem[t]
  PROVE  /\ TablePages(m, R) = TablePages(k, R)
         /\ LiveSlots(m, R) = LiveSlots(k, R)
         /\ \A q : RefSlots(m, R, q) = RefSlots(k, R, q)
<1>1. TablePages(m, R) = TablePages(k, R)
  <2>1. \A d \in R : m.mem[d] = k.mem[d]
    OBVIOUS
  <2> QED
    BY <2>1 DEF TablePages, HasTable, TableOf
<1>2. LiveSlots(m, R) = LiveSlots(k, R)
  BY <1>1 DEF LiveSlots
<1>3. ASSUME NEW q PROVE RefSlots(m, R, q) = RefSlots(k, R, q)
  <2>1. \A s \in LiveSlots(k, R) : s[1] \in Page \ W
    <3>1. ASSUME NEW s \in LiveSlots(k, R) PROVE s[1] \notin W
      BY SlotsType, SlotsChar
    <3> QED
      BY <3>1, SlotsType
  <2> QED
    BY <1>2, <2>1 DEF RefSlots, SlotRefers
<1> QED
  BY <1>1, <1>2, <1>3

LEMMA DataWrite ==
  ASSUME NEW k \in Memory, NEW m \in Memory, NEW R \in SUBSET Page, NEW p \in Page,
         p \notin R, p \notin TablePages(k, R),
         \A t \in Page \ {p} : m.mem[t] = k.mem[t]
  PROVE  /\ TablePages(m, R) = TablePages(k, R)
         /\ LiveSlots(m, R) = LiveSlots(k, R)
         /\ \A q : RefSlots(m, R, q) = RefSlots(k, R, q)
<1>1. {p} \in SUBSET Page /\ \A q \in {p} : q \notin R \cup TablePages(k, R)
  OBVIOUS
<1> QED
  BY <1>1, DataWrites

\* An entry of a page table is written.
LEMMA TableWrite ==
  ASSUME NEW k \in Memory, NEW m \in Memory, NEW R \in SUBSET Page,
         NEW t \in TablePages(k, R), t \notin R, NEW i \in Idx, NEW e \in Pte,
         EntryChanged(k, m, t, i, e)
  PROVE  /\ TablePages(m, R) = TablePages(k, R)
         /\ LiveSlots(m, R) = LiveSlots(k, R)
         /\ \A q : e \in Mapping /\ e.pg = q
                   => RefSlots(m, R, q) = RefSlots(k, R, q) \cup {<<t, i>>}
         /\ \A q : ~(e \in Mapping /\ e.pg = q)
                   => RefSlots(m, R, q) = RefSlots(k, R, q) \ {<<t, i>>}
<1>0. t \in Page
  BY TablesType
<1>1. TablePages(m, R) = TablePages(k, R)
  <2>1. \A d \in R, x \in UIdx : m.mem[d][x] = k.mem[d][x]
    BY DEF EntryChanged
  <2> QED
    BY <2>1 DEF TablePages, HasTable, TableOf
<1>2. LiveSlots(m, R) = LiveSlots(k, R)
  BY <1>1 DEF LiveSlots
<1>3. <<t, i>> \in LiveSlots(k, R)
  BY DEF LiveSlots
<1>4. \A u \in Page, j \in Idx : m.mem[u][j] = IF u = t /\ j = i THEN e ELSE k.mem[u][j]
  BY DEF EntryChanged
<1>5. ASSUME NEW q
      PROVE  RefSlots(m, R, q) = IF e \in Mapping /\ e.pg = q
                                 THEN RefSlots(k, R, q) \cup {<<t, i>>}
                                 ELSE RefSlots(k, R, q) \ {<<t, i>>}
  <2>1. ASSUME NEW s \in LiveSlots(k, R)
        PROVE  s \in RefSlots(m, R, q)
               <=> IF s = <<t, i>> THEN e \in Mapping /\ e.pg = q ELSE s \in RefSlots(k, R, q)
    <3>1. s = <<s[1], s[2]>> /\ s[1] \in Page /\ s[2] \in Idx
      BY SlotsType
    <3>2. s = <<t, i>> <=> s[1] = t /\ s[2] = i
      BY <3>1
    <3> QED
      BY <1>2, <1>4, <3>1, <3>2 DEF RefSlots, SlotRefers
  <2> QED
    BY <1>2, <1>3, <2>1 DEF RefSlots
<1>6. \A q : e \in Mapping /\ e.pg = q
             => RefSlots(m, R, q) = RefSlots(k, R, q) \cup {<<t, i>>}
  BY <1>5
<1>7. \A q : ~(e \in Mapping /\ e.pg = q)
             => RefSlots(m, R, q) = RefSlots(k, R, q) \ {<<t, i>>}
  BY <1>5
<1> QED
  BY <1>1, <1>2, <1>6, <1>7

\* A page table is added: the page h is empty and entry x of d gets it.
LEMMA TableAdded ==
  ASSUME NEW k \in Memory, NEW m \in Memory, NEW R \in SUBSET Page,
         NEW d \in R, NEW x \in UIdx, k.mem[d][x] = NoPte,
         NEW h \in Page, h \notin R, h \notin TablePages(k, R), k.mem[h] = ZeroPage,
         NEW perm \in Perm,
         EntryChanged(k, m, d, x, [pg |-> h, perm |-> perm])
  PROVE  /\ TablePages(m, R) = TablePages(k, R) \cup {h}
         /\ RefSlots(m, R, h) = RefSlots(k, R, h) \cup {<<d, x>>}
         /\ \A q : q # h => RefSlots(m, R, q) = RefSlots(k, R, q)
<1>0. k.mem \in [Page -> [Idx -> Pte]] /\ d \in Page /\ x \in Idx
  BY DEF Memory, PageContent
<1> DEFINE e == [pg |-> h, perm |-> perm]
<1>1. e \in Mapping /\ e # NoPte /\ e.pg = h
  BY PteFacts DEF Pte
<1>2. \A u \in Page, j \in Idx : m.mem[u][j] = IF u = d /\ j = x THEN e ELSE k.mem[u][j]
  BY DEF EntryChanged
<1> HIDE DEF e
<1>3. TablePages(m, R) = TablePages(k, R) \cup {h}
  <2>1. ASSUME NEW p PROVE p \in TablePages(m, R) <=> p \in TablePages(k, R) \cup {h}
    <3>2. CASE p = h
      <4>1. m.mem[d][x] = e
        BY <1>0, <1>2
      <4> QED
        BY <1>1, <3>2, <4>1, TablesChar
    <3>3. CASE p # h
      <4>1. ASSUME NEW c \in R, NEW y \in UIdx
            PROVE  m.mem[c][y] # NoPte /\ m.mem[c][y].pg = p
                   <=> k.mem[c][y] # NoPte /\ k.mem[c][y].pg = p
        BY <1>0, <1>1, <1>2, <3>3
      <4>2. p \in TablePages(m, R) <=> p \in TablePages(k, R)
        BY <4>1 DEF TablePages, HasTable, TableOf
      <4> QED
        BY <3>3, <4>2
    <3> QED
      BY <3>2, <3>3
  <2> QED
    BY <2>1
<1>4. ASSUME NEW q
      PROVE  RefSlots(m, R, q) = IF q = h THEN RefSlots(k, R, q) \cup {<<d, x>>}
                                          ELSE RefSlots(k, R, q)
  <2>1. \A j \in Idx : m.mem[h][j] \notin Mapping
    BY <1>0, <1>2, NoPteAssumption DEF ZeroPage
  <2>2. /\ LiveSlots(k, R) \subseteq LiveSlots(m, R)
        /\ \A s \in LiveSlots(m, R) : s \notin LiveSlots(k, R) => s[1] = h
        /\ \A s \in LiveSlots(k, R) : s[1] # h
        /\ <<d, x>> \in LiveSlots(k, R)
    <3>1. LiveSlots(m, R) = LiveSlots(k, R) \cup ({h} \X Idx)
      BY <1>3 DEF LiveSlots
    <3>2. \A s \in LiveSlots(k, R) : s[1] # h
      BY DEF LiveSlots, PdeSlots
    <3> QED
      BY <3>1, <3>2 DEF LiveSlots, PdeSlots
  <2>3. ASSUME NEW s \in LiveSlots(m, R)
        PROVE  s \in RefSlots(m, R, q)
               <=> s \in RefSlots(k, R, q) \/ (q = h /\ s = <<d, x>>)
    <3>1. s = <<s[1], s[2]>> /\ s[1] \in Page /\ s[2] \in Idx
      BY SlotsType
    <3>2. s = <<d, x>> <=> s[1] = d /\ s[2] = x
      BY <3>1
    <3>3. CASE s[1] = h
      BY <1>0, <2>1, <2>2, <3>1, <3>2, <3>3 DEF RefSlots, SlotRefers
    <3>4. CASE s = <<d, x>>
      BY <1>0, <1>1, <1>2, <2>2, <3>1, <3>2, <3>4, NoPteAssumption DEF RefSlots, SlotRefers
    <3>5. CASE s[1] # h /\ s # <<d, x>>
      BY <1>2, <2>2, <3>1, <3>2, <3>5 DEF RefSlots, SlotRefers
    <3> QED
      BY <3>3, <3>4, <3>5
  <2> QED
    BY <2>2, <2>3 DEF RefSlots
<1>5. RefSlots(m, R, h) = RefSlots(k, R, h) \cup {<<d, x>>}
  BY <1>4
<1>6. \A q : q # h => RefSlots(m, R, q) = RefSlots(k, R, q)
  BY <1>4
<1> QED
  BY <1>3, <1>5, <1>6

OnlySlot(k, R, h, d, x) == RefSlots(k, R, h) = {<<d, x>>}

\* The converse: an empty page table is taken out of its directory.
LEMMA TableDropped ==
  ASSUME NEW k \in Memory, NEW m \in Memory, NEW R \in SUBSET Page,
         NEW d \in R, NEW x \in UIdx, HasTable(k, d, x),
         NEW h \in Page, TableOf(k, d, x) = h, h \notin R, k.mem[h] = ZeroPage,
         OnlySlot(k, R, h, d, x),
         EntryChanged(k, m, d, x, NoPte)
  PROVE  /\ TablePages(k, R) = TablePages(m, R) \cup {h}
         /\ h \notin TablePages(m, R)
         /\ \A q : q = h => RefSlots(m, R, q) = {}
         /\ \A q : q # h => RefSlots(m, R, q) = RefSlots(k, R, q)
<1>0. /\ k.mem \in [Page -> [Idx -> Pte]] /\ m.mem \in [Page -> [Idx -> Pte]]
      /\ d \in Page /\ x \in Idx
  BY DEF Memory, PageContent
<1>1. k.mem[d][x] \in Mapping /\ k.mem[d][x].pg = h /\ h \in Page
  BY <1>0, PteFacts DEF HasTable, TableOf
<1>2. PICK perm \in Perm : k.mem[d][x] = [pg |-> h, perm |-> perm]
  BY <1>1 DEF Mapping
<1>3. m.mem[d][x] = NoPte
  BY <1>0 DEF EntryChanged
<1>4. EntryChanged(m, k, d, x, [pg |-> h, perm |-> perm])
  BY <1>0, <1>2 DEF EntryChanged
<1>5. h \notin TablePages(m, R)
  <2>1. SUFFICES ASSUME NEW c \in R, NEW y \in UIdx,
                        m.mem[c][y] # NoPte, m.mem[c][y].pg = h
                 PROVE  FALSE
    BY DEF TablePages, HasTable, TableOf
  <2>2. c # d \/ y # x
    BY <1>3, <2>1
  <2>3. k.mem[c][y] = m.mem[c][y] /\ k.mem[c][y] \in Mapping
    BY <1>0, <2>1, <2>2, PteFacts DEF EntryChanged
  <2>4. <<c, y>> \in RefSlots(k, R, h)
    BY <2>1, <2>3 DEF RefSlots, LiveSlots, PdeSlots, SlotRefers
  <2> QED
    BY <2>2, <2>4 DEF OnlySlot
<1>6. m.mem[h] = ZeroPage
  <2>1. h # d /\ \A j \in Idx : m.mem[h][j] = NoPte
    BY <1>0, <1>1 DEF EntryChanged, ZeroPage
  <2> QED
    BY <1>0, <1>1, <2>1 DEF ZeroPage
<1>7. /\ TablePages(k, R) = TablePages(m, R) \cup {h}
      /\ RefSlots(k, R, h) = RefSlots(m, R, h) \cup {<<d, x>>}
      /\ \A q : q # h => RefSlots(k, R, q) = RefSlots(m, R, q)
  BY <1>1, <1>3, <1>4, <1>5, <1>6, TableAdded
<1>8. <<d, x>> \notin RefSlots(m, R, h)
  BY <1>3, NoPteAssumption DEF RefSlots, SlotRefers
<1> QED
  BY <1>5, <1>7, <1>8 DEF OnlySlot

----------------------------------------------------------------------------
(* The fields after each primitive.                                        *)

LEMMA MemoryParts ==
  ASSUME NEW k \in Memory
  PROVE  /\ k.free \in Seq(Page)
         /\ k.ref \in [Page -> 0..RefMax]
         /\ k.mem \in [Page -> PageContent]
BY DEF Memory

LEMMA MemoryExcept ==
  ASSUME NEW k \in Memory
  PROVE  /\ \A f \in Seq(Page) : LET m == [k EXCEPT !.free = f]
              IN m \in Memory /\ m.free = f /\ m.ref = k.ref /\ m.mem = k.mem
         /\ \A r \in [Page -> 0..RefMax] : LET m == [k EXCEPT !.ref = r]
              IN m \in Memory /\ m.free = k.free /\ m.ref = r /\ m.mem = k.mem
BY DEF Memory

LEMMA AllocFields ==
  ASSUME NEW k \in Memory, ~OutOfMemory(k), NEW zero \in BOOLEAN
  PROVE  /\ Allocated(k) \in Page
         /\ PageAlloc(k, zero) \in Memory
         /\ PageAlloc(k, zero).free = Tail(k.free)
         /\ PageAlloc(k, zero).ref = k.ref
         /\ PageAlloc(k, zero).mem =
              [k.mem EXCEPT ![Allocated(k)] = IF zero THEN ZeroPage ELSE @]
<1>1. Allocated(k) \in Page /\ Tail(k.free) \in Seq(Page)
  BY DEF Memory, OutOfMemory, Allocated
<1>2. ZeroPage \in PageContent
  BY DEF ZeroPage, PageContent, Pte
<1> QED
  BY <1>1, <1>2 DEF Memory, PageAlloc

LEMMA FreeFields ==
  ASSUME NEW k \in Memory, NEW p \in Page
  PROVE  /\ PageFree(k, p) \in Memory
         /\ PageFree(k, p).free = <<p>> \o k.free
         /\ PageFree(k, p).ref = k.ref
         /\ PageFree(k, p).mem = k.mem
<1>1. <<p>> \o k.free \in Seq(Page)
  BY MemoryParts
<1> QED
  BY <1>1, MemoryExcept DEF PageFree

LEMMA IncrefFields ==
  ASSUME NEW k \in Memory, NEW p \in Page
  PROVE  /\ Incref(k, p) \in Memory
         /\ Incref(k, p).free = k.free
         /\ Incref(k, p).ref = [k.ref EXCEPT ![p] = IF @ = RefMax THEN 0 ELSE @ + 1]
         /\ Incref(k, p).mem = k.mem
<1>1. [k.ref EXCEPT ![p] = IF @ = RefMax THEN 0 ELSE @ + 1] \in [Page -> 0..RefMax]
  BY MemoryParts, RefMaxAssumption
<1> QED
  BY <1>1, MemoryExcept, ZenonT(60) DEF Incref

LEMMA DecrementedFields ==
  ASSUME NEW k \in Memory, NEW p \in Page
  PROVE  /\ Decremented(k, p) \in Memory
         /\ Decremented(k, p).free = k.free
         /\ Decremented(k, p).ref = [k.ref EXCEPT ![p] = IF @ = 0 THEN RefMax ELSE @ - 1]
         /\ Decremented(k, p).mem = k.mem
<1>1. [k.ref EXCEPT ![p] = IF @ = 0 THEN RefMax ELSE @ - 1] \in [Page -> 0..RefMax]
  BY MemoryParts, RefMaxAssumption
<1> QED
  BY <1>1, MemoryExcept, ZenonT(60) DEF Decremented

\* page_decref of a page that is referred to.
LEMMA DecrefFields ==
  ASSUME NEW k \in Memory, NEW p \in Page, k.ref[p] \in 1..RefMax
  PROVE  /\ PageDecref(k, p) \in Memory
         /\ k.ref[p] = 1 => PageDecref(k, p).free = <<p>> \o k.free
         /\ k.ref[p] # 1 => PageDecref(k, p).free = k.free
         /\ PageDecref(k, p).mem = k.mem
         /\ PageDecref(k, p).ref = [k.ref EXCEPT ![p] = @ - 1]
<1> DEFINE kd == Decremented(k, p)
<1>1. /\ kd \in Memory /\ kd.free = k.free /\ kd.mem = k.mem
      /\ kd.ref = [k.ref EXCEPT ![p] = IF @ = 0 THEN RefMax ELSE @ - 1]
  BY DecrementedFields
<1>2. k.ref[p] # 0 /\ kd.ref = [k.ref EXCEPT ![p] = @ - 1]
  BY <1>1, RefMaxAssumption, MemoryParts
<1>3. kd.ref[p] = 0 <=> k.ref[p] = 1
  BY <1>2, RefMaxAssumption, MemoryParts
<1>4. PageDecref(k, p) = IF k.ref[p] = 1 THEN PageFree(kd, p) ELSE kd
  BY <1>3 DEF PageDecref
<1> HIDE DEF kd
<1>5. /\ PageFree(kd, p) \in Memory /\ PageFree(kd, p).free = <<p>> \o k.free
      /\ PageFree(kd, p).mem = k.mem /\ PageFree(kd, p).ref = kd.ref
  BY <1>1, FreeFields
<1> QED
  BY <1>1, <1>2, <1>4, <1>5

LEMMA SetEntryFields ==
  ASSUME NEW k \in Memory, NEW t \in Page, NEW i \in Idx, NEW e \in Pte
  PROVE  /\ SetEntry(k, t, i, e) \in Memory
         /\ SetEntry(k, t, i, e).free = k.free
         /\ SetEntry(k, t, i, e).ref = k.ref
         /\ SetEntry(k, t, i, e).mem = [k.mem EXCEPT ![t][i] = e]
BY DEF Memory, SetEntry, PageContent

----------------------------------------------------------------------------
(* The free list: Once says that no page is on it twice.                   *)

Once(k) == \A i, j \in DOMAIN k.free : k.free[i] = k.free[j] => i = j

LEMMA PopFree ==
  ASSUME NEW k \in Memory, NEW m \in Memory, ~OutOfMemory(k), Once(k),
         m.free = Tail(k.free)
  PROVE  /\ Once(m)
         /\ Allocated(k) \in FreePages(k)
         /\ FreePages(m) = FreePages(k) \ {Allocated(k)}
<1>1. k.free \in Seq(Page) /\ k.free # <<>> /\ Len(k.free) \in Nat \ {0}
  BY DEF Memory, OutOfMemory
<1>2. DOMAIN k.free = 1..Len(k.free) /\ DOMAIN m.free = 1..(Len(k.free) - 1)
  BY <1>1
<1>3. \A i \in DOMAIN m.free : m.free[i] = k.free[i + 1] /\ i + 1 \in DOMAIN k.free
  BY <1>1, <1>2
<1>4. Allocated(k) = k.free[1] /\ 1 \in DOMAIN k.free
  BY <1>1, <1>2 DEF Allocated
<1>5. Once(m)
  BY <1>2, <1>3 DEF Once
<1>6. FreePages(m) \subseteq FreePages(k) \ {Allocated(k)}
  BY <1>2, <1>3, <1>4 DEF FreePages, Once
<1>7. FreePages(k) \ {Allocated(k)} \subseteq FreePages(m)
  <2>1. ASSUME NEW i \in DOMAIN k.free, k.free[i] # Allocated(k)
        PROVE  k.free[i] \in FreePages(m)
    <3>1. i - 1 \in DOMAIN m.free /\ (i - 1) + 1 = i
      BY <1>2, <1>4, <2>1
    <3>2. m.free[i - 1] = k.free[i]
      BY <1>3, <3>1
    <3> QED
      BY <3>1, <3>2 DEF FreePages
  <2> QED
    BY <2>1 DEF FreePages
<1> QED
  BY <1>4, <1>5, <1>6, <1>7 DEF FreePages

LEMMA PushFree ==
  ASSUME NEW k \in Memory, NEW m \in Memory, NEW p \in Page, Once(k),
         p \notin FreePages(k), m.free = <<p>> \o k.free
  PROVE  Once(m) /\ FreePages(m) = FreePages(k) \cup {p}
<1>1. k.free \in Seq(Page) /\ Len(k.free) \in Nat
  BY DEF Memory
<1>2. DOMAIN k.free = 1..Len(k.free) /\ DOMAIN m.free = 1..(Len(k.free) + 1)
  BY <1>1
<1>3. m.free[1] = p /\ \A i \in DOMAIN k.free : m.free[i + 1] = k.free[i]
  BY <1>1, <1>2
<1>4. \A i \in DOMAIN m.free : i = 1 \/ (i - 1 \in DOMAIN k.free /\ m.free[i] = k.free[i - 1])
  BY <1>1, <1>2
<1>5. Once(m)
  BY <1>1, <1>2, <1>3, <1>4 DEF Once, FreePages
<1>6. FreePages(m) \subseteq FreePages(k) \cup {p}
  BY <1>3, <1>4 DEF FreePages
<1>7. FreePages(k) \cup {p} \subseteq FreePages(m)
  <2>1. \A i \in DOMAIN k.free : i + 1 \in DOMAIN m.free /\ 1 \in DOMAIN m.free
    BY <1>1, <1>2
  <2>2. 1 \in DOMAIN m.free
    BY <1>1, <1>2
  <2>3. ASSUME NEW i \in DOMAIN k.free PROVE k.free[i] \in FreePages(m)
    <3>1. i + 1 \in DOMAIN m.free /\ m.free[i + 1] = k.free[i]
      BY <1>3, <2>1
    <3> QED
      BY <3>1 DEF FreePages
  <2> QED
    BY <1>3, <2>2, <2>3 DEF FreePages
<1> QED
  BY <1>5, <1>6, <1>7

----------------------------------------------------------------------------
(* What Good says of the pages in each role.                               *)

LEMMA GoodParts ==
  ASSUME NEW k, NEW R, NEW held, Good(k, R, held)
  PROVE  /\ k \in Memory /\ R \in SUBSET Page /\ held \in SUBSET Page
         /\ k.ref \in [Page -> 0..RefMax] /\ k.mem \in [Page -> PageContent]
         /\ Once(k)
         /\ \A p \in Page : p \in FreePages(k) <=> k.ref[p] = 0 /\ p \notin R \cup held
         /\ \A p \in Page \ R : k.ref[p] = Cardinality(RefSlots(k, R, p))
         /\ \A d \in R, x \in UIdx :
              HasTable(k, d, x) => RefSlots(k, R, TableOf(k, d, x)) = {<<d, x>>}
         /\ \A d \in R : RefSlots(k, R, d) = {}
         /\ \A p \in held : k.ref[p] = 0 /\ p \notin R
<1>1. /\ k \in Memory /\ R \in SUBSET Page /\ held \in SUBSET Page
      /\ FreeSound(k, R, held) /\ RefExact(k, R) /\ TablesSound(k, R) /\ HeldSound(k, R, held)
  BY DEF Good
<1>2. \A d \in R, x \in UIdx :
        HasTable(k, d, x) => RefSlots(k, R, TableOf(k, d, x)) = {<<d, x>>}
  <2>1. ASSUME NEW d \in R, NEW x \in UIdx
        PROVE  HasTable(k, d, x) => RefSlots(k, R, TableOf(k, d, x)) = {<<d, x>>}
    <3>1. <<d, x>> \in PdeSlots(R)
      BY DEF PdeSlots
    <3> QED
      BY <1>1, <3>1 DEF TablesSound
  <2> QED
    BY <2>1
<1> QED
  BY <1>1, <1>2, MemoryParts DEF FreeSound, RefExact, TablesSound, HeldSound, Once

LEMMA GoodWhole ==
  ASSUME NEW k \in Memory, NEW R \in SUBSET Page, NEW held \in SUBSET Page,
         Once(k),
         \A p \in Page : p \in FreePages(k) <=> k.ref[p] = 0 /\ p \notin R \cup held,
         \A p \in Page \ R : k.ref[p] = Cardinality(RefSlots(k, R, p)),
         \A d \in R, x \in UIdx :
            HasTable(k, d, x) => RefSlots(k, R, TableOf(k, d, x)) = {<<d, x>>},
         \A d \in R : RefSlots(k, R, d) = {},
         \A p \in held : k.ref[p] = 0 /\ p \notin R
  PROVE  Good(k, R, held)
<1>1. ASSUME NEW s \in PdeSlots(R), HasTable(k, s[1], s[2])
      PROVE  RefSlots(k, R, TableOf(k, s[1], s[2])) = {s}
  BY <1>1 DEF PdeSlots
<1> QED
  BY <1>1 DEF Good, FreeSound, RefExact, TablesSound, HeldSound, Once

\* A page table has one reference; it is no directory, not free, not held.
LEMMA TableRole ==
  ASSUME NEW k, NEW R, NEW held, Good(k, R, held), NEW t \in TablePages(k, R)
  PROVE  /\ t \in Page /\ t \notin R \cup held \cup FreePages(k)
         /\ k.ref[t] = 1
         /\ \E d \in R, x \in UIdx :
              HasTable(k, d, x) /\ TableOf(k, d, x) = t /\ RefSlots(k, R, t) = {<<d, x>>}
<1>1. PICK d \in R, x \in UIdx : HasTable(k, d, x) /\ TableOf(k, d, x) = t
  BY DEF TablePages
<1>2. t \in Page /\ RefSlots(k, R, t) = {<<d, x>>}
  BY <1>1, GoodParts DEF TablePages
<1>3. t \notin R
  <2>1. RefSlots(k, R, t) # {}
    BY <1>2
  <2> QED
    BY <2>1, GoodParts
<1>4. k.ref[t] = 1
  <2>1. \A q \in Page \ R : k.ref[q] = Cardinality(RefSlots(k, R, q))
    BY GoodParts
  <2> QED
    BY <1>2, <1>3, <2>1, FS_Singleton
<1> QED
  BY <1>1, <1>2, <1>3, <1>4, GoodParts

\* A page that an entry of a page table refers to is a data page in use.
LEMMA MappedRole ==
  ASSUME NEW k, NEW R, NEW held, Good(k, R, held),
         NEW t \in TablePages(k, R), NEW i \in Idx, NEW p,
         k.mem[t][i] \in Mapping, k.mem[t][i].pg = p
  PROVE  /\ p \in Page /\ p \notin R \cup TablePages(k, R) \cup held \cup FreePages(k)
         /\ k.ref[p] \in 1..RefMax
         /\ <<t, i>> \in RefSlots(k, R, p)
<1>1. p \in Page
  BY PteFacts
<1>2. <<t, i>> \in RefSlots(k, R, p)
  BY DEF RefSlots, LiveSlots, SlotRefers
<1>3. t \notin R
  BY TableRole
<1>4. p \notin R
  BY <1>2, GoodParts
<1>5. p \notin TablePages(k, R)
  <2>1. SUFFICES ASSUME p \in TablePages(k, R) PROVE FALSE
    OBVIOUS
  <2>2. PICK d \in R, x \in UIdx : RefSlots(k, R, p) = {<<d, x>>}
    BY <2>1, TableRole
  <2> QED
    BY <1>2, <1>3, <2>2
<1>6. k.ref[p] # 0
  BY <1>1, <1>2, <1>4, GoodParts, RefSlotsFinite, FS_EmptySet
<1>7. k.ref[p] \in 0..RefMax
  BY <1>1, GoodParts
<1> QED
  BY <1>1, <1>2, <1>4, <1>5, <1>6, <1>7, GoodParts, RefMaxAssumption

LEMMA EntryRole ==
  ASSUME NEW k, NEW R, NEW held, Good(k, R, held),
         NEW t \in TablePages(k, R), NEW i \in Idx, k.mem[t][i] # NoPte
  PROVE  /\ k.mem[t][i].pg \in Page
         /\ k.mem[t][i].pg \notin R \cup TablePages(k, R) \cup held \cup FreePages(k)
<1>1. k \in Memory /\ t \in Page
  BY GoodParts, TableRole
<1>2. k.mem[t][i] \in Mapping
  BY <1>1, EntryType, PteFacts
<1> SUFFICES ASSUME NEW p, k.mem[t][i].pg = p
             PROVE  p \in Page /\ p \notin R \cup TablePages(k, R) \cup held \cup FreePages(k)
  OBVIOUS
<1>3. /\ p \in Page /\ p \notin R \cup TablePages(k, R) \cup held \cup FreePages(k)
      /\ k.ref[p] \in 1..RefMax
      /\ <<t, i>> \in RefSlots(k, R, p)
  BY <1>2, MappedRole
<1> QED
  BY <1>3

LEMMA MappedPagesRole ==
  ASSUME NEW k, NEW R, NEW held, Good(k, R, held), NEW p \in MappedPages(k, R)
  PROVE  /\ p \in Page /\ p \notin R \cup TablePages(k, R) \cup held \cup FreePages(k)
         /\ k.ref[p] \in 1..RefMax
<1>1. PICK s \in TablePages(k, R) \X Idx : SlotRefers(k, s, p)
  BY DEF MappedPages
<1>2. PICK t \in TablePages(k, R), i \in Idx : s = <<t, i>>
  BY <1>1
<1> QED
  BY <1>1, <1>2, MappedRole DEF SlotRefers

LEMMA HeldRole ==
  ASSUME NEW k, NEW R, NEW held, Good(k, R, held), NEW p \in held
  PROVE  /\ p \in Page /\ p \notin R \cup TablePages(k, R) \cup FreePages(k)
         /\ k.ref[p] = 0 /\ RefSlots(k, R, p) = {}
<1>1. p \in Page /\ p \notin R /\ k.ref[p] = 0
  BY GoodParts
<1>2. RefSlots(k, R, p) = {}
  BY <1>1, GoodParts, RefSlotsFinite, FS_EmptySet
<1> QED
  BY <1>1, <1>2, GoodParts, TableRole

----------------------------------------------------------------------------
(* The calls, one by one.                                                  *)

\* page_alloc: the page at the head of the list is held now.
LEMMA GoodAlloc ==
  ASSUME NEW k, NEW R, NEW held, Good(k, R, held), ~OutOfMemory(k), NEW zero \in BOOLEAN
  PROVE  /\ Good(PageAlloc(k, zero), R, held \cup {Allocated(k)})
         /\ Allocated(k) \in Page \ held
         /\ TablePages(PageAlloc(k, zero), R) = TablePages(k, R)
         /\ \A t \in Page \ {Allocated(k)} : PageAlloc(k, zero).mem[t] = k.mem[t]
         /\ Allocated(k) \notin R \cup TablePages(k, R)
<1> DEFINE m == PageAlloc(k, zero)
           h == Allocated(k)
<1>1. k \in Memory /\ R \in SUBSET Page /\ held \in SUBSET Page /\ k.mem \in [Page -> PageContent]
  BY GoodParts
<1>2. /\ h \in Page /\ m \in Memory
      /\ m.free = Tail(k.free) /\ m.ref = k.ref
      /\ \A t \in Page \ {h} : m.mem[t] = k.mem[t]
  BY <1>1, AllocFields, ZenonT(60)
<1> HIDE DEF m, h
<1>3. Once(m) /\ h \in FreePages(k) /\ FreePages(m) = FreePages(k) \ {h}
  BY <1>1, <1>2, GoodParts, PopFree DEF h
<1>4. k.ref[h] = 0 /\ h \notin R \cup held
  BY <1>2, <1>3, GoodParts
<1>5. h \notin TablePages(k, R)
  BY <1>3, TableRole
<1>6. TablePages(m, R) = TablePages(k, R) /\ \A q : RefSlots(m, R, q) = RefSlots(k, R, q)
  BY <1>1, <1>2, <1>4, <1>5, DataWrite
<1>7. Good(m, R, held \cup {h})
  <2>1. \A p \in Page : p \in FreePages(m) <=> m.ref[p] = 0 /\ p \notin R \cup (held \cup {h})
    BY <1>2, <1>3, GoodParts
  <2>2. \A p \in Page \ R : m.ref[p] = Cardinality(RefSlots(m, R, p))
    BY <1>2, <1>6, GoodParts
  <2>3. \A d \in R, x \in UIdx :
          HasTable(m, d, x) => RefSlots(m, R, TableOf(m, d, x)) = {<<d, x>>}
    <3>1. \A d \in R : m.mem[d] = k.mem[d]
      BY <1>1, <1>2, <1>4
    <3> QED
      BY <1>6, <3>1, GoodParts DEF HasTable, TableOf
  <2>4. \A d \in R : RefSlots(m, R, d) = {}
    BY <1>6, GoodParts
  <2>5. \A p \in held \cup {h} : m.ref[p] = 0 /\ p \notin R
    BY <1>2, <1>4, GoodParts
  <2> QED
    BY <1>1, <1>2, <1>3, <2>1, <2>2, <2>3, <2>4, <2>5, GoodWhole
<1> QED
  BY <1>2, <1>4, <1>5, <1>6, <1>7 DEF m, h

\* page_free of a held page.
LEMMA GoodFree ==
  ASSUME NEW k, NEW R, NEW held, Good(k, R, held), NEW p \in held
  PROVE  Good(PageFree(k, p), R, held \ {p})
<1> DEFINE m == PageFree(k, p)
<1>1. /\ k \in Memory /\ R \in SUBSET Page /\ held \in SUBSET Page
      /\ p \in Page /\ p \notin FreePages(k) /\ p \notin R /\ k.ref[p] = 0
  BY GoodParts, HeldRole
<1>2. m \in Memory /\ m.free = <<p>> \o k.free /\ m.ref = k.ref /\ m.mem = k.mem
  BY <1>1, FreeFields
<1> HIDE DEF m
<1>3. Once(m) /\ FreePages(m) = FreePages(k) \cup {p}
  BY <1>1, <1>2, GoodParts, PushFree
<1>4. \A q : RefSlots(m, R, q) = RefSlots(k, R, q)
  BY <1>2 DEF RefSlots, LiveSlots, TablePages, HasTable, TableOf, SlotRefers
<1>5. \A q \in Page : q \in FreePages(m) <=> m.ref[q] = 0 /\ q \notin R \cup (held \ {p})
  BY <1>1, <1>2, <1>3, GoodParts
<1>6. \A q \in Page \ R : m.ref[q] = Cardinality(RefSlots(m, R, q))
  BY <1>2, <1>4, GoodParts
<1>7. \A d \in R, x \in UIdx :
        HasTable(m, d, x) => RefSlots(m, R, TableOf(m, d, x)) = {<<d, x>>}
  BY <1>2, <1>4, GoodParts DEF HasTable, TableOf
<1>8. \A d \in R : RefSlots(m, R, d) = {}
  BY <1>4, GoodParts
<1>9. Good(m, R, held \ {p})
  BY <1>1, <1>2, <1>3, <1>5, <1>6, <1>7, <1>8, GoodParts, GoodWhole
<1> QED
  BY <1>9 DEF m

\* Pages that are mapped or held are written: no table changes.
LEMMA GoodWrites ==
  ASSUME NEW k, NEW R, NEW held, Good(k, R, held),
         NEW W \in SUBSET (held \cup MappedPages(k, R)),
         NEW m \in Memory, m.free = k.free, m.ref = k.ref,
         \A t \in Page \ W : m.mem[t] = k.mem[t]
  PROVE  /\ Good(m, R, held)
         /\ \A t \in R \cup TablePages(k, R) : m.mem[t] = k.mem[t]
         /\ TablePages(m, R) = TablePages(k, R)
<1>1. k \in Memory /\ R \in SUBSET Page /\ held \in SUBSET Page /\ k.mem \in [Page -> PageContent]
  BY GoodParts
<1>2. W \in SUBSET Page /\ \A p \in W : p \notin R \cup TablePages(k, R)
  BY HeldRole, MappedPagesRole
<1>3. TablePages(m, R) = TablePages(k, R) /\ \A q : RefSlots(m, R, q) = RefSlots(k, R, q)
  BY <1>1, <1>2, DataWrites
<1>4. Once(m) /\ FreePages(m) = FreePages(k)
  BY GoodParts DEF Once, FreePages
<1>5. \A q \in Page : q \in FreePages(m) <=> m.ref[q] = 0 /\ q \notin R \cup held
  BY <1>4, GoodParts
<1>6. \A q \in Page \ R : m.ref[q] = Cardinality(RefSlots(m, R, q))
  BY <1>3, GoodParts
<1>7. \A t \in R \cup TablePages(k, R) : m.mem[t] = k.mem[t]
  BY <1>1, <1>2, TablesType
<1>8. \A d \in R, x \in UIdx :
        HasTable(m, d, x) => RefSlots(m, R, TableOf(m, d, x)) = {<<d, x>>}
  BY <1>3, <1>7, GoodParts DEF HasTable, TableOf
<1>9. \A d \in R : RefSlots(m, R, d) = {}
  BY <1>3, GoodParts
<1>10. Good(m, R, held)
  BY <1>1, <1>4, <1>5, <1>6, <1>8, <1>9, GoodParts, GoodWhole
<1> QED
  BY <1>3, <1>7, <1>10

\* A program writes a page that is mapped or held.
LEMMA GoodScribble ==
  ASSUME NEW k, NEW R, NEW held, Good(k, R, held),
         NEW p \in held \cup MappedPages(k, R), NEW c \in PageContent
  PROVE  /\ Good([k EXCEPT !.mem[p] = c], R, held)
         /\ \A t \in R \cup TablePages(k, R) : [k EXCEPT !.mem[p] = c].mem[t] = k.mem[t]
         /\ TablePages([k EXCEPT !.mem[p] = c], R) = TablePages(k, R)
<1> DEFINE m == [k EXCEPT !.mem[p] = c]
<1>1. k \in Memory /\ p \in Page
  BY GoodParts, HeldRole, MappedPagesRole
<1>2. /\ m \in Memory /\ m.free = k.free /\ m.ref = k.ref
      /\ \A t \in Page \ {p} : m.mem[t] = k.mem[t]
  BY <1>1 DEF Memory
<1>3. {p} \in SUBSET (held \cup MappedPages(k, R))
  OBVIOUS
<1> HIDE DEF m
<1>4. /\ Good(m, R, held)
      /\ \A t \in R \cup TablePages(k, R) : m.mem[t] = k.mem[t]
      /\ TablePages(m, R) = TablePages(k, R)
  BY <1>2, <1>3, GoodWrites
<1> QED
  BY <1>4 DEF m

\* pgdir_walk makes a zeroed page it holds a page table.
LEMMA GoodAdopt ==
  ASSUME NEW k, NEW R, NEW held, Good(k, R, held),
         NEW d \in R, NEW x \in UIdx, ~HasTable(k, d, x),
         NEW h \in held, k.mem[h] = ZeroPage,
         NEW m, m = SetEntry(Incref(k, h), d, x, [pg |-> h, perm |-> TablePerm])
  PROVE  /\ Good(m, R, held \ {h})
         /\ EntryChanged(k, m, d, x, [pg |-> h, perm |-> TablePerm])
         /\ TablePages(m, R) = TablePages(k, R) \cup {h}
         /\ \A t \in Page \ {d} : m.mem[t] = k.mem[t]
         /\ \A q \in Page \ {h} : m.ref[q] = k.ref[q]
<1> DEFINE e == [pg |-> h, perm |-> TablePerm]
<1>1. /\ k \in Memory /\ R \in SUBSET Page /\ held \in SUBSET Page /\ d \in Page /\ x \in Idx
      /\ k.ref \in [Page -> 0..RefMax] /\ k.mem \in [Page -> PageContent]
      /\ h \in Page /\ h \notin R \cup TablePages(k, R) \cup FreePages(k)
      /\ k.ref[h] = 0 /\ RefSlots(k, R, h) = {}
  BY GoodParts, HeldRole
<1>2. e \in Mapping /\ e \in Pte /\ e.pg = h
  BY <1>1, PteFacts, PermAssumption DEF Pte
<1>3. /\ m \in Memory /\ m.free = k.free /\ m.mem = [k.mem EXCEPT ![d][x] = e]
      /\ m.ref = [k.ref EXCEPT ![h] = 1]
  BY <1>1, <1>2, IncrefFields, SetEntryFields, RefMaxAssumption
<1>4. EntryChanged(k, m, d, x, e)
  BY <1>1, <1>3 DEF EntryChanged, PageContent
<1>5. /\ RefSlots(m, R, h) = {<<d, x>>}
      /\ \A q : q # h => RefSlots(m, R, q) = RefSlots(k, R, q)
      /\ TablePages(m, R) = TablePages(k, R) \cup {h}
  <2>1. k.mem[d][x] = NoPte
    BY DEF HasTable
  <2> QED
    BY <1>1, <1>3, <1>4, <2>1, TableAdded, PermAssumption
<1>6. Once(m) /\ FreePages(m) = FreePages(k)
  BY <1>3, GoodParts DEF Once, FreePages
<1>7. \A q \in Page : m.ref[q] = IF q = h THEN 1 ELSE k.ref[q]
  BY <1>1, <1>3
<1>8. \A q \in Page : q \in FreePages(m) <=> m.ref[q] = 0 /\ q \notin R \cup (held \ {h})
  BY <1>1, <1>6, <1>7, GoodParts
<1>9. \A q \in Page \ R : m.ref[q] = Cardinality(RefSlots(m, R, q))
  <2>1. \A q \in Page \ R : k.ref[q] = Cardinality(RefSlots(k, R, q))
    BY GoodParts
  <2>2. Cardinality({<<d, x>>}) = 1
    BY FS_Singleton
  <2> QED
    BY <1>5, <1>7, <2>1, <2>2
<1>10. ASSUME NEW c \in R, NEW y \in UIdx, HasTable(m, c, y)
       PROVE  RefSlots(m, R, TableOf(m, c, y)) = {<<c, y>>}
  <2>1. CASE c = d /\ y = x
    <3>1. TableOf(m, c, y) = h
      BY <1>1, <1>2, <1>4, <2>1 DEF EntryChanged, TableOf
    <3> QED
      BY <1>5, <2>1, <3>1
  <2>2. CASE ~(c = d /\ y = x)
    <3>1. m.mem[c][y] = k.mem[c][y]
      BY <1>1, <1>4, <2>2 DEF EntryChanged
    <3>2. HasTable(k, c, y) /\ TableOf(m, c, y) = TableOf(k, c, y)
      BY <1>10, <3>1 DEF HasTable, TableOf
    <3>3. TableOf(k, c, y) # h
      BY <1>1, <3>2 DEF TablePages
    <3> QED
      BY <1>5, <3>2, <3>3, GoodParts
  <2> QED
    BY <2>1, <2>2
<1>11. \A c \in R : RefSlots(m, R, c) = {}
  BY <1>1, <1>5, GoodParts
<1>12. \A q \in held \ {h} : m.ref[q] = 0 /\ q \notin R
  BY <1>1, <1>7, GoodParts
<1>13. Good(m, R, held \ {h})
  BY <1>1, <1>3, <1>6, <1>8, <1>9, <1>10, <1>11, <1>12, GoodWhole
<1>14. \A u \in Page \ {d} : m.mem[u] = k.mem[u]
  BY <1>1, <1>3
<1> QED
  BY <1>4, <1>5, <1>7, <1>13, <1>14

\* No address of a directory in R is translated differently.
SameLookup(k, m, R) ==
  \A c \in R, v \in VA : PageLookup(m, c, v) = PageLookup(k, c, v)

\* m keeps the page tables of k and the counts of the pages that are in use.
Extends(k, m, R) ==
  /\ TablePages(k, R) \subseteq TablePages(m, R)
  /\ \A t \in TablePages(k, R) : m.mem[t] = k.mem[t]
  /\ \A q \in Page \ FreePages(k) : m.ref[q] = k.ref[q]

\* pgdir_walk with create, successful or not.
LEMMA GoodWalk ==
  ASSUME NEW k, NEW R, NEW held, Good(k, R, held),
         NEW d \in R, NEW x \in UIdx
  PROVE  /\ Good(Walk(k, d, x), R, held)
         /\ ~WalkFails(k, d, x) => HasTable(Walk(k, d, x), d, x)
         /\ SameLookup(k, Walk(k, d, x), R)
         /\ Extends(k, Walk(k, d, x), R)
<1>1. CASE HasTable(k, d, x) \/ OutOfMemory(k)
  BY <1>1 DEF Walk, WalkFails, SameLookup, Extends
<1>2. CASE ~(HasTable(k, d, x) \/ OutOfMemory(k))
  <2> DEFINE h == Allocated(k)
             ka == PageAlloc(k, TRUE)
             m == Walk(k, d, x)
             e == [pg |-> h, perm |-> TablePerm]
  <2>0. k \in Memory /\ k.mem \in [Page -> PageContent] /\ R \in SUBSET Page
    BY GoodParts
  <2>1. /\ Good(ka, R, held \cup {h}) /\ h \in Page \ held
        /\ \A t \in Page \ {h} : ka.mem[t] = k.mem[t]
        /\ h \notin R \cup TablePages(k, R)
        /\ TablePages(ka, R) = TablePages(k, R)
    BY <1>2, GoodAlloc
  <2>2. ka.mem[h] = ZeroPage /\ ka.ref = k.ref /\ h \in FreePages(k)
    <3>1. ka.mem = [k.mem EXCEPT ![h] = ZeroPage] /\ ka.ref = k.ref
      BY <1>2, <2>0, AllocFields
    <3>2. h \in FreePages(k)
      BY <1>2, <2>0, GoodParts DEF Memory, OutOfMemory, Allocated, FreePages
    <3> QED
      BY <2>0, <2>1, <3>1, <3>2
  <2>3. m = SetEntry(Incref(ka, h), d, x, e)
    BY <1>2 DEF Walk
  <2>4. R \in SUBSET Page /\ d \in Page /\ x \in Idx /\ e \in Mapping /\ e.pg = h
    BY <2>0, <2>1, PteFacts, PermAssumption
  <2> HIDE DEF h, ka, m
  <2>5. ~HasTable(ka, d, x)
    BY <1>2, <2>1, <2>4 DEF HasTable
  <2>6. /\ Good(m, R, (held \cup {h}) \ {h})
        /\ EntryChanged(ka, m, d, x, e)
        /\ TablePages(m, R) = TablePages(ka, R) \cup {h}
        /\ \A t \in Page \ {d} : m.mem[t] = ka.mem[t]
        /\ \A q \in Page \ {h} : m.ref[q] = ka.ref[q]
    BY <2>1, <2>2, <2>3, <2>5, GoodAdopt
  <2> HIDE DEF e
  <2>7. (held \cup {h}) \ {h} = held
    BY <2>1
  <2>8. m.mem[d][x] = e /\ HasTable(m, d, x) /\ TableOf(m, d, x) = h
    <3>1. m.mem[d][x] = e
      BY <2>4, <2>6 DEF EntryChanged
    <3> QED
      BY <2>4, <3>1, NoPteAssumption DEF HasTable, TableOf
  <2>9. \A t \in TablePages(k, R) : m.mem[t] = k.mem[t]
    <3>1. \A t \in TablePages(k, R) : t \in Page /\ t # d /\ t # h
      BY <2>1, TableRole
    <3> QED
      BY <2>1, <2>6, <3>1
  <2>10. Extends(k, m, R)
    BY <2>1, <2>2, <2>6, <2>9 DEF Extends
  <2>11. ASSUME NEW c \in R, NEW v \in VA
         PROVE  PageLookup(m, c, v) = PageLookup(k, c, v)
    <3>1. v[1] \in UIdx /\ v[2] \in Idx /\ v[1] \in Idx /\ c \in Page
      BY <2>0 DEF VA
    <3>2. CASE c = d /\ v[1] = x
      <4>1. m.mem[h] = ZeroPage
        BY <2>1, <2>2, <2>6
      <4>2. PageLookup(m, c, v) = m.mem[h][v[2]]
        BY <2>8, <3>2 DEF PageLookup
      <4> QED
        BY <1>2, <3>1, <3>2, <4>1, <4>2 DEF PageLookup, ZeroPage
    <3>3. CASE ~(c = d /\ v[1] = x)
      <4>1. m.mem[c][v[1]] = k.mem[c][v[1]]
        BY <2>1, <2>6, <3>1, <3>3 DEF EntryChanged
      <4>2. CASE HasTable(k, c, v[1])
        <5>1. TableOf(k, c, v[1]) \in TablePages(k, R)
          BY <2>0, <3>1, <4>2, EntryType, PteFacts DEF TablePages, TableOf, HasTable
        <5> QED
          BY <2>9, <4>1, <4>2, <5>1 DEF PageLookup, HasTable, TableOf
      <4>3. CASE ~HasTable(k, c, v[1])
        BY <4>1, <4>3 DEF PageLookup, HasTable
      <4> QED
        BY <4>2, <4>3
    <3> QED
      BY <3>2, <3>3
  <2> QED
    BY <2>6, <2>7, <2>8, <2>10, <2>11 DEF m, SameLookup
<1> QED
  BY <1>1, <1>2

MappedTo(k, t, i, p, perm) == SetEntry(Incref(k, p), t, i, [pg |-> p, perm |-> perm])

PageAt(k, t, i) == k.mem[t][i].pg

Unmapped(k, t, i) == SetEntry(PageDecref(k, PageAt(k, t, i)), t, i, NoPte)

\* page_insert where nothing is mapped: one more entry, one more reference.
LEMMA GoodMap ==
  ASSUME NEW k, NEW R, NEW held, Good(k, R, held),
         NEW t \in TablePages(k, R), NEW i \in Idx, k.mem[t][i] = NoPte,
         NEW p \in Page, p \notin R \cup TablePages(k, R) \cup FreePages(k),
         k.ref[p] < RefMax, NEW perm \in Perm
  PROVE  /\ Good(MappedTo(k, t, i, p, perm), R, held \ {p})
         /\ MappedTo(k, t, i, p, perm).mem =
              [k.mem EXCEPT ![t][i] = [pg |-> p, perm |-> perm]]
<1> SUFFICES ASSUME NEW m, m = SetEntry(Incref(k, p), t, i, [pg |-> p, perm |-> perm])
             PROVE  /\ Good(m, R, held \ {p})
                    /\ m.mem = [k.mem EXCEPT ![t][i] = [pg |-> p, perm |-> perm]]
  BY DEF MappedTo
<1> DEFINE e == [pg |-> p, perm |-> perm]
<1>1. /\ k \in Memory /\ R \in SUBSET Page /\ held \in SUBSET Page
      /\ k.ref \in [Page -> 0..RefMax] /\ k.mem \in [Page -> PageContent]
      /\ t \in Page /\ t \notin R
  BY GoodParts, TableRole
<1>2. e \in Mapping /\ e \in Pte /\ e.pg = p
  BY PteFacts DEF Pte
<1>3. /\ m \in Memory /\ m.free = k.free /\ m.mem = [k.mem EXCEPT ![t][i] = e]
      /\ m.ref = [k.ref EXCEPT ![p] = @ + 1]
  <2>1. /\ Incref(k, p) \in Memory /\ Incref(k, p).free = k.free /\ Incref(k, p).mem = k.mem
        /\ Incref(k, p).ref = [k.ref EXCEPT ![p] = IF @ = RefMax THEN 0 ELSE @ + 1]
    BY <1>1, IncrefFields
  <2>2. k.ref[p] # RefMax
    BY <1>1, RefMaxAssumption
  <2>3. Incref(k, p).ref = [k.ref EXCEPT ![p] = @ + 1]
    BY <2>1, <2>2
  <2> HIDE DEF e
  <2> QED
    BY <1>1, <1>2, <2>1, <2>3, SetEntryFields DEF e
<1> HIDE DEF e
<1>4. EntryChanged(k, m, t, i, e)
  BY <1>1, <1>3 DEF EntryChanged, PageContent
<1>5. /\ RefSlots(m, R, p) = RefSlots(k, R, p) \cup {<<t, i>>}
      /\ \A q : q # p => RefSlots(m, R, q) = RefSlots(k, R, q) \ {<<t, i>>}
  BY <1>1, <1>2, <1>3, <1>4, TableWrite
<1>6. \A q : <<t, i>> \notin RefSlots(k, R, q)
  BY NoPteAssumption DEF RefSlots, SlotRefers
<1>7. ASSUME NEW q, q # p PROVE RefSlots(m, R, q) = RefSlots(k, R, q)
  <2>1. RefSlots(m, R, q) = RefSlots(k, R, q) \ {<<t, i>>}
    BY <1>5, <1>7
  <2> QED
    BY <1>6, <2>1
<1>8. Once(m) /\ FreePages(m) = FreePages(k)
  BY <1>3, GoodParts DEF Once, FreePages
<1>9. \A q \in Page : m.ref[q] = IF q = p THEN k.ref[q] + 1 ELSE k.ref[q]
  BY <1>1, <1>3
<1>10. \A q \in Page : q \in FreePages(m) <=> m.ref[q] = 0 /\ q \notin R \cup (held \ {p})
  <2>1. \A q \in Page : q \in FreePages(k) <=> k.ref[q] = 0 /\ q \notin R \cup held
    BY GoodParts
  <2>2. k.ref[p] + 1 # 0
    BY <1>1
  <2> QED
    BY <1>8, <1>9, <2>1, <2>2
<1>11. \A q \in Page \ R : m.ref[q] = Cardinality(RefSlots(m, R, q))
  <2>1. \A q \in Page \ R : k.ref[q] = Cardinality(RefSlots(k, R, q))
    BY GoodParts
  <2>2. Cardinality(RefSlots(k, R, p) \cup {<<t, i>>}) = Cardinality(RefSlots(k, R, p)) + 1
    BY <1>1, <1>6, RefSlotsFinite, FS_AddElement
  <2> QED
    BY <1>5, <1>7, <1>9, <2>1, <2>2
<1>12. ASSUME NEW d \in R, NEW x \in UIdx, HasTable(m, d, x)
       PROVE  RefSlots(m, R, TableOf(m, d, x)) = {<<d, x>>}
  <2>1. m.mem[d][x] = k.mem[d][x] /\ d \in Page /\ x \in Idx
    BY <1>1, <1>4 DEF EntryChanged
  <2>2. HasTable(k, d, x) /\ TableOf(m, d, x) = TableOf(k, d, x)
    BY <1>12, <2>1 DEF HasTable, TableOf
  <2>3. k.mem[d][x] \in Mapping
    BY <1>1, <2>1, <2>2, EntryType, PteFacts DEF HasTable
  <2>4. TableOf(k, d, x) \in TablePages(k, R)
    BY <2>2, <2>3, PteFacts DEF TablePages, TableOf
  <2> QED
    BY <1>7, <2>2, <2>4, GoodParts
<1>13. \A d \in R : RefSlots(m, R, d) = {}
  BY <1>7, GoodParts
<1>14. \A q \in held \ {p} : m.ref[q] = 0 /\ q \notin R
  BY <1>1, <1>9, GoodParts
<1> QED
  BY <1>1, <1>3, <1>8, <1>10, <1>11, <1>12, <1>13, <1>14, GoodWhole DEF e

\* page_remove of an address that is mapped: the page is freed with its last entry.
LEMMA GoodUnmap ==
  ASSUME NEW k, NEW R, NEW held, Good(k, R, held),
         NEW t \in TablePages(k, R), NEW i \in Idx, k.mem[t][i] # NoPte
  PROVE  /\ Good(Unmapped(k, t, i), R, held)
         /\ TablePages(Unmapped(k, t, i), R) = TablePages(k, R)
         /\ Unmapped(k, t, i).mem = [k.mem EXCEPT ![t][i] = NoPte]
         /\ Unmapped(k, t, i).ref = [k.ref EXCEPT ![PageAt(k, t, i)] = @ - 1]
         /\ FreePages(Unmapped(k, t, i)) \subseteq FreePages(k) \cup {PageAt(k, t, i)}
<1> DEFINE p == PageAt(k, t, i)
           m == Unmapped(k, t, i)
<1>0. m = SetEntry(PageDecref(k, p), t, i, NoPte)
  BY DEF Unmapped
<1> HIDE DEF p, m
<1>1. /\ k \in Memory /\ R \in SUBSET Page /\ held \in SUBSET Page
      /\ k.ref \in [Page -> 0..RefMax] /\ k.mem \in [Page -> PageContent]
      /\ t \in Page /\ t \notin R
  BY GoodParts, TableRole
<1>2. k.mem[t][i] \in Mapping
  BY <1>1, EntryType, PteFacts
<1>3. /\ p \in Page /\ p \notin R \cup TablePages(k, R) \cup held \cup FreePages(k)
      /\ k.ref[p] \in 1..RefMax /\ <<t, i>> \in RefSlots(k, R, p)
  BY <1>2, MappedRole DEF p, PageAt
<1>6. /\ m \in Memory
      /\ k.ref[p] = 1 => m.free = <<p>> \o k.free
      /\ k.ref[p] # 1 => m.free = k.free
      /\ m.mem = [k.mem EXCEPT ![t][i] = NoPte]
      /\ m.ref = [k.ref EXCEPT ![p] = @ - 1]
  <2> DEFINE kd == PageDecref(k, p)
  <2>1. /\ kd \in Memory /\ kd.mem = k.mem
        /\ k.ref[p] = 1 => kd.free = <<p>> \o k.free
        /\ k.ref[p] # 1 => kd.free = k.free
        /\ kd.ref = [k.ref EXCEPT ![p] = @ - 1]
    BY <1>1, <1>3, DecrefFields
  <2>2. m = SetEntry(kd, t, i, NoPte)
    BY <1>0
  <2> HIDE DEF kd
  <2> QED
    BY <1>1, <2>1, <2>2, SetEntryFields, PteFacts, SMTT(30)
<1>7. EntryChanged(k, m, t, i, NoPte)
  BY <1>1, <1>6 DEF EntryChanged, PageContent
<1>8. /\ TablePages(m, R) = TablePages(k, R)
      /\ \A q : RefSlots(m, R, q) = RefSlots(k, R, q) \ {<<t, i>>}
  BY <1>1, <1>6, <1>7, TableWrite, PteFacts, NoPteAssumption, SMTT(30)
<1>9. \A q : q # p => RefSlots(m, R, q) = RefSlots(k, R, q)
  <2>1. \A q : q # p => <<t, i>> \notin RefSlots(k, R, q)
    BY DEF RefSlots, SlotRefers, p, PageAt
  <2> QED
    BY <1>8, <2>1
<1>10. \A q \in Page : m.ref[q] = IF q = p THEN k.ref[q] - 1 ELSE k.ref[q]
  BY <1>1, <1>6
<1>11. /\ Once(m)
       /\ FreePages(m) = IF k.ref[p] = 1 THEN FreePages(k) \cup {p} ELSE FreePages(k)
  <2>1. CASE k.ref[p] = 1
    BY <1>1, <1>3, <1>6, <2>1, GoodParts, PushFree
  <2>2. CASE k.ref[p] # 1
    <3>1. m.free = k.free
      BY <1>6, <2>2
    <3> QED
      BY <2>2, <3>1, GoodParts DEF Once, FreePages
  <2> QED
    BY <2>1, <2>2
<1>12. \A q \in Page : q \in FreePages(m) <=> m.ref[q] = 0 /\ q \notin R \cup held
  <2>1. \A q \in Page : q \in FreePages(k) <=> k.ref[q] = 0 /\ q \notin R \cup held
    BY GoodParts
  <2>2. k.ref[p] - 1 = 0 <=> k.ref[p] = 1
    BY <1>3
  <2> QED
    BY <1>3, <1>10, <1>11, <2>1, <2>2
<1>13. \A q \in Page \ R : m.ref[q] = Cardinality(RefSlots(m, R, q))
  <2>1. \A q \in Page \ R : k.ref[q] = Cardinality(RefSlots(k, R, q))
    BY GoodParts
  <2>2. Cardinality(RefSlots(k, R, p) \ {<<t, i>>}) = Cardinality(RefSlots(k, R, p)) - 1
    <3>1. IsFiniteSet(RefSlots(k, R, p))
      BY <1>1, RefSlotsFinite
    <3> QED
      BY <1>3, <3>1, FS_RemoveElement
  <2> QED
    BY <1>8, <1>9, <1>10, <2>1, <2>2
<1>14. ASSUME NEW d \in R, NEW x \in UIdx, HasTable(m, d, x)
       PROVE  RefSlots(m, R, TableOf(m, d, x)) = {<<d, x>>}
  <2>1. m.mem[d][x] = k.mem[d][x] /\ d \in Page /\ x \in Idx
    BY <1>1, <1>7 DEF EntryChanged
  <2>2. HasTable(k, d, x) /\ TableOf(m, d, x) = TableOf(k, d, x)
    BY <1>14, <2>1 DEF HasTable, TableOf
  <2>3. k.mem[d][x] \in Mapping
    BY <1>1, <2>1, <2>2, EntryType, PteFacts DEF HasTable
  <2>4. TableOf(k, d, x) \in TablePages(k, R)
    BY <2>2, <2>3, PteFacts DEF TablePages, TableOf
  <2> QED
    BY <1>3, <1>9, <2>2, <2>4, GoodParts
<1>15. \A d \in R : RefSlots(m, R, d) = {}
  BY <1>3, <1>9, GoodParts
<1>16. \A q \in held : m.ref[q] = 0 /\ q \notin R
  BY <1>1, <1>3, <1>10, GoodParts
<1>17. Good(m, R, held)
  BY <1>1, <1>6, <1>11, <1>12, <1>13, <1>14, <1>15, <1>16, GoodWhole
<1> QED
  BY <1>6, <1>8, <1>11, <1>17 DEF m, p

\* env_free gives an empty page table back.
LEMMA GoodDrop ==
  ASSUME NEW k, NEW R, NEW held, Good(k, R, held),
         NEW d \in R, NEW x \in UIdx, HasTable(k, d, x),
         NEW h, h = TableOf(k, d, x), \A j \in Idx : k.mem[h][j] = NoPte,
         NEW m, m = PageDecref(SetEntry(k, d, x, NoPte), h)
  PROVE  /\ Good(m, R, held)
         /\ m.mem = [k.mem EXCEPT ![d][x] = NoPte]
<1>1. /\ k \in Memory /\ R \in SUBSET Page /\ held \in SUBSET Page /\ d \in Page /\ x \in Idx
      /\ k.ref \in [Page -> 0..RefMax] /\ k.mem \in [Page -> PageContent]
  BY GoodParts
<1>2. h \in Page /\ h \in TablePages(k, R)
  <2>1. k.mem[d][x] \in Mapping
    BY <1>1, EntryType, PteFacts DEF HasTable
  <2> QED
    BY <2>1, PteFacts DEF TablePages, TableOf
<1>3. /\ h \notin R \cup held \cup FreePages(k) /\ k.ref[h] = 1
      /\ RefSlots(k, R, h) = {<<d, x>>}
  BY <1>2, TableRole, GoodParts
<1>4. k.mem[h] = ZeroPage
  BY <1>1, <1>2 DEF ZeroPage, PageContent
<1> DEFINE ke == SetEntry(k, d, x, NoPte)
<1>5. /\ ke \in Memory /\ ke.free = k.free /\ ke.ref = k.ref
      /\ ke.mem = [k.mem EXCEPT ![d][x] = NoPte]
  BY <1>1, SetEntryFields, PteFacts
<1>6. m = PageDecref(ke, h)
  OBVIOUS
<1> HIDE DEF ke
<1>7. /\ m \in Memory /\ m.free = <<h>> \o k.free
      /\ m.mem = [k.mem EXCEPT ![d][x] = NoPte]
      /\ m.ref = [k.ref EXCEPT ![h] = 0]
  <2>1. ke.ref[h] = 1 /\ ke.ref[h] \in 1..RefMax
    BY <1>3, <1>5, RefMaxAssumption
  <2>2. /\ m \in Memory /\ m.free = <<h>> \o ke.free /\ m.mem = ke.mem
        /\ m.ref = [ke.ref EXCEPT ![h] = @ - 1]
    <3>1. /\ PageDecref(ke, h) \in Memory
          /\ PageDecref(ke, h).free = <<h>> \o ke.free
          /\ PageDecref(ke, h).mem = ke.mem
          /\ PageDecref(ke, h).ref = [ke.ref EXCEPT ![h] = @ - 1]
      BY <1>2, <1>5, <2>1, DecrefFields
    <3> QED
      BY <1>6, <3>1
  <2> QED
    BY <1>1, <1>2, <1>3, <1>5, <2>2
<1>8. EntryChanged(k, m, d, x, NoPte)
  BY <1>1, <1>7 DEF EntryChanged, PageContent
<1>9. RefSlots(m, R, h) = {} /\ \A q : q # h => RefSlots(m, R, q) = RefSlots(k, R, q)
  <2>1. h \notin R /\ TableOf(k, d, x) = h /\ OnlySlot(k, R, h, d, x)
    BY <1>3 DEF OnlySlot
  <2>2. k \in Memory /\ m \in Memory /\ R \in SUBSET Page
    BY <1>1, <1>7
  <2>3. /\ \A q : q = h => RefSlots(m, R, q) = {}
        /\ \A q : q # h => RefSlots(m, R, q) = RefSlots(k, R, q)
    BY <1>2, <1>4, <1>8, <2>1, <2>2, TableDropped
  <2> QED
    BY <2>3
<1>10. \A q \in Page : m.ref[q] = IF q = h THEN 0 ELSE k.ref[q]
  BY <1>1, <1>2, <1>7
<1>11. Once(m) /\ FreePages(m) = FreePages(k) \cup {h}
  BY <1>1, <1>2, <1>3, <1>7, GoodParts, PushFree, SMTT(30)
<1>12. \A q \in Page : q \in FreePages(m) <=> m.ref[q] = 0 /\ q \notin R \cup held
  <2>1. \A q \in Page : q \in FreePages(k) <=> k.ref[q] = 0 /\ q \notin R \cup held
    BY GoodParts
  <2> QED
    BY <1>3, <1>10, <1>11, <2>1, SMTT(30)
<1>13. \A q \in Page \ R : m.ref[q] = Cardinality(RefSlots(m, R, q))
  <2>1. \A q \in Page \ R : k.ref[q] = Cardinality(RefSlots(k, R, q))
    BY GoodParts
  <2> QED
    BY <1>9, <1>10, <2>1, FS_EmptySet
<1>14. ASSUME NEW c \in R, NEW y \in UIdx, HasTable(m, c, y)
       PROVE  RefSlots(m, R, TableOf(m, c, y)) = {<<c, y>>}
  <2>1. c \in Page /\ y \in Idx
    BY <1>1
  <2>2. ~(c = d /\ y = x)
    BY <1>8, <1>14, <2>1 DEF EntryChanged, HasTable
  <2>3. m.mem[c][y] = k.mem[c][y]
    BY <1>8, <2>1, <2>2 DEF EntryChanged
  <2>4. HasTable(k, c, y) /\ TableOf(m, c, y) = TableOf(k, c, y)
    BY <1>14, <2>3 DEF HasTable, TableOf
  <2>5. RefSlots(k, R, TableOf(k, c, y)) = {<<c, y>>}
    BY <2>4, GoodParts
  <2>6. TableOf(k, c, y) # h
    <3>1. SUFFICES ASSUME TableOf(k, c, y) = h PROVE FALSE
      OBVIOUS
    <3>2. {<<c, y>>} = {<<d, x>>}
      BY <1>3, <2>5, <3>1
    <3>3. <<c, y>> = <<d, x>>
      BY <3>2
    <3> QED
      BY <2>2, <3>3
  <2> QED
    BY <1>9, <2>4, <2>5, <2>6
<1>15. \A c \in R : RefSlots(m, R, c) = {}
  BY <1>3, <1>9, GoodParts
<1>16. \A q \in held : m.ref[q] = 0 /\ q \notin R
  BY <1>1, <1>10, GoodParts
<1> QED
  BY <1>1, <1>7, <1>11, <1>12, <1>13, <1>14, <1>15, <1>16, GoodWhole

\* The page table and the entry that an address with a page table selects.
LEMMA WalkedSlot ==
  ASSUME NEW k, NEW R, NEW held, Good(k, R, held),
         NEW d \in R, NEW va \in VA, HasTable(k, d, va[1])
  PROVE  /\ va[1] \in UIdx /\ va[2] \in Idx
         /\ TableOf(k, d, va[1]) \in TablePages(k, R)
         /\ PageLookup(k, d, va) = k.mem[TableOf(k, d, va[1])][va[2]]
<1>1. va[1] \in UIdx /\ va[2] \in Idx
  BY DEF VA
<1>2. k.mem[d][va[1]] \in Mapping
  BY <1>1, GoodParts, EntryType, PteFacts DEF HasTable
<1> QED
  BY <1>1, <1>2, PteFacts DEF TablePages, TableOf, PageLookup

\* page_remove.
LEMMA GoodRemove ==
  ASSUME NEW k, NEW R, NEW held, Good(k, R, held),
         NEW d \in R, NEW va \in VA
  PROVE  Good(PageRemove(k, d, va), R, held)
<1>1. CASE PageLookup(k, d, va) = NoPte
  BY <1>1 DEF PageRemove
<1>2. CASE PageLookup(k, d, va) # NoPte
  <2>1. HasTable(k, d, va[1])
    BY <1>2 DEF PageLookup
  <2>2. /\ va[1] \in UIdx /\ va[2] \in Idx
        /\ TableOf(k, d, va[1]) \in TablePages(k, R)
        /\ PageLookup(k, d, va) = k.mem[TableOf(k, d, va[1])][va[2]]
    BY <2>1, WalkedSlot
  <2> DEFINE t == TableOf(k, d, va[1])
             i == va[2]
  <2>3. PageRemove(k, d, va) = Unmapped(k, t, i)
    BY <1>2, <2>2 DEF PageRemove, Unmapped, PageAt
  <2>4. t \in TablePages(k, R) /\ i \in Idx /\ k.mem[t][i] # NoPte
    BY <1>2, <2>2
  <2> HIDE DEF t, i
  <2>5. /\ Good(Unmapped(k, t, i), R, held)
        /\ TablePages(Unmapped(k, t, i), R) = TablePages(k, R)
        /\ Unmapped(k, t, i).mem = [k.mem EXCEPT ![t][i] = NoPte]
        /\ Unmapped(k, t, i).ref = [k.ref EXCEPT ![PageAt(k, t, i)] = @ - 1]
        /\ FreePages(Unmapped(k, t, i)) \subseteq FreePages(k) \cup {PageAt(k, t, i)}
    BY <2>4, GoodUnmap
  <2> QED
    BY <2>3, <2>5
<1> QED
  BY <1>1, <1>2

LEMMA MemoryEqual ==
  ASSUME NEW k \in Memory, NEW m \in Memory,
         k.free = m.free, k.ref = m.ref, k.mem = m.mem
  PROVE  k = m
<1>1. /\ k = [free |-> k.free, ref |-> k.ref, mem |-> k.mem]
      /\ m = [free |-> m.free, ref |-> m.ref, mem |-> m.mem]
  BY DEF Memory
<1> QED
  BY <1>1

\* Entry i of table t maps a page that is counted.
MappedAt(k, t, i) == k.mem[t][i] \in Mapping /\ k.ref[PageAt(k, t, i)] \in 1..RefMax

\* m is k after the page q lost the entry i of t.
Released(k, m, t, i, q) ==
  /\ m \in Memory
  /\ k.ref[q] = 1 => m.free = <<q>> \o k.free
  /\ k.ref[q] # 1 => m.free = k.free
  /\ m.mem = [k.mem EXCEPT ![t][i] = NoPte]
  /\ m.ref = [k.ref EXCEPT ![q] = @ - 1]

LEMMA UnmappedFields ==
  ASSUME NEW k \in Memory, NEW t \in Page, NEW i \in Idx, MappedAt(k, t, i)
  PROVE  Released(k, Unmapped(k, t, i), t, i, PageAt(k, t, i))
<1> DEFINE q == PageAt(k, t, i)
           kd == PageDecref(k, q)
<1>1. q \in Page /\ k.ref[q] \in 1..RefMax
  BY PteFacts DEF PageAt, MappedAt
<1> HIDE DEF q
<1>2. /\ kd \in Memory
      /\ k.ref[q] = 1 => kd.free = <<q>> \o k.free
      /\ k.ref[q] # 1 => kd.free = k.free
      /\ kd.mem = k.mem
      /\ kd.ref = [k.ref EXCEPT ![q] = @ - 1]
  BY <1>1, DecrefFields
<1> HIDE DEF kd
<1> DEFINE m == SetEntry(kd, t, i, NoPte)
<1>3. NoPte \in Pte
  BY PteFacts
<1>4. m \in Memory /\ m.free = kd.free /\ m.ref = kd.ref /\ m.mem = [kd.mem EXCEPT ![t][i] = NoPte]
  BY <1>2, <1>3, SetEntryFields
<1> HIDE DEF m
<1>5. Released(k, m, t, i, q)
  BY <1>2, <1>4 DEF Released
<1> QED
  BY <1>5 DEF m, kd, q, Unmapped

\* A new entry for the page that is mapped there already.
LEMMA GoodSamePage ==
  ASSUME NEW k, NEW R, NEW held, Good(k, R, held),
         NEW t \in TablePages(k, R), NEW i \in Idx, k.mem[t][i] \in Mapping,
         NEW m \in Memory, m.free = k.free, m.ref = k.ref,
         NEW e \in Mapping, e.pg = PageAt(k, t, i),
         EntryChanged(k, m, t, i, e)
  PROVE  Good(m, R, held)
<1>1. /\ k \in Memory /\ R \in SUBSET Page /\ held \in SUBSET Page
      /\ k.mem \in [Page -> PageContent] /\ t \in Page /\ t \notin R /\ e \in Pte
  BY GoodParts, TableRole DEF Pte
<1>2. /\ \A q : e.pg = q => RefSlots(m, R, q) = RefSlots(k, R, q) \cup {<<t, i>>}
      /\ \A q : e.pg # q => RefSlots(m, R, q) = RefSlots(k, R, q) \ {<<t, i>>}
  BY <1>1, TableWrite
<1>3. ASSUME NEW q PROVE RefSlots(m, R, q) = RefSlots(k, R, q)
  <2>1. CASE e.pg = q
    <3>1. <<t, i>> \in RefSlots(k, R, q)
      BY <2>1, MappedRole DEF PageAt
    <3> QED
      BY <1>2, <2>1, <3>1
  <2>2. CASE e.pg # q
    <3>1. <<t, i>> \notin RefSlots(k, R, q)
      BY <2>2 DEF RefSlots, SlotRefers, PageAt
    <3> QED
      BY <1>2, <2>2, <3>1
  <2> QED
    BY <2>1, <2>2
<1>4. Once(m) /\ FreePages(m) = FreePages(k)
  BY GoodParts DEF Once, FreePages
<1>5. \A q \in Page : q \in FreePages(m) <=> m.ref[q] = 0 /\ q \notin R \cup held
  BY <1>4, GoodParts
<1>6. \A q \in Page \ R : m.ref[q] = Cardinality(RefSlots(m, R, q))
  BY <1>3, GoodParts
<1>7. ASSUME NEW d \in R, NEW x \in UIdx, HasTable(m, d, x)
      PROVE  RefSlots(m, R, TableOf(m, d, x)) = {<<d, x>>}
  <2>1. m.mem[d][x] = k.mem[d][x]
    BY <1>1 DEF EntryChanged
  <2>2. HasTable(k, d, x) /\ TableOf(m, d, x) = TableOf(k, d, x)
    BY <1>7, <2>1 DEF HasTable, TableOf
  <2> QED
    BY <1>3, <2>2, GoodParts
<1>8. \A d \in R : RefSlots(m, R, d) = {}
  BY <1>3, GoodParts
<1> QED
  BY <1>1, <1>4, <1>5, <1>6, <1>7, <1>8, GoodParts, GoodWhole

(* The entry is taken by p itself (only its permissions change) or by       *)
(* another page: counting p first keeps it out of the free list.            *)
LEMMA GoodRemap ==
  ASSUME NEW k, NEW R, NEW held, Good(k, R, held),
         NEW t \in TablePages(k, R), NEW i \in Idx, k.mem[t][i] # NoPte,
         NEW p \in Page, p \notin R \cup TablePages(k, R) \cup FreePages(k),
         k.ref[p] < RefMax, NEW perm \in Perm
  PROVE  LET m == SetEntry(Unmapped(Incref(k, p), t, i), t, i, [pg |-> p, perm |-> perm])
         IN  /\ Good(m, R, held \ {p})
             /\ m.mem = [k.mem EXCEPT ![t][i] = [pg |-> p, perm |-> perm]]
<1> DEFINE q == PageAt(k, t, i)
           e == [pg |-> p, perm |-> perm]
           ki == Incref(k, p)
           ku == Unmapped(ki, t, i)
           m == SetEntry(ku, t, i, e)
<1>1. /\ k \in Memory /\ R \in SUBSET Page /\ held \in SUBSET Page
      /\ k.ref \in [Page -> 0..RefMax] /\ k.mem \in [Page -> PageContent]
      /\ t \in Page /\ t \notin R
  BY GoodParts, TableRole
<1>2. k.mem[t][i] \in Mapping
  BY <1>1, EntryType, PteFacts
<1> HIDE DEF q
<1>3. /\ q \in Page /\ q \notin R \cup TablePages(k, R) \cup held \cup FreePages(k)
      /\ k.ref[q] \in 1..RefMax /\ <<t, i>> \in RefSlots(k, R, q)
  BY <1>2, MappedRole DEF q, PageAt
<1>4. e \in Mapping /\ e \in Pte /\ e.pg = p
  BY PteFacts DEF Pte
<1>5. /\ ki \in Memory /\ ki.free = k.free /\ ki.mem = k.mem
      /\ ki.ref = [k.ref EXCEPT ![p] = @ + 1]
  <2>1. k.ref[p] # RefMax
    BY <1>1, RefMaxAssumption
  <2> QED
    BY <1>1, <2>1, IncrefFields
<1>6. ki.ref[q] = (IF p = q THEN k.ref[q] + 1 ELSE k.ref[q]) /\ ki.ref[q] \in 1..RefMax
  BY <1>1, <1>3, <1>5, RefMaxAssumption
<1> HIDE DEF e, ki, q
<1>65. q = PageAt(ki, t, i) /\ ki.mem[t][i] \in Mapping
  BY <1>2, <1>5 DEF q, PageAt
<1>7. /\ ku \in Memory
      /\ ki.ref[q] = 1 => ku.free = <<q>> \o k.free
      /\ ki.ref[q] # 1 => ku.free = k.free
      /\ ku.mem = [k.mem EXCEPT ![t][i] = NoPte]
      /\ ku.ref = [ki.ref EXCEPT ![q] = @ - 1]
  <2>1. MappedAt(ki, t, i)
    BY <1>6, <1>65 DEF MappedAt
  <2>2. Released(ki, ku, t, i, q)
    BY <1>1, <1>5, <1>65, <2>1, UnmappedFields
  <2> HIDE DEF ku
  <2> QED
    BY <1>5, <2>2 DEF Released
<1> HIDE DEF ku
<1>8. /\ m \in Memory /\ m.free = ku.free /\ m.ref = ku.ref
      /\ m.mem = [k.mem EXCEPT ![t][i] = e]
  <2>1. m \in Memory /\ m.free = ku.free /\ m.ref = ku.ref /\ m.mem = [ku.mem EXCEPT ![t][i] = e]
    <3>1. ku \in Memory /\ t \in Page /\ e \in Pte
      BY <1>1, <1>4, <1>7
    <3> QED
      BY <3>1, SetEntryFields
  <2> QED
    BY <1>1, <1>7, <2>1, ZenonT(60) DEF PageContent
<1>9. CASE p = q
  <2>1. m.ref = k.ref
    BY <1>1, <1>5, <1>6, <1>7, <1>8, <1>9
  <2>2. m.free = k.free
    BY <1>3, <1>6, <1>7, <1>8, <1>9, RefMaxAssumption
  <2>3. EntryChanged(k, m, t, i, e)
    BY <1>1, <1>8 DEF EntryChanged, PageContent
  <2> HIDE DEF m
  <2>4. Good(m, R, held)
    BY <1>2, <1>4, <1>8, <1>9, <2>1, <2>2, <2>3, GoodSamePage DEF q
  <2>5. held \ {p} = held
    BY <1>3, <1>9
  <2> QED
    BY <1>8, <2>4, <2>5 DEF m, e, ku, ki
<1>10. CASE p # q
  <2> DEFINE kr == Unmapped(k, t, i)
  <2>1. /\ Good(kr, R, held) /\ TablePages(kr, R) = TablePages(k, R)
        /\ kr.mem = [k.mem EXCEPT ![t][i] = NoPte]
        /\ kr.ref = [k.ref EXCEPT ![q] = @ - 1]
        /\ FreePages(kr) \subseteq FreePages(k) \cup {q}
    BY GoodUnmap DEF q
  <2>2. /\ kr \in Memory
        /\ k.ref[q] = 1 => kr.free = <<q>> \o k.free
        /\ k.ref[q] # 1 => kr.free = k.free
    <3>1. MappedAt(k, t, i)
      BY <1>2, <1>3 DEF q, MappedAt
    <3>2. Released(k, kr, t, i, q)
      BY <1>1, <3>1, UnmappedFields DEF q
    <3> HIDE DEF kr
    <3> QED
      BY <3>2 DEF Released
  <2> HIDE DEF kr
  <2>3. kr.ref[p] = k.ref[p] /\ kr.ref[p] < RefMax /\ kr.ref[p] # RefMax
    BY <1>1, <1>10, <2>1, RefMaxAssumption
  <2>4. ku = Incref(kr, p)
    <3>1. /\ Incref(kr, p) \in Memory /\ Incref(kr, p).free = kr.free
          /\ Incref(kr, p).mem = kr.mem
          /\ Incref(kr, p).ref = [kr.ref EXCEPT ![p] = @ + 1]
      BY <2>2, <2>3, IncrefFields
    <3>2. ku.ref = Incref(kr, p).ref
      <4>1. /\ ku.ref \in [Page -> 0..RefMax]
            /\ Incref(kr, p).ref \in [Page -> 0..RefMax]
        BY <1>7, <3>1, MemoryParts
      <4>2. \A s \in Page : ku.ref[s] = IF s = q THEN k.ref[s] - 1
                                         ELSE IF s = p THEN k.ref[s] + 1 ELSE k.ref[s]
        BY <1>1, <1>3, <1>5, <1>7, <1>10
      <4>3. \A s \in Page : kr.ref[s] = IF s = q THEN k.ref[s] - 1 ELSE k.ref[s]
        BY <1>1, <1>3, <2>1
      <4>4. \A s \in Page : Incref(kr, p).ref[s] = IF s = p THEN kr.ref[s] + 1 ELSE kr.ref[s]
        BY <2>2, <3>1, MemoryParts
      <4> QED
        BY <1>10, <4>1, <4>2, <4>3, <4>4
    <3>3. ku.free = Incref(kr, p).free
      BY <1>6, <1>7, <1>10, <2>2, <3>1
    <3> QED
      BY <1>7, <2>1, <3>1, <3>2, <3>3, MemoryEqual
  <2>5. m = MappedTo(kr, t, i, p, perm)
    BY <2>4 DEF MappedTo, e
  <2>6. kr.mem[t][i] = NoPte
    BY <1>1, <2>1 DEF PageContent
  <2>7. p \notin R \cup TablePages(kr, R) \cup FreePages(kr)
    BY <1>10, <2>1
  <2>8. Good(MappedTo(kr, t, i, p, perm), R, held \ {p})
    BY <2>1, <2>3, <2>6, <2>7, GoodMap
  <2> QED
    BY <1>8, <2>5, <2>8 DEF m, e, ku, ki
<1> QED
  BY <1>9, <1>10

----------------------------------------------------------------------------
(* Translations.                                                           *)

\* m translates va in d to e and every other address as k does.
LookupChanged(k, m, R, d, va, e) ==
  \A c \in R, v \in VA :
    PageLookup(m, c, v) = IF c = d /\ v = va THEN e ELSE PageLookup(k, c, v)

\* No page table is used twice.
LEMMA TableInjective ==
  ASSUME NEW k, NEW R, NEW held, Good(k, R, held),
         NEW c \in R, NEW y \in UIdx, NEW d \in R, NEW x \in UIdx,
         HasTable(k, c, y), HasTable(k, d, x), TableOf(k, c, y) = TableOf(k, d, x)
  PROVE  c = d /\ y = x
<1>1. /\ RefSlots(k, R, TableOf(k, c, y)) = {<<c, y>>}
      /\ RefSlots(k, R, TableOf(k, d, x)) = {<<d, x>>}
  BY GoodParts
<1>2. {<<c, y>>} = {<<d, x>>}
  BY <1>1
<1>3. <<c, y>> = <<d, x>>
  BY <1>2
<1> QED
  BY <1>3

\* Writing the entry of va changes the translation of va only.
LEMMA EntryLookup ==
  ASSUME NEW k, NEW R, NEW held, Good(k, R, held),
         NEW d \in R, NEW va \in VA, HasTable(k, d, va[1]), NEW e \in Pte, NEW m,
         m.mem = [k.mem EXCEPT ![TableOf(k, d, va[1])][va[2]] = e]
  PROVE  LookupChanged(k, m, R, d, va, e)
<1> DEFINE t == TableOf(k, d, va[1])
           i == va[2]
<1>1. /\ k \in Memory /\ k.mem \in [Page -> PageContent] /\ R \in SUBSET Page
      /\ t \in TablePages(k, R) /\ t \in Page /\ t \notin R /\ i \in Idx /\ va[1] \in UIdx
  BY GoodParts, WalkedSlot, TableRole
<1>2. \A u \in Page, j \in Idx : m.mem[u][j] = IF u = t /\ j = i THEN e ELSE k.mem[u][j]
  BY <1>1 DEF PageContent
<1> HIDE DEF t, i
<1>3. ASSUME NEW c \in R, NEW v \in VA
      PROVE  PageLookup(m, c, v) = IF c = d /\ v = va THEN e ELSE PageLookup(k, c, v)
  <2>1. v[1] \in UIdx /\ v[2] \in Idx /\ v[1] \in Idx /\ c \in Page
    BY <1>1 DEF VA
  <2>2. m.mem[c][v[1]] = k.mem[c][v[1]]
    BY <1>1, <1>2, <2>1
  <2>3. CASE ~HasTable(k, c, v[1])
    <3>1. ~(c = d /\ v = va)
      BY <2>3
    <3> QED
      BY <2>2, <2>3, <3>1 DEF PageLookup, HasTable
  <2>4. CASE HasTable(k, c, v[1])
    <3> DEFINE u == TableOf(k, c, v[1])
    <3>1. u \in Page
      BY <1>1, <2>1, <2>4, EntryType, PteFacts, SMTT(60) DEF TableOf, HasTable
    <3>2. PageLookup(m, c, v) = m.mem[u][v[2]] /\ PageLookup(k, c, v) = k.mem[u][v[2]]
      BY <2>2, <2>4 DEF PageLookup, HasTable, TableOf
    <3>3. u = t => c = d /\ v[1] = va[1]
      BY <1>1, <2>1, <2>4, TableInjective DEF t
    <3>4. v = <<v[1], v[2]>> /\ va = <<va[1], va[2]>>
      BY DEF VA
    <3>5. u = t /\ v[2] = i <=> c = d /\ v = va
      BY <3>3, <3>4 DEF t, i
    <3> HIDE DEF u
    <3> QED
      BY <1>2, <2>1, <3>1, <3>2, <3>5
  <2> QED
    BY <2>3, <2>4
<1> QED
  BY <1>3 DEF LookupChanged

\* The translations depend on the directories and the page tables alone.
LEMMA SameTables ==
  ASSUME NEW k, NEW R, NEW held, Good(k, R, held), NEW m,
         \A t \in R \cup TablePages(k, R) : m.mem[t] = k.mem[t]
  PROVE  SameLookup(k, m, R)
<1>1. ASSUME NEW c \in R, NEW v \in VA PROVE PageLookup(m, c, v) = PageLookup(k, c, v)
  <2>1. m.mem[c] = k.mem[c]
    OBVIOUS
  <2>2. CASE HasTable(k, c, v[1])
    <3>1. TableOf(k, c, v[1]) \in TablePages(k, R)
      BY <2>2, WalkedSlot
    <3> QED
      BY <2>1, <2>2, <3>1 DEF PageLookup, HasTable, TableOf
  <2>3. CASE ~HasTable(k, c, v[1])
    BY <2>1, <2>3 DEF PageLookup, HasTable
  <2> QED
    BY <2>2, <2>3
<1> QED
  BY <1>1 DEF SameLookup

LEMMA LookupAlloc ==
  ASSUME NEW k, NEW R, NEW held, Good(k, R, held), ~OutOfMemory(k), NEW zero \in BOOLEAN
  PROVE  SameLookup(k, PageAlloc(k, zero), R)
<1> DEFINE m == PageAlloc(k, zero)
           h == Allocated(k)
<1>1. /\ Good(m, R, held \cup {h})
      /\ h \in Page \ held
      /\ TablePages(m, R) = TablePages(k, R)
      /\ \A t \in Page \ {h} : m.mem[t] = k.mem[t]
      /\ h \notin R \cup TablePages(k, R)
  BY GoodAlloc
<1> HIDE DEF m, h
<1>2. R \subseteq Page /\ TablePages(k, R) \subseteq Page
  BY GoodParts DEF TablePages
<1>3. \A t \in R \cup TablePages(k, R) : m.mem[t] = k.mem[t]
  BY <1>1, <1>2
<1> QED
  BY <1>3, SameTables DEF m

LEMMA LookupFree ==
  ASSUME NEW k, NEW R, NEW held, Good(k, R, held), NEW p \in held
  PROVE  SameLookup(k, PageFree(k, p), R)
<1>1. PageFree(k, p).mem = k.mem
  BY GoodParts, FreeFields
<1> QED
  BY <1>1, SameTables

LEMMA LookupScribble ==
  ASSUME NEW k, NEW R, NEW held, Good(k, R, held),
         NEW p \in held \cup MappedPages(k, R), NEW c \in PageContent
  PROVE  SameLookup(k, [k EXCEPT !.mem[p] = c], R)
<1> DEFINE m == [k EXCEPT !.mem[p] = c]
<1>1. /\ Good(m, R, held)
      /\ \A t \in R \cup TablePages(k, R) : m.mem[t] = k.mem[t]
      /\ TablePages(m, R) = TablePages(k, R)
  BY GoodScribble
<1> HIDE DEF m
<1> QED
  BY <1>1, SameTables DEF m

\* An address that page_remove unmaps has no translation; the others keep theirs.
LEMMA LookupRemove ==
  ASSUME NEW k, NEW R, NEW held, Good(k, R, held),
         NEW d \in R, NEW va \in VA, PageLookup(k, d, va) # NoPte
  PROVE  LookupChanged(k, PageRemove(k, d, va), R, d, va, NoPte)
<1> DEFINE t == TableOf(k, d, va[1])
           i == va[2]
<1>1. HasTable(k, d, va[1])
  BY DEF PageLookup
<1>2. t \in TablePages(k, R) /\ i \in Idx /\ k.mem[t][i] # NoPte /\ PageLookup(k, d, va) = k.mem[t][i]
  BY <1>1, WalkedSlot
<1>3. PageRemove(k, d, va) = Unmapped(k, t, i)
  BY <1>2 DEF PageRemove, Unmapped, PageAt
<1> HIDE DEF t, i
<1>4. /\ Good(Unmapped(k, t, i), R, held)
      /\ TablePages(Unmapped(k, t, i), R) = TablePages(k, R)
      /\ Unmapped(k, t, i).mem = [k.mem EXCEPT ![t][i] = NoPte]
      /\ Unmapped(k, t, i).ref = [k.ref EXCEPT ![PageAt(k, t, i)] = @ - 1]
      /\ FreePages(Unmapped(k, t, i)) \subseteq FreePages(k) \cup {PageAt(k, t, i)}
  BY <1>2, GoodUnmap
<1> QED
  BY <1>1, <1>3, <1>4, EntryLookup, PteFacts DEF t, i

\* env_free drops a table without entries: no translation changes.
LEMMA LookupDrop ==
  ASSUME NEW k, NEW R, NEW held, Good(k, R, held),
         NEW d \in R, NEW x \in UIdx, HasTable(k, d, x),
         \A j \in Idx : k.mem[TableOf(k, d, x)][j] = NoPte,
         NEW m, m.mem = [k.mem EXCEPT ![d][x] = NoPte]
  PROVE  SameLookup(k, m, R)
<1>1. /\ k.mem \in [Page -> PageContent] /\ R \in SUBSET Page /\ d \in Page /\ x \in Idx
      /\ k \in Memory
  BY GoodParts
<1>2. \A u \in Page, j \in Idx : m.mem[u][j] = IF u = d /\ j = x THEN NoPte ELSE k.mem[u][j]
  BY <1>1 DEF PageContent
<1>3. ASSUME NEW c \in R, NEW v \in VA PROVE PageLookup(m, c, v) = PageLookup(k, c, v)
  <2>1. v[1] \in UIdx /\ v[1] \in Idx /\ v[2] \in Idx /\ c \in Page
    BY <1>1 DEF VA
  <2>2. CASE c = d /\ v[1] = x
    <3>1. PageLookup(m, c, v) = NoPte
      BY <1>2, <2>1, <2>2 DEF PageLookup, HasTable
    <3> QED
      BY <2>1, <2>2, <3>1 DEF PageLookup
  <2>3. CASE ~(c = d /\ v[1] = x)
    <3>1. m.mem[c][v[1]] = k.mem[c][v[1]]
      BY <1>2, <2>1, <2>3
    <3>2. CASE HasTable(k, c, v[1])
      <4> DEFINE u == TableOf(k, c, v[1])
      <4>1. u \in TablePages(k, R)
        BY <3>2, WalkedSlot
      <4>2. u \in Page /\ u # d
        BY <4>1, TableRole
      <4>3. PageLookup(m, c, v) = m.mem[u][v[2]] /\ PageLookup(k, c, v) = k.mem[u][v[2]]
        BY <3>1, <3>2 DEF PageLookup, HasTable, TableOf
      <4> HIDE DEF u
      <4> QED
        BY <1>2, <2>1, <4>2, <4>3
    <3>3. CASE ~HasTable(k, c, v[1])
      BY <3>1, <3>3 DEF PageLookup, HasTable
    <3> QED
      BY <3>2, <3>3
  <2> QED
    BY <2>2, <2>3
<1> QED
  BY <1>3 DEF SameLookup

----------------------------------------------------------------------------
(* The entries of the directories, and what the pages are in use for.      *)

\* The directories in R keep their entries.
SameDirs(k, m, R) == \A c \in R : m.mem[c] = k.mem[c]

\* pgdir_walk with create gives d a page table at x, a free page if it had none.
LEMMA WalkDirs ==
  ASSUME NEW k, NEW R, NEW held, Good(k, R, held),
         NEW d \in R, NEW x \in UIdx, ~WalkFails(k, d, x)
  PROVE  /\ \A c \in R, y \in Idx :
              ~(c = d /\ y = x) => Walk(k, d, x).mem[c][y] = k.mem[c][y]
         /\ HasTable(k, d, x) => Walk(k, d, x) = k
         /\ ~HasTable(k, d, x) => TableOf(Walk(k, d, x), d, x) \in FreePages(k)
<1>1. CASE HasTable(k, d, x)
  BY <1>1 DEF Walk
<1>2. CASE ~HasTable(k, d, x)
  <2> DEFINE h == Allocated(k)
             ka == PageAlloc(k, TRUE)
             e == [pg |-> h, perm |-> TablePerm]
  <2>1. ~OutOfMemory(k) /\ k \in Memory /\ R \in SUBSET Page
    BY <1>2, GoodParts DEF WalkFails
  <2>2. /\ Good(ka, R, held \cup {h}) /\ h \in Page
        /\ \A t \in Page \ {h} : ka.mem[t] = k.mem[t]
        /\ h \notin R \cup TablePages(k, R)
    BY <2>1, GoodAlloc
  <2>3. h \in FreePages(k)
    BY <2>1, GoodParts DEF Memory, OutOfMemory, Allocated, FreePages
  <2>4. ka \in Memory /\ e \in Pte /\ e.pg = h
    BY <2>2, GoodParts, PteFacts, PermAssumption DEF Pte
  <2>5. Walk(k, d, x) = SetEntry(Incref(ka, h), d, x, e)
    BY <1>2, <2>1 DEF Walk
  <2> HIDE DEF h, ka, e
  <2>6. Incref(ka, h) \in Memory /\ Incref(ka, h).mem = ka.mem
    BY <2>2, <2>4, IncrefFields
  <2>7. Walk(k, d, x).mem = [ka.mem EXCEPT ![d][x] = e]
    BY <2>1, <2>4, <2>5, <2>6, SetEntryFields
  <2>8. \A u \in Page, j \in Idx :
          Walk(k, d, x).mem[u][j] = IF u = d /\ j = x THEN e ELSE ka.mem[u][j]
    BY <2>1, <2>4, <2>7, MemoryParts DEF PageContent
  <2>9. \A c \in R : c \in Page /\ ka.mem[c] = k.mem[c]
    BY <2>1, <2>2
  <2> QED
    BY <1>2, <2>3, <2>4, <2>8, <2>9 DEF TableOf
<1> QED
  BY <1>1, <1>2

\* A call that writes one entry of a page table leaves the directories alone.
LEMMA DirsEntry ==
  ASSUME NEW k, NEW R, NEW held, Good(k, R, held),
         NEW t \in TablePages(k, R), NEW i \in Idx, NEW e, NEW m,
         m.mem = [k.mem EXCEPT ![t][i] = e]
  PROVE  SameDirs(k, m, R)
<1>1. R \in SUBSET Page /\ k.mem \in [Page -> PageContent] /\ t \notin R
  BY GoodParts, TableRole
<1>2. \A c \in R : m.mem[c] = k.mem[c]
  BY <1>1
<1> QED
  BY <1>2 DEF SameDirs

LEMMA UnmappedMem ==
  ASSUME NEW k \in Memory, NEW t \in Page, NEW i \in Idx
  PROVE  Unmapped(k, t, i).mem = [k.mem EXCEPT ![t][i] = NoPte]
BY DEF Unmapped, SetEntry, PageDecref, PageFree, Decremented, Memory

LEMMA DirsRemove ==
  ASSUME NEW k, NEW R, NEW held, Good(k, R, held),
         NEW d \in R, NEW va \in VA, PageLookup(k, d, va) # NoPte
  PROVE  SameDirs(k, PageRemove(k, d, va), R)
<1> DEFINE t == TableOf(k, d, va[1])
           i == va[2]
<1>1. HasTable(k, d, va[1])
  BY DEF PageLookup
<1>2. t \in TablePages(k, R) /\ i \in Idx /\ PageLookup(k, d, va) = k.mem[t][i]
  BY <1>1, WalkedSlot
<1>3. PageRemove(k, d, va) = Unmapped(k, t, i)
  BY <1>2 DEF PageRemove, Unmapped, PageAt
<1> HIDE DEF t, i
<1>4. k \in Memory /\ t \in Page
  BY <1>2, GoodParts, TableRole
<1>5. Unmapped(k, t, i).mem = [k.mem EXCEPT ![t][i] = NoPte]
  BY <1>2, <1>4, UnmappedMem
<1> QED
  BY <1>2, <1>3, <1>5, DirsEntry

\* The mapped pages are those that some address is translated to.
LEMMA MappedChar ==
  ASSUME NEW k, NEW R, NEW held, Good(k, R, held), NEW p
  PROVE  p \in MappedPages(k, R)
         <=> \E d \in R, va \in VA : PageLookup(k, d, va) # NoPte /\ PageLookup(k, d, va).pg = p
<1>1. k \in Memory /\ R \in SUBSET Page /\ TablePages(k, R) \subseteq Page
  BY GoodParts, TablesType
<1>2. ASSUME p \in MappedPages(k, R)
      PROVE  \E d \in R, va \in VA :
               PageLookup(k, d, va) # NoPte /\ PageLookup(k, d, va).pg = p
  <2>1. PICK s \in TablePages(k, R) \X Idx : SlotRefers(k, s, p)
    BY <1>2 DEF MappedPages
  <2>2. PICK d \in R, x \in UIdx : HasTable(k, d, x) /\ TableOf(k, d, x) = s[1]
    BY <2>1 DEF TablePages
  <2>3. <<x, s[2]>> \in VA
    BY <2>1 DEF VA
  <2>4. PageLookup(k, d, <<x, s[2]>>) = k.mem[s[1]][s[2]]
    BY <2>2 DEF PageLookup
  <2>5. k.mem[s[1]][s[2]] \in Mapping /\ k.mem[s[1]][s[2]].pg = p
    BY <2>1 DEF SlotRefers
  <2> QED
    BY <2>3, <2>4, <2>5, NoPteAssumption
<1>3. ASSUME NEW d \in R, NEW va \in VA,
             PageLookup(k, d, va) # NoPte, PageLookup(k, d, va).pg = p
      PROVE  p \in MappedPages(k, R)
  <2>1. HasTable(k, d, va[1])
    BY <1>3 DEF PageLookup
  <2>2. /\ va[2] \in Idx /\ TableOf(k, d, va[1]) \in TablePages(k, R)
        /\ PageLookup(k, d, va) = k.mem[TableOf(k, d, va[1])][va[2]]
    BY <2>1, WalkedSlot
  <2>3. PageLookup(k, d, va) \in Mapping
    BY <1>1, <1>3, <2>2, EntryType, PteFacts
  <2>4. SlotRefers(k, <<TableOf(k, d, va[1]), va[2]>>, p)
    BY <1>3, <2>2, <2>3 DEF SlotRefers
  <2> QED
    BY <1>3, <2>2, <2>3, <2>4, PteFacts DEF MappedPages
<1> QED
  BY <1>2, <1>3

\* A page is free unless it is a directory, held, mapped or a page table.
LEMMA FreeChar ==
  ASSUME NEW k, NEW R, NEW held, Good(k, R, held)
  PROVE  FreePages(k) = Page \ (R \cup held \cup MappedPages(k, R) \cup TablePages(k, R))
<1>1. FreePages(k) \subseteq Page
  BY GoodParts, MemoryParts DEF FreePages
<1>2. ASSUME NEW p \in FreePages(k)
      PROVE  p \notin R \cup held \cup MappedPages(k, R) \cup TablePages(k, R)
  BY <1>1, GoodParts, MappedPagesRole, TableRole
<1>3. ASSUME NEW p \in Page, p \notin FreePages(k), p \notin R, p \notin held
      PROVE  p \in MappedPages(k, R) \cup TablePages(k, R)
  <2>1. k \in Memory /\ R \in SUBSET Page /\ k.ref[p] # 0
    BY <1>3, GoodParts
  <2>2. RefSlots(k, R, p) # {}
    <3>1. k.ref[p] = Cardinality(RefSlots(k, R, p))
      BY <1>3, GoodParts
    <3> QED
      BY <2>1, <3>1, FS_EmptySet
  <2>3. PICK s \in LiveSlots(k, R) : SlotRefers(k, s, p)
    BY <2>2 DEF RefSlots
  <2>4. CASE s \in PdeSlots(R)
    BY <2>1, <2>3, <2>4, NoPteAssumption, <1>3 DEF SlotRefers, PdeSlots, TablePages, HasTable, TableOf
  <2>5. CASE s \in TablePages(k, R) \X Idx
    BY <1>3, <2>3, <2>5 DEF MappedPages
  <2> QED
    BY <2>3, <2>4, <2>5 DEF LiveSlots
<1> QED
  BY <1>1, <1>2, <1>3

----------------------------------------------------------------------------
(* page_insert.                                                            *)

\* After the walk the inserted page still is a data page, counted as before.
LEMMA WalkedPage ==
  ASSUME NEW k, NEW R, NEW held, Good(k, R, held), NEW m, Good(m, R, held), Extends(k, m, R),
         NEW p \in held \cup MappedPages(k, R)
  PROVE  /\ p \in Page /\ p \notin R \cup TablePages(m, R) \cup FreePages(m)
         /\ m.ref[p] = k.ref[p]
<1>1. p \in Page /\ p \notin FreePages(k)
  BY HeldRole, MappedPagesRole
<1>2. m.ref[p] = k.ref[p]
  BY <1>1 DEF Extends
<1>3. CASE p \in held
  BY <1>1, <1>2, <1>3, HeldRole
<1>4. CASE p \in MappedPages(k, R)
  <2>1. PICK s \in TablePages(k, R) \X Idx : SlotRefers(k, s, p)
    BY <1>4 DEF MappedPages
  <2>2. s[1] \in TablePages(k, R) /\ s \in TablePages(m, R) \X Idx
    BY DEF Extends
  <2>3. SlotRefers(m, s, p)
    BY <2>1, <2>2 DEF Extends, SlotRefers
  <2>4. p \in MappedPages(m, R)
    BY <1>1, <2>2, <2>3 DEF MappedPages
  <2> QED
    BY <1>1, <1>2, <2>4, MappedPagesRole
<1> QED
  BY <1>3, <1>4

\* The memory that page_insert leaves, by what the walked entry held before.
LEMMA InsertForm ==
  ASSUME NEW k, NEW kw, NEW R, NEW held, Good(kw, R, held),
         NEW d \in R, NEW va \in VA, kw = Walk(k, d, va[1]), ~WalkFails(k, d, va[1]),
         HasTable(kw, d, va[1]), NEW t, t = TableOf(kw, d, va[1]), NEW i, i = va[2],
         NEW p \in Page, NEW perm \in Perm
  PROVE  PageInsert(k, d, p, va, perm) =
           IF kw.mem[t][i] = NoPte
           THEN MappedTo(kw, t, i, p, perm)
           ELSE SetEntry(Unmapped(Incref(kw, p), t, i), t, i, [pg |-> p, perm |-> perm])
<1> DEFINE ki == Incref(kw, p)
<1>1. /\ kw \in Memory /\ R \in SUBSET Page /\ d \in Page /\ i \in Idx /\ va[1] \in Idx
      /\ t \in Page /\ t \notin R /\ kw.mem \in [Page -> PageContent]
  BY GoodParts, WalkedSlot, TableRole
<1>2. ki \in Memory /\ ki.mem = kw.mem
  BY <1>1, IncrefFields
<1>3. PageInsert(k, d, p, va, perm) =
        LET kr == PageRemove(ki, d, va)
        IN  SetEntry(kr, TableOf(kr, d, va[1]), i, [pg |-> p, perm |-> perm])
  BY DEF PageInsert
<1> HIDE DEF ki
<1>4. /\ HasTable(ki, d, va[1]) /\ TableOf(ki, d, va[1]) = t
      /\ PageLookup(ki, d, va) = kw.mem[t][i]
  BY <1>2 DEF HasTable, TableOf, PageLookup
<1>5. CASE kw.mem[t][i] = NoPte
  <2>1. PageRemove(ki, d, va) = ki
    BY <1>4, <1>5 DEF PageRemove
  <2> QED
    BY <1>3, <1>4, <1>5, <2>1 DEF MappedTo, ki
<1>6. CASE kw.mem[t][i] # NoPte
  <2> DEFINE ku == Unmapped(ki, t, i)
  <2>1. PageRemove(ki, d, va) = ku
    BY <1>2, <1>4, <1>6 DEF PageRemove, Unmapped, PageAt
  <2>2. ku.mem = [kw.mem EXCEPT ![t][i] = NoPte]
    BY <1>1, <1>2, UnmappedMem
  <2> HIDE DEF ku
  <2>3. ku.mem[d] = kw.mem[d]
    BY <1>1, <2>2
  <2>4. TableOf(ku, d, va[1]) = t
    BY <2>3 DEF TableOf
  <2> QED
    BY <1>3, <1>6, <2>1, <2>4 DEF ku, ki
<1> QED
  BY <1>5, <1>6

\* A successful page_insert maps va to p and changes no other translation.
LEMMA GoodInsert ==
  ASSUME NEW k, NEW R, NEW held, Good(k, R, held),
         NEW d \in R, NEW va \in VA, ~WalkFails(k, d, va[1]),
         NEW p \in held \cup MappedPages(k, R), k.ref[p] < RefMax, NEW perm \in Perm
  PROVE  /\ Good(PageInsert(k, d, p, va, perm), R, held \ {p})
         /\ LookupChanged(k, PageInsert(k, d, p, va, perm), R, d, va, [pg |-> p, perm |-> perm])
         /\ SameDirs(Walk(k, d, va[1]), PageInsert(k, d, p, va, perm), R)
<1> DEFINE kw == Walk(k, d, va[1])
           t == TableOf(kw, d, va[1])
           i == va[2]
           e == [pg |-> p, perm |-> perm]
           m == PageInsert(k, d, p, va, perm)
<1>1. va[1] \in UIdx /\ i \in Idx
  BY DEF VA
<1>2. /\ Good(kw, R, held)
      /\ ~WalkFails(k, d, va[1]) => HasTable(kw, d, va[1])
      /\ SameLookup(k, kw, R)
      /\ Extends(k, kw, R)
  BY <1>1, GoodWalk
<1>3. HasTable(kw, d, va[1])
  BY <1>2
<1>4. /\ p \in Page /\ p \notin R \cup TablePages(kw, R) \cup FreePages(kw)
      /\ kw.ref[p] = k.ref[p]
  BY <1>2, WalkedPage
<1>5. m = IF kw.mem[t][i] = NoPte
          THEN MappedTo(kw, t, i, p, perm)
          ELSE SetEntry(Unmapped(Incref(kw, p), t, i), t, i, [pg |-> p, perm |-> perm])
  BY <1>2, <1>3, <1>4, InsertForm
<1>6. t \in TablePages(kw, R)
  BY <1>2, <1>3, WalkedSlot
<1>7. e \in Pte
  BY <1>4, PteFacts DEF Pte
<1> HIDE DEF m, kw, i
<1>8. Good(m, R, held \ {p}) /\ m.mem = [kw.mem EXCEPT ![t][i] = e]
  <2> HIDE DEF t
  <2>1. CASE kw.mem[t][i] = NoPte
    <3>1. /\ Good(MappedTo(kw, t, i, p, perm), R, held \ {p})
          /\ MappedTo(kw, t, i, p, perm).mem =
               [kw.mem EXCEPT ![t][i] = [pg |-> p, perm |-> perm]]
      BY <1>1, <1>2, <1>4, <1>6, <2>1, GoodMap
    <3> QED
      BY <1>5, <2>1, <3>1
  <2>2. CASE kw.mem[t][i] # NoPte
    <3> DEFINE n == SetEntry(Unmapped(Incref(kw, p), t, i), t, i, [pg |-> p, perm |-> perm])
    <3>1. /\ Good(n, R, held \ {p})
          /\ n.mem = [kw.mem EXCEPT ![t][i] = [pg |-> p, perm |-> perm]]
      BY <1>1, <1>2, <1>4, <1>6, <2>2, GoodRemap
    <3> QED
      BY <1>5, <2>2, <3>1
  <2> QED
    BY <2>1, <2>2
<1>9. LookupChanged(kw, m, R, d, va, e)
  <2> HIDE DEF e
  <2> QED
    BY <1>2, <1>3, <1>7, <1>8, EntryLookup DEF t, i
<1>10. LookupChanged(k, m, R, d, va, e)
  BY <1>2, <1>9 DEF LookupChanged, SameLookup
<1>11. SameDirs(kw, m, R)
  <2> HIDE DEF t
  <2> QED
    BY <1>1, <1>2, <1>6, <1>8, DirsEntry
<1> QED
  BY <1>8, <1>10, <1>11 DEF m, kw

----------------------------------------------------------------------------
(* The counts of page directories, which no entry refers to.               *)

SameCounts(k, m, R) == \A c \in R : m.ref[c] = k.ref[c]

\* page_decref counts one page.
LEMMA DecrefOther ==
  ASSUME NEW k \in Memory, NEW p \in Page, NEW q \in Page, q # p
  PROVE  PageDecref(k, p).ref[q] = k.ref[q]
<1>1. /\ Decremented(k, p) \in Memory
      /\ Decremented(k, p).ref = [k.ref EXCEPT ![p] = IF @ = 0 THEN RefMax ELSE @ - 1]
  BY DecrementedFields, ZenonT(60)
<1>2. Decremented(k, p).ref[q] = k.ref[q]
  BY <1>1, MemoryParts
<1>3. PageFree(Decremented(k, p), p).ref = Decremented(k, p).ref
  BY <1>1, FreeFields
<1> QED
  BY <1>2, <1>3 DEF PageDecref

LEMMA DecrefMemory ==
  ASSUME NEW k \in Memory, NEW p \in Page
  PROVE  PageDecref(k, p) \in Memory
BY DecrementedFields, FreeFields DEF PageDecref

LEMMA SetEntryRef ==
  ASSUME NEW k \in Memory, NEW t, NEW i, NEW e
  PROVE  SetEntry(k, t, i, e).ref = k.ref
BY DEF SetEntry, Memory

LEMMA CountsUnmapped ==
  ASSUME NEW k \in Memory, NEW R \in SUBSET Page, NEW t \in Page, NEW i \in Idx,
         PageAt(k, t, i) \in Page \ R
  PROVE  SameCounts(k, Unmapped(k, t, i), R)
<1> DEFINE kd == PageDecref(k, PageAt(k, t, i))
<1>1. kd \in Memory /\ \A c \in R : kd.ref[c] = k.ref[c]
  BY DecrefOther, DecrefMemory
<1>2. Unmapped(k, t, i) = SetEntry(kd, t, i, NoPte)
  BY DEF Unmapped
<1> HIDE DEF kd
<1>3. Unmapped(k, t, i).ref = kd.ref
  BY <1>1, <1>2, SetEntryRef
<1> QED
  BY <1>1, <1>3 DEF SameCounts

LEMMA CountsRemove ==
  ASSUME NEW k, NEW R, NEW held, Good(k, R, held), NEW d \in R, NEW va \in VA,
         PageLookup(k, d, va) # NoPte
  PROVE  SameCounts(k, PageRemove(k, d, va), R)
<1> DEFINE t == TableOf(k, d, va[1])
           i == va[2]
<1>1. HasTable(k, d, va[1])
  BY DEF PageLookup
<1>2. t \in TablePages(k, R) /\ i \in Idx /\ PageLookup(k, d, va) = k.mem[t][i]
  BY <1>1, WalkedSlot
<1>3. PageRemove(k, d, va) = Unmapped(k, t, i)
  BY <1>2 DEF PageRemove, Unmapped, PageAt
<1> HIDE DEF t, i
<1>4. k \in Memory /\ R \in SUBSET Page /\ t \in Page
  BY <1>2, GoodParts, TableRole
<1>5. PageAt(k, t, i) \in Page \ R
  BY <1>2, EntryRole DEF PageAt
<1> QED
  BY <1>2, <1>3, <1>4, <1>5, CountsUnmapped

LEMMA CountsDrop ==
  ASSUME NEW k, NEW R, NEW held, Good(k, R, held),
         NEW d \in R, NEW x \in UIdx, HasTable(k, d, x)
  PROVE  SameCounts(k, PageDecref(SetEntry(k, d, x, NoPte), TableOf(k, d, x)), R)
<1> DEFINE ke == SetEntry(k, d, x, NoPte)
           h == TableOf(k, d, x)
<1>1. k \in Memory /\ R \in SUBSET Page /\ d \in Page /\ x \in Idx
  BY GoodParts
<1>2. h \in TablePages(k, R)
  BY <1>1, EntryType, PteFacts DEF TablePages, HasTable, TableOf
<1>3. h \in Page /\ h \notin R
  BY <1>2, TableRole
<1>4. /\ ke \in Memory /\ ke.free = k.free /\ ke.ref = k.ref
      /\ ke.mem = [k.mem EXCEPT ![d][x] = NoPte]
  BY <1>1, SetEntryFields, PteFacts
<1> HIDE DEF ke, h
<1>5. \A c \in R : PageDecref(ke, h).ref[c] = k.ref[c]
  BY <1>1, <1>3, <1>4, DecrefOther
<1> QED
  BY <1>5 DEF SameCounts, ke, h

LEMMA CountsInsert ==
  ASSUME NEW k, NEW R, NEW held, Good(k, R, held),
         NEW d \in R, NEW va \in VA, ~WalkFails(k, d, va[1]),
         NEW p \in held \cup MappedPages(k, R), NEW perm \in Perm
  PROVE  SameCounts(k, PageInsert(k, d, p, va, perm), R)
<1> DEFINE kw == Walk(k, d, va[1])
           t == TableOf(kw, d, va[1])
           i == va[2]
           e == [pg |-> p, perm |-> perm]
           ki == Incref(kw, p)
<1>1. va[1] \in UIdx /\ i \in Idx
  BY DEF VA
<1>2. Good(kw, R, held) /\ HasTable(kw, d, va[1]) /\ Extends(k, kw, R)
  BY <1>1, GoodWalk
<1>3. p \in Page /\ p \notin R
  BY HeldRole, MappedPagesRole
<1>4. PageInsert(k, d, p, va, perm)
        = IF kw.mem[t][i] = NoPte THEN MappedTo(kw, t, i, p, perm)
          ELSE SetEntry(Unmapped(ki, t, i), t, i, e)
  BY <1>2, <1>3, InsertForm
<1>5. t \in TablePages(kw, R) /\ e \in Pte
  BY <1>2, <1>3, WalkedSlot, PteFacts DEF Pte
<1> HIDE DEF kw, t, i, e
<1>6. kw \in Memory /\ R \in SUBSET Page /\ t \in Page
  BY <1>2, <1>5, GoodParts, TableRole
<1>7. \A c \in R : kw.ref[c] = k.ref[c]
  <2>1. \A c \in R : c \in Page \ FreePages(k)
    BY <1>6, GoodParts
  <2> QED
    BY <1>2, <2>1 DEF Extends
<1>8. /\ ki \in Memory /\ ki.mem = kw.mem
      /\ ki.ref = [kw.ref EXCEPT ![p] = IF @ = RefMax THEN 0 ELSE @ + 1]
  BY <1>3, <1>6, IncrefFields
<1> HIDE DEF ki
<1>9. \A c \in R : ki.ref[c] = kw.ref[c]
  BY <1>3, <1>6, <1>8, MemoryParts
<1>10. CASE kw.mem[t][i] = NoPte
  <2>1. PageInsert(k, d, p, va, perm) = SetEntry(ki, t, i, e)
    BY <1>4, <1>10 DEF MappedTo, ki, e
  <2>2. SetEntry(ki, t, i, e).ref = ki.ref
    BY <1>8, SetEntryRef
  <2> QED
    BY <1>7, <1>9, <2>1, <2>2 DEF SameCounts
<1>11. CASE kw.mem[t][i] # NoPte
  <2> DEFINE ku == Unmapped(ki, t, i)
  <2>1. kw.mem[t][i] \in Mapping
    BY <1>1, <1>6, <1>11, EntryType, PteFacts
  <2>2. PageAt(ki, t, i) \in Page \ R
    BY <1>1, <1>2, <1>5, <1>8, <1>11, EntryRole DEF PageAt
  <2>3. SameCounts(ki, ku, R)
    BY <1>1, <1>6, <1>8, <2>2, CountsUnmapped
  <2>4. ku \in Memory
    <3>1. PageDecref(ki, PageAt(ki, t, i)) \in Memory
      BY <1>8, <2>2, DecrefMemory
    <3> QED
      BY <1>1, <1>6, <3>1, SetEntryFields, PteFacts DEF Unmapped
  <2>5. PageInsert(k, d, p, va, perm) = SetEntry(ku, t, i, e)
    BY <1>4, <1>11
  <2> HIDE DEF ku
  <2>6. SetEntry(ku, t, i, e).ref = ku.ref
    BY <2>4, SetEntryRef
  <2> QED
    BY <1>7, <1>9, <2>3, <2>5, <2>6 DEF SameCounts
<1> QED
  BY <1>10, <1>11

----------------------------------------------------------------------------
(* Directories come and go.                                                *)

\* Nothing is mapped below UTOP in a directory with the content c.
EmptyHalf(c) == \A x \in UIdx : c[x] = NoPte

\* The page p has the content c and is counted once.
DirAt(k, p, c) == k.mem[p] = c /\ k.ref[p] = 1

NothingMapped(k, d) == \A va \in VA : PageLookup(k, d, va) = NoPte

\* The page p, with the content c, is counted once more.
DirMade(k, p, c) == [Incref(k, p) EXCEPT !.mem[p] = c]

(* A held page becomes a directory, counted once, whose user half is       *)
(* empty: what env_setup_vm does.                                          *)
LEMMA GoodNewDir ==
  ASSUME NEW k, NEW R, NEW held, Good(k, R, held),
         NEW p \in held, NEW c \in PageContent, EmptyHalf(c)
  PROVE  /\ Good(DirMade(k, p, c), R \cup {p}, held \ {p})
         /\ SameLookup(k, DirMade(k, p, c), R)
         /\ NothingMapped(DirMade(k, p, c), p)
         /\ SameDirs(k, DirMade(k, p, c), R) /\ SameCounts(k, DirMade(k, p, c), R)
         /\ DirAt(DirMade(k, p, c), p, c)
<1> DEFINE Q == R \cup {p}
           m == DirMade(k, p, c)
<1>1. /\ k \in Memory /\ R \in SUBSET Page /\ held \in SUBSET Page
      /\ k.ref \in [Page -> 0..RefMax] /\ k.mem \in [Page -> PageContent]
      /\ p \in Page /\ p \notin R \cup TablePages(k, R) \cup FreePages(k)
      /\ k.ref[p] = 0 /\ RefSlots(k, R, p) = {}
  BY GoodParts, HeldRole
<1>2. /\ m \in Memory /\ m.free = k.free
      /\ m.ref = [k.ref EXCEPT ![p] = 1] /\ m.mem = [k.mem EXCEPT ![p] = c]
  <2> DEFINE ki == Incref(k, p)
  <2>1. /\ ki \in Memory /\ ki.free = k.free /\ ki.mem = k.mem
        /\ ki.ref = [k.ref EXCEPT ![p] = 1]
    BY <1>1, IncrefFields, RefMaxAssumption
  <2>2. m = [ki EXCEPT !.mem[p] = c]
    BY DEF DirMade
  <2> HIDE DEF m
  <2> HIDE DEF ki
  <2>3. [ki.mem EXCEPT ![p] = c] \in [Page -> PageContent]
    BY <1>1, <2>1
  <2> QED
    BY <2>1, <2>2, <2>3 DEF Memory
<1> HIDE DEF m
<1>3. /\ \A t \in Page \ {p} : m.mem[t] = k.mem[t]
      /\ \A t \in Page \ {p} : m.ref[t] = k.ref[t]
      /\ m.mem[p] = c /\ m.ref[p] = 1
  BY <1>1, <1>2
<1>q. Q \in SUBSET Page /\ \A d : d \in Q <=> d \in R \/ d = p
  BY <1>1
<1>4. /\ SameDirs(k, m, R) /\ SameCounts(k, m, R)
      /\ \A x \in UIdx : ~HasTable(m, p, x)
  BY <1>1, <1>3 DEF SameDirs, SameCounts, HasTable, EmptyHalf
<1>5. /\ TablePages(m, R) = TablePages(k, R)
      /\ \A q : RefSlots(m, R, q) = RefSlots(k, R, q)
  <2>1. k \in Memory /\ m \in Memory /\ R \in SUBSET Page /\ p \in Page
    BY <1>1, <1>2
  <2>2. p \notin R /\ p \notin TablePages(k, R) /\ \A t \in Page \ {p} : m.mem[t] = k.mem[t]
    BY <1>1, <1>3
  <2> QED
    BY <2>1, <2>2, DataWrite
<1>6. TablePages(m, Q) = TablePages(k, R)
  BY <1>4, <1>5 DEF TablePages
<1>7. ASSUME NEW q PROVE RefSlots(m, Q, q) = RefSlots(k, R, q)
  <2>1. LiveSlots(m, Q) = LiveSlots(m, R) \cup ({p} \X UIdx)
    BY <1>5, <1>6 DEF LiveSlots, PdeSlots
  <2>2. \A s \in {p} \X UIdx : ~SlotRefers(m, s, q)
    BY <1>3, NoPteAssumption DEF SlotRefers, EmptyHalf
  <2>3. RefSlots(m, Q, q) = RefSlots(m, R, q)
    BY <2>1, <2>2 DEF RefSlots
  <2> QED
    BY <1>5, <2>3
<1> HIDE DEF Q
<1>8. Once(m) /\ FreePages(m) = FreePages(k)
  BY <1>2, GoodParts DEF Once, FreePages
<1>9. \A q \in Page : q \in FreePages(m) <=> m.ref[q] = 0 /\ q \notin Q \cup (held \ {p})
  BY <1>1, <1>q, <1>3, <1>8, GoodParts
<1>10. \A q \in Page \ Q : m.ref[q] = Cardinality(RefSlots(m, Q, q))
  BY <1>q, <1>3, <1>7, GoodParts
<1>11. ASSUME NEW d \in Q, NEW x \in UIdx, HasTable(m, d, x)
       PROVE  RefSlots(m, Q, TableOf(m, d, x)) = {<<d, x>>}
  <2>1. d \in R /\ m.mem[d] = k.mem[d]
    BY <1>q, <1>4, <1>11 DEF SameDirs
  <2>2. HasTable(k, d, x) /\ TableOf(m, d, x) = TableOf(k, d, x)
    BY <1>11, <2>1 DEF HasTable, TableOf
  <2> QED
    BY <1>7, <2>1, <2>2, GoodParts
<1>12. \A d \in Q : RefSlots(m, Q, d) = {}
  BY <1>1, <1>q, <1>7, GoodParts
<1>13. \A q \in held \ {p} : m.ref[q] = 0 /\ q \notin Q
  BY <1>1, <1>q, <1>3, GoodParts
<1>14. Good(m, Q, held \ {p})
  BY <1>1, <1>q, <1>2, <1>8, <1>9, <1>10, <1>11, <1>12, <1>13, GoodWhole
<1>15. SameLookup(k, m, R)
  <2>1. \A t \in R \cup TablePages(k, R) : m.mem[t] = k.mem[t]
    BY <1>1, <1>3, TablesType
  <2> QED
    BY <2>1, SameTables
<1>16. NothingMapped(m, p)
  BY <1>4 DEF NothingMapped, PageLookup, VA
<1> QED
  BY <1>3, <1>4, <1>14, <1>15, <1>16 DEF Q, m, DirAt

(* A directory with one reference and no page tables is given back: what   *)
(* env_free does at its end.                                               *)
LEMMA GoodOldDir ==
  ASSUME NEW k, NEW R, NEW held, Good(k, R, held),
         NEW d \in R, k.ref[d] = 1, d \notin held, \A x \in UIdx : ~HasTable(k, d, x),
         NEW m, m = PageDecref(k, d)
  PROVE  /\ Good(m, R \ {d}, held)
         /\ m.mem = k.mem
         /\ \A c \in R \ {d} : m.ref[c] = k.ref[c]
<1> DEFINE Q == R \ {d}
<1>1. /\ k \in Memory /\ R \in SUBSET Page /\ held \in SUBSET Page
      /\ k.ref \in [Page -> 0..RefMax] /\ d \in Page
      /\ d \notin FreePages(k) /\ RefSlots(k, R, d) = {}
  BY GoodParts
<1>2. /\ m \in Memory /\ m.free = <<d>> \o k.free /\ m.mem = k.mem
      /\ m.ref = [k.ref EXCEPT ![d] = 0]
  <2>1. k.ref[d] \in 1..RefMax
    BY RefMaxAssumption
  <2>2. /\ PageDecref(k, d) \in Memory /\ PageDecref(k, d).free = <<d>> \o k.free
        /\ PageDecref(k, d).mem = k.mem /\ PageDecref(k, d).ref = [k.ref EXCEPT ![d] = @ - 1]
    BY <1>1, <2>1, DecrefFields
  <2>3. [k.ref EXCEPT ![d] = @ - 1] = [k.ref EXCEPT ![d] = 0]
    BY <1>1
  <2> QED
    BY <2>2, <2>3
<1>3. \A q \in Page : m.ref[q] = IF q = d THEN 0 ELSE k.ref[q]
  BY <1>1, <1>2
<1>q. Q \in SUBSET Page /\ \A c : c \in Q <=> c \in R /\ c # d
  BY <1>1
<1>4. Once(m) /\ FreePages(m) = FreePages(k) \cup {d}
  BY <1>1, <1>2, GoodParts, PushFree, SMTT(30)
<1>5. TablePages(m, Q) = TablePages(k, R)
  BY <1>2 DEF TablePages, HasTable, TableOf
<1>6. ASSUME NEW q PROVE RefSlots(m, Q, q) = RefSlots(k, R, q)
  <2>1. LiveSlots(k, R) = LiveSlots(m, Q) \cup ({d} \X UIdx)
    BY <1>5 DEF LiveSlots, PdeSlots
  <2>2. \A s \in {d} \X UIdx : ~SlotRefers(k, s, q)
    BY NoPteAssumption DEF SlotRefers, HasTable
  <2>3. \A s : SlotRefers(m, s, q) <=> SlotRefers(k, s, q)
    BY <1>2 DEF SlotRefers
  <2> QED
    BY <2>1, <2>2, <2>3 DEF RefSlots
<1> HIDE DEF Q
<1>7. \A q \in Page : q \in FreePages(m) <=> m.ref[q] = 0 /\ q \notin Q \cup held
  <2>1. \A q \in Page : q \in FreePages(k) <=> k.ref[q] = 0 /\ q \notin R \cup held
    BY GoodParts
  <2> QED
    BY <1>q, <1>3, <1>4, <2>1, SMTT(30)
<1>8. \A q \in Page \ Q : m.ref[q] = Cardinality(RefSlots(m, Q, q))
  <2>1. \A q \in Page \ R : k.ref[q] = Cardinality(RefSlots(k, R, q))
    BY GoodParts
  <2>2. RefSlots(k, R, d) = {}
    BY <1>1
  <2> QED
    BY <1>q, <1>3, <1>6, <2>1, <2>2, FS_EmptySet
<1>9. ASSUME NEW c \in Q, NEW x \in UIdx, HasTable(m, c, x)
      PROVE  RefSlots(m, Q, TableOf(m, c, x)) = {<<c, x>>}
  <2>1. HasTable(k, c, x) /\ TableOf(m, c, x) = TableOf(k, c, x)
    BY <1>2, <1>9 DEF HasTable, TableOf
  <2> QED
    BY <1>q, <1>6, <2>1, GoodParts
<1>10. \A c \in Q : RefSlots(m, Q, c) = {}
  BY <1>q, <1>6, GoodParts
<1>11. \A q \in held : m.ref[q] = 0 /\ q \notin Q
  BY <1>1, <1>q, <1>3, GoodParts
<1>12. Good(m, Q, held)
  BY <1>1, <1>q, <1>2, <1>4, <1>7, <1>8, <1>9, <1>10, <1>11, GoodWhole
<1> QED
  BY <1>1, <1>2, <1>3, <1>12 DEF Q

\* t is the page table at index x of d.
Hung(k, d, x, t) == k.mem[d][x] = [pg |-> t, perm |-> TablePerm]

\* m is k after page_insert put p at entry j of t.
Inserted(k, m, t, j, p, perm) ==
  /\ m \in Memory
  /\ m.mem = [k.mem EXCEPT ![t][j] = [pg |-> p, perm |-> perm]]
  /\ k.mem[t][j] = NoPte => m.free = k.free /\ m.ref = [k.ref EXCEPT ![p] = @ + 1]
  /\ k.mem[t][j] # NoPte /\ PageAt(k, t, j) = p => m.free = k.free /\ m.ref = k.ref
  /\ k.mem[t][j] # NoPte /\ PageAt(k, t, j) # p =>
       /\ m.free = <<PageAt(k, t, j)>> \o k.free
       /\ m.ref = [k.ref EXCEPT ![p] = @ + 1, ![PageAt(k, t, j)] = 0]

\* The table hung at a directory entry is the one the MMU walks for it.
LEMMA HungFacts ==
  ASSUME NEW k \in Memory, NEW d \in Page, NEW t \in Page, NEW x \in Idx, Hung(k, d, x, t)
  PROVE  HasTable(k, d, x) /\ TableOf(k, d, x) = t /\ \A j : PageLookup(k, d, <<x, j>>) = k.mem[t][j]
<1>1. k.mem[d][x] \in Mapping /\ k.mem[d][x].pg = t
  BY PteFacts, PermAssumption DEF Hung
<1>2. k.mem[d][x] # NoPte
  BY <1>1, NoPteAssumption
<1> QED
  BY <1>1, <1>2 DEF HasTable, TableOf, PageLookup

\* page_insert after pgdir_walk.
InsertInto(w, d, p, va, perm) ==
  SetEntry(PageRemove(Incref(w, p), d, va), TableOf(PageRemove(Incref(w, p), d, va), d, va[1]),
           va[2], [pg |-> p, perm |-> perm])

\* When the walk succeeds, page_insert goes on with the walked memory.
LEMMA WalkedInsert ==
  ASSUME NEW k, NEW d, NEW p, NEW va, NEW perm, ~WalkFails(k, d, va[1])
  PROVE  PageInsert(k, d, p, va, perm) = InsertInto(Walk(k, d, va[1]), d, p, va, perm)
<1> DEFINE w == Walk(k, d, va[1])
<1>1. PageInsert(k, d, p, va, perm) =
        LET kr == PageRemove(Incref(w, p), d, va)
        IN  SetEntry(kr, TableOf(kr, d, va[1]), va[2], [pg |-> p, perm |-> perm])
  BY DEF PageInsert
<1> HIDE DEF w
<1>2. PageInsert(k, d, p, va, perm) = InsertInto(w, d, p, va, perm)
  BY <1>1 DEF InsertInto
<1> QED
  BY <1>2 DEF w

\* page_insert where there is a table: the entry is written, the page counted,
\* and the page it replaces, if any, loses its only reference and is freed.
LEMMA OneInsert ==
  ASSUME NEW k \in Memory, NEW d \in Page, NEW t \in Page, d # t, NEW x \in Idx, NEW j \in Idx,
         Hung(k, d, x, t), NEW p \in Page, NEW perm \in Perm, k.ref[p] < RefMax,
         k.mem[t][j] # NoPte => k.ref[PageAt(k, t, j)] = 1
  PROVE  Inserted(k, PageInsert(k, d, p, <<x, j>>, perm), t, j, p, perm)
<1> DEFINE e == [pg |-> p, perm |-> perm]
           ki == Incref(k, p)
           m == PageInsert(k, d, p, <<x, j>>, perm)
<1>1. /\ k.mem \in [Page -> PageContent] /\ k.mem[t] \in [Idx -> Pte] /\ k.ref \in [Page -> 0..RefMax]
      /\ k.mem[t][j] \in Pte /\ RefMax \in Nat \ {0}
  BY MemoryParts, RefMaxAssumption DEF PageContent
<1>2. HasTable(k, d, x) /\ TableOf(k, d, x) = t
  BY HungFacts
<1>3. ki \in Memory /\ ki.free = k.free /\ ki.mem = k.mem /\ ki.ref = [k.ref EXCEPT ![p] = @ + 1]
  <2>1. k.ref[p] # RefMax
    BY <1>1
  <2> QED
    BY <2>1, IncrefFields
<1>4. Hung(ki, d, x, t)
  BY <1>3 DEF Hung
<1>5. HasTable(ki, d, x) /\ TableOf(ki, d, x) = t /\ PageLookup(ki, d, <<x, j>>) = k.mem[t][j]
  BY <1>3, <1>4, HungFacts
<1>6. m = LET kr == PageRemove(ki, d, <<x, j>>)
          IN  SetEntry(kr, TableOf(kr, d, x), j, e)
  <2>1. ~WalkFails(k, d, x) /\ Walk(k, d, x) = k /\ <<x, j>>[1] = x /\ <<x, j>>[2] = j
    BY <1>2 DEF WalkFails, Walk
  <2> QED
    <3>1. m = InsertInto(k, d, p, <<x, j>>, perm)
      <4>1. ~WalkFails(k, d, <<x, j>>[1]) /\ Walk(k, d, <<x, j>>[1]) = k
        BY <2>1
      <4> QED
        <5>1. m = InsertInto(Walk(k, d, <<x, j>>[1]), d, p, <<x, j>>, perm)
          BY <4>1, WalkedInsert DEF m
        <5> HIDE DEF m
        <5> QED
          BY <4>1, <5>1
    <3> HIDE DEF m
    <3> QED
      BY <2>1, <3>1, Zenon DEF InsertInto, ki, e
<1>7. e \in Pte
  BY PteFacts DEF Pte
<1> HIDE DEF ki, e, m
<1>8. CASE k.mem[t][j] = NoPte
  <2>1. PageRemove(ki, d, <<x, j>>) = ki
    BY <1>5, <1>8 DEF PageRemove
  <2>2. m = SetEntry(ki, t, j, e)
    BY <1>5, <1>6, <2>1
  <2>3. m \in Memory /\ m.free = k.free /\ m.ref = ki.ref /\ m.mem = [k.mem EXCEPT ![t][j] = e]
    BY <1>3, <1>7, <2>2, SetEntryFields
  <2> QED
    BY <1>3, <1>8, <2>3 DEF Inserted, m, e
<1>9. CASE k.mem[t][j] # NoPte
  <2> DEFINE q == PageAt(k, t, j)
             kr == PageRemove(ki, d, <<x, j>>)
  <2>1. k.mem[t][j] \in Mapping /\ q \in Page /\ k.ref[q] = 1 /\ PageAt(ki, t, j) = q
    BY <1>1, <1>3, <1>9, PteFacts DEF PageAt, Pte
  <2> HIDE DEF q
  <2>2. q = p => ki.ref[q] = 2 /\ 2 \in 1..RefMax
    BY <1>1, <1>3, <2>1
  <2>3. q # p => ki.ref[q] = 1 /\ 1 \in 1..RefMax
    BY <1>1, <1>3, <2>1
  <2>4. MappedAt(ki, t, j)
    BY <1>3, <2>1, <2>2, <2>3 DEF MappedAt
  <2>5. kr = Unmapped(ki, t, j)
    BY <1>5, <1>9, <2>1, <1>3 DEF PageRemove, Unmapped, PageAt
  <2>6. Released(ki, kr, t, j, q)
    BY <1>3, <2>1, <2>4, <2>5, UnmappedFields
  <2> HIDE DEF kr
  <2>7. /\ kr \in Memory /\ kr.mem = [k.mem EXCEPT ![t][j] = NoPte]
        /\ kr.ref = [ki.ref EXCEPT ![q] = @ - 1]
        /\ q = p => kr.free = k.free
        /\ q # p => kr.free = <<q>> \o k.free
    BY <1>3, <2>2, <2>3, <2>6 DEF Released
  <2>8. TableOf(kr, d, x) = t
    <3>1. kr.mem[d] = k.mem[d]
      BY <1>1, <2>7
    <3> QED
      BY <1>2, <3>1 DEF TableOf
  <2>9. m = SetEntry(kr, t, j, e)
    BY <1>6, <2>8 DEF kr
  <2> HIDE DEF e
  <2>10. m \in Memory /\ m.free = kr.free /\ m.ref = kr.ref /\ m.mem = [kr.mem EXCEPT ![t][j] = e]
    <3>1. kr \in Memory
      BY <2>7
    <3> QED
      BY <1>7, <2>9, <3>1, SetEntryFields
  <2>11. m.mem = [k.mem EXCEPT ![t][j] = e]
    BY <1>1, <2>7, <2>10
  <2>12. q = p => m.free = k.free /\ m.ref = k.ref
    BY <1>1, <1>3, <2>1, <2>7, <2>10
  <2>13. q # p => m.free = <<q>> \o k.free /\ m.ref = [k.ref EXCEPT ![p] = @ + 1, ![q] = 0]
    <3> SUFFICES ASSUME q # p
                 PROVE  m.free = <<q>> \o k.free /\ m.ref = [k.ref EXCEPT ![p] = @ + 1, ![q] = 0]
      OBVIOUS
    <3>1. m.free = <<q>> \o k.free /\ m.ref = [ki.ref EXCEPT ![q] = @ - 1]
      BY <2>7, <2>10
    <3>2. ki.ref[q] - 1 = 0
      BY <2>3
    <3>3. [ki.ref EXCEPT ![q] = @ - 1] = [ki.ref EXCEPT ![q] = 0]
      BY <3>2, Zenon
    <3> QED
      BY <1>3, <3>1, <3>3, Zenon
  <2> QED
    BY <1>9, <2>10, <2>11, <2>12, <2>13 DEF Inserted, m, e, q
<1> QED
  BY <1>8, <1>9

\* page_remove of a mapped page clears the entry and drops one reference.
LEMMA OneRemove ==
  ASSUME NEW k \in Memory, NEW d \in Page, NEW t \in Page, NEW x \in Idx, NEW j \in Idx,
         Hung(k, d, x, t), k.mem[t][j] # NoPte, k.ref[PageAt(k, t, j)] \in 1..RefMax
  PROVE  Released(k, PageRemove(k, d, <<x, j>>), t, j, PageAt(k, t, j))
<1>1. k.mem[t][j] \in Mapping
  BY MemoryParts DEF PageContent, Pte
<1>2. HasTable(k, d, x) /\ TableOf(k, d, x) = t /\ PageLookup(k, d, <<x, j>>) = k.mem[t][j]
  BY HungFacts
<1>3. PageRemove(k, d, <<x, j>>) = Unmapped(k, t, j)
  BY <1>2 DEF PageRemove, Unmapped, PageAt
<1>4. MappedAt(k, t, j)
  BY <1>1 DEF MappedAt
<1> QED
  BY <1>3, <1>4, UnmappedFields

\* page_insert where pgdir_walk makes the page table.
LEMMA InsertWalked ==
  ASSUME NEW k, NEW d, NEW x, ~WalkFails(k, d, x), NEW w, w = Walk(k, d, x), HasTable(w, d, x),
         NEW p, NEW j, NEW perm
  PROVE  PageInsert(k, d, p, <<x, j>>, perm) = PageInsert(w, d, p, <<x, j>>, perm)
<1>1. Walk(w, d, x) = w
  BY Zenon DEF Walk
<1>2. ~WalkFails(w, d, x)
  BY Zenon DEF WalkFails
<1>3. <<x, j>>[1] = x
  OBVIOUS
<1>4. ~WalkFails(k, d, <<x, j>>[1]) /\ ~WalkFails(w, d, <<x, j>>[1])
  BY <1>2, <1>3
<1>5. PageInsert(k, d, p, <<x, j>>, perm) = InsertInto(Walk(k, d, <<x, j>>[1]), d, p, <<x, j>>, perm)
  BY <1>4, WalkedInsert, Zenon
<1>6. PageInsert(w, d, p, <<x, j>>, perm) = InsertInto(Walk(w, d, <<x, j>>[1]), d, p, <<x, j>>, perm)
  BY <1>4, WalkedInsert, Zenon
<1> QED
  BY <1>1, <1>3, <1>5, <1>6, Zenon
=============================================================================
