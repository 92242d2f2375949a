------------------------------ MODULE BootProofs ------------------------------
(***************************************************************************)
(* That the loader and entry.S execute what they should and load the       *)
(* kernel, for images of any number of segments and any sizes that fit     *)
(* together as LayoutAssumption and Linked say.                            *)
(***************************************************************************)
EXTENDS Boot, SequenceTheorems, TLAPS

----------------------------------------------------------------------------
(* Sectors.                                                                *)

LEMMA Sizes ==
  /\ SECTSIZE \in Nat /\ SECTSIZE > 1 /\ HDRSECTS \in Nat /\ HDRSECTS > 0
  /\ WARM \in Nat /\ LOADER \in Nat /\ ELFHDR \in Nat /\ MB \in Nat /\ KERNBASE \in Nat
  /\ WARM < LOADER /\ LOADER + SECTSIZE <= ELFHDR
  /\ ELFHDR % SECTSIZE = 0 /\ MB % SECTSIZE = 0
BY LayoutAssumption DEF LayoutAssumption

LEMMA Products ==
  /\ SECTSIZE * HDRSECTS \in Nat /\ SECTSIZE * HDRSECTS >= SECTSIZE
  /\ ELFHDR + SECTSIZE * HDRSECTS <= MB
<1>1. ELFHDR + HDRSECTS * SECTSIZE <= MB
  BY LayoutAssumption DEF LayoutAssumption
<1> QED
  BY <1>1, Sizes

LEMMA DivMod ==
  ASSUME NEW S \in Nat, S > 0, NEW x \in Nat
  PROVE  /\ x \div S \in Nat /\ x % S \in Nat /\ x % S < S
         /\ x = S * (x \div S) + (x % S)
OBVIOUS

\* The sector of an address.
LEMMA Unique ==
  ASSUME NEW S \in Nat, S > 0, NEW q \in Nat, NEW t \in Nat, t < S
  PROVE  (S * q + t) % S = t /\ (S * q + t) \div S = q
<1> DEFINE x == S * q + t
<1>0. S * q \in Nat
  OBVIOUS
<1>1. x \in Nat
  BY <1>0
<1> DEFINE d == x \div S
           m == x % S
<1>2. d \in Nat /\ m \in Nat /\ m < S /\ x = S * d + m
  BY <1>1, DivMod
<1> HIDE DEF d, m
<1>3. S * (q - d) = m - t
  BY <1>2
<1>4. q - d = 0
  <2>1. CASE q - d >= 1
    <3>1. S * (q - d) >= S
      BY <1>2, <2>1
    <3> QED
      BY <1>2, <1>3, <3>1
  <2>2. CASE q - d <= -1
    <3>1. S * (q - d) <= -S
      BY <1>2, <2>2
    <3> QED
      BY <1>2, <1>3, <3>1
  <2> QED
    BY <1>2, <2>1, <2>2
<1>5. m = t /\ d = q
  BY <1>2, <1>3, <1>4
<1> QED
  BY <1>5 DEF m, d

Aligned(p) == p \in Nat /\ p % SECTSIZE = 0

LEMMA DownIs ==
  ASSUME NEW x \in Nat
  PROVE  Aligned(Down(x)) /\ Down(x) <= x /\ x < Down(x) + SECTSIZE
<1> DEFINE d == x \div SECTSIZE
           m == x % SECTSIZE
<1>1. d \in Nat /\ m \in Nat /\ m < SECTSIZE /\ x = SECTSIZE * d + m
  BY Sizes, DivMod
<1>2. Down(x) = x - m
  BY DEF Down
<1> HIDE DEF d, m
<1>3. Down(x) = SECTSIZE * d + 0 /\ SECTSIZE * d \in Nat /\ 0 \in Nat /\ 0 < SECTSIZE
  BY <1>1, <1>2, Sizes
<1> DEFINE y == SECTSIZE * d + 0
<1>4. y % SECTSIZE = 0
  BY <1>1, <1>3, Sizes, Unique
<1>5. y \in Nat /\ Down(x) = y /\ y <= x /\ x < y + SECTSIZE
  BY <1>1, <1>2, <1>3, Sizes
<1> HIDE DEF y
<1> QED
  BY <1>4, <1>5 DEF Aligned

LEMMA InSector ==
  ASSUME NEW p, Aligned(p)
  PROVE  /\ Aligned(p + SECTSIZE)
         /\ \A a \in p .. p + SECTSIZE - 1 : a % SECTSIZE = a - p
<1> DEFINE d == p \div SECTSIZE
<1>1. d \in Nat /\ p = SECTSIZE * d /\ p \in Nat
  BY Sizes, DivMod DEF Aligned
<1> HIDE DEF d
<1>2. ASSUME NEW t \in 0..SECTSIZE-1 PROVE (p + t) % SECTSIZE = t
  BY <1>1, Sizes, Unique
<1>3. ASSUME NEW a \in p .. p + SECTSIZE - 1 PROVE a % SECTSIZE = a - p
  <2>1. a - p \in 0..SECTSIZE-1 /\ p + (a - p) = a
    BY <1>1, Sizes
  <2> QED
    BY <1>2, <2>1
<1>4. Aligned(p + SECTSIZE)
  <2>1. p + SECTSIZE = SECTSIZE * (d + 1) + 0 /\ d + 1 \in Nat /\ 0 \in Nat /\ 0 < SECTSIZE
    BY <1>1, Sizes
  <2>2. (SECTSIZE * (d + 1) + 0) % SECTSIZE = 0
    BY <2>1, Sizes, Unique
  <2> QED
    BY <1>1, <2>1, <2>2, Sizes DEF Aligned
<1> QED
  BY <1>3, <1>4

LEMMA Gap ==
  ASSUME NEW p, NEW q, Aligned(p), Aligned(q), p < q
  PROVE  p + SECTSIZE <= q
<1> DEFINE d == p \div SECTSIZE
           e == q \div SECTSIZE
<1>1. /\ d \in Nat /\ p = SECTSIZE * d /\ p \in Nat
      /\ e \in Nat /\ q = SECTSIZE * e /\ q \in Nat
  BY Sizes, DivMod DEF Aligned
<1> HIDE DEF d, e
<1>2. CASE e <= d
  <2>1. SECTSIZE * e <= SECTSIZE * d
    BY <1>1, <1>2, Sizes
  <2> QED
    BY <1>1, <2>1
<1>3. CASE e >= d + 1
  <2>1. SECTSIZE * e >= SECTSIZE * (d + 1) /\ SECTSIZE * (d + 1) = SECTSIZE * d + SECTSIZE
    BY <1>1, <1>3, Sizes
  <2> QED
    BY <1>1, <2>1, Sizes
<1> QED
  BY <1>1, <1>2, <1>3

LEMMA UpIs ==
  ASSUME NEW e \in Nat
  PROVE  /\ Up(e) \in Nat /\ e <= Up(e)
         /\ \A p : Aligned(p) /\ p < e => p + SECTSIZE <= Up(e)
<1> DEFINE x == e + SECTSIZE - 1
<1>1. x \in Nat /\ Up(e) = Down(x) /\ x = e + SECTSIZE - 1
  BY Sizes DEF Up
<1> HIDE DEF x
<1>2. Aligned(Down(x)) /\ Down(x) <= x /\ x < Down(x) + SECTSIZE /\ Down(x) \in Nat
  BY <1>1, DownIs DEF Aligned
<1>3. e <= Up(e)
  BY <1>1, <1>2, Sizes
<1>4. ASSUME NEW p, Aligned(p), p < e PROVE p + SECTSIZE <= Up(e)
  <2>1. p < Down(x) => p + SECTSIZE <= Down(x)
    BY <1>2, <1>4, Gap
  <2>2. p \in Nat
    BY <1>4 DEF Aligned
  <2>3. p < Down(x)
    <3>1. e <= Down(x) /\ Down(x) \in Nat
      BY <1>1, <1>2, <1>3
    <3> QED
      BY <1>4, <2>2, <3>1
  <2> QED
    BY <1>1, <2>1, <2>3
<1> QED
  BY <1>1, <1>2, <1>3, <1>4

LEMMA DownAbove ==
  ASSUME NEW p, Aligned(p), NEW x \in Nat, p <= x
  PROVE  p <= Down(x)
<1>1. Aligned(Down(x)) /\ Down(x) <= x /\ x < Down(x) + SECTSIZE /\ Down(x) \in Nat /\ p \in Nat
  BY DownIs DEF Aligned
<1>2. Down(x) < p => Down(x) + SECTSIZE <= p
  BY <1>1, Gap
<1> QED
  BY <1>1, <1>2, Sizes

LEMMA SameOffset ==
  ASSUME NEW x \in Nat, NEW y \in Nat, x % SECTSIZE = y % SECTSIZE
  PROVE  x - Down(x) = y - Down(y)
<1>1. x % SECTSIZE \in Nat
  BY Sizes, DivMod
<1> QED
  BY <1>1 DEF Down

----------------------------------------------------------------------------
(* Images.                                                                 *)

LEMMA Segment ==
  ASSUME Linked(img), NEW i \in DOMAIN img.ph, NEW s, s = img.ph[i]
  PROVE  /\ s.pa \in Nat /\ s.offset \in Nat /\ s.filesz \in Nat /\ s.memsz \in Nat
         /\ s.filesz > 0 /\ s.filesz <= s.memsz /\ MB <= s.pa
         /\ s.pa - Down(s.pa) = s.offset - Down(s.offset)
         /\ i < Len(img.ph) => s.filesz = s.memsz
         /\ MemEnds(s) = s.pa + s.memsz /\ Ends(s) = s.pa + s.filesz
         /\ Up(MemEnds(s)) <= MEMSIZE
<1>1. s \in [pa : Nat, offset : Nat, filesz : Nat, memsz : Nat]
  <2>1. img.ph \in Seq([pa : Nat, offset : Nat, filesz : Nat, memsz : Nat])
    BY DEF Linked
  <2> DEFINE T == [pa : Nat, offset : Nat, filesz : Nat, memsz : Nat]
  <2> HIDE DEF T
  <2>2. img.ph \in Seq(T)
    BY <2>1 DEF T
  <2>3. i \in 1..Len(img.ph)
    BY <2>2
  <2>4. s \in T
    BY <2>2, <2>3, ElementOfSeq
  <2> QED
    BY <2>4 DEF T
<1>2. s.pa % SECTSIZE = s.offset % SECTSIZE
  BY DEF Linked
<1>3. s.pa - Down(s.pa) = s.offset - Down(s.offset)
  BY <1>1, <1>2, SameOffset
<1>4. /\ s.filesz > 0 /\ s.filesz <= s.memsz /\ MB <= s.pa
      /\ Up(MemEnds(s)) <= MEMSIZE
      /\ i < Len(img.ph) => s.filesz = s.memsz
  BY DEF Linked
<1> QED
  BY <1>1, <1>3, <1>4 DEF Ends, MemEnds

LEMMA Headers ==
  ASSUME Linked(img)
  PROVE  /\ Len(img.ph) \in Nat /\ Len(img.ph) > 1 /\ DOMAIN img.ph = 1..Len(img.ph)
         /\ Head(img.ph) = img.ph[1]
         /\ ELFHDR + Len(img.ph) < ELFHDR + SECTSIZE * HDRSECTS
<1>1. /\ img.ph \in Seq([pa : Nat, offset : Nat, filesz : Nat, memsz : Nat])
      /\ Len(img.ph) > 1 /\ ELFHDR + Len(img.ph) < ELFHDR + HDRSECTS * SECTSIZE
  BY DEF Linked, HeaderCell
<1>2. HDRSECTS * SECTSIZE = SECTSIZE * HDRSECTS
  BY Sizes
<1> QED
  BY <1>1, <1>2

\* Segments do not overlap, and agree on the sector they share.
LEMMA Apart ==
  ASSUME Linked(img), NEW i \in DOMAIN img.ph, NEW j \in DOMAIN img.ph, j < i,
         NEW s, s = img.ph[i], NEW r, r = img.ph[j]
  PROVE  /\ MemEnds(r) <= s.pa
         /\ Down(s.pa) < MemEnds(r) => r.pa - r.offset = s.pa - s.offset
<1>1. j \in 1..i-1
  BY Headers
<1> QED
  BY <1>1 DEF Linked

LEMMA Uniquely ==
  ASSUME Linked(img), NEW i \in DOMAIN img.ph, NEW j \in DOMAIN img.ph,
         NEW a \in FileBytes(img.ph[i]), a \in FileBytes(img.ph[j])
  PROVE  i = j
<1> DEFINE s == img.ph[i]
           r == img.ph[j]
<1>1. /\ a \in s.pa .. s.pa + s.filesz - 1 /\ a \in r.pa .. r.pa + r.filesz - 1
      /\ s.pa \in Nat /\ s.filesz \in Nat /\ s.memsz \in Nat /\ s.filesz <= s.memsz
      /\ r.pa \in Nat /\ r.filesz \in Nat /\ r.memsz \in Nat /\ r.filesz <= r.memsz
      /\ MemEnds(s) = s.pa + s.memsz /\ MemEnds(r) = r.pa + r.memsz
  <2>1. /\ s.pa \in Nat /\ s.filesz \in Nat /\ s.memsz \in Nat /\ s.filesz <= s.memsz
        /\ MemEnds(s) = s.pa + s.memsz /\ Ends(s) = s.pa + s.filesz
    BY Segment
  <2>2. /\ r.pa \in Nat /\ r.filesz \in Nat /\ r.memsz \in Nat /\ r.filesz <= r.memsz
        /\ MemEnds(r) = r.pa + r.memsz /\ Ends(r) = r.pa + r.filesz
    BY Segment
  <2>3. a \in s.pa..Ends(s)-1 /\ a \in r.pa..Ends(r)-1
    BY DEF FileBytes
  <2> QED
    BY <2>1, <2>2, <2>3
<1>2. i < j => MemEnds(s) <= r.pa
  BY Apart
<1>3. j < i => MemEnds(r) <= s.pa
  BY Apart
<1>4. i \in Nat /\ j \in Nat
  BY Headers
<1> HIDE DEF s, r
<1> QED
  BY <1>1, <1>2, <1>3, <1>4

\* The disk cell that was linked to an address.
LEMMA CellOf ==
  ASSUME Linked(img), NEW i \in DOMAIN img.ph, NEW a \in FileBytes(img.ph[i])
  PROVE  KernelCell(img, a) = ImageCell(i, a)
<1> DEFINE j == CHOOSE j \in DOMAIN img.ph : a \in FileBytes(img.ph[j])
<1>1. j \in DOMAIN img.ph /\ a \in FileBytes(img.ph[j])
  OBVIOUS
<1>2. KernelCell(img, a) = DiskCell(img.ph[j].offset + a - img.ph[j].pa)
  BY DEF KernelCell
<1> HIDE DEF j
<1>3. j = i
  BY <1>1, Uniquely
<1> DEFINE s == img.ph[i]
<1>4. s.pa \in Nat /\ s.offset \in Nat /\ a \in Int
  BY Segment DEF FileBytes, Ends
<1>5. s.offset + a - s.pa = s.offset + (a - s.pa)
  BY <1>4
<1> QED
  BY <1>2, <1>3, <1>5 DEF ImageCell

\* Where the image says that something is.
LEMMA Places ==
  ASSUME Linked(img)
  PROVE  /\ {img.entry, img.i386_init} \subseteq FileBytes(img.ph[1])
         /\ {img.pgdir, img.bootstack} \subseteq FileBytes(img.ph[Len(img.ph)])
         /\ img.pgdir # img.bootstack
BY Headers DEF Linked

\* All that is linked is in memory above 1 MB.
LEMMA InMemory ==
  ASSUME Linked(img), NEW i \in DOMAIN img.ph, NEW a \in img.ph[i].pa .. MemEnds(img.ph[i]) - 1
  PROVE  a \in Phys /\ a >= MB
<1> DEFINE s == img.ph[i]
<1>1. /\ s.pa \in Nat /\ s.memsz \in Nat /\ MB <= s.pa /\ MemEnds(s) = s.pa + s.memsz
      /\ Up(MemEnds(s)) <= MEMSIZE
  BY Segment
<1>2. MemEnds(s) <= Up(MemEnds(s)) /\ Up(MemEnds(s)) \in Nat
  BY <1>1, UpIs
<1>3. MEMSIZE \in Nat
  BY Sizes DEF MEMSIZE
<1> QED
  BY <1>1, <1>2, <1>3, Sizes DEF Phys

LEMMA FileInMemory ==
  ASSUME Linked(img), NEW i \in DOMAIN img.ph, NEW a \in FileBytes(img.ph[i])
  PROVE  a \in Phys /\ a >= MB /\ a \in img.ph[i].pa .. MemEnds(img.ph[i]) - 1
<1> DEFINE s == img.ph[i]
<1>1. /\ s.pa \in Nat /\ s.memsz \in Nat /\ s.filesz \in Nat /\ s.filesz <= s.memsz
      /\ MemEnds(s) = s.pa + s.memsz /\ Ends(s) = s.pa + s.filesz
  BY Segment
<1>2. a \in img.ph[i].pa .. MemEnds(img.ph[i]) - 1
  BY <1>1 DEF FileBytes
<1> QED
  BY <1>2, InMemory

----------------------------------------------------------------------------
(* Addresses.                                                              *)

LEMMA OpenLine == ASSUME a20, NEW a PROVE Line20(a) = a
BY DEF Line20

LEMMA LowLine ==
  ASSUME NEW a \in Nat, a < MB
  PROVE  Line20(a) = a
<1>1. MB * 0 + a = a /\ 0 \in Nat /\ MB > 0
  BY Sizes
<1>2. (MB * 0 + a) \div MB = 0
  BY <1>1, Sizes, Unique
<1>3. a \div MB = 0
  BY <1>1, <1>2
<1>4. (a \div MB) % 2 = 0
  BY <1>3
<1> QED
  BY <1>4 DEF Line20

LEMMA PageSizes ==
  /\ PGSIZE \in Nat /\ PGSIZE > 0 /\ NPTENTRIES \in Nat /\ NPTENTRIES > 0 /\ NPDENTRIES \in Nat
  /\ PTSIZE = PGSIZE * NPTENTRIES /\ PTSIZE \in Nat /\ PTSIZE > 0 /\ MEMSIZE <= PTSIZE
  /\ MEMSIZE = 2 * MB /\ MEMSIZE \in Nat
<1>1. /\ PGSIZE \in Nat /\ PGSIZE > 0 /\ NPTENTRIES \in Nat /\ NPTENTRIES > 0 /\ NPDENTRIES \in Nat
      /\ MEMSIZE <= PTSIZE
  BY LayoutAssumption DEF LayoutAssumption
<1>2. PGSIZE * NPTENTRIES \in Nat /\ PGSIZE * NPTENTRIES > 0
  BY <1>1
<1> QED
  BY <1>1, <1>2, Sizes DEF PTSIZE, MEMSIZE

\* The entry of entry_pgtable for an address in the first PTSIZE.
LEMMA PageEntry ==
  ASSUME NEW x \in Nat, x < PTSIZE,
         NEW va, va % PTSIZE = x, va % PGSIZE = x % PGSIZE
  PROVE  /\ Translated(va) = x
         /\ Perms(va) = entry_pgdir[va \div PTSIZE] \cap {"P", "W"}
<1> DEFINE f == x \div PGSIZE
           m == x % PGSIZE
<1>1. f \in Nat /\ m \in Nat /\ m < PGSIZE /\ x = PGSIZE * f + m
  BY PageSizes, DivMod
<1>2. Translated(va) = entry_pgtable[f].frame * PGSIZE + m
  BY DEF Translated
<1>3. Perms(va) = entry_pgdir[va \div PTSIZE] \cap entry_pgtable[f].perm
  BY DEF Perms
<1> HIDE DEF f, m
<1>4. f < NPTENTRIES
  <2>1. CASE f >= NPTENTRIES
    <3>1. PGSIZE * f >= PGSIZE * NPTENTRIES
      BY <1>1, <2>1, PageSizes
    <3> QED
      BY <1>1, <3>1, PageSizes
  <2> QED
    BY <1>1, <2>1, PageSizes
<1>5. f \in 0..NPTENTRIES-1
  BY <1>1, <1>4, PageSizes
<1>6. entry_pgtable[f] = [frame |-> f, perm |-> {"P", "W"}]
  BY <1>5 DEF entry_pgtable
<1>7. f * PGSIZE + m = x
  BY <1>1, PageSizes
<1> QED
  BY <1>2, <1>3, <1>6, <1>7

\* Low addresses are mapped to themselves, and can only be read.
LEMMA LowMapped ==
  ASSUME NEW x \in Nat, x < PTSIZE
  PROVE  Translated(x) = x /\ Perms(x) = {"P"}
<1>1. PTSIZE * 0 + x = x /\ 0 \in Nat
  BY PageSizes
<1>2. (PTSIZE * 0 + x) % PTSIZE = x /\ (PTSIZE * 0 + x) \div PTSIZE = 0
  BY <1>1, PageSizes, Unique
<1>3. x % PTSIZE = x /\ x \div PTSIZE = 0
  BY <1>1, <1>2
<1>4. entry_pgdir[0] = {"P"}
  <2>1. 0 \in 0..NPDENTRIES-1 /\ KERNBASE \div PTSIZE # 0
    BY LayoutAssumption, PageSizes DEF LayoutAssumption
  <2> QED
    BY <2>1 DEF entry_pgdir
<1> QED
  BY <1>3, <1>4, PageEntry

\* The same memory lies at KERNBASE, where it can be written.
LEMMA KernMapped ==
  ASSUME NEW x \in Nat, x < PTSIZE
  PROVE  Translated(KERNBASE + x) = x /\ Perms(KERNBASE + x) = {"P", "W"}
<1> DEFINE q == KERNBASE \div PTSIZE
           c == x \div PGSIZE
           m == x % PGSIZE
           va == KERNBASE + x
<1>1. q \in Nat /\ KERNBASE = PTSIZE * q /\ q \in 1..NPDENTRIES-1
  BY LayoutAssumption, PageSizes, Sizes, DivMod DEF LayoutAssumption
<1>2. c \in Nat /\ m \in Nat /\ m < PGSIZE /\ x = PGSIZE * c + m
  BY PageSizes, DivMod
<1>3. va = KERNBASE + x
  OBVIOUS
<1>e. entry_pgdir[q] = {"P", "W"}
  <2>1. q \in 0..NPDENTRIES-1 /\ q # 0
    BY <1>1, PageSizes
  <2> QED
    BY <2>1 DEF entry_pgdir
<1> HIDE DEF q, c, m, va
<1>4. va % PTSIZE = x /\ va \div PTSIZE = q
  <2>1. va = PTSIZE * q + x
    BY <1>1, <1>3
  <2>2. (PTSIZE * q + x) % PTSIZE = x /\ (PTSIZE * q + x) \div PTSIZE = q
    BY <1>1, PageSizes, Unique
  <2> QED
    BY <2>1, <2>2
<1>5. va % PGSIZE = m
  <2> DEFINE d == NPTENTRIES * q + c
  <2>1. d \in Nat
    BY <1>1, <1>2, PageSizes
  <2>2. PGSIZE * d = PGSIZE * NPTENTRIES * q + PGSIZE * c
    BY <1>1, <1>2, PageSizes
  <2>3. va = PGSIZE * d + m
    <3>1. PGSIZE * NPTENTRIES * q = KERNBASE
      BY <1>1, PageSizes
    <3>2. PGSIZE * c \in Nat
      BY <1>2, PageSizes
    <3> HIDE DEF d
    <3> QED
      BY <1>2, <1>3, <2>1, <2>2, <3>1, <3>2, Sizes, PageSizes
  <2> HIDE DEF d
  <2>4. (PGSIZE * d + m) % PGSIZE = m
    BY <1>2, <2>1, PageSizes, Unique
  <2> QED
    BY <2>3, <2>4
<1>6. Translated(va) = x /\ Perms(va) = entry_pgdir[q] \cap {"P", "W"}
  BY <1>4, <1>5, PageEntry DEF m
<1> QED
  BY <1>3, <1>e, <1>6

----------------------------------------------------------------------------
(* What a sector brings.                                                   *)

\* Cell a of what is being read.
Wanted(a) == SECTSIZE + First + (a - Start)

LEMMA SectorRead ==
  ASSUME BootType, ReadInv, LineInv, Insl
  PROVE  /\ mem' \in [Phys -> Int]
         /\ \A a \in Phys :
              IF rd.pa <= a /\ a < rd.pa + SECTSIZE
              THEN mem'[a] = Wanted(a) ELSE mem'[a] = mem[a]
         /\ Aligned(rd.pa) /\ rd.pa < rd.end /\ rd.pa >= Start /\ rd.end = Stop /\ a20
         /\ rd.offset \in Nat /\ SECTSIZE * rd.offset = SECTSIZE + First + (rd.pa - Start)
         /\ rd' = [rd EXCEPT !.pa = rd.pa + SECTSIZE, !.offset = rd.offset + 1]
<1>1. /\ Aligned(rd.pa) /\ rd.pa >= Start /\ rd.end = Stop /\ rd.pa < rd.end
      /\ rd.offset \in Nat /\ SECTSIZE * rd.offset = SECTSIZE + First + (rd.pa - Start)
      /\ disk.sector = rd.offset
  BY DEF ReadInv, Insl, Loading, Aligned
<1>2. a20
  BY DEF LineInv, Insl
<1>3. rd.pa \in Nat
  BY <1>1 DEF Aligned
<1> DEFINE In(a) == \E c \in 0..SECTSIZE-1 : Line20(rd.pa + c) = a
<1>4. mem' = [a \in Phys |-> IF In(a) THEN SECTSIZE * disk.sector + (a % SECTSIZE) ELSE mem[a]]
  BY DEF Insl, Transfer
<1>5. ASSUME NEW a \in Phys
      PROVE  In(a) <=> rd.pa <= a /\ a < rd.pa + SECTSIZE
  <2>0. a \in Int
    BY DEF Phys
  <2>1. In(a) <=> \E c \in 0..SECTSIZE-1 : rd.pa + c = a
    BY <1>2, OpenLine
  <2>2. CASE rd.pa <= a /\ a < rd.pa + SECTSIZE
    <3>1. a - rd.pa \in 0..SECTSIZE-1 /\ rd.pa + (a - rd.pa) = a
      BY <1>3, <2>0, <2>2, Sizes
    <3> QED
      BY <2>1, <2>2, <3>1
  <2>3. CASE ~(rd.pa <= a /\ a < rd.pa + SECTSIZE)
    BY <1>3, <2>0, <2>1, <2>3, Sizes
  <2> QED
    BY <2>2, <2>3
<1> HIDE DEF In
<1>6. First \in Int /\ Start \in Int
  <2>1. CASE ph = 0
    BY <2>1, Sizes DEF First, Start
  <2>2. CASE ph # 0
    <3>1. Linked(img) /\ ph \in DOMAIN img.ph
      BY <2>2, Headers DEF BootType
    <3>2. img.ph[ph].pa \in Nat /\ img.ph[ph].offset \in Nat
      BY <3>1, Segment
    <3> QED
      BY <2>2, <3>2, DownIs DEF First, Start, Aligned
  <2> QED
    BY <2>1, <2>2
<1>7. ASSUME NEW a \in Phys, rd.pa <= a, a < rd.pa + SECTSIZE
      PROVE  SECTSIZE * disk.sector + (a % SECTSIZE) = Wanted(a) /\ Wanted(a) \in Int
  <2>1. a \in rd.pa .. rd.pa + SECTSIZE - 1 /\ a \in Int
    BY <1>3, <1>7, Sizes DEF Phys
  <2>2. a % SECTSIZE = a - rd.pa
    BY <1>1, <2>1, InSector
  <2>3. SECTSIZE * disk.sector = SECTSIZE + First + (rd.pa - Start)
    BY <1>1
  <2> QED
    BY <1>3, <1>6, <2>1, <2>2, <2>3, Sizes DEF Wanted
<1>8. \A a \in Phys : IF rd.pa <= a /\ a < rd.pa + SECTSIZE
                      THEN mem'[a] = Wanted(a) ELSE mem'[a] = mem[a]
  BY <1>4, <1>5, <1>7
<1>9. mem' \in [Phys -> Int]
  <2>1. \A a \in Phys : mem[a] \in Int
    BY DEF BootType
  <2>2. \A a \in Phys : mem'[a] \in Int
    BY <1>7, <1>8, <2>1
  <2>3. mem' = [a \in Phys |-> mem'[a]]
    BY <1>4
  <2> QED
    BY <2>2, <2>3
<1>10. rd' = [rd EXCEPT !.pa = rd.pa + SECTSIZE, !.offset = rd.offset + 1]
  BY DEF Insl, Transfer
<1> QED
  BY <1>1, <1>2, <1>8, <1>9, <1>10

----------------------------------------------------------------------------
(* The inductive invariant.                                                *)

MemoryInv == HeaderLoaded /\ PartLoaded /\ BssZero /\ OnlySectors

\* Nothing has been read yet.
LEMMA NothingRead ==
  ASSUME ph = 0, img.elf => Linked(img), ~Loading \/ (rd.pa <= ELFHDR /\ rd.pa \in Nat), ~Entered
  PROVE  HeaderLoaded /\ PartLoaded /\ BssZero
<1>1. HeaderLoaded
  BY Products, Sizes DEF HeaderLoaded
<1>2. PartLoaded
  BY Headers DEF PartLoaded
<1>3. BssZero
  BY DEF BssZero, Entered, Paged
<1> QED
  BY <1>1, <1>2, <1>3

\* Steps that write no memory and read nothing more.
LEMMA MemorySame ==
  ASSUME MemoryInv, UNCHANGED <<img, mem, ph, rd>>, Loading' => Loading, Entered' => Entered,
         pc \in {"i386_init", "started"} => pc' = pc,
         pc' = "started" => pc' = pc
  PROVE  MemoryInv'
<1> USE DEF MemoryInv
<1>1. HeaderLoaded'
  BY DEF HeaderLoaded
<1>2. PartLoaded'
  BY DEF PartLoaded, FileBytes, Ends, ImageCell
<1>3. BssZero'
  BY DEF BssZero, Bss, Ends, MemEnds
<1>4. OnlySectors'
  BY DEF OnlySectors, Sectors, MemEnds, Up, Down
<1> QED
  BY <1>1, <1>2, <1>3, <1>4

\* The invariant holds when the firmware jumps to the boot sector.
THEOREM InitBoot == Init => BootInv
<1> SUFFICES ASSUME Init PROVE BootInv
  OBVIOUS
<1>1. img.elf => Linked(img)
  BY ImagesAssumption DEF Init, ImagesAssumption
<1>2. pc = "seta20.1" /\ ph = 0 /\ ~Loading /\ ~Entered /\ ~Paged /\ paging = FALSE
  BY DEF Init, Loading, Entered, Paged
<1>3. mem \in [Phys -> Int]
  BY Sizes DEF Init, Phys, Other, LoaderCells
<1>4. BootType
  <2>1. rd = [pa |-> 0, end |-> 0, offset |-> 0]
    BY DEF Init
  <2>2. rd \in [pa : Nat, end : Nat, offset : Nat]
    BY <2>1
  <2> QED
    BY <1>1, <1>2, <1>3, <2>2 DEF BootType
<1>5. LineInv /\ ReadInv
  BY <1>2 DEF Init, LineInv, ReadInv
<1>6. HeaderLoaded /\ PartLoaded /\ BssZero
  <2>1. ph = 0 /\ ~Loading /\ ~Entered
    BY <1>2
  <2>2. ~Loading \/ (rd.pa <= ELFHDR /\ rd.pa \in Nat)
    BY <2>1
  <2> QED
    BY <1>1, <2>1, <2>2, NothingRead
<1>7. OnlySectors
  BY DEF Init, OnlySectors
<1> QED
  BY <1>4, <1>5, <1>6, <1>7 DEF BootInv

LEMMA TypeSame ==
  ASSUME BootType, UNCHANGED <<img, mem, rd, ph, paging>>, Entered' <=> Entered, Paged' <=> Paged,
         pc' = "relocated" => pc = pc' /\ esp' = esp,
         pc' \in {"seta20.1", "seta20.2", "protcseg", "bad"} \/ Loading' \/ Entered',
         ph > 0 => Loading' \/ Entered'
  PROVE  BootType'
<1>1. (img.elf => Linked(img))'
  BY DEF BootType, Linked, HeaderCell, MemEnds, Up, Down, FileBytes, Ends
<1> QED
  BY <1>1 DEF BootType

LEMMA ReadSame ==
  ASSUME ReadInv, UNCHANGED <<img, ph, rd>>, Loading' => Loading,
         pc' = "insl" => rd.pa < rd.end /\ disk'.sector = rd.offset
  PROVE  ReadInv'
BY DEF ReadInv, Start, Stop, First, MemEnds, Down

LEMMA Seta20_1Step == ASSUME BootInv, Seta20_1 PROVE BootInv'
<1>1. /\ pc = "seta20.1" /\ pc' = "seta20.2" /\ kbc' = "d1"
      /\ UNCHANGED <<img, mem, a20, port, disk, rd, ph, paging, esp>>
      /\ BootType /\ LineInv /\ ReadInv /\ MemoryInv
  BY DEF BootInv, MemoryInv, Seta20_1, Out, cpu
<1>2. ~Loading' /\ ~Entered' /\ ~Paged' /\ ~Loading /\ ~Entered /\ ~Paged
  BY <1>1 DEF Loading, Entered, Paged
<1>3. ph = 0
  BY <1>1, <1>2 DEF BootType
<1>4. BootType' /\ ReadInv' /\ MemoryInv'
  BY <1>1, <1>2, <1>3, TypeSame, ReadSame, MemorySame
<1>5. LineInv'
  BY <1>1, <1>2, <1>3 DEF LineInv, BootType
<1> QED
  BY <1>4, <1>5 DEF BootInv, MemoryInv

LEMMA Seta20_2Step == ASSUME BootInv, Seta20_2 PROVE BootInv'
<1>1. /\ pc = "seta20.2" /\ pc' = "protcseg" /\ kbc = "idle" /\ kbc' = "df"
      /\ UNCHANGED <<img, mem, a20, port, disk, rd, ph, paging, esp>>
      /\ BootType /\ LineInv /\ ReadInv /\ MemoryInv
  BY DEF BootInv, MemoryInv, Seta20_2, Out, cpu
<1>2. ~Loading' /\ ~Entered' /\ ~Paged' /\ ~Loading /\ ~Entered /\ ~Paged
  BY <1>1 DEF Loading, Entered, Paged
<1>3. ph = 0
  BY <1>1, <1>2 DEF BootType
<1>4. BootType' /\ ReadInv' /\ MemoryInv'
  BY <1>1, <1>2, <1>3, TypeSame, ReadSame, MemorySame
<1>5. LineInv'
  BY <1>1, <1>2, <1>3 DEF LineInv, BootType
<1> QED
  BY <1>4, <1>5 DEF BootInv, MemoryInv

LEMMA KbcStep == ASSUME BootInv, KbcDone PROVE BootInv'
<1>1. /\ kbc # "idle" /\ kbc' = "idle" /\ port' = (kbc = "d1")
      /\ a20' = (a20 \/ (port /\ kbc = "df"))
      /\ UNCHANGED <<img, mem, disk, rd, ph, paging, esp, pc>>
      /\ BootType /\ LineInv /\ ReadInv /\ MemoryInv
  BY DEF BootInv, MemoryInv, KbcDone, cpu
<1>2. (Loading' <=> Loading) /\ (Entered' <=> Entered) /\ (Paged' <=> Paged)
  BY <1>1 DEF Loading, Entered, Paged
<1>4. BootType' /\ ReadInv' /\ MemoryInv'
  <2>1. BootType'
    BY <1>1, <1>2, TypeSame DEF BootType
  <2>2. ReadInv'
    BY <1>1, <1>2, ReadSame DEF ReadInv, Loading
  <2>3. MemoryInv'
    BY <1>1, <1>2, MemorySame
  <2> QED
    BY <2>1, <2>2, <2>3
<1>5. LineInv'
  BY <1>1, <1>2 DEF LineInv
<1> QED
  BY <1>4, <1>5 DEF BootInv, MemoryInv

LEMMA DiskStep == ASSUME BootInv, DiskReady PROVE BootInv'
<1>1. /\ disk.busy /\ kbc = "idle" /\ ~disk'.busy /\ disk'.sector = disk.sector
      /\ UNCHANGED <<img, mem, a20, kbc, port, rd, ph, paging, esp, pc>>
      /\ BootType /\ LineInv /\ ReadInv /\ MemoryInv
  BY DEF BootInv, MemoryInv, DiskReady, cpu
<1>2. (Loading' <=> Loading) /\ (Entered' <=> Entered) /\ (Paged' <=> Paged)
  BY <1>1 DEF Loading, Entered, Paged
<1>4. BootType' /\ ReadInv' /\ MemoryInv'
  <2>1. BootType'
    BY <1>1, <1>2, TypeSame DEF BootType
  <2>2. ReadInv'
    BY <1>1, <1>2, ReadSame DEF ReadInv, Loading
  <2>3. MemoryInv'
    BY <1>1, <1>2, MemorySame
  <2> QED
    BY <2>1, <2>2, <2>3
<1>5. LineInv'
  BY <1>1, <1>2 DEF LineInv
<1> QED
  BY <1>4, <1>5 DEF BootInv, MemoryInv

LEMMA CommandStep == ASSUME BootInv, Command PROVE BootInv'
<1>1. /\ pc = "readseg" /\ pc' = "insl" /\ rd.pa < rd.end
      /\ disk'.busy /\ disk'.sector = rd.offset
      /\ UNCHANGED <<img, mem, a20, kbc, port, rd, ph, paging, esp>>
      /\ BootType /\ LineInv /\ ReadInv /\ MemoryInv
  BY DEF BootInv, MemoryInv, Command, More, cpu
<1>2. Loading' /\ Loading /\ ~Entered' /\ ~Entered /\ ~Paged' /\ ~Paged
  BY <1>1 DEF Loading, Entered, Paged
<1>4. BootType' /\ ReadInv' /\ MemoryInv'
  BY <1>1, <1>2, TypeSame, ReadSame, MemorySame
<1>5. LineInv'
  BY <1>1, <1>2 DEF LineInv
<1> QED
  BY <1>4, <1>5 DEF BootInv, MemoryInv

LEMMA NotElfStep == ASSUME BootInv, NotElf PROVE BootInv'
<1>1. /\ pc = "readseg" /\ pc' = "bad" /\ ph = 0
      /\ UNCHANGED <<img, mem, a20, kbc, port, disk, rd, ph, paging, esp>>
      /\ BootType /\ LineInv /\ ReadInv /\ MemoryInv
  BY DEF BootInv, MemoryInv, NotElf, SegmentRead, cpu, devices
<1>2. ~Loading' /\ Loading /\ ~Entered' /\ ~Entered /\ ~Paged' /\ ~Paged
  BY <1>1 DEF Loading, Entered, Paged
<1>4. BootType' /\ ReadInv' /\ MemoryInv'
  BY <1>1, <1>2, TypeSame, ReadSame, MemorySame
<1>5. LineInv'
  BY <1>1, <1>2 DEF LineInv, BootType
<1> QED
  BY <1>4, <1>5 DEF BootInv, MemoryInv

LEMMA LinkedSame == ASSUME img.elf => Linked(img), img' = img PROVE (img.elf => Linked(img))'
BY DEF Linked, HeaderCell, MemEnds, Up, Down, FileBytes, Ends

LEMMA OnlySame == ASSUME OnlySectors, UNCHANGED <<img, mem>> PROVE OnlySectors'
BY DEF OnlySectors, Sectors, MemEnds, Up, Down

\* The segment that is being read.
LEMMA Current ==
  ASSUME BootType, ph > 0
  PROVE  /\ Linked(img) /\ ph \in DOMAIN img.ph
         /\ Start = Down(img.ph[ph].pa) /\ Stop = MemEnds(img.ph[ph]) /\ First = Down(img.ph[ph].offset)
<1>1. Linked(img) /\ ph \in Nat /\ ph <= Len(img.ph) /\ ph # 0
  BY DEF BootType
<1>2. ph \in DOMAIN img.ph
  BY <1>1, Headers
<1> QED
  BY <1>1, <1>2 DEF Start, Stop, First

\* When all of it has been read, all that was read before and it are in place.
LEMMA ReadAll ==
  ASSUME BootInv, SegmentRead
  PROVE  /\ \A a \in ELFHDR..ELFHDR+(SECTSIZE*HDRSECTS)-1 : mem[a] = DiskCell(a - ELFHDR)
         /\ img.elf => \A i \in DOMAIN img.ph : \A a \in FileBytes(img.ph[i]) :
                         i <= ph => mem[a] = ImageCell(i, a)
         /\ a20 /\ ~disk.busy
<1>1. /\ pc = "readseg" /\ rd.pa \in Nat /\ rd.end = Stop /\ ~(rd.pa < rd.end) /\ Loading
      /\ BootType /\ ph \in Nat
  BY DEF BootInv, SegmentRead, More, ReadInv, Loading, BootType
<1>2. ASSUME NEW a \in ELFHDR..ELFHDR+(SECTSIZE*HDRSECTS)-1 PROVE mem[a] = DiskCell(a - ELFHDR)
  <2>1. ph = 0 => a < rd.pa
    BY <1>1, Products, Sizes DEF Stop
  <2> QED
    BY <1>1, <2>1 DEF BootInv, HeaderLoaded
<1>3. ASSUME img.elf, NEW i \in DOMAIN img.ph, NEW a \in FileBytes(img.ph[i]), i <= ph
      PROVE  mem[a] = ImageCell(i, a)
  <2>1. Linked(img) /\ i \in Nat
    BY <1>1, <1>3, Headers DEF BootType
  <2>2. i = ph => a < rd.pa
    <3> SUFFICES ASSUME i = ph PROVE a < rd.pa
      OBVIOUS
    <3>1. ph > 0
      BY <1>1, <1>3, <2>1, Headers
    <3>2. Stop = MemEnds(img.ph[i])
      BY <1>1, <3>1, Current
    <3> DEFINE s == img.ph[i]
    <3>3. a \in s.pa .. MemEnds(s) - 1 /\ MemEnds(s) \in Nat
      BY <2>1, FileInMemory, Segment
    <3>4. a \in Nat /\ a < MemEnds(s)
      BY <2>1, <3>3, Segment
    <3> QED
      BY <1>1, <3>2, <3>3, <3>4
  <2>3. i < ph \/ (i = ph /\ a < rd.pa)
    BY <1>1, <1>3, <2>1, <2>2
  <2> QED
    BY <1>1, <1>3, <2>3 DEF BootInv, PartLoaded
<1>4. a20 /\ ~disk.busy
  <2>1. ph = 0 => rd.pa > ELFHDR
    BY <1>1, Products, Sizes DEF Stop
  <2>2. ph > 0 \/ (Loading /\ rd.pa > ELFHDR)
    BY <1>1, <2>1
  <2> QED
    BY <1>1, <2>2 DEF BootInv, LineInv
<1> QED
  BY <1>2, <1>3, <1>4

LEMMA ProtcsegStep == ASSUME BootInv, Protcseg PROVE BootInv'
<1>1. /\ pc = "protcseg" /\ pc' = "readseg" /\ ph' = 0
      /\ rd' = [pa |-> Down(ELFHDR), end |-> ELFHDR + SECTSIZE * HDRSECTS, offset |-> (0 \div SECTSIZE) + 1]
      /\ UNCHANGED <<img, mem, a20, kbc, port, disk, paging>>
      /\ BootType /\ LineInv /\ OnlySectors
  BY DEF BootInv, Protcseg, ReadSeg, devices
<1>2. ~Loading /\ ~Entered /\ ~Paged /\ Loading' /\ ~Entered' /\ ~Paged'
  BY <1>1 DEF Loading, Entered, Paged
<1>3. rd'.pa = ELFHDR /\ rd'.end = ELFHDR + SECTSIZE * HDRSECTS /\ rd'.offset = 1
  <2>1. Down(ELFHDR) = ELFHDR
    BY Sizes DEF Down
  <2>2. 0 \div SECTSIZE = 0
    BY Sizes
  <2> QED
    BY <1>1, <2>1, <2>2
<1>4. BootType'
  <2>1. (img.elf => Linked(img))'
    BY <1>1, LinkedSame DEF BootType
  <2>2. rd' = [pa |-> rd'.pa, end |-> rd'.end, offset |-> rd'.offset]
    BY <1>1
  <2>3. rd' \in [pa : Nat, end : Nat, offset : Nat]
    BY <1>3, <2>2, Sizes, Products
  <2> QED
    BY <1>1, <1>2, <2>1, <2>3 DEF BootType
<1>5. LineInv'
  BY <1>1, <1>3, Sizes DEF LineInv
<1>6. ReadInv'
  <2>1. Start' = ELFHDR /\ Stop' = ELFHDR + SECTSIZE * HDRSECTS /\ First' = 0
    BY <1>1 DEF Start, Stop, First
  <2>2. SECTSIZE * 1 = SECTSIZE + 0 + (ELFHDR - ELFHDR)
    BY Sizes
  <2> QED
    BY <1>1, <1>3, <2>1, <2>2, Sizes DEF ReadInv
<1>7. HeaderLoaded'
  BY <1>1, <1>3, Sizes, Products DEF HeaderLoaded
<1>8. PartLoaded'
  <2>1. img'.elf => DOMAIN img'.ph = 1..Len(img.ph) /\ Len(img.ph) \in Nat
    BY <1>1, Headers DEF BootType
  <2> QED
    BY <1>1, <2>1 DEF PartLoaded
<1>9. BssZero'
  BY <1>1 DEF BssZero
<1>10. OnlySectors'
  BY <1>1, OnlySame
<1> QED
  BY <1>4, <1>5, <1>6, <1>7, <1>8, <1>9, <1>10 DEF BootInv

LEMMA NextSegmentStep == ASSUME BootInv, NextSegment PROVE BootInv'
<1> DEFINE s == img.ph[ph + 1]
<1>1. /\ pc = "readseg" /\ pc' = "readseg" /\ ph' = ph + 1 /\ SegmentRead
      /\ img.elf /\ ph < Len(img.ph) /\ ph \in Nat
      /\ rd' = [pa |-> Down(s.pa), end |-> s.pa + s.memsz, offset |-> (s.offset \div SECTSIZE) + 1]
      /\ UNCHANGED <<img, mem, a20, kbc, port, disk, paging>>
      /\ BootType /\ LineInv /\ OnlySectors
  BY DEF BootInv, NextSegment, SegmentRead, ReadSeg, devices, BootType
<1>2. ~Entered /\ ~Paged /\ Loading' /\ ~Entered' /\ ~Paged'
  BY <1>1 DEF Loading, Entered, Paged
<1>3. Linked(img) /\ ph + 1 \in DOMAIN img.ph /\ Len(img.ph) \in Nat
  BY <1>1, Headers DEF BootType
<1>4. BootType'
  <2>1. (img.elf => Linked(img))'
    BY <1>1, LinkedSame DEF BootType
  <2>2. ph' \in Nat /\ ph' <= Len(img'.ph) /\ img'.elf
    BY <1>1, <1>3
  <2>3. rd' \in [pa : Nat, end : Nat, offset : Nat]
    <3>1. s.pa \in Nat /\ s.memsz \in Nat /\ s.offset \in Nat
      BY <1>3, Segment
    <3> DEFINE o == s.offset
               p == s.pa
    <3> HIDE DEF s
    <3>2. Down(p) \in Nat
      BY <3>1, DownIs DEF Aligned
    <3>3. o \div SECTSIZE \in Nat
      BY <3>1, Sizes, DivMod
    <3>4. p + s.memsz \in Nat /\ (o \div SECTSIZE) + 1 \in Nat
      BY <3>1, <3>3
    <3> QED
      BY <1>1, <3>2, <3>4
  <2> QED
    BY <1>1, <1>2, <2>1, <2>2, <2>3 DEF BootType
<1>5. LineInv'
  BY <1>1, ReadAll DEF LineInv
<1>6. ReadInv'
  <2>1. Start' = Down(s.pa) /\ Stop' = MemEnds(s) /\ First' = Down(s.offset)
    BY <1>1 DEF Start, Stop, First, MemEnds, Down
  <2>2. s.pa \in Nat /\ s.offset \in Nat /\ MemEnds(s) = s.pa + s.memsz
    BY <1>3, Segment
  <2>3. Down(s.pa) \in Nat /\ Down(s.pa) % SECTSIZE = 0
    BY <2>2, DownIs DEF Aligned
  <2> HIDE DEF s
  <2> DEFINE o == s.offset
             d == o \div SECTSIZE
             m == o % SECTSIZE
  <2>4. d \in Nat /\ m \in Nat /\ s.offset = SECTSIZE * d + m /\ Down(s.offset) = s.offset - m
    <3>1. d \in Nat /\ m \in Nat /\ s.offset = SECTSIZE * d + m
      <4>1. o \in Nat
        BY <2>2
      <4> HIDE DEF o
      <4>2. d \in Nat /\ m \in Nat /\ o = SECTSIZE * d + m
        BY <4>1, Sizes, DivMod
      <4> QED
        BY <4>2 DEF o
    <3>2. Down(s.offset) = s.offset - m
      BY DEF Down
    <3> QED
      BY <3>1, <3>2
  <2>5. rd'.pa = Down(s.pa) /\ rd'.end = s.pa + s.memsz /\ rd'.offset = d + 1
    BY <1>1
  <2> HIDE DEF d, m
  <2>6. SECTSIZE * (d + 1) = SECTSIZE + Down(s.offset) + (Down(s.pa) - Down(s.pa))
    BY <2>3, <2>4, Sizes
  <2> QED
    BY <1>1, <2>1, <2>2, <2>3, <2>4, <2>5, <2>6 DEF ReadInv
<1>7. HeaderLoaded'
  BY <1>1, ReadAll DEF HeaderLoaded
<1>8. PartLoaded'
  <2>1. ASSUME NEW i \in DOMAIN img.ph, NEW a \in FileBytes(img.ph[i]),
               i < ph' \/ (i = ph' /\ (Entered' \/ a < rd'.pa))
        PROVE  mem[a] = ImageCell(i, a)
    <3>1. i \in Nat
      BY <1>3, Headers
    <3>2. CASE i <= ph
      BY <1>1, <3>2, ReadAll
    <3>3. CASE i = ph + 1
      <4>1. a < Down(s.pa)
        BY <1>1, <1>2, <2>1, <3>1, <3>3
      <4>2. a \in s.pa .. MemEnds(s) - 1 /\ s.pa \in Nat /\ MemEnds(s) \in Nat
        BY <1>3, <3>3, FileInMemory, Segment
      <4>3. Down(s.pa) <= s.pa /\ Down(s.pa) \in Nat
        BY <4>2, DownIs DEF Aligned
      <4> HIDE DEF s
      <4> QED
        BY <4>1, <4>2, <4>3
    <3> QED
      BY <1>1, <2>1, <3>1, <3>2, <3>3
  <2> QED
    BY <1>1, <2>1 DEF PartLoaded, FileBytes, Ends, ImageCell
<1>9. BssZero'
  BY <1>1 DEF BssZero
<1>10. OnlySectors'
  BY <1>1, OnlySame
<1> QED
  BY <1>4, <1>5, <1>6, <1>7, <1>8, <1>9, <1>10 DEF BootInv

LEMMA CallEntryStep == ASSUME BootInv, CallEntry PROVE BootInv'
<1>1. /\ pc = "readseg" /\ pc' = "entry" /\ SegmentRead
      /\ img.elf /\ ph = Len(img.ph)
      /\ UNCHANGED <<img, mem, a20, kbc, port, disk, rd, ph, paging, esp>>
      /\ BootType /\ LineInv /\ OnlySectors
  BY DEF BootInv, CallEntry, SegmentRead, devices, cpu
<1>2. ~Entered /\ ~Paged /\ ~Loading' /\ Entered' /\ ~Paged'
  BY <1>1 DEF Loading, Entered, Paged
<1>3. Linked(img) /\ ph > 0
  BY <1>1, Headers DEF BootType
<1>4. BootType'
  <2>1. (img.elf => Linked(img))'
    BY <1>1, LinkedSame DEF BootType
  <2> QED
    BY <1>1, <1>2, <2>1 DEF BootType
<1>5. LineInv'
  BY <1>1, ReadAll DEF LineInv
<1>6. ReadInv'
  BY <1>2 DEF ReadInv
<1>7. HeaderLoaded'
  BY <1>1, ReadAll DEF HeaderLoaded
<1>8. PartLoaded'
  <2>1. ASSUME NEW i \in DOMAIN img.ph, NEW a \in FileBytes(img.ph[i])
        PROVE  mem[a] = ImageCell(i, a)
    BY <1>1, <1>3, Headers, ReadAll
  <2> QED
    BY <1>1, <2>1 DEF PartLoaded, FileBytes, Ends, ImageCell
<1>9. BssZero'
  BY <1>1 DEF BssZero
<1>10. OnlySectors'
  BY <1>1, OnlySame
<1> QED
  BY <1>4, <1>5, <1>6, <1>7, <1>8, <1>9, <1>10 DEF BootInv

\* What was loaded once the entry point has been called.
LEMMA Ready ==
  ASSUME BootInv, Entered
  PROVE  /\ Linked(img) /\ img.elf /\ ph = Len(img.ph) /\ ph > 0 /\ ph \in DOMAIN img.ph /\ a20
         /\ ~Loading /\ pc \notin {"seta20.1", "seta20.2"} /\ ~disk.busy
         /\ \A i \in DOMAIN img.ph : \A a \in FileBytes(img.ph[i]) :
              \/ mem[a] = ImageCell(i, a)
              \/ a = img.bootstack /\ mem[a] = Pushed /\ pc \in {"i386_init", "started"}
<1>1. img.elf /\ ph = Len(img.ph) /\ Linked(img) /\ mem \in [Phys -> Int]
  BY DEF BootInv, BootType
<1>2. ph > 0 /\ ph \in DOMAIN img.ph
  BY <1>1, Headers
<1>3. ~Loading /\ pc \notin {"seta20.1", "seta20.2"}
  BY DEF Entered, Paged, Loading
<1>4. a20 /\ ~disk.busy
  BY <1>2, <1>3 DEF BootInv, LineInv, Loading
<1>5. \A i \in DOMAIN img.ph : i < ph \/ i = ph
  BY <1>1, Headers
<1> QED
  BY <1>1, <1>2, <1>3, <1>4, <1>5 DEF BootInv, PartLoaded

\* Steps of entry.S and after it: only memory, stack and paging change.
LEMMA EnterSame ==
  ASSUME BootInv, Entered, UNCHANGED <<img, a20, kbc, port, disk, rd, ph>>,
         Paged', paging', mem' \in [Phys -> Int],
         pc' = "relocated" => esp' = KERNBASE + img.bootstack + 1
  PROVE  BootType' /\ LineInv' /\ ReadInv'
<1>1. Entered' /\ ~Loading' /\ pc' \notin {"seta20.1", "seta20.2", "insl"}
  BY DEF Entered, Paged, Loading
<1>2. img.elf /\ ph = Len(img.ph) /\ a20 /\ ~disk.busy
  BY Ready
<1>3. (img.elf => Linked(img))'
  BY LinkedSame DEF BootInv, BootType
<1>4. BootType'
  BY <1>1, <1>2, <1>3 DEF BootInv, BootType
<1>5. LineInv'
  BY <1>1, <1>2 DEF LineInv
<1>6. ReadInv'
  BY <1>1 DEF ReadInv
<1> QED
  BY <1>4, <1>5, <1>6

\* Steps of entry.S and after it write nothing but the flag, the last segment and what follows it.
LEMMA WriteSame ==
  ASSUME BootInv, Entered, UNCHANGED <<img, ph>>,
         \A a \in Phys : mem'[a] # mem[a] =>
           a = WARM \/ a \in img.ph[Len(img.ph)].pa .. MemEnds(img.ph[Len(img.ph)]) - 1
  PROVE  HeaderLoaded' /\ OnlySectors'
<1> DEFINE data == img.ph[Len(img.ph)]
           seg == data.pa .. MemEnds(data) - 1
<1>1. /\ Linked(img) /\ img.elf /\ ph > 0 /\ Len(img.ph) \in DOMAIN img.ph
      /\ HeaderLoaded /\ OnlySectors
  BY Ready DEF BootInv
<1>2. \A a \in seg : a \in Phys /\ a >= MB
  BY <1>1, InMemory
<1>3. HeaderLoaded'
  <2> SUFFICES ASSUME NEW a \in ELFHDR..ELFHDR+(SECTSIZE*HDRSECTS)-1
               PROVE  mem'[a] = DiskCell(a - ELFHDR)
    BY DEF HeaderLoaded
  <2>1. a \in Phys /\ a # WARM /\ a < MB
    BY Sizes, Products, PageSizes DEF Phys
  <2>2. a \notin seg
    BY <1>2, <2>1, Sizes DEF Phys
  <2>3. mem[a] = DiskCell(a - ELFHDR)
    BY <1>1 DEF HeaderLoaded
  <2> QED
    BY <2>1, <2>2, <2>3
<1>4. OnlySectors'
  <2>1. seg \subseteq Sectors(data)
    <3>1. data.pa \in Nat /\ data.memsz \in Nat /\ MemEnds(data) = data.pa + data.memsz
      BY <1>1, Segment
    <3>2. Down(data.pa) \in Nat /\ Down(data.pa) <= data.pa
      BY <3>1, DownIs DEF Aligned
    <3> HIDE DEF data
    <3>m. MemEnds(data) \in Nat
      BY <3>1
    <3>3. MemEnds(data) <= Up(MemEnds(data)) /\ Up(MemEnds(data)) \in Nat /\ MemEnds(data) \in Nat
      BY <3>m, UpIs
    <3> QED
      BY <3>1, <3>2, <3>3 DEF Sectors
  <2> DEFINE All == UNION {Sectors(img.ph[i]) : i \in DOMAIN img.ph}
             header == ELFHDR..ELFHDR+(SECTSIZE*HDRSECTS)-1
  <2>2. seg \subseteq All
    BY <1>1, <2>1
  <2>3. \A a \in Phys \ (header \cup All \cup {WARM}) :
          mem[a] = IF a \in LoaderCells THEN a - LOADER ELSE Other
    BY <1>1 DEF OnlySectors
  <2>4. \A a \in Phys \ (header \cup All \cup {WARM}) : mem'[a] = mem[a]
    BY <2>2
  <2>5. OnlySectors' = \A a \in Phys \ (header \cup All \cup {WARM}) :
                         mem'[a] = IF a \in LoaderCells THEN a - LOADER ELSE Other
    BY <1>1 DEF OnlySectors, Sectors, MemEnds, Up, Down
  <2> HIDE DEF All, header, seg
  <2> QED
    BY <2>3, <2>4, <2>5
<1> QED
  BY <1>3, <1>4

LEMMA EnablePagingStep == ASSUME BootInv, EnablePaging PROVE BootInv'
<1>1. /\ pc = "entry" /\ pc' = "paged" /\ paging' = TRUE
      /\ mem' = [mem EXCEPT ![WARM] = WarmFlag] /\ mem \in [Phys -> Int]
      /\ UNCHANGED <<img, a20, kbc, port, disk, rd, ph>>
  BY DEF BootInv, BootType, EnablePaging, devices
<1>2. Entered /\ Paged' /\ Entered'
  BY <1>1 DEF Entered, Paged
<1>3. \A a \in Phys : a # WARM => mem'[a] = mem[a]
  BY <1>1
<1>4. mem' \in [Phys -> Int]
  <2>1. WarmFlag \in Int
    BY DEF WarmFlag
  <2> QED
    BY <1>1, <2>1
<1>5. BootType' /\ LineInv' /\ ReadInv'
  BY <1>1, <1>2, <1>4, EnterSame
<1>6. HeaderLoaded' /\ OnlySectors'
  BY <1>1, <1>2, <1>3, WriteSame
<1>7. PartLoaded'
  <2>1. ASSUME NEW i \in DOMAIN img.ph, NEW a \in FileBytes(img.ph[i])
        PROVE  mem'[a] = ImageCell(i, a)
    <3>1. a \in Phys /\ a # WARM
      <4>1. Linked(img)
        BY <1>2, Ready
      <4>2. a \in Phys /\ a >= MB
        BY <4>1, FileInMemory
      <4> QED
        BY <4>2, Sizes, Products DEF Phys
    <3> QED
      BY <1>1, <1>2, <1>3, <3>1, Ready
  <2> QED
    BY <1>1, <2>1 DEF PartLoaded, FileBytes, Ends, ImageCell
<1>8. BssZero'
  BY <1>1 DEF BssZero
<1> QED
  BY <1>5, <1>6, <1>7, <1>8 DEF BootInv

LEMMA RelocateStep == ASSUME BootInv, Relocate PROVE BootInv'
<1>1. /\ pc = "paged" /\ pc' = "relocated" /\ paging' = paging
      /\ esp' = KERNBASE + img.bootstack + 1 /\ mem \in [Phys -> Int]
      /\ UNCHANGED <<img, mem, a20, kbc, port, disk, rd, ph>>
      /\ BootType /\ MemoryInv
  BY DEF BootInv, BootType, MemoryInv, Relocate, devices
<1>2. Entered /\ Paged /\ Paged' /\ Entered' /\ ~Loading'
  BY <1>1 DEF Entered, Paged, Loading
<1>3. paging' /\ mem' \in [Phys -> Int]
  BY <1>1, <1>2 DEF BootType
<1>5. BootType' /\ LineInv' /\ ReadInv'
  BY <1>1, <1>2, <1>3, EnterSame
<1>6. MemoryInv'
  BY <1>1, <1>2, MemorySame
<1> QED
  BY <1>5, <1>6 DEF BootInv, MemoryInv

\* Where the kernel writes the memory at an address.
LEMMA KernPhysical ==
  ASSUME paging, a20, NEW x \in Phys
  PROVE  Physical(KERNBASE + x) = x
<1>1. x \in Nat /\ x < PTSIZE
  BY PageSizes DEF Phys
<1>2. Translated(KERNBASE + x) = x
  BY <1>1, KernMapped
<1> QED
  BY <1>2, OpenLine DEF Physical

LEMMA CallInitStep == ASSUME BootInv, CallInit PROVE BootInv'
<1> DEFINE b == img.bootstack
<1>1. /\ pc = "relocated" /\ pc' = "i386_init" /\ paging' = paging
      /\ mem' = [mem EXCEPT ![Physical(esp - 1)] = Pushed] /\ mem \in [Phys -> Int]
      /\ esp = KERNBASE + b + 1
      /\ UNCHANGED <<img, a20, kbc, port, disk, rd, ph>>
  BY DEF BootInv, BootType, CallInit, devices
<1>2. Entered /\ Paged /\ Paged' /\ Entered' /\ ~Loading'
  BY <1>1 DEF Entered, Paged, Loading
<1>3. Linked(img) /\ Len(img.ph) \in DOMAIN img.ph /\ ph = Len(img.ph) /\ a20
  BY <1>2, Ready
<1>4. b \in FileBytes(img.ph[Len(img.ph)])
  BY <1>3, Places
<1>5. b \in Phys /\ b \in img.ph[Len(img.ph)].pa .. MemEnds(img.ph[Len(img.ph)]) - 1 /\ b \in Int
  BY <1>3, <1>4, FileInMemory DEF Phys
<1> HIDE DEF b
<1>6. paging' /\ paging
  BY <1>1, <1>2 DEF BootInv, BootType
<1>7. Physical(esp - 1) = b
  <2>1. esp - 1 = KERNBASE + b
    BY <1>1, <1>5, Sizes
  <2> QED
    BY <1>3, <1>5, <1>6, <2>1, KernPhysical
<1>8. \A a \in Phys : mem'[a] = IF a = b THEN Pushed ELSE mem[a]
  BY <1>1, <1>7
<1>9. mem' \in [Phys -> Int]
  <2>1. Pushed \in Int
    BY DEF Pushed
  <2> QED
    BY <1>1, <1>7, <2>1
<1>10. BootType' /\ LineInv' /\ ReadInv'
  BY <1>1, <1>2, <1>6, <1>9, EnterSame
<1>11. HeaderLoaded' /\ OnlySectors'
  BY <1>1, <1>2, <1>5, <1>8, WriteSame
<1>12. PartLoaded'
  <2>1. ASSUME NEW i \in DOMAIN img.ph, NEW a \in FileBytes(img.ph[i])
        PROVE  mem'[a] = ImageCell(i, a) \/ (a = b /\ mem'[a] = Pushed)
    <3>1. a \in Phys
      BY <1>3, FileInMemory
    <3>2. mem[a] = ImageCell(i, a)
      BY <1>1, <1>2, Ready
    <3> QED
      BY <1>8, <3>1, <3>2
  <2> QED
    BY <1>1, <2>1 DEF PartLoaded, FileBytes, Ends, ImageCell, b
<1>13. BssZero'
  BY <1>1 DEF BssZero
<1> QED
  BY <1>10, <1>11, <1>12, <1>13 DEF BootInv

LEMMA ClearBssStep == ASSUME BootInv, ClearBss PROVE BootInv'
<1> DEFINE data == img.ph[Len(img.ph)]
<1>1. /\ pc = "i386_init" /\ pc' = "started" /\ paging' = paging
      /\ mem' = [a \in Phys |-> IF \E b \in Bss : Physical(KERNBASE + b) = a THEN Zero ELSE mem[a]]
      /\ mem \in [Phys -> Int]
      /\ UNCHANGED <<img, a20, kbc, port, disk, rd, ph>>
  BY DEF BootInv, BootType, ClearBss, devices, cpu
<1>2. Entered /\ Paged /\ Paged' /\ Entered' /\ ~Loading'
  BY <1>1 DEF Entered, Paged, Loading
<1>3. Linked(img) /\ Len(img.ph) \in DOMAIN img.ph /\ ph = Len(img.ph) /\ a20
  BY <1>2, Ready
<1>4. /\ data.pa \in Nat /\ data.memsz \in Nat /\ data.filesz \in Nat
      /\ MemEnds(data) = data.pa + data.memsz /\ Ends(data) = data.pa + data.filesz
  BY <1>3, Segment
<1>5. Bss = Ends(data) .. MemEnds(data) - 1
  BY DEF Bss
<1>6. Bss \subseteq data.pa .. MemEnds(data) - 1
  BY <1>4, <1>5
<1>7. Bss \subseteq Phys
  BY <1>3, <1>6, InMemory
<1>8. paging' /\ paging
  BY <1>1, <1>2 DEF BootInv, BootType
<1>9. \A a \in Phys : mem'[a] = IF a \in Bss THEN Zero ELSE mem[a]
  <2>1. \A b \in Bss : Physical(KERNBASE + b) = b
    BY <1>3, <1>7, <1>8, KernPhysical
  <2>2. \A a \in Phys : (\E b \in Bss : Physical(KERNBASE + b) = a) <=> a \in Bss
    BY <2>1
  <2> QED
    BY <1>1, <2>2
<1>10. mem' \in [Phys -> Int]
  BY <1>1 DEF Zero
<1>11. BootType' /\ LineInv' /\ ReadInv'
  BY <1>1, <1>2, <1>8, <1>10, EnterSame
<1>12. HeaderLoaded' /\ OnlySectors'
  <2>1. \A a \in Phys : mem'[a] # mem[a] => a \in Bss
    BY <1>9
  <2> QED
    BY <1>1, <1>2, <1>6, <2>1, WriteSame
<1>13. PartLoaded'
  <2>1. ASSUME NEW i \in DOMAIN img.ph, NEW a \in FileBytes(img.ph[i])
        PROVE  mem'[a] = ImageCell(i, a) \/ (a = img.bootstack /\ mem'[a] = Pushed)
    <3>1. a \in Phys /\ a \in img.ph[i].pa .. MemEnds(img.ph[i]) - 1
      BY <1>3, FileInMemory
    <3>2. a \notin Bss
      <4>1. CASE i = Len(img.ph)
        BY <1>4, <1>5, <4>1 DEF FileBytes
      <4>2. CASE i # Len(img.ph)
        <5>1. i < Len(img.ph)
          BY <1>3, <4>2, Headers
        <5>2. MemEnds(img.ph[i]) <= data.pa
          BY <1>3, <5>1, Apart
        <5>3. MemEnds(img.ph[i]) \in Nat
          BY <1>3, Segment
        <5>4. a \in Int /\ a < data.pa
          BY <1>4, <3>1, <5>2, <5>3 DEF Phys
        <5> QED
          BY <1>4, <1>6, <5>4
      <4> QED
        BY <4>1, <4>2
    <3>3. mem'[a] = mem[a]
      BY <1>9, <3>1, <3>2
    <3> QED
      BY <1>2, <3>3, Ready
  <2>2. pc' = "started" /\ img' = img
    BY <1>1
  <2> HIDE DEF data
  <2> QED
    BY <2>1, <2>2 DEF PartLoaded, FileBytes, Ends, ImageCell
<1>14. BssZero'
  BY <1>1, <1>7, <1>9 DEF BssZero, Bss, Ends, MemEnds
<1> QED
  BY <1>11, <1>12, <1>13, <1>14 DEF BootInv

\* The page of the header is made of sectors.
LEMMA HeaderSectors == Aligned(ELFHDR) /\ Aligned(ELFHDR + SECTSIZE * HDRSECTS) /\ Aligned(MB)
<1>1. Aligned(ELFHDR) /\ Aligned(MB)
  BY Sizes DEF Aligned
<1> DEFINE d == ELFHDR \div SECTSIZE
<1>2. d \in Nat /\ ELFHDR = SECTSIZE * d
  BY Sizes, DivMod
<1> HIDE DEF d
<1> DEFINE n == d + HDRSECTS
<1>3. n \in Nat /\ ELFHDR + SECTSIZE * HDRSECTS = SECTSIZE * n + 0
  BY <1>2, Sizes
<1> HIDE DEF n
<1>4. (SECTSIZE * n + 0) % SECTSIZE = 0
  <2>1. 0 \in Nat /\ 0 < SECTSIZE
    BY Sizes
  <2> QED
    BY <1>3, <2>1, Sizes, Unique
<1>5. ELFHDR + SECTSIZE * HDRSECTS \in Nat
  BY Sizes, Products
<1> QED
  BY <1>1, <1>3, <1>4, <1>5 DEF Aligned

LEMMA InslStep == ASSUME BootInv, Insl PROVE BootInv'
<1>1. /\ pc = "insl" /\ pc' = "readseg" /\ ~disk.busy
      /\ UNCHANGED <<img, a20, kbc, port, disk, ph, paging, esp>>
      /\ BootType /\ LineInv /\ ReadInv /\ HeaderLoaded /\ PartLoaded /\ OnlySectors
      /\ ph \in Nat
  BY DEF BootInv, BootType, Insl, Transfer, devices
<1>2. Loading /\ ~Entered /\ ~Paged /\ Loading' /\ ~Entered' /\ ~Paged'
  BY <1>1 DEF Loading, Entered, Paged
<1>3. /\ mem' \in [Phys -> Int]
      /\ \A a \in Phys :
           IF rd.pa <= a /\ a < rd.pa + SECTSIZE
           THEN mem'[a] = Wanted(a) ELSE mem'[a] = mem[a]
      /\ Aligned(rd.pa) /\ rd.pa < rd.end /\ rd.pa >= Start /\ rd.end = Stop /\ a20
      /\ rd.offset \in Nat /\ SECTSIZE * rd.offset = SECTSIZE + First + (rd.pa - Start)
      /\ rd' = [rd EXCEPT !.pa = rd.pa + SECTSIZE, !.offset = rd.offset + 1]
  BY <1>1, SectorRead
<1>4. rd.pa \in Nat /\ Aligned(rd.pa + SECTSIZE)
  BY <1>3, InSector DEF Aligned
<1>5. rd'.pa = rd.pa + SECTSIZE /\ rd'.end = rd.end /\ rd'.offset = rd.offset + 1
  <2>1. rd \in [pa : Nat, end : Nat, offset : Nat]
    BY <1>1 DEF BootType
  <2> QED
    BY <1>3, <2>1
<1>6. (img.elf => Linked(img))' /\ (img.elf => Linked(img))
  BY <1>1, LinkedSame DEF BootType
<1>7. BootType'
  <2>1. rd' \in [pa : Nat, end : Nat, offset : Nat]
    <3>1. rd \in [pa : Nat, end : Nat, offset : Nat]
      BY <1>1 DEF BootType
    <3>2. rd.pa + SECTSIZE \in Nat /\ rd.offset + 1 \in Nat
      BY <1>3, <1>4, Sizes
    <3> QED
      BY <1>3, <3>1, <3>2
  <2> QED
    BY <1>1, <1>2, <1>3, <1>6, <2>1 DEF BootType
<1>8. LineInv'
  BY <1>1, <1>3 DEF LineInv
<1>9. Start \in Nat /\ First \in Int /\ (ph = 0 \/ Start >= MB)
  <2>1. ph = 0 => Start = ELFHDR /\ First = 0
    BY DEF Start, First
  <2>2. CASE ph > 0
    <3> DEFINE s == img.ph[ph]
    <3>1. s.pa \in Nat /\ s.offset \in Nat /\ MB <= s.pa /\ Start = Down(s.pa) /\ First = Down(s.offset)
      BY <1>1, <2>2, Current, Segment
    <3> HIDE DEF s
    <3>2. Aligned(Down(s.pa)) /\ Aligned(Down(s.offset))
      BY <3>1, DownIs
    <3>3. MB <= Down(s.pa)
      BY <3>1, HeaderSectors, DownAbove
    <3> QED
      BY <3>1, <3>2, <3>3 DEF Aligned
  <2> QED
    BY <1>1, <2>1, <2>2, Sizes
<1>10. ReadInv'
  <2>1. Start' = Start /\ Stop' = Stop /\ First' = First
    BY <1>1 DEF Start, Stop, First, MemEnds, Down
  <2>2. SECTSIZE * (rd.offset + 1) = SECTSIZE + First + ((rd.pa + SECTSIZE) - Start)
    <3>1. SECTSIZE * (rd.offset + 1) = SECTSIZE * rd.offset + SECTSIZE
      BY <1>3, Sizes
    <3> QED
      BY <1>3, <1>4, <1>9, <3>1, Sizes
  <2>3. rd'.pa \in Nat /\ rd'.pa % SECTSIZE = 0
    BY <1>4, <1>5 DEF Aligned
  <2>4. rd'.pa >= Start
    BY <1>3, <1>4, <1>5, <1>9, Sizes
  <2> QED
    BY <1>1, <1>3, <1>5, <2>1, <2>2, <2>3, <2>4 DEF ReadInv
<1>11. HeaderLoaded'
  <2> SUFFICES ASSUME NEW a \in ELFHDR..ELFHDR+(SECTSIZE*HDRSECTS)-1, ph > 0 \/ a < rd.pa + SECTSIZE
               PROVE  mem'[a] = DiskCell(a - ELFHDR)
    BY <1>1, <1>5 DEF HeaderLoaded
  <2>1. a \in Phys /\ a \in Nat /\ a < MB
    BY Sizes, Products, PageSizes DEF Phys
  <2>2. CASE ph > 0 \/ a < rd.pa
    <3>1. ~(rd.pa <= a /\ a < rd.pa + SECTSIZE)
      BY <1>1, <1>3, <1>4, <1>9, <2>1, <2>2, Sizes
    <3>2. mem[a] = DiskCell(a - ELFHDR)
      BY <1>1, <1>2, <2>2 DEF HeaderLoaded
    <3> QED
      BY <1>3, <2>1, <3>1, <3>2
  <2>3. CASE ph = 0 /\ rd.pa <= a
    <3>1. mem'[a] = Wanted(a)
      BY <1>3, <2>1, <2>3
    <3>2. Wanted(a) = DiskCell(a - ELFHDR)
      BY <2>1, <2>3, Sizes DEF Wanted, Start, First, DiskCell
    <3> QED
      BY <3>1, <3>2
  <2> QED
    BY <1>1, <1>4, <2>1, <2>2, <2>3
<1>12. PartLoaded'
  <2>1. ASSUME img.elf, NEW i \in DOMAIN img.ph, NEW a \in FileBytes(img.ph[i]),
               i < ph \/ (i = ph /\ a < rd.pa + SECTSIZE)
        PROVE  mem'[a] = ImageCell(i, a)
    <3> DEFINE s == img.ph[ph]
               r == img.ph[i]
    <3>0. Linked(img) /\ i \in Nat /\ i > 0
      BY <1>6, <2>1, Headers
    <3>1. a \in Phys /\ a \in r.pa .. MemEnds(r) - 1 /\ a \in Int
      BY <3>0, FileInMemory DEF Phys
    <3>2. ph > 0 /\ ph \in DOMAIN img.ph /\ Start = Down(s.pa) /\ First = Down(s.offset)
      BY <1>1, <2>1, <3>0, Current
    <3>3. /\ s.pa \in Nat /\ s.offset \in Nat /\ r.pa \in Nat /\ r.offset \in Nat /\ MemEnds(r) \in Nat
          /\ s.pa - Down(s.pa) = s.offset - Down(s.offset)
      BY <3>0, <3>2, Segment
    <3>4. Down(s.pa) \in Nat /\ Down(s.offset) \in Nat
      BY <3>3, DownIs DEF Aligned
    <3>5. i < ph /\ Down(s.pa) < MemEnds(r) => r.pa - r.offset = s.pa - s.offset
      BY <3>0, <3>2, Apart
    <3>6. i = ph => r = s
      OBVIOUS
    <3>7. ImageCell(i, a) = SECTSIZE + r.offset + (a - r.pa)
      BY <3>1, <3>3, Sizes DEF ImageCell, DiskCell
    <3> HIDE DEF s, r
    <3>8. CASE rd.pa <= a /\ a < rd.pa + SECTSIZE
      <4>1. mem'[a] = SECTSIZE + Down(s.offset) + (a - Down(s.pa))
        BY <1>3, <3>1, <3>2, <3>8 DEF Wanted
      <4>2. Down(s.pa) < MemEnds(r)
        BY <1>3, <1>4, <3>1, <3>2, <3>3, <3>4, <3>8
      <4>3. r.pa - r.offset = s.pa - s.offset
        BY <2>1, <3>5, <3>6, <4>2
      <4> DEFINE ds == Down(s.offset)
                 dp == Down(s.pa)
      <4>4. ds \in Nat /\ dp \in Nat /\ s.pa - dp = s.offset - ds
        BY <3>3, <3>4
      <4>5. mem'[a] = SECTSIZE + ds + (a - dp)
        BY <4>1
      <4> HIDE DEF ds, dp
      <4>6. SECTSIZE + ds + (a - dp) = SECTSIZE + r.offset + (a - r.pa)
        <5> DEFINE so == s.offset
                   sp == s.pa
                   ro == r.offset
                   rp == r.pa
        <5>1. so \in Nat /\ sp \in Nat /\ ro \in Nat /\ rp \in Nat /\ sp - dp = so - ds /\ rp - ro = sp - so /\ a \in Int
          BY <3>1, <3>3, <4>3, <4>4
        <5> HIDE DEF so, sp, ro, rp
        <5>2. SECTSIZE + ds + (a - dp) = SECTSIZE + ro + (a - rp)
          BY <4>4, <5>1, Sizes
        <5> QED
          BY <5>2 DEF ro, rp
      <4> QED
        BY <3>7, <4>5, <4>6
    <3>9. CASE ~(rd.pa <= a /\ a < rd.pa + SECTSIZE)
      <4>1. i < ph \/ (i = ph /\ a < rd.pa)
        BY <1>4, <2>1, <3>1, <3>9
      <4>2. mem[a] = ImageCell(i, a)
        BY <1>1, <2>1, <4>1 DEF PartLoaded
      <4> QED
        BY <1>3, <3>1, <3>9, <4>2
    <3> QED
      BY <3>8, <3>9
  <2> QED
    BY <1>1, <1>2, <1>5, <2>1 DEF PartLoaded, FileBytes, Ends, ImageCell
<1>13. BssZero'
  BY <1>1 DEF BssZero
<1>14. OnlySectors'
  <2> DEFINE All == IF img.elf THEN UNION {Sectors(img.ph[i]) : i \in DOMAIN img.ph} ELSE {}
             header == ELFHDR..ELFHDR+(SECTSIZE*HDRSECTS)-1
  <2>1. ASSUME NEW a \in Phys, rd.pa <= a, a < rd.pa + SECTSIZE PROVE a \in header \cup All
    <3>0. a \in Int
      BY DEF Phys
    <3>1. CASE ph = 0
      <4>1. rd.pa + SECTSIZE <= ELFHDR + SECTSIZE * HDRSECTS
        BY <1>3, <3>1, HeaderSectors, Gap DEF Stop
      <4>2. ELFHDR <= rd.pa
        BY <1>3, <3>1, <1>4, Sizes DEF Start
      <4> QED
        BY <1>4, <2>1, <3>0, <4>1, <4>2, Sizes, Products
    <3>2. CASE ph > 0
      <4> DEFINE s == img.ph[ph]
      <4>1. Linked(img) /\ ph \in DOMAIN img.ph /\ Start = Down(s.pa) /\ Stop = MemEnds(s) /\ img.elf
        BY <1>1, <3>2, Current DEF BootType
      <4>2. MemEnds(s) \in Nat /\ s.pa \in Nat
        BY <4>1, Segment
      <4> HIDE DEF s
      <4>3. rd.pa + SECTSIZE <= Up(MemEnds(s)) /\ Up(MemEnds(s)) \in Nat
        BY <1>3, <4>1, <4>2, UpIs
      <4>4. Down(s.pa) \in Nat
        BY <4>2, DownIs DEF Aligned
      <4>5. a \in Sectors(s)
        BY <1>3, <1>4, <2>1, <3>0, <4>1, <4>3, <4>4, Sizes DEF Sectors
      <4> QED
        BY <4>1, <4>5 DEF s
    <3> QED
      BY <1>1, <3>1, <3>2
  <2>2. \A a \in Phys \ (header \cup All \cup {WARM}) :
          mem[a] = IF a \in LoaderCells THEN a - LOADER ELSE Other
    BY <1>1 DEF OnlySectors
  <2>3. \A a \in Phys \ (header \cup All \cup {WARM}) : mem'[a] = mem[a]
    BY <1>3, <2>1
  <2>4. OnlySectors' = \A a \in Phys \ (header \cup All \cup {WARM}) :
                         mem'[a] = IF a \in LoaderCells THEN a - LOADER ELSE Other
    BY <1>1 DEF OnlySectors, Sectors, MemEnds, Up, Down
  <2> HIDE DEF All, header
  <2> QED
    BY <2>2, <2>3, <2>4
<1> QED
  BY <1>7, <1>8, <1>10, <1>11, <1>12, <1>13, <1>14 DEF BootInv

LEMMA Unchanged == ASSUME BootInv, UNCHANGED vars PROVE BootInv'
<1>1. UNCHANGED <<img, mem, a20, kbc, port, disk, rd, ph, paging, esp, pc>>
  BY DEF vars
<1>2. (Loading' <=> Loading) /\ (Entered' <=> Entered) /\ (Paged' <=> Paged)
  BY <1>1 DEF Loading, Entered, Paged
<1>3. BootType /\ ReadInv /\ LineInv /\ MemoryInv
  BY DEF BootInv, MemoryInv
<1>4. BootType'
  BY <1>1, <1>2, <1>3, TypeSame DEF BootType
<1>5. ReadInv'
  BY <1>1, <1>2, <1>3, ReadSame DEF ReadInv, Loading
<1>6. LineInv'
  BY <1>1, <1>2, <1>3 DEF LineInv
<1>7. MemoryInv'
  BY <1>1, <1>2, <1>3, MemorySame
<1> QED
  BY <1>4, <1>5, <1>6, <1>7 DEF BootInv, MemoryInv

\* Every step of the loader, of entry.S and of the controllers keeps the invariant.
THEOREM StepBoot == BootInv /\ [Next]_vars => BootInv'
<1> SUFFICES ASSUME BootInv, [Next]_vars PROVE BootInv'
  OBVIOUS
<1>1. CASE Loads
  BY <1>1, Seta20_1Step, Seta20_2Step, ProtcsegStep, CommandStep, InslStep, NotElfStep,
     NextSegmentStep, CallEntryStep DEF Loads
<1>2. CASE Enters
  BY <1>2, EnablePagingStep, RelocateStep, CallInitStep, ClearBssStep DEF Enters
<1>3. CASE KbcDone
  BY <1>3, KbcStep
<1>4. CASE DiskReady
  BY <1>4, DiskStep
<1>5. CASE UNCHANGED vars
  BY <1>5, Unchanged
<1> QED
  BY <1>1, <1>2, <1>3, <1>4, <1>5 DEF Next, Rests

\* The inductive invariant, for every image and every layout.
THEOREM BootInvariant == Spec => []BootInv
<1> QED
  BY InitBoot, StepBoot, PTL DEF Spec

----------------------------------------------------------------------------
(* What follows from it.                                                   *)

\* The boot sector stays what the firmware loaded.
LEMMA LoaderSame ==
  ASSUME BootInv, NEW c \in 0..SECTSIZE-1
  PROVE  mem[LOADER + c] = c /\ Line20(LOADER + c) = LOADER + c
<1> DEFINE a == LOADER + c
           All == IF img.elf THEN UNION {Sectors(img.ph[i]) : i \in DOMAIN img.ph} ELSE {}
           header == ELFHDR..ELFHDR+(SECTSIZE*HDRSECTS)-1
<1>1. a \in Nat /\ a < ELFHDR /\ a < MB /\ a > WARM /\ a - LOADER = c /\ a \in LoaderCells
  BY Sizes, Products DEF LoaderCells
<1>2. a \in Phys
  BY <1>1, Sizes, PageSizes DEF Phys
<1>3. a \notin All
  <2>1. ASSUME img.elf, NEW i \in DOMAIN img.ph PROVE a \notin Sectors(img.ph[i])
    <3> DEFINE s == img.ph[i]
    <3>1. Linked(img)
      BY <2>1 DEF BootInv, BootType
    <3>2. s.pa \in Nat /\ MB <= s.pa
      BY <3>1, Segment
    <3> HIDE DEF s
    <3>3. MB <= Down(s.pa) /\ Down(s.pa) \in Nat
      BY <3>2, HeaderSectors, DownAbove, DownIs DEF Aligned
    <3>4. a \notin Sectors(s)
      BY <1>1, <3>3, Sizes DEF Sectors
    <3> QED
      BY <3>4 DEF s
  <2> QED
    BY <2>1
<1>4. a \notin header /\ a # WARM
  BY <1>1, Sizes
<1>5. mem[a] = IF a \in LoaderCells THEN a - LOADER ELSE Other
  BY <1>2, <1>3, <1>4 DEF BootInv, OnlySectors
<1> HIDE DEF a
<1>6. mem[a] = c /\ Line20(a) = a
  BY <1>1, <1>5, LowLine
<1> QED
  BY <1>6 DEF a

\* Text and data are not the word that is pushed.
LEMMA NotPushed ==
  ASSUME Linked(img), NEW a \in FileBytes(img.ph[1])
  PROVE  a # img.bootstack
<1>1. 1 \in DOMAIN img.ph /\ Len(img.ph) \in DOMAIN img.ph /\ Len(img.ph) # 1
  BY Headers
<1>2. img.bootstack \in FileBytes(img.ph[Len(img.ph)])
  BY Places
<1> QED
  BY <1>1, <1>2, Uniquely

\* Once the entry point has been called: text is in place, at both addresses.
LEMMA TextRight ==
  ASSUME BootInv, Entered, NEW a \in FileBytes(img.ph[1])
  PROVE  /\ mem[a] = KernelCell(img, a)
         /\ Physical(a) = a /\ Reads(a)
         /\ paging => Physical(KERNBASE + a) = a /\ Reads(KERNBASE + a)
<1>1. Linked(img) /\ 1 \in DOMAIN img.ph /\ a20
  BY Ready, Headers
<1>2. mem[a] = ImageCell(1, a)
  BY <1>1, Ready, NotPushed
<1>3. KernelCell(img, a) = ImageCell(1, a)
  BY <1>1, CellOf
<1>4. a \in Phys
  BY <1>1, FileInMemory
<1>5. a \in Nat /\ a < PTSIZE
  BY <1>4, PageSizes DEF Phys
<1>6. Physical(a) = a /\ Reads(a)
  BY <1>1, <1>5, LowMapped, OpenLine DEF Physical, Reads
<1>7. paging => Physical(KERNBASE + a) = a /\ Reads(KERNBASE + a)
  BY <1>1, <1>4, <1>5, KernMapped, KernPhysical DEF Reads
<1> QED
  BY <1>2, <1>3, <1>6, <1>7

LEMMA FetchRight == ASSUME BootInv PROVE Reads(Eip) /\ mem[Physical(Eip)] = Code
<1>1. /\ pc \in {"seta20.1", "seta20.2", "protcseg", "bad"} \/ Loading \/ Entered
      /\ paging <=> Paged
  BY DEF BootInv, BootType
<1>2. CASE Entered
  <2>1. Linked(img)
    BY <1>2, Ready
  <2>2. img.entry \in FileBytes(img.ph[1]) /\ img.i386_init \in FileBytes(img.ph[1])
    BY <2>1, Places
  <2>3. CASE pc \in {"entry", "paged"}
    <3>1. Eip = img.entry /\ Code = KernelCell(img, img.entry)
      BY <2>3 DEF Eip, Code
    <3> QED
      BY <1>2, <2>2, <3>1, TextRight
  <2>4. CASE pc = "relocated"
    <3>1. Eip = KERNBASE + img.entry /\ Code = KernelCell(img, img.entry) /\ paging
      BY <1>1, <2>4 DEF Eip, Code, Paged
    <3> QED
      BY <1>2, <2>2, <3>1, TextRight
  <2>5. CASE pc \in {"i386_init", "started"}
    <3>1. Eip = KERNBASE + img.i386_init /\ Code = KernelCell(img, img.i386_init) /\ paging
      BY <1>1, <2>5 DEF Eip, Code, Paged
    <3> QED
      BY <1>2, <2>2, <3>1, TextRight
  <2> QED
    BY <1>2, <2>3, <2>4, <2>5 DEF Entered, Paged
<1>3. CASE ~Entered
  <2>1. ~paging
    BY <1>1, <1>3 DEF Entered
  <2>2. CASE Loading
    <3>1. Eip = LOADER + 1 /\ Code = 1
      BY <2>2 DEF Eip, Code, Loading
    <3>2. 1 \in 0..SECTSIZE-1
      BY Sizes
    <3> QED
      BY <2>1, <3>1, <3>2, LoaderSame DEF Reads, Physical
  <2>3. CASE pc \in {"seta20.1", "seta20.2", "protcseg", "bad"}
    <3>1. Eip = LOADER + 0 /\ Code = 0
      BY <2>3, Sizes DEF Eip, Code
    <3>2. 0 \in 0..SECTSIZE-1
      BY Sizes
    <3> QED
      BY <2>1, <3>1, <3>2, LoaderSame DEF Reads, Physical
  <2> QED
    BY <1>1, <1>3, <2>2, <2>3
<1> QED
  BY <1>2, <1>3

LEMMA BootExecutes == ASSUME BootInv PROVE Executes
<1>1. ASSUME SegmentRead, img.elf, NEW i \in 0..Len(img.ph)
      PROVE  mem[HeaderCell(i)] = DiskCell(i)
  <2>1. Linked(img)
    BY <1>1 DEF BootInv, BootType
  <2>2. i \in Nat /\ i <= Len(img.ph) /\ Len(img.ph) \in Nat
    BY <2>1, Headers
  <2>3. ELFHDR + i \in ELFHDR..ELFHDR+(SECTSIZE*HDRSECTS)-1 /\ (ELFHDR + i) - ELFHDR = i
    BY <2>1, <2>2, Headers, Sizes, Products
  <2> QED
    BY <1>1, <2>3, ReadAll DEF HeaderCell
<1>2. ASSUME paging PROVE mem[Line20(img.pgdir)] = KernelCell(img, img.pgdir)
  <2>1. Entered
    BY <1>2 DEF BootInv, BootType, Entered
  <2>2. Linked(img) /\ Len(img.ph) \in DOMAIN img.ph /\ a20
    BY <2>1, Ready
  <2>3. img.pgdir \in FileBytes(img.ph[Len(img.ph)]) /\ img.pgdir # img.bootstack
    BY <2>2, Places
  <2>4. mem[img.pgdir] = ImageCell(Len(img.ph), img.pgdir)
    BY <2>1, <2>2, <2>3, Ready
  <2> QED
    BY <2>2, <2>3, <2>4, CellOf, OpenLine
<1>3. ASSUME pc = "relocated" PROVE Writes(esp - 1)
  <2>1. Entered /\ Paged
    BY <1>3 DEF Entered, Paged
  <2>2. Linked(img) /\ Len(img.ph) \in DOMAIN img.ph
    BY <2>1, Ready
  <2>3. img.bootstack \in Phys
    BY <2>2, Places, FileInMemory
  <2>4. esp = KERNBASE + img.bootstack + 1
    BY <1>3 DEF BootInv, BootType
  <2> DEFINE b == img.bootstack
  <2>5. b \in Nat /\ b < PTSIZE
    BY <2>3, PageSizes DEF Phys
  <2> HIDE DEF b
  <2>6. esp - 1 = KERNBASE + b
    BY <2>4, <2>5, Sizes DEF b
  <2>7. Perms(KERNBASE + b) = {"P", "W"}
    BY <2>5, KernMapped
  <2> QED
    BY <2>6, <2>7 DEF Writes
<1> QED
  BY <1>1, <1>2, <1>3, FetchRight DEF Executes

LEMMA BootLoads == ASSUME BootInv PROVE SegmentsLoaded
<1> SUFFICES ASSUME pc \in {"entry", "paged", "relocated", "i386_init", "started"},
                    NEW i \in DOMAIN img.ph,
                    NEW a \in img.ph[i].pa .. MemEnds(img.ph[i]) - 1
             PROVE  IF a \in FileBytes(img.ph[i])
                    THEN mem[a] = KernelCell(img, a) \/ (a = img.bootstack /\ mem[a] = Pushed)
                    ELSE pc = "started" => mem[a] = Zero
  BY DEF SegmentsLoaded
<1>1. Entered
  BY DEF Entered, Paged
<1>2. Linked(img)
  BY <1>1, Ready
<1>3. CASE a \in FileBytes(img.ph[i])
  BY <1>1, <1>2, <1>3, Ready, CellOf
<1>4. CASE a \notin FileBytes(img.ph[i])
  <2> DEFINE s == img.ph[i]
  <2>1. /\ s.pa \in Nat /\ s.filesz \in Nat /\ s.memsz \in Nat
        /\ MemEnds(s) = s.pa + s.memsz /\ Ends(s) = s.pa + s.filesz
        /\ i < Len(img.ph) => s.filesz = s.memsz
    BY <1>2, Segment
  <2>2. a \in s.pa .. MemEnds(s) - 1 /\ a \notin s.pa .. Ends(s) - 1
    BY <1>4 DEF FileBytes
  <2>3. i = Len(img.ph) => Bss = Ends(s) .. MemEnds(s) - 1
    BY DEF Bss
  <2> HIDE DEF s
  <2>4. a \in Ends(s) .. MemEnds(s) - 1 /\ s.filesz # s.memsz
    BY <2>1, <2>2
  <2>5. i = Len(img.ph)
    BY <1>2, <2>1, <2>4, Headers
  <2>6. a \in Bss
    BY <2>3, <2>4, <2>5
  <2> QED
    BY <1>4, <2>6 DEF BootInv, BssZero
<1> QED
  BY <1>3, <1>4

(* Executes: whatever the controllers' pace, the loader and entry.S only   *)
(* run code that is mapped and was loaded there, look at program headers   *)
(* that have been read, turn paging on with the linked directory and call  *)
(* i386_init with a stack that can be written (boot.S, bootmain, entry.S). *)
THEOREM ExecutesLinked == Spec => []Executes
<1> QED
  BY BootInvariant, BootExecutes, PTL

(* MemoryRight: when the kernel is entered every segment is where its      *)
(* header says and nothing but the sectors that were asked for and the     *)
(* warm boot flag has been written (bootmain, readseg, i386_init).         *)
THEOREM KernelLoaded == Spec => []MemoryRight
<1>1. BootInv => MemoryRight
  BY BootLoads DEF BootInv, MemoryRight
<1> QED
  BY <1>1, BootInvariant, PTL

============================================================================
