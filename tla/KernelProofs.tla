---------------------------- MODULE KernelProofs ----------------------------
(***************************************************************************)
(* Environments in the middle of being created and freed, and the kernel   *)
(* that runs them: for any number of slots, pages and programs, memory     *)
(* stays accounted for, the address spaces stay apart, the loaded          *)
(* directory can be run on, and ids find only the environment they were    *)
(* given to; the kernel takes no step on them that env.c does not define,  *)
(* and the assertions in trap hold.                                        *)
(***************************************************************************)
EXTENDS Kernel, PageInvProofs

USE UIdxAssumption

----------------------------------------------------------------------------
(* env_free_list: taking its first slot, putting a slot in front.          *)

SeqSet(q) == {q[i] : i \in DOMAIN q}
Distinct(q) == \A i, j \in DOMAIN q : q[i] = q[j] => i = j

LEMMA PopDistinct ==
  ASSUME NEW S, NEW q \in Seq(S), q # <<>>, Distinct(q)
  PROVE  /\ Head(q) \in S /\ Tail(q) \in Seq(S) /\ Distinct(Tail(q))
         /\ Head(q) \in SeqSet(q) /\ SeqSet(Tail(q)) = SeqSet(q) \ {Head(q)}
<1> DEFINE r == Tail(q)
<1>1. Len(q) \in Nat \ {0} /\ r \in Seq(S)
  OBVIOUS
<1>2. DOMAIN q = 1..Len(q) /\ DOMAIN r = 1..(Len(q) - 1)
  BY <1>1
<1>3. \A i \in DOMAIN r : r[i] = q[i + 1] /\ i + 1 \in DOMAIN q
  BY <1>1, <1>2
<1>4. Head(q) = q[1] /\ 1 \in DOMAIN q /\ Head(q) \in S
  BY <1>1, <1>2
<1> HIDE DEF r
<1>5. Distinct(r)
  BY <1>2, <1>3 DEF Distinct
<1>6. SeqSet(r) \subseteq SeqSet(q) \ {Head(q)}
  BY <1>2, <1>3, <1>4 DEF SeqSet, Distinct
<1>7. ASSUME NEW i \in DOMAIN q, q[i] # Head(q) PROVE q[i] \in SeqSet(r)
  <2>1. i - 1 \in DOMAIN r /\ (i - 1) + 1 = i
    BY <1>2, <1>4, <1>7
  <2>2. r[i - 1] = q[i]
    BY <1>3, <2>1
  <2> QED
    BY <2>1, <2>2 DEF SeqSet
<1>8. SeqSet(q) \ {Head(q)} \subseteq SeqSet(r)
  BY <1>7 DEF SeqSet
<1> QED
  BY <1>1, <1>4, <1>5, <1>6, <1>8 DEF r, SeqSet

LEMMA PushDistinct ==
  ASSUME NEW S, NEW q \in Seq(S), NEW x \in S, x \notin SeqSet(q), Distinct(q)
  PROVE  /\ <<x>> \o q \in Seq(S) /\ Distinct(<<x>> \o q)
         /\ SeqSet(<<x>> \o q) = SeqSet(q) \cup {x}
<1> DEFINE r == <<x>> \o q
<1>1. Len(q) \in Nat /\ r \in Seq(S)
  OBVIOUS
<1>2. DOMAIN q = 1..Len(q) /\ DOMAIN r = 1..(Len(q) + 1)
  BY <1>1
<1>3. r[1] = x /\ \A i \in DOMAIN q : r[i + 1] = q[i]
  BY <1>1, <1>2
<1>4. \A i \in DOMAIN r : i = 1 \/ (i - 1 \in DOMAIN q /\ r[i] = q[i - 1])
  BY <1>1, <1>2
<1>5. 1 \in DOMAIN r /\ \A i \in DOMAIN q : i + 1 \in DOMAIN r
  BY <1>1, <1>2
<1> HIDE DEF r
<1>6. Distinct(r)
  BY <1>1, <1>2, <1>3, <1>4 DEF Distinct, SeqSet
<1>7. SeqSet(r) \subseteq SeqSet(q) \cup {x}
  BY <1>3, <1>4 DEF SeqSet
<1>8. ASSUME NEW i \in DOMAIN q PROVE q[i] \in SeqSet(r)
  <2>1. i + 1 \in DOMAIN r /\ r[i + 1] = q[i]
    BY <1>3, <1>5
  <2> QED
    BY <2>1 DEF SeqSet
<1>9. x \in SeqSet(r)
  BY <1>3, <1>5 DEF SeqSet
<1> QED
  BY <1>1, <1>6, <1>7, <1>8, <1>9 DEF r, SeqSet

LEMMA FreeList ==
  /\ FreeEnvs = SeqSet(envFree)
  /\ EnvType => FreeEnvs \subseteq Slot
  /\ EnvType /\ SlotsSound => Distinct(envFree)
BY DEF FreeEnvs, SeqSet, EnvType, SlotsSound, Distinct

\* env_alloc takes the first free slot.
LEMMA TakeSlot ==
  ASSUME EnvType, SlotsSound, envFree # <<>>, envFree' = Tail(envFree)
  PROVE  /\ Head(envFree) \in FreeEnvs /\ Head(envFree) \in Slot /\ Head(envFree) \notin Live
         /\ envFree' \in Seq(Slot) /\ Distinct(envFree')
         /\ FreeEnvs' = FreeEnvs \ {Head(envFree)} /\ Live' = Live \cup {Head(envFree)}
<1>1. envFree \in Seq(Slot) /\ Distinct(envFree)
  BY FreeList DEF EnvType
<1>2. /\ Head(envFree) \in Slot /\ Tail(envFree) \in Seq(Slot) /\ Distinct(Tail(envFree))
      /\ Head(envFree) \in SeqSet(envFree)
      /\ SeqSet(Tail(envFree)) = SeqSet(envFree) \ {Head(envFree)}
  BY <1>1, PopDistinct
<1>3. FreeEnvs = SeqSet(envFree) /\ FreeEnvs' = SeqSet(envFree')
  BY DEF FreeEnvs, SeqSet
<1>4. FreeEnvs' = FreeEnvs \ {Head(envFree)}
  BY <1>2, <1>3
<1> QED
  BY <1>2, <1>3, <1>4 DEF Live

\* env_free puts the slot in front.
LEMMA GiveSlot ==
  ASSUME EnvType, SlotsSound, cur \in Live, envFree' = <<cur>> \o envFree
  PROVE  /\ envFree' \in Seq(Slot) /\ Distinct(envFree')
         /\ FreeEnvs' = FreeEnvs \cup {cur} /\ Live' = Live \ {cur}
<1>1. envFree \in Seq(Slot) /\ Distinct(envFree) /\ cur \in Slot /\ cur \notin SeqSet(envFree)
  BY FreeList DEF EnvType, Live
<1>2. /\ <<cur>> \o envFree \in Seq(Slot) /\ Distinct(<<cur>> \o envFree)
      /\ SeqSet(<<cur>> \o envFree) = SeqSet(envFree) \cup {cur}
  BY <1>1, PushDistinct
<1>3. FreeEnvs = SeqSet(envFree) /\ FreeEnvs' = SeqSet(envFree')
  BY DEF FreeEnvs, SeqSet
<1> QED
  BY <1>2, <1>3 DEF Live

----------------------------------------------------------------------------
(* Ids.                                                                    *)

(* The generations of a free slot are not used up: each of them is the     *)
(* generation of an environment that was freed, and of these there are at  *)
(* most MaxPast.                                                           *)
LEMMA Generations ==
  ASSUME EnvType, SlotsSound, op # "free", NEW s \in FreeEnvs
  PROVE  envs[s].gen \in 0..(GenMax - 1)
<1> DEFINE n == envs[s].gen
           ids == {<<g, s>> : g \in 1..n}
           f == [g \in 1..n |-> <<g, s>>]
<1>1. /\ s \in Slot /\ s \notin Live /\ n \in 0..GenMax /\ GenMax \in Nat
      /\ MaxPast \in Nat /\ MaxPast < GenMax
  BY FreeList, EnvAssumption, PastAssumption DEF EnvType, Live
<1>2. IsFiniteSet(past) /\ Cardinality(past) <= MaxPast
  BY DEF SlotsSound
<1> HIDE DEF n
<1>3. ids \subseteq past
  <2>1. ASSUME NEW g \in 1..n PROVE <<g, s>> \in past
    <3>1. g \in 1..GenMax /\ g <= envs[s].gen
      BY <1>1 DEF n
    <3> QED
      BY <1>1, <3>1 DEF SlotsSound
  <2> QED
    BY <2>1
<1>4. ExistsBijection(1..n, ids)
  <2>1. f \in Bijection(1..n, ids)
    BY DEF Bijection, Injection, Surjection, IsInjective
  <2> QED
    BY <2>1 DEF ExistsBijection
<1>5. IsFiniteSet(1..n) /\ Cardinality(1..n) = n
  BY <1>1, FS_Interval
<1> HIDE DEF ids, f
<1>6. IsFiniteSet(ids) /\ Cardinality(ids) = n
  BY <1>4, <1>5, FS_Bijection
<1>7. n <= Cardinality(past) /\ Cardinality(past) \in Nat
  BY <1>2, <1>3, <1>6, FS_Subset, FS_CardinalityType
<1>8. n < GenMax
  BY <1>1, <1>2, <1>7
<1> QED
  BY <1>1, <1>8 DEF n

----------------------------------------------------------------------------
(* Memory.                                                                 *)

OnceIn(m, R) ==
  \A c, d \in R, u, v \in VA :
    /\ PageLookup(m, c, u) # NoPte /\ PageLookup(m, d, v) # NoPte
    /\ PageLookup(m, c, u).pg = PageLookup(m, d, v).pg
    => c = d /\ u = v

LEMMA OnceSame ==
  ASSUME NEW m, NEW n, NEW R, OnceIn(m, R), SameLookup(m, n, R)
  PROVE  OnceIn(n, R)
BY DEF OnceIn, SameLookup

\* An address that is given a page nobody uses, or loses its page.
LEMMA OnceChanged ==
  ASSUME NEW m, NEW n, NEW R, NEW held, Good(m, R, held), OnceIn(m, R),
         NEW d \in R, NEW va \in VA, NEW e, LookupChanged(m, n, R, d, va, e),
         e = NoPte \/ e.pg \notin MappedPages(m, R)
  PROVE  OnceIn(n, R)
<1>1. SUFFICES ASSUME NEW a \in R, NEW b \in R, NEW u \in VA, NEW v \in VA,
                      PageLookup(n, a, u) # NoPte, PageLookup(n, b, v) # NoPte,
                      PageLookup(n, a, u).pg = PageLookup(n, b, v).pg
               PROVE  a = b /\ u = v
  BY DEF OnceIn
<1>2. /\ PageLookup(n, a, u) = IF a = d /\ u = va THEN e ELSE PageLookup(m, a, u)
      /\ PageLookup(n, b, v) = IF b = d /\ v = va THEN e ELSE PageLookup(m, b, v)
  BY DEF LookupChanged
<1>3. \A c \in R, w \in VA :
        PageLookup(m, c, w) # NoPte => PageLookup(m, c, w).pg \in MappedPages(m, R)
  BY MappedChar
<1>4. CASE a = d /\ u = va
  BY <1>1, <1>2, <1>3, <1>4
<1>5. CASE b = d /\ v = va
  BY <1>1, <1>2, <1>3, <1>5
<1>6. CASE ~(a = d /\ u = va) /\ ~(b = d /\ v = va)
  BY <1>1, <1>2, <1>6 DEF OnceIn
<1> QED
  BY <1>4, <1>5, <1>6

\* A page that only one address is mapped to has one reference.
LEMMA OnceCounted ==
  ASSUME NEW m, NEW R, NEW held, Good(m, R, held), OnceIn(m, R), NEW p \in MappedPages(m, R)
  PROVE  m.ref[p] = 1
<1>1. m \in Memory /\ R \in SUBSET Page /\ p \in Page \ R /\ p \notin TablePages(m, R)
  BY GoodParts, MappedPagesRole
<1>2. PICK t \in TablePages(m, R), i \in Idx : SlotRefers(m, <<t, i>>, p)
  BY DEF MappedPages
<1>3. \A s \in RefSlots(m, R, p) :
        /\ s[1] \in TablePages(m, R) /\ s[2] \in Idx /\ s = <<s[1], s[2]>>
        /\ SlotRefers(m, s, p)
  <2> SUFFICES ASSUME NEW s \in RefSlots(m, R, p) PROVE s[1] \in TablePages(m, R)
    BY <1>1, SlotsType DEF RefSlots
  <2>1. s \in LiveSlots(m, R) /\ SlotRefers(m, s, p)
    BY DEF RefSlots
  <2>2. CASE s \in R \X UIdx
    <3>1. HasTable(m, s[1], s[2]) /\ TableOf(m, s[1], s[2]) = p
      BY <2>1, NoPteAssumption DEF SlotRefers, HasTable, TableOf
    <3>2. p \in TablePages(m, R)
      BY <1>1, <2>2, <3>1 DEF TablePages
    <3> QED
      BY <1>1, <3>2
  <2> QED
    BY <2>1, <2>2 DEF LiveSlots, PdeSlots
<1>4. ASSUME NEW s \in RefSlots(m, R, p), NEW u \in RefSlots(m, R, p) PROVE s = u
  <2>1. PICK c \in R, x \in UIdx : HasTable(m, c, x) /\ TableOf(m, c, x) = s[1]
    BY <1>3 DEF TablePages
  <2>2. PICK d \in R, y \in UIdx : HasTable(m, d, y) /\ TableOf(m, d, y) = u[1]
    BY <1>3 DEF TablePages
  <2>3. /\ <<x, s[2]>> \in VA /\ <<y, u[2]>> \in VA
        /\ PageLookup(m, c, <<x, s[2]>>) = m.mem[s[1]][s[2]]
        /\ PageLookup(m, d, <<y, u[2]>>) = m.mem[u[1]][u[2]]
    BY <1>3, <2>1, <2>2 DEF PageLookup, VA
  <2>4. c = d /\ <<x, s[2]>> = <<y, u[2]>>
    BY <1>3, <2>3, NoPteAssumption DEF SlotRefers, OnceIn
  <2> QED
    BY <1>3, <2>1, <2>2, <2>4
<1>5. <<t, i>> \in RefSlots(m, R, p)
  BY <1>2 DEF RefSlots, LiveSlots
<1>6. RefSlots(m, R, p) = {<<t, i>>}
  BY <1>4, <1>5
<1>7. m.ref[p] = Cardinality(RefSlots(m, R, p))
  BY <1>1, GoodParts
<1>8. \A s : Cardinality({s}) = 1
  BY FS_Singleton
<1> QED
  BY <1>6, <1>7, <1>8

MemoryInv == DirsSound /\ EnvMemory /\ KernelHalf /\ MappedOnce

\* The part of the directories in R that the calls of pmap.c never touch.
SameKernelHalf(m, n, R) == \A c \in R, i \in Idx \ UIdx : n.mem[c][i] = m.mem[c][i]

NoTables(m, d) == \A x \in UIdx : ~HasTable(m, d, x)

LEMMA SameSlots ==
  ASSUME envFree' = envFree, \A s \in Slot : DirOf(s)' = DirOf(s)
  PROVE  FreeEnvs' = FreeEnvs /\ Live' = Live /\ Dirs' = Dirs
<1>1. FreeEnvs' = FreeEnvs /\ Live' = Live
  BY DEF FreeEnvs, Live
<1> QED
  BY <1>1 DEF Dirs, Live

\* A step that keeps the environments and their directories.
LEMMA MemoryKept ==
  ASSUME MemoryInv, envFree' = envFree, \A s \in Slot : DirOf(s)' = DirOf(s),
         Good(k', Dirs, lost'), SameCounts(k, k', Dirs), SameKernelHalf(k, k', Dirs),
         NoTables(k', KernDir), OnceIn(k', Dirs)
  PROVE  MemoryInv'
<1>1. Live' = Live /\ Dirs' = Dirs /\ Live \subseteq Slot
  BY SameSlots DEF Live
<1>2. KernDir \in Dirs /\ \A s \in Live : DirOf(s) \in Dirs /\ DirOf(s)' = DirOf(s)
  BY <1>1 DEF Dirs
<1>3. DirsSound'
  BY <1>1, <1>2 DEF MemoryInv, DirsSound, SameCounts, NoTables
<1>4. KernelHalf'
  BY <1>1, <1>2 DEF MemoryInv, KernelHalf, SameKernelHalf
<1>5. EnvMemory' /\ MappedOnce'
  BY <1>1 DEF EnvMemory, MappedOnce, OnceIn
<1> QED
  BY <1>3, <1>4, <1>5 DEF MemoryInv

\* What an operation on the directory of a live environment may rely on.
LEMMA MemoryFacts ==
  ASSUME MemoryInv
  PROVE  /\ Good(k, Dirs, lost) /\ OnceIn(k, Dirs) /\ NoTables(k, KernDir)
         /\ KernDir \in Dirs
         /\ \A s \in Live : DirOf(s) \in Dirs /\ DirOf(s) # KernDir /\ k.ref[DirOf(s)] = 1
<1>1. KernDir \in Dirs /\ \A s \in Live : DirOf(s) \in Dirs
  BY DEF Dirs
<1> QED
  BY <1>1 DEF MemoryInv, EnvMemory, MappedOnce, OnceIn, NoTables, DirsSound

Stages == {"header", "region", "copy", "stack", "free"}

LEMMA InvParts ==
  EnvInv <=> /\ EnvType /\ SlotsSound /\ MemoryInv /\ LoadedSound
             /\ op \in Stages => cur \in Live
BY DEF EnvInv, MemoryInv, Stages

\* A step of env_create or env_free that keeps the environments.
LEMMA StageKept ==
  ASSUME EnvInv, UNCHANGED <<envs, envFree, curenv, cr3, cur, past>>, MemoryInv',
         segs' \in Seq(Segment), region' \in Seq(VA),
         op' \in {"region", "copy"} => segs' # <<>>,
         op' \in {"idle", "stack", "free"} => op \in {"idle", "stack", "free"},
         op' = "free" <=> op = "free", op' \in Stages => op \in Stages
  PROVE  EnvInv'
<1>1. Live' = Live /\ FreeEnvs' = FreeEnvs /\ \A s \in Slot : DirOf(s)' = DirOf(s)
  BY DEF Live, FreeEnvs, DirOf
<1>2. Live \subseteq Slot
  BY DEF Live
<1>3. EnvType' /\ SlotsSound'
  BY <1>1 DEF EnvInv, EnvType, SlotsSound
<1>4. LoadedSound'
  BY <1>1, <1>2 DEF EnvInv, LoadedSound
<1>5. op' \in Stages => cur' \in Live'
  BY <1>1, InvParts
<1> QED
  BY <1>3, <1>4, <1>5 DEF EnvInv, MemoryInv, Stages

\* A step that keeps memory too.
LEMMA SameMemory ==
  ASSUME MemoryInv, UNCHANGED <<k, envFree, lost>>, \A s \in Slot : DirOf(s)' = DirOf(s)
  PROVE  MemoryInv'
<1>1. SameCounts(k, k', Dirs) /\ SameKernelHalf(k, k', Dirs)
  BY DEF SameCounts, SameKernelHalf
<1> QED
  BY <1>1, MemoryFacts, MemoryKept

LEMMA SeqTail ==
  ASSUME NEW S, NEW q \in Seq(S), q # <<>>
  PROVE  Head(q) \in S /\ Tail(q) \in Seq(S)
OBVIOUS

----------------------------------------------------------------------------
(* env_create: loading.                                                    *)

LEMMA HeaderKeeps == EnvInv /\ Header => EnvInv'
<1> SUFFICES ASSUME EnvInv, Header PROVE EnvInv'
  OBVIOUS
<1>1. MemoryInv /\ segs \in Seq(Segment) /\ region \in Seq(VA)
  BY InvParts DEF EnvType
<1>2. MemoryInv'
  BY <1>1, SameMemory DEF Header, DirOf
<1>3. Head(segs) \in Segment
  BY <1>1, SeqTail DEF Header
<1>4. region' \in Seq(VA)
  BY <1>1, <1>3 DEF Header, Segment
<1> QED
  BY <1>1, <1>2, <1>4, StageKept DEF Header, Stages

LEMMA RegionDoneKeeps == EnvInv /\ RegionDone => EnvInv'
<1> SUFFICES ASSUME EnvInv, RegionDone PROVE EnvInv'
  OBVIOUS
<1>1. MemoryInv /\ segs \in Seq(Segment) /\ region \in Seq(VA)
  BY InvParts DEF EnvType
<1>2. MemoryInv'
  BY <1>1, SameMemory DEF RegionDone, DirOf
<1>3. op' \in {"region", "copy"} => segs' # <<>>
  BY DEF EnvInv, EnvType, RegionDone
<1> QED
  BY <1>1, <1>2, <1>3, StageKept DEF RegionDone, Stages

LEMMA StackKeeps == EnvInv /\ Stack => EnvInv'
<1> SUFFICES ASSUME EnvInv, Stack PROVE EnvInv'
  OBVIOUS
<1>1. EnvType /\ SlotsSound /\ MemoryInv /\ cur \in Live
  BY InvParts DEF Stack, Stages
<1>2. MemoryInv'
  BY <1>1, SameMemory DEF Stack, DirOf
<1>3. Live' = Live /\ FreeEnvs' = FreeEnvs
  BY DEF Stack, Live, FreeEnvs
<1>4. region' \in Seq(VA)
  BY EnvAssumption DEF Stack
<1>5. EnvType'
  BY <1>1, <1>4 DEF EnvType, Stack
<1>6. SlotsSound'
  BY <1>1, <1>3 DEF SlotsSound, Stack, IdOf
<1>7. LoadedSound'
  BY DEF LoadedSound, Stack
<1> QED
  BY <1>1, <1>2, <1>3, <1>5, <1>6, <1>7, InvParts DEF Stack, EnvInv, MemoryInv

\* What memcpy leaves in the pages W of a segment.
Copied(m, W) == [m EXCEPT !.mem = [p \in Page |-> IF p \in W THEN Data ELSE m.mem[p]]]

LEMMA GoodCopied ==
  ASSUME NEW m, NEW R, NEW held, Good(m, R, held), NEW W \in SUBSET MappedPages(m, R)
  PROVE  /\ Good(Copied(m, W), R, held)
         /\ SameDirs(m, Copied(m, W), R) /\ SameLookup(m, Copied(m, W), R)
         /\ SameCounts(m, Copied(m, W), R)
<1> DEFINE content == [p \in Page |-> IF p \in W THEN Data ELSE m.mem[p]]
           n == Copied(m, W)
<1>1. m \in Memory
  BY GoodParts
<1>2. content \in [Page -> PageContent]
  BY <1>1, MemoryParts, EnvAssumption
<1>3. n \in Memory /\ n.free = m.free /\ n.ref = m.ref /\ n.mem = content
  BY <1>1, <1>2 DEF Memory, Copied
<1>4. \A t \in Page \ W : n.mem[t] = m.mem[t]
  BY <1>3
<1>5. W \in SUBSET (held \cup MappedPages(m, R))
  OBVIOUS
<1> HIDE DEF content, n
<1>6. /\ Good(n, R, held)
      /\ \A t \in R \cup TablePages(m, R) : n.mem[t] = m.mem[t]
      /\ TablePages(n, R) = TablePages(m, R)
  BY <1>3, <1>4, <1>5, GoodWrites
<1>7. SameLookup(m, n, R)
  BY <1>6, SameTables
<1> QED
  BY <1>3, <1>6, <1>7 DEF n, SameDirs, SameCounts

\* The pages that a segment is copied to are mapped, so they are no tables.
LEMMA CopyMemory ==
  ASSUME MemoryInv, cur \in Live, NEW pages \in Seq(VA),
         \A i \in DOMAIN pages : PageLookup(k, DirOf(cur), pages[i]) # NoPte,
         NEW W, W = {PageLookup(k, DirOf(cur), pages[i]).pg : i \in DOMAIN pages},
         k' = Copied(k, W), UNCHANGED <<envs, envFree, lost>>
  PROVE  MemoryInv'
<1> DEFINE d == DirOf(cur)
<1>1. Good(k, Dirs, lost) /\ d \in Dirs /\ KernDir \in Dirs
  BY MemoryFacts
<1>2. \A i \in DOMAIN pages : pages[i] \in VA
  OBVIOUS
<1>3. W \in SUBSET MappedPages(k, Dirs)
  <2>1. ASSUME NEW i \in DOMAIN pages PROVE PageLookup(k, d, pages[i]).pg \in MappedPages(k, Dirs)
    BY <1>1, <1>2, MappedChar
  <2> QED
    BY <2>1
<1> HIDE DEF d
<1>4. /\ Good(k', Dirs, lost) /\ SameDirs(k, k', Dirs)
      /\ SameLookup(k, k', Dirs) /\ SameCounts(k, k', Dirs)
  BY <1>1, <1>3, GoodCopied
<1>5. OnceIn(k', Dirs)
  BY <1>4, MemoryFacts, OnceSame
<1>6. NoTables(k', KernDir) /\ SameKernelHalf(k, k', Dirs)
  BY <1>1, <1>4, MemoryFacts DEF NoTables, HasTable, SameKernelHalf, SameDirs
<1> QED
  BY <1>4, <1>5, <1>6, MemoryKept DEF DirOf

LEMMA CopyKeeps == EnvInv /\ Copy => EnvInv'
<1> SUFFICES ASSUME EnvInv, Copy PROVE EnvInv'
  OBVIOUS
<1> DEFINE pages == Head(segs).pages
           VAs == {pages[i] : i \in DOMAIN pages}
           W == {PageLookup(k, DirOf(cur), pages[i]).pg : i \in DOMAIN pages}
<1>1. MemoryInv /\ segs \in Seq(Segment) /\ segs # <<>> /\ region \in Seq(VA) /\ cur \in Live
  BY InvParts DEF EnvType, Copy, Stages
<1>2. pages \in Seq(VA) /\ Tail(segs) \in Seq(Segment)
  <2>1. Head(segs) \in Segment /\ Tail(segs) \in Seq(Segment)
    BY <1>1, SeqTail
  <2> QED
    BY <2>1 DEF Segment
<1>3. CASE \E i \in DOMAIN pages : PageLookup(k, DirOf(cur), pages[i]) = NoPte
  <2>1. UNCHANGED <<k, segs>> /\ op' = "panic_fault"
    BY <1>3 DEF Copy
  <2>2. MemoryInv'
    BY <1>1, <2>1, SameMemory DEF Copy, DirOf
  <2> QED
    BY <1>1, <2>1, <2>2, StageKept DEF Copy, Stages
<1>4. CASE \A i \in DOMAIN pages : PageLookup(k, DirOf(cur), pages[i]) # NoPte
  <2>1. /\ k' = [k EXCEPT !.mem = [p \in Page |->
                   IF p \in {PageLookup(k, DirOf(cur), va).pg : va \in VAs}
                   THEN Data ELSE k.mem[p]]]
        /\ segs' = Tail(segs) /\ op' = "header"
    BY <1>4 DEF Copy
  <2>2. {PageLookup(k, DirOf(cur), va).pg : va \in VAs} = W
    OBVIOUS
  <2>3. k' = Copied(k, W)
    BY <2>1, <2>2 DEF Copied
  <2>4. UNCHANGED <<envs, envFree, lost>>
    BY DEF Copy
  <2>5. MemoryInv'
    <3> HIDE DEF pages, VAs
    <3> QED
      BY <1>1, <1>2, <1>4, <2>3, <2>4, CopyMemory
  <2> QED
    BY <1>1, <1>2, <2>1, <2>5, StageKept DEF Copy, Stages
<1> QED
  BY <1>3, <1>4

\* The memory that an iteration of region_alloc leaves.
RegionAlloc(m, d, va) == PageInsert(PageAlloc(m, FALSE), d, Allocated(m), va, UserWrite)

LEMMA GoodFresh ==
  ASSUME NEW m, NEW R, NEW held, Good(m, R, held), ~OutOfMemory(m), OnceIn(m, R),
         NEW zero \in BOOLEAN
  PROVE  LET a == PageAlloc(m, zero)
             p == Allocated(m)
         IN  /\ Good(a, R, held \cup {p}) /\ OnceIn(a, R) /\ SameLookup(m, a, R)
             /\ SameDirs(m, a, R) /\ SameCounts(m, a, R)
             /\ p \in Page \ held /\ p \notin R /\ p \notin MappedPages(a, R) /\ a.ref[p] = 0
<1> DEFINE a == PageAlloc(m, zero)
           p == Allocated(m)
<1>1. /\ Good(a, R, held \cup {p}) /\ p \in Page \ held
      /\ TablePages(a, R) = TablePages(m, R)
      /\ \A t \in Page \ {p} : a.mem[t] = m.mem[t]
      /\ p \notin R \cup TablePages(m, R)
  BY GoodAlloc
<1>2. SameLookup(m, a, R)
  BY LookupAlloc
<1>3. OnceIn(a, R)
  BY <1>2, OnceSame
<1>4. R \in SUBSET Page /\ m \in Memory
  BY GoodParts
<1>5. a.ref = m.ref
  BY <1>4, AllocFields
<1> HIDE DEF a, p
<1>6. SameDirs(m, a, R) /\ SameCounts(m, a, R)
  BY <1>1, <1>4, <1>5 DEF SameDirs, SameCounts
<1>7. a.ref[p] = 0
  BY <1>1, HeldRole
<1>8. p \notin MappedPages(a, R)
  BY <1>1, <1>7, MappedPagesRole
<1> QED
  BY <1>1, <1>2, <1>3, <1>6, <1>7, <1>8 DEF a, p

\* The directories in R other than d keep their entries.
OtherDirs(m, n, R, d) == \A c \in R \ {d}, i \in Idx : n.mem[c][i] = m.mem[c][i]

LEMMA GoodRegion ==
  ASSUME NEW m, NEW R, NEW held, Good(m, R, held), ~OutOfMemory(m), OnceIn(m, R),
         NEW d \in R, NEW va \in VA
  PROVE  /\ WalkFails(PageAlloc(m, FALSE), d, va[1])
              => Good(RegionAlloc(m, d, va), R, held \cup {Allocated(m)})
         /\ ~WalkFails(PageAlloc(m, FALSE), d, va[1]) => Good(RegionAlloc(m, d, va), R, held)
         /\ OnceIn(RegionAlloc(m, d, va), R) /\ SameCounts(m, RegionAlloc(m, d, va), R)
         /\ SameKernelHalf(m, RegionAlloc(m, d, va), R)
         /\ OtherDirs(m, RegionAlloc(m, d, va), R, d)
<1> DEFINE a == PageAlloc(m, FALSE)
           p == Allocated(m)
           w == Walk(a, d, va[1])
           n == RegionAlloc(m, d, va)
<1>1. /\ Good(a, R, held \cup {p}) /\ OnceIn(a, R) /\ SameLookup(m, a, R)
      /\ SameDirs(m, a, R) /\ SameCounts(m, a, R)
      /\ p \in Page \ held /\ p \notin R /\ p \notin MappedPages(a, R) /\ a.ref[p] = 0
  BY GoodFresh
<1>2. va[1] \in UIdx
  BY DEF VA
<1> HIDE DEF a, p, w
<1>3. CASE WalkFails(a, d, va[1])
  <2>1. n = a
    BY <1>3 DEF n, RegionAlloc, PageInsert, a, p
  <2> HIDE DEF n
  <2>2. SameKernelHalf(m, n, R) /\ OtherDirs(m, n, R, d)
    BY <1>1, <2>1 DEF SameKernelHalf, SameDirs, OtherDirs
  <2> QED
    BY <1>1, <1>3, <2>1, <2>2 DEF n, a, p
<1>4. CASE ~WalkFails(a, d, va[1])
  <2>1. n = PageInsert(a, d, p, va, UserWrite)
    BY DEF n, RegionAlloc, a, p
  <2> HIDE DEF n
  <2>2. p \in held \cup {p} \cup MappedPages(a, R) /\ a.ref[p] < RefMax /\ UserWrite \in Perm
    BY <1>1, RefMaxAssumption, EnvAssumption
  <2>3. /\ Good(PageInsert(a, d, p, va, UserWrite), R, (held \cup {p}) \ {p})
        /\ LookupChanged(a, PageInsert(a, d, p, va, UserWrite), R, d, va,
                         [pg |-> p, perm |-> UserWrite])
        /\ SameDirs(Walk(a, d, va[1]), PageInsert(a, d, p, va, UserWrite), R)
    BY <1>1, <1>4, <2>2, GoodInsert
  <2>4. SameCounts(a, PageInsert(a, d, p, va, UserWrite), R)
    BY <1>1, <1>4, <2>2, CountsInsert
  <2>5. (held \cup {p}) \ {p} = held
    BY <1>1
  <2>6. \A c \in R, y \in Idx : ~(c = d /\ y = va[1]) => w.mem[c][y] = a.mem[c][y]
    BY <1>1, <1>2, <1>4, WalkDirs DEF w
  <2>7. Good(n, R, held) /\ SameDirs(w, n, R) /\ SameCounts(m, n, R)
    BY <1>1, <2>1, <2>3, <2>4, <2>5 DEF w, SameCounts
  <2>8. OnceIn(n, R)
    <3>1. LookupChanged(a, n, R, d, va, [pg |-> p, perm |-> UserWrite])
      BY <2>1, <2>3
    <3>2. [pg |-> p, perm |-> UserWrite].pg \notin MappedPages(a, R)
      BY <1>1
    <3> QED
      BY <1>1, <3>1, <3>2, OnceChanged
  <2>9. \A c \in R, i \in Idx : ~(c = d /\ i = va[1]) => n.mem[c][i] = m.mem[c][i]
    BY <1>1, <2>6, <2>7 DEF SameDirs
  <2>10. SameKernelHalf(m, n, R) /\ OtherDirs(m, n, R, d)
    BY <1>2, <2>9 DEF SameKernelHalf, OtherDirs
  <2> QED
    BY <1>4, <2>7, <2>8, <2>10 DEF n, a, p
<1> QED
  BY <1>3, <1>4

LEMMA RegionPageKeeps == EnvInv /\ RegionPage => EnvInv'
<1> SUFFICES ASSUME EnvInv, RegionPage PROVE EnvInv'
  OBVIOUS
<1>1. /\ EnvType /\ MemoryInv /\ segs \in Seq(Segment) /\ region \in Seq(VA) /\ region # <<>>
      /\ cur \in Live /\ Live \subseteq Slot
  BY InvParts DEF EnvType, RegionPage, Stages, Live
<1>2. op' \in {"region", "copy"} => segs' # <<>>
  BY <1>1 DEF RegionPage, EnvType
<1>3. CASE OutOfMemory(k)
  <2>1. MemoryInv'
    BY <1>1, <1>3, SameMemory DEF RegionPage, DirOf
  <2> QED
    BY <1>1, <1>2, <1>3, <2>1, StageKept DEF RegionPage, Stages
<1>4. CASE ~OutOfMemory(k)
  <2> DEFINE va == Head(region)
             d == DirOf(cur)
             fails == WalkFails(PageAlloc(k, FALSE), d, va[1])
  <2>1. va \in VA /\ Tail(region) \in Seq(VA)
    BY <1>1, SeqTail
  <2>2. /\ k' = RegionAlloc(k, d, va)
        /\ lost' = IF fails THEN lost \cup {Allocated(k)} ELSE lost
        /\ region' = Tail(region) /\ UNCHANGED <<envs, envFree, curenv, cr3, op, cur, segs, past>>
    BY <1>4 DEF RegionPage, RegionAlloc
  <2>3. Good(k, Dirs, lost) /\ OnceIn(k, Dirs) /\ d \in Dirs /\ d # KernDir /\ KernDir \in Dirs
    BY <1>1, MemoryFacts
  <2> HIDE DEF va, d
  <2>4. /\ WalkFails(PageAlloc(k, FALSE), d, va[1])
           => Good(RegionAlloc(k, d, va), Dirs, lost \cup {Allocated(k)})
        /\ ~WalkFails(PageAlloc(k, FALSE), d, va[1]) => Good(RegionAlloc(k, d, va), Dirs, lost)
        /\ OnceIn(RegionAlloc(k, d, va), Dirs) /\ SameCounts(k, RegionAlloc(k, d, va), Dirs)
        /\ SameKernelHalf(k, RegionAlloc(k, d, va), Dirs)
        /\ OtherDirs(k, RegionAlloc(k, d, va), Dirs, d)
    <3> HIDE DEF fails
    <3> QED
      BY <1>4, <2>1, <2>3, GoodRegion
  <2>5. Good(k', Dirs, lost')
    BY <2>2, <2>4
  <2>6. OnceIn(k', Dirs) /\ SameCounts(k, k', Dirs) /\ SameKernelHalf(k, k', Dirs)
    BY <2>2, <2>4
  <2>7. NoTables(k', KernDir)
    BY <1>1, <2>2, <2>3, <2>4, MemoryFacts DEF NoTables, HasTable, OtherDirs
  <2>8. MemoryInv'
    BY <1>1, <2>2, <2>5, <2>6, <2>7, MemoryKept DEF DirOf
  <2> QED
    BY <1>1, <1>2, <2>1, <2>2, <2>8, StageKept DEF RegionPage, Stages
<1> QED
  BY <1>3, <1>4

----------------------------------------------------------------------------
(* env_free.                                                               *)

LEMMA GoodRemoved ==
  ASSUME NEW m, NEW R, NEW held, Good(m, R, held), OnceIn(m, R),
         NEW d \in R, NEW va \in VA, PageLookup(m, d, va) # NoPte
  PROVE  /\ Good(PageRemove(m, d, va), R, held) /\ OnceIn(PageRemove(m, d, va), R)
         /\ SameDirs(m, PageRemove(m, d, va), R) /\ SameCounts(m, PageRemove(m, d, va), R)
<1>1. Good(PageRemove(m, d, va), R, held)
  BY GoodRemove
<1>2. OnceIn(PageRemove(m, d, va), R)
  BY LookupRemove, OnceChanged
<1>3. SameDirs(m, PageRemove(m, d, va), R)
  BY DirsRemove
<1>4. SameCounts(m, PageRemove(m, d, va), R)
  BY CountsRemove
<1> QED
  BY <1>1, <1>2, <1>3, <1>4

\* The memory after env_free has given back the page table of d at x.
TableFreed(m, d, x) == PageDecref(SetEntry(m, d, x, NoPte), TableOf(m, d, x))

LEMMA GoodDropped ==
  ASSUME NEW m, NEW R, NEW held, Good(m, R, held), OnceIn(m, R),
         NEW d \in R, NEW x \in UIdx, HasTable(m, d, x),
         \A j \in Idx : m.mem[TableOf(m, d, x)][j] = NoPte
  PROVE  /\ Good(TableFreed(m, d, x), R, held) /\ OnceIn(TableFreed(m, d, x), R)
         /\ SameCounts(m, TableFreed(m, d, x), R) /\ SameKernelHalf(m, TableFreed(m, d, x), R)
         /\ OtherDirs(m, TableFreed(m, d, x), R, d)
<1> DEFINE h == TableOf(m, d, x)
           n == TableFreed(m, d, x)
<1>1. m \in Memory /\ R \in SUBSET Page
  BY GoodParts
<1>2. \A j \in Idx : m.mem[h][j] = NoPte
  OBVIOUS
<1>3. n = PageDecref(SetEntry(m, d, x, NoPte), h)
  BY DEF TableFreed
<1>4. SameCounts(m, n, R)
  BY <1>3, CountsDrop
<1> HIDE DEF n, h
<1>5. /\ Good(n, R, held)
      /\ n.mem = [m.mem EXCEPT ![d][x] = NoPte]
  BY <1>2, <1>3, GoodDrop DEF h
<1>6. SameLookup(m, n, R)
  BY <1>2, <1>5, LookupDrop DEF h
<1>7. OnceIn(n, R)
  BY <1>6, OnceSame
<1>8. SameKernelHalf(m, n, R) /\ OtherDirs(m, n, R, d)
  BY <1>1, <1>5, MemoryParts DEF SameKernelHalf, OtherDirs, PageContent
<1> QED
  BY <1>4, <1>5, <1>7, <1>8 DEF n

LEMMA FreeMappingKeeps ==
  ASSUME EnvInv, NEW va \in VA, FreeMapping(va)
  PROVE  EnvInv'
<1> DEFINE d == DirOf(cur)
<1>1. /\ EnvType /\ MemoryInv /\ segs \in Seq(Segment) /\ region \in Seq(VA) /\ cur \in Live
  BY InvParts DEF EnvType, FreeMapping, Stages
<1>2. k' = PageRemove(k, d, va) /\ PageLookup(k, d, va) # NoPte
  BY DEF FreeMapping
<1>3. Good(k, Dirs, lost) /\ OnceIn(k, Dirs) /\ d \in Dirs /\ KernDir \in Dirs
  BY <1>1, MemoryFacts
<1> HIDE DEF d
<1>4. Good(k', Dirs, lost) /\ OnceIn(k', Dirs) /\ SameDirs(k, k', Dirs) /\ SameCounts(k, k', Dirs)
  BY <1>2, <1>3, GoodRemoved
<1>5. NoTables(k', KernDir) /\ SameKernelHalf(k, k', Dirs)
  BY <1>1, <1>3, <1>4, MemoryFacts DEF NoTables, HasTable, SameKernelHalf, SameDirs
<1>6. MemoryInv'
  BY <1>1, <1>4, <1>5, MemoryKept DEF DirOf, FreeMapping
<1> QED
  BY <1>1, <1>6, StageKept DEF FreeMapping, Stages

LEMMA FreeTableKeeps ==
  ASSUME EnvInv, NEW x \in UIdx, FreeTable(x)
  PROVE  EnvInv'
<1> DEFINE d == DirOf(cur)
<1>1. /\ EnvType /\ MemoryInv /\ segs \in Seq(Segment) /\ region \in Seq(VA) /\ cur \in Live
  BY InvParts DEF EnvType, FreeTable, Stages
<1>2. /\ k' = TableFreed(k, d, x) /\ HasTable(k, d, x)
      /\ \A j \in Idx : k.mem[TableOf(k, d, x)][j] = NoPte
  BY DEF FreeTable, TableFreed, Emptied
<1>3. Good(k, Dirs, lost) /\ OnceIn(k, Dirs) /\ d \in Dirs /\ d # KernDir /\ KernDir \in Dirs
  BY <1>1, MemoryFacts
<1> HIDE DEF d
<1>4. /\ Good(k', Dirs, lost) /\ OnceIn(k', Dirs) /\ SameCounts(k, k', Dirs)
      /\ SameKernelHalf(k, k', Dirs) /\ OtherDirs(k, k', Dirs, d)
  BY <1>2, <1>3, GoodDropped
<1>5. NoTables(k', KernDir)
  BY <1>1, <1>3, <1>4, MemoryFacts DEF NoTables, HasTable, OtherDirs
<1>6. MemoryInv'
  BY <1>1, <1>4, <1>5, MemoryKept DEF DirOf, FreeTable
<1> QED
  BY <1>1, <1>6, StageKept DEF FreeTable, Stages

LEMMA EnvFreeKeeps ==
  ASSUME EnvInv, NEW e \in Slot, EnvFree(e)
  PROVE  EnvInv'
<1>1. EnvType /\ SlotsSound /\ MemoryInv
  BY InvParts
<1>2. MemoryInv'
  BY <1>1, SameMemory DEF EnvFree, DirOf
<1>3. Live' = Live /\ FreeEnvs' = FreeEnvs
  BY DEF EnvFree, Live, FreeEnvs
<1>4. EnvType'
  BY <1>1 DEF EnvType, EnvFree
<1>5. SlotsSound'
  <2>1. Cardinality(past) \in Nat /\ Cardinality(past) < MaxPast /\ MaxPast \in Nat
    BY <1>1, FS_CardinalityType, PastAssumption DEF SlotsSound, EnvFree
  <2> QED
    BY <1>1, <1>3, <2>1 DEF SlotsSound, EnvFree
<1>6. LoadedSound'
  BY <1>3 DEF EnvInv, LoadedSound, EnvFree, DirOf
<1>7. cur' \in Live'
  BY <1>3 DEF EnvFree
<1> QED
  BY <1>2, <1>4, <1>5, <1>6, <1>7 DEF EnvInv, MemoryInv

LEMMA RunKeeps ==
  ASSUME EnvInv, op = "idle", NEW e \in Live, Run(e)
  PROVE  EnvInv'
<1>1. EnvType /\ SlotsSound /\ MemoryInv /\ e \in Slot
  BY InvParts DEF Live
<1>2. \A s \in Slot : /\ DirOf(s)' = DirOf(s)
                      /\ envs'[s].gen = envs[s].gen
                      /\ envs'[s].status = IF s = e THEN "running" ELSE envs[s].status
  BY <1>1 DEF Run, EnvType, DirOf
<1>3. MemoryInv'
  BY <1>1, <1>2, SameMemory DEF Run
<1>4. Live' = Live /\ FreeEnvs' = FreeEnvs /\ Live \subseteq Slot /\ FreeEnvs \subseteq Slot
  BY <1>1, FreeList DEF Run, Live, FreeEnvs
<1>5. EnvType'
  BY <1>1 DEF EnvType, Run
<1>6. SlotsSound'
  <2>1. past' = {id \in (1..GenMax) \X Slot :
                   IF id[2] \in Live' THEN id[1] < envs'[id[2]].gen ELSE id[1] <= envs'[id[2]].gen}
    BY <1>1, <1>2, <1>4 DEF SlotsSound, Run
  <2>2. e \notin FreeEnvs
    BY DEF Live
  <2> QED
    BY <1>1, <1>2, <1>4, <2>1, <2>2 DEF SlotsSound, Run
<1>7. LoadedSound'
  BY <1>1, <1>2, <1>4 DEF LoadedSound, Run
<1> QED
  BY <1>3, <1>5, <1>6, <1>7 DEF EnvInv, MemoryInv, Run

LEMMA DirNotHeld ==
  ASSUME NEW m, NEW R, NEW held, Good(m, R, held)
  PROVE  \A d \in R : d \notin held
BY DEF Good, HeldSound

\* The directory of cur is a page among others again.
LEMMA FreeDirMemory ==
  ASSUME EnvInv, FreeDir, FreeEnvs' = FreeEnvs \cup {cur}, Live' = Live \ {cur},
         \A s \in Slot \ {cur} : DirOf(s)' = DirOf(s)
  PROVE  MemoryInv'
<1> DEFINE d == DirOf(cur)
<1>1. MemoryInv /\ cur \in Live
  BY InvParts DEF FreeDir, Stages
<1>2. /\ Good(k, Dirs, lost) /\ OnceIn(k, Dirs) /\ NoTables(k, KernDir)
      /\ d \in Dirs /\ d # KernDir /\ k.ref[d] = 1 /\ KernDir \in Dirs
  BY <1>1, MemoryFacts
<1>3. /\ DirsSound /\ KernelHalf /\ Live \subseteq Slot
      /\ d \in Page \ {KernDir, KernTable}
  BY <1>1 DEF MemoryInv, DirsSound, Live
<1>4. Dirs' = Dirs \ {d}
  BY <1>1, <1>3 DEF Dirs, DirsSound
<1>5. k' = PageDecref(k, d) /\ (\A x \in UIdx : ~HasTable(k, d, x)) /\ lost' = lost
  BY DEF FreeDir
<1> HIDE DEF d
<1>6. /\ Good(k', Dirs \ {d}, lost) /\ k'.mem = k.mem
      /\ \A c \in Dirs \ {d} : k'.ref[c] = k.ref[c]
  BY <1>2, <1>5, DirNotHeld, GoodOldDir
<1>7. \A s \in Live' : s \in Live /\ s \in Slot /\ DirOf(s)' = DirOf(s) /\ DirOf(s) \in Dirs
  BY <1>3, InvParts DEF Dirs
<1>8. \A s \in Live' : DirOf(s) # d
  BY <1>1, <1>3, <1>7 DEF DirsSound, d
<1>9. DirsSound'
  BY <1>3, <1>6, <1>7, <1>8 DEF DirsSound, HasTable
<1>10. KernelHalf'
  BY <1>3, <1>6, <1>7 DEF KernelHalf
<1>11. OnceIn(k', Dirs \ {d})
  <2>1. SameLookup(k, k', Dirs)
    BY <1>6 DEF SameLookup, PageLookup, HasTable, TableOf
  <2>2. OnceIn(k', Dirs)
    BY <1>2, <2>1, OnceSame
  <2> QED
    BY <2>2 DEF OnceIn
<1>12. EnvMemory' /\ MappedOnce'
  BY <1>4, <1>5, <1>6, <1>11 DEF EnvMemory, MappedOnce, OnceIn
<1> QED
  BY <1>9, <1>10, <1>12 DEF MemoryInv

\* The ids of cur are those of freed environments up to the one it had.
LEMMA FreeDirIds ==
  ASSUME EnvInv, FreeDir, FreeEnvs' = FreeEnvs \cup {cur}, Live' = Live \ {cur},
         Distinct(envFree'),
         \A s \in Slot : envs'[s].gen = envs[s].gen,
         \A s \in Slot : envs'[s].status = IF s = cur THEN "free" ELSE envs[s].status
  PROVE  SlotsSound'
<1> DEFINE n == envs[cur].gen
<1>1. EnvType /\ SlotsSound /\ cur \in Live /\ cur \in Slot /\ FreeEnvs \subseteq Slot
  BY InvParts, FreeList DEF FreeDir, Stages, Live
<1>2. n \in 1..GenMax /\ GenMax \in Nat /\ MaxPast \in Nat
  BY <1>1, EnvAssumption, PastAssumption DEF EnvType, SlotsSound
<1>3. past' = past \cup {<<n, cur>>}
  BY DEF FreeDir, IdOf
<1>4. /\ past = {id \in (1..GenMax) \X Slot :
                   IF id[2] \in Live THEN id[1] < envs[id[2]].gen ELSE id[1] <= envs[id[2]].gen}
      /\ IsFiniteSet(past) /\ Cardinality(past) <= MaxPast - 1
  BY <1>1 DEF SlotsSound, FreeDir
<1> HIDE DEF n
<1>5. \A id \in (1..GenMax) \X Slot :
        id \in past' <=>
          IF id[2] \in Live' THEN id[1] < envs'[id[2]].gen ELSE id[1] <= envs'[id[2]].gen
  <2> SUFFICES ASSUME NEW g \in 1..GenMax, NEW s \in Slot
               PROVE  <<g, s>> \in past' <=>
                        IF s \in Live' THEN g < envs'[s].gen ELSE g <= envs'[s].gen
    OBVIOUS
  <2>1. <<g, s>> \in past <=> IF s \in Live THEN g < envs[s].gen ELSE g <= envs[s].gen
    BY <1>4
  <2>2. CASE s = cur
    <3>1. <<g, s>> \in past' <=> g < n \/ g = n
      BY <1>1, <1>3, <2>1, <2>2 DEF n
    <3>2. s \notin Live' /\ envs'[s].gen = n
      BY <2>2 DEF n
    <3> QED
      BY <1>2, <3>1, <3>2
  <2>3. CASE s # cur
    BY <1>3, <2>1, <2>3
  <2> QED
    BY <2>2, <2>3
<1>6. past' \subseteq (1..GenMax) \X Slot
  BY <1>1, <1>2, <1>3, <1>4
<1>7. past' = {id \in (1..GenMax) \X Slot :
                 IF id[2] \in Live' THEN id[1] < envs'[id[2]].gen ELSE id[1] <= envs'[id[2]].gen}
  BY <1>5, <1>6
<1>8. IsFiniteSet(past') /\ Cardinality(past') <= MaxPast
  <2>1. /\ IsFiniteSet(past \cup {<<n, cur>>})
        /\ Cardinality(past \cup {<<n, cur>>}) =
             IF <<n, cur>> \in past THEN Cardinality(past) ELSE Cardinality(past) + 1
    BY <1>4, FS_AddElement
  <2>2. Cardinality(past) \in Nat
    BY <1>4, FS_CardinalityType
  <2> QED
    BY <1>2, <1>3, <1>4, <2>1, <2>2
<1>9. op' # "free"
  BY DEF FreeDir
<1>10. \A s \in Live' : envs'[s].status # "free" /\ envs'[s].gen # 0
  BY <1>1 DEF SlotsSound, Live
<1>11. \A s \in FreeEnvs' : envs'[s].status = "free" \/ envs'[s].gen = 0
  BY <1>1 DEF SlotsSound
<1> QED
  BY <1>7, <1>8, <1>9, <1>10, <1>11 DEF SlotsSound, Distinct

LEMMA FreeDirKeeps == EnvInv /\ FreeDir => EnvInv'
<1> SUFFICES ASSUME EnvInv, FreeDir PROVE EnvInv'
  OBVIOUS
<1>1. EnvType /\ SlotsSound /\ cur \in Live /\ cur \in Slot
  BY InvParts DEF FreeDir, Stages, Live
<1>2. /\ envFree' \in Seq(Slot) /\ Distinct(envFree')
      /\ FreeEnvs' = FreeEnvs \cup {cur} /\ Live' = Live \ {cur}
  BY <1>1, GiveSlot DEF FreeDir
<1>3. /\ \A s \in Slot : envs'[s].gen = envs[s].gen
      /\ \A s \in Slot : envs'[s].status = IF s = cur THEN "free" ELSE envs[s].status
      /\ \A s \in Slot \ {cur} : DirOf(s)' = DirOf(s)
  BY <1>1 DEF FreeDir, EnvType, DirOf
<1>4. EnvType'
  BY <1>1, <1>2 DEF EnvType, FreeDir
<1>5. SlotsSound'
  BY <1>2, <1>3, FreeDirIds
<1>6. MemoryInv'
  BY <1>2, <1>3, FreeDirMemory
<1>7. LoadedSound'
  <2>1. cr3 = KernDir \/ (curenv \in Live /\ cr3 = DirOf(curenv) /\ curenv # cur)
    BY DEF EnvInv, LoadedSound, FreeDir
  <2>2. curenv \in Live /\ curenv # cur
        => curenv \in Live' /\ envs'[curenv].pgdir = envs[curenv].pgdir
    BY <1>2, <1>3 DEF Live, DirOf
  <2>3. cr3' = cr3 /\ curenv' = curenv /\ op' = "idle"
    BY DEF FreeDir
  <2> QED
    BY <2>1, <2>2, <2>3 DEF LoadedSound, DirOf
<1> QED
  BY <1>4, <1>5, <1>6, <1>7 DEF EnvInv, MemoryInv, FreeDir

----------------------------------------------------------------------------
(* env_alloc.                                                              *)

\* The directory that env_setup_vm makes in the page p.
NewDir(m, p) == [m.mem[KernDir] EXCEPT ![UVX] = [pg |-> p, perm |-> UserRead]]

Setup(m) ==
  [Incref(PageAlloc(m, TRUE), Allocated(m)) EXCEPT !.mem[Allocated(m)] = NewDir(m, Allocated(m))]

LEMMA GoodSetup ==
  ASSUME NEW m, NEW R, NEW held, Good(m, R, held), OnceIn(m, R), ~OutOfMemory(m),
         KernDir \in R, NoTables(m, KernDir)
  PROVE  /\ Good(Setup(m), R \cup {Allocated(m)}, held) /\ OnceIn(Setup(m), R \cup {Allocated(m)})
         /\ SameDirs(m, Setup(m), R) /\ SameCounts(m, Setup(m), R)
         /\ Allocated(m) \in Page \ R
         /\ Setup(m).mem[Allocated(m)] = NewDir(m, Allocated(m)) /\ Setup(m).ref[Allocated(m)] = 1
<1> DEFINE a == PageAlloc(m, TRUE)
           p == Allocated(m)
           c == NewDir(m, p)
           n == Setup(m)
<1>1. /\ Good(a, R, held \cup {p}) /\ OnceIn(a, R) /\ SameLookup(m, a, R)
      /\ SameDirs(m, a, R) /\ SameCounts(m, a, R)
      /\ p \in Page \ held /\ p \notin R /\ p \notin MappedPages(a, R) /\ a.ref[p] = 0
  BY GoodFresh
<1>2. m \in Memory
  BY GoodParts
<1>3. c \in PageContent /\ EmptyHalf(c)
  <2>1. m.mem[KernDir] \in PageContent /\ UVX \in Idx \ UIdx
    BY <1>2, MemoryParts, EnvAssumption
  <2>2. [pg |-> p, perm |-> UserRead] \in Pte
    BY <1>1, EnvAssumption DEF Pte, Mapping
  <2> HIDE DEF p
  <2>3. c \in PageContent
    BY <2>1, <2>2 DEF NewDir, PageContent
  <2>4. ASSUME NEW x \in UIdx PROVE c[x] = NoPte
    <3>1. m.mem[KernDir][x] = NoPte
      BY DEF NoTables, HasTable
    <3> QED
      BY <2>1, <3>1 DEF NewDir, PageContent
  <2> QED
    BY <2>3, <2>4 DEF EmptyHalf
<1>4. n = DirMade(a, p, c)
  BY DEF Setup, DirMade
<1> HIDE DEF a, p, c, n
<1>5. /\ Good(n, R \cup {p}, (held \cup {p}) \ {p})
      /\ SameLookup(a, n, R)
      /\ NothingMapped(n, p)
      /\ SameDirs(a, n, R) /\ SameCounts(a, n, R)
      /\ n.mem[p] = c /\ n.ref[p] = 1
  <2> DEFINE H == held \cup {p}
  <2>1. p \in H /\ Good(a, R, H)
    BY <1>1
  <2> HIDE DEF H
  <2>2. /\ Good(DirMade(a, p, c), R \cup {p}, H \ {p})
        /\ SameLookup(a, DirMade(a, p, c), R)
        /\ NothingMapped(DirMade(a, p, c), p)
        /\ SameDirs(a, DirMade(a, p, c), R) /\ SameCounts(a, DirMade(a, p, c), R)
        /\ DirAt(DirMade(a, p, c), p, c)
    BY <1>3, <2>1, GoodNewDir
  <2> QED
    BY <1>4, <2>2 DEF H, DirAt
<1>6. (held \cup {p}) \ {p} = held
  BY <1>1
<1>7. OnceIn(n, R)
  BY <1>1, <1>5, OnceSame
<1>8. OnceIn(n, R \cup {p})
  BY <1>5, <1>7 DEF OnceIn, NothingMapped
<1>9. SameDirs(m, n, R) /\ SameCounts(m, n, R)
  BY <1>1, <1>5 DEF SameDirs, SameCounts
<1> QED
  BY <1>1, <1>5, <1>6, <1>8, <1>9 DEF p, c, n

LEMMA AllocMemory ==
  ASSUME MemoryInv, ~OutOfMemory(k), k' = Setup(k), lost' = lost,
         NEW e \in Slot \ Live, Live' = Live \cup {e},
         \A s \in Slot : DirOf(s)' = IF s = e THEN Allocated(k) ELSE DirOf(s)
  PROVE  MemoryInv'
<1> DEFINE p == Allocated(k)
<1>1. /\ Good(k, Dirs, lost) /\ OnceIn(k, Dirs) /\ NoTables(k, KernDir) /\ KernDir \in Dirs
      /\ KernTable \in Dirs
      /\ \A s \in Live : s \in Slot /\ DirOf(s) \in Dirs
  BY MemoryFacts DEF Live, Dirs
<1>2. /\ Good(k', Dirs \cup {p}, lost) /\ OnceIn(k', Dirs \cup {p})
      /\ SameDirs(k, k', Dirs) /\ SameCounts(k, k', Dirs)
      /\ p \in Page \ Dirs
      /\ k'.mem[p] = NewDir(k, p) /\ k'.ref[p] = 1
  BY <1>1, GoodSetup
<1> HIDE DEF p
<1>3. /\ \A s \in Live : s # e /\ DirOf(s)' = DirOf(s)
      /\ DirOf(e)' = p
  BY <1>1 DEF p
<1>4. Dirs' = Dirs \cup {p}
  BY <1>3 DEF Dirs
<1>5. DirsSound'
  <2>1. \A s \in Live' : DirOf(s)' \in Page \ {KernDir, KernTable} /\ k'.ref[DirOf(s)'] = 1
    BY <1>1, <1>2, <1>3 DEF MemoryInv, DirsSound, SameCounts
  <2>2. \A s, t \in Live' : DirOf(s)' = DirOf(t)' => s = t
    BY <1>1, <1>2, <1>3 DEF MemoryInv, DirsSound
  <2>3. \A x \in UIdx : ~HasTable(k', KernDir, x)
    BY <1>1, <1>2 DEF NoTables, HasTable, SameDirs
  <2> QED
    BY <2>1, <2>2, <2>3 DEF DirsSound
<1>6. KernelHalf'
  <2>1. ASSUME NEW s \in Live, NEW i \in Idx \ UIdx
        PROVE  k'.mem[DirOf(s)'][i] = IF i = UVX THEN [pg |-> DirOf(s)', perm |-> UserRead]
                                                 ELSE k'.mem[KernDir][i]
    BY <1>1, <1>2, <1>3 DEF MemoryInv, KernelHalf, SameDirs
  <2>2. ASSUME NEW i \in Idx \ UIdx
        PROVE  k'.mem[p][i] = IF i = UVX THEN [pg |-> p, perm |-> UserRead] ELSE k'.mem[KernDir][i]
    <3>1. k.mem[KernDir] \in [Idx -> Pte] /\ k'.mem[KernDir] = k.mem[KernDir]
      BY <1>1, <1>2, GoodParts, EnvAssumption DEF PageContent, SameDirs
    <3> QED
      BY <1>2, <3>1 DEF NewDir
  <2> QED
    BY <1>3, <2>1, <2>2 DEF KernelHalf
<1>7. EnvMemory' /\ MappedOnce'
  BY <1>2, <1>4 DEF EnvMemory, MappedOnce, OnceIn
<1> QED
  BY <1>5, <1>6, <1>7 DEF MemoryInv

\* The new environment has an id that no environment of its slot had before.
LEMMA AllocIds ==
  ASSUME EnvInv, op = "idle", NEW e \in FreeEnvs,
         FreeEnvs' = FreeEnvs \ {e}, Live' = Live \cup {e}, Distinct(envFree'),
         past' = past, op' # "free",
         \A s \in Slot : envs'[s].gen = IF s = e THEN NextGen(envs[s].gen) ELSE envs[s].gen,
         \A s \in Slot : envs'[s].status = IF s = e THEN "runnable" ELSE envs[s].status
  PROVE  SlotsSound'
<1> DEFINE n == envs[e].gen
<1>1. EnvType /\ SlotsSound /\ e \in Slot /\ e \notin Live /\ FreeEnvs \subseteq Slot
  BY InvParts, FreeList DEF Live
<1>2. n \in 0..(GenMax - 1) /\ GenMax \in Nat /\ MaxPast \in Nat
  BY <1>1, Generations, EnvAssumption, PastAssumption
<1>3. envs'[e].gen = n + 1
  BY <1>1, <1>2 DEF NextGen
<1> HIDE DEF n
<1>4. \A id \in (1..GenMax) \X Slot :
        (IF id[2] \in Live THEN id[1] < envs[id[2]].gen ELSE id[1] <= envs[id[2]].gen)
        <=> (IF id[2] \in Live' THEN id[1] < envs'[id[2]].gen ELSE id[1] <= envs'[id[2]].gen)
  <2> SUFFICES ASSUME NEW g \in 1..GenMax, NEW s \in Slot
               PROVE  (IF s \in Live THEN g < envs[s].gen ELSE g <= envs[s].gen)
                      <=> (IF s \in Live' THEN g < envs'[s].gen ELSE g <= envs'[s].gen)
    OBVIOUS
  <2>1. CASE s = e
    <3>1. g <= n <=> g < n + 1
      BY <1>2
    <3> QED
      BY <1>1, <1>3, <2>1, <3>1 DEF n
  <2>2. CASE s # e
    BY <2>2
  <2> QED
    BY <2>1, <2>2
<1>5. past' = {id \in (1..GenMax) \X Slot :
                 IF id[2] \in Live' THEN id[1] < envs'[id[2]].gen ELSE id[1] <= envs'[id[2]].gen}
  BY <1>1, <1>4 DEF SlotsSound
<1>6. \A s \in Live' : envs'[s].status # "free" /\ envs'[s].gen # 0
  BY <1>1, <1>2, <1>3 DEF SlotsSound, Live
<1>7. \A s \in FreeEnvs' : envs'[s].status = "free" \/ envs'[s].gen = 0
  BY <1>1 DEF SlotsSound
<1>8. IsFiniteSet(past') /\ Cardinality(past') <= MaxPast
  BY <1>1 DEF SlotsSound
<1> QED
  BY <1>5, <1>6, <1>7, <1>8 DEF SlotsSound, Distinct

EnvTable ==
  [Slot -> [status : {"free", "runnable", "running"}, gen : 0..GenMax,
            parent : {<<0, NoEnv>>}, pgdir : Page \cup {NoPage}]]

LEMMA EnvAllocKeeps ==
  ASSUME EnvInv, NEW b \in Binary, EnvAlloc(b)
  PROVE  EnvInv'
<1>1. /\ EnvType /\ SlotsSound /\ MemoryInv /\ envs \in EnvTable
      /\ segs \in Seq(Segment) /\ region \in Seq(VA)
  BY InvParts DEF EnvType, EnvTable
<1>2. CASE OutOfMemory(k)
  <2>1. MemoryInv'
    BY <1>1, <1>2, SameMemory DEF EnvAlloc, DirOf
  <2> QED
    BY <1>1, <1>2, <2>1, StageKept DEF EnvAlloc, Stages
<1>3. CASE ~OutOfMemory(k)
  <2> DEFINE e == Head(envFree)
             p == Allocated(k)
  <2>1. /\ op = "idle" /\ envFree # <<>> /\ envFree' = Tail(envFree) /\ k' = SetupVm(p)
        /\ envs' = [envs EXCEPT ![e] =
             [status |-> "runnable", gen |-> NextGen(@.gen), parent |-> <<0, NoEnv>>, pgdir |-> p]]
        /\ cur' = e /\ segs' = b.segs /\ op' \in {"header", "panic_binary"}
        /\ op' = "header" => cr3' = p
        /\ op' = "panic_binary" => cr3' = cr3
        /\ UNCHANGED <<curenv, region, lost, past>>
    BY <1>3 DEF EnvAlloc
  <2>2. /\ e \in FreeEnvs /\ e \in Slot /\ e \notin Live
        /\ envFree' \in Seq(Slot) /\ Distinct(envFree')
        /\ FreeEnvs' = FreeEnvs \ {e} /\ Live' = Live \cup {e}
    BY <1>1, <2>1, TakeSlot
  <2>3. k' = Setup(k)
    BY <2>1 DEF SetupVm, Setup, NewDir
  <2>4. p \in Page
    BY <1>1, <1>3, MemoryFacts, GoodAlloc
  <2>5. envs[e].gen \in 0..(GenMax - 1) /\ GenMax \in Nat
    BY <1>1, <2>1, <2>2, Generations, EnvAssumption
  <2>6. NextGen(envs[e].gen) \in 0..GenMax
    BY <2>5 DEF NextGen
  <2> HIDE DEF e, p
  <2>7. /\ \A s \in Slot : envs'[s].gen = IF s = e THEN NextGen(envs[s].gen) ELSE envs[s].gen
        /\ \A s \in Slot : envs'[s].status = IF s = e THEN "runnable" ELSE envs[s].status
        /\ \A s \in Slot : DirOf(s)' = IF s = e THEN p ELSE DirOf(s)
    BY <1>1, <2>1, <2>2 DEF DirOf, EnvTable
  <2>8. MemoryInv'
    BY <1>1, <1>3, <2>1, <2>2, <2>3, <2>7, AllocMemory DEF p
  <2>9. SlotsSound'
    BY <2>1, <2>2, <2>7, AllocIds
  <2>10. EnvType'
    <3>1. segs' \in Seq(Segment)
      BY <2>1, BinaryAssumption
    <3>2. envs' \in EnvTable
      BY <1>1, <2>1, <2>2, <2>4, <2>6 DEF EnvTable
    <3> QED
      BY <1>1, <2>1, <2>2, <3>1, <3>2 DEF EnvType, EnvTable
  <2>11. LoadedSound'
    <3>1. CASE op' = "header"
      BY <2>1, <2>2, <2>7, <3>1 DEF LoadedSound, DirOf
    <3>2. CASE op' = "panic_binary"
      <4>1. cr3 = KernDir \/ (curenv \in Live /\ cr3 = DirOf(curenv))
        BY <2>1 DEF EnvInv, LoadedSound
      <4>2. curenv \in Live => curenv \in Slot /\ curenv # e
        BY <2>2 DEF Live
      <4>3. curenv \in Live => curenv' \in Live' /\ envs'[curenv].pgdir = DirOf(curenv)
        BY <2>1, <2>2, <2>7, <4>2 DEF DirOf
      <4> QED
        BY <2>1, <3>2, <4>1, <4>3 DEF LoadedSound, DirOf
    <3> QED
      BY <2>1, <3>1, <3>2
  <2>12. cur' \in Live'
    BY <2>1, <2>2
  <2> QED
    BY <2>8, <2>9, <2>10, <2>11, <2>12 DEF EnvInv, MemoryInv
<1> QED
  BY <1>2, <1>3

LEMMA EnvAllocFailsKeeps == EnvInv /\ EnvAllocFails => EnvInv'
<1> SUFFICES ASSUME EnvInv, EnvAllocFails PROVE EnvInv'
  OBVIOUS
<1>1. EnvType /\ MemoryInv
  BY InvParts
<1>2. MemoryInv'
  BY <1>1, SameMemory DEF EnvAllocFails, DirOf
<1> QED
  BY <1>1, <1>2, StageKept DEF EnvType, EnvAllocFails, Stages

----------------------------------------------------------------------------
(* The start.                                                              *)

\* Nothing is mapped and nothing is counted, except the kernel's table.
LEMMA GoodStart ==
  ASSUME NEW m \in Memory, NEW R \in SUBSET Page, Once(m), FreePages(m) = Page \ R,
         \A d \in R, x \in UIdx : ~HasTable(m, d, x),
         \A p \in Page \ R : m.ref[p] = 0
  PROVE  Good(m, R, {})
<1>1. TablePages(m, R) = {}
  BY DEF TablePages
<1>2. LiveSlots(m, R) = R \X UIdx
  BY <1>1 DEF LiveSlots, PdeSlots
<1>3. \A p : RefSlots(m, R, p) = {}
  BY <1>2, NoPteAssumption DEF RefSlots, SlotRefers, HasTable
<1>4. Cardinality({}) = 0
  BY FS_EmptySet
<1> QED
  BY <1>3, <1>4, GoodWhole

LEMMA OrderSeq ==
  ASSUME NEW S, NEW q, OnceEach(q, S)
  PROVE  q \in Seq(S) /\ Distinct(q) /\ SeqSet(q) = S
BY DEF OnceEach, Distinct, SeqSet

LEMMA InitMemory ==
  ASSUME Init
  PROVE  Good(k, {KernDir, KernTable}, {}) /\ NoTables(k, KernDir)
<1> DEFINE R == {KernDir, KernTable}
<1>1. R \in SUBSET Page /\ KernDir \in Page /\ KernTable \in Page /\ KernDir # KernTable
  BY EnvAssumption
<1>2. /\ k.free = PageOrder
      /\ k.ref = [p \in Page |-> IF p = KernTable THEN 1 ELSE 0]
      /\ k.mem = [p \in Page |-> IF p = KernDir THEN KernMap ELSE ZeroPage]
      /\ k = [free |-> PageOrder,
              ref |-> [p \in Page |-> IF p = KernTable THEN 1 ELSE 0],
              mem |-> [p \in Page |-> IF p = KernDir THEN KernMap ELSE ZeroPage]]
  BY DEF Init
<1>3. PageOrder \in Seq(Page \ R) /\ Distinct(PageOrder) /\ SeqSet(PageOrder) = Page \ R
  BY OrderSeq, OrderAssumption
<1>4. PageOrder \in Seq(Page)
  BY <1>3
<1>5. KernMap \in PageContent /\ \A x \in UIdx : KernMap[x] = NoPte
  <2>1. /\ [pg |-> KernDir, perm |-> UserRead] \in Pte
        /\ [pg |-> KernTable, perm |-> TablePerm] \in Pte
        /\ NoPte \in Pte
    BY <1>1, EnvAssumption, PermAssumption DEF Pte, Mapping
  <2>2. ASSUME NEW i \in Idx PROVE KernMap[i] \in Pte /\ (i \in UIdx => KernMap[i] = NoPte)
    BY <2>1, EnvAssumption DEF KernMap
  <2> QED
    BY <2>2 DEF KernMap, PageContent
<1>6. ZeroPage \in PageContent /\ \A x \in Idx : ZeroPage[x] = NoPte
  BY DEF ZeroPage, PageContent, Pte
<1>7. k \in Memory
  <2>1. [p \in Page |-> IF p = KernTable THEN 1 ELSE 0] \in [Page -> 0..RefMax]
    BY RefMaxAssumption
  <2>2. [p \in Page |-> IF p = KernDir THEN KernMap ELSE ZeroPage] \in [Page -> PageContent]
    BY <1>5, <1>6
  <2> QED
    BY <1>2, <1>4, <2>1, <2>2 DEF Memory
<1>8. Once(k) /\ FreePages(k) = Page \ R
  BY <1>2, <1>3 DEF Once, FreePages, Distinct, SeqSet
<1>9. \A d \in R, x \in UIdx : ~HasTable(k, d, x)
  BY <1>1, <1>2, <1>5, <1>6 DEF HasTable
<1>10. \A p \in Page \ R : k.ref[p] = 0
  BY <1>2
<1>11. Good(k, R, {})
  <2> HIDE DEF R
  <2> QED
    BY <1>1, <1>7, <1>8, <1>9, <1>10, GoodStart
<1> QED
  BY <1>9, <1>11 DEF NoTables

LEMMA InitInv == Init => EnvInv
<1> SUFFICES ASSUME Init PROVE EnvInv
  OBVIOUS
<1>1. SlotOrder \in Seq(Slot) /\ Distinct(SlotOrder) /\ SeqSet(SlotOrder) = Slot
  BY OrderSeq, OrderAssumption
<1>2. envFree = SlotOrder /\ FreeEnvs = Slot /\ Live = {} /\ Dirs = {KernDir, KernTable}
  BY <1>1 DEF Init, FirstFreeEnvs, FreeEnvs, SeqSet, Live, Dirs
<1>3. EnvType
  BY <1>1, <1>2, EnvAssumption DEF Init, EnvType
<1>4. SlotsSound
  <2>1. IsFiniteSet({}) /\ Cardinality({}) = 0
    BY FS_EmptySet
  <2>2. \A s \in Slot : envs[s].gen = 0
    BY DEF Init
  <2>3. past = {id \in (1..GenMax) \X Slot :
                  IF id[2] \in Live THEN id[1] < envs[id[2]].gen ELSE id[1] <= envs[id[2]].gen}
    BY <1>2, <2>2 DEF Init
  <2> QED
    BY <1>1, <1>2, <2>1, <2>2, <2>3, PastAssumption DEF Init, SlotsSound, Distinct
<1>5. MemoryInv
  <2>1. Good(k, {KernDir, KernTable}, {}) /\ NoTables(k, KernDir)
    BY InitMemory
  <2>2. NoTables(k, KernTable)
    BY EnvAssumption DEF Init, NoTables, HasTable, ZeroPage
  <2>3. MappedOnce
    BY <1>2, <2>1, <2>2 DEF MappedOnce, PageLookup, NoTables, VA
  <2> QED
    BY <1>2, <2>1, <2>3 DEF MemoryInv, DirsSound, EnvMemory, KernelHalf, NoTables, Init
<1>6. LoadedSound
  BY DEF Init, LoadedSound
<1> QED
  BY <1>3, <1>4, <1>5, <1>6 DEF EnvInv, MemoryInv, Init

----------------------------------------------------------------------------
(* The theorems on environments.                                           *)

LEMMA StutterKeeps == EnvInv /\ UNCHANGED vars => EnvInv'
<1> SUFFICES ASSUME EnvInv, UNCHANGED vars PROVE EnvInv'
  OBVIOUS
<1>1. EnvType /\ MemoryInv
  BY InvParts
<1>2. MemoryInv'
  BY <1>1, SameMemory DEF vars, DirOf
<1> QED
  BY <1>1, <1>2, StageKept DEF EnvType, vars

LEMMA NextKeeps == EnvInv /\ [Next]_vars => EnvInv'
<1> SUFFICES ASSUME EnvInv, [Next]_vars PROVE EnvInv'
  OBVIOUS
<1>1. ASSUME NEW b \in Binary, EnvAlloc(b) PROVE EnvInv'
  BY <1>1, EnvAllocKeeps
<1>2. CASE EnvAllocFails
  BY <1>2, EnvAllocFailsKeeps
<1>3. CASE Header \/ RegionPage \/ RegionDone \/ Copy \/ Stack
  BY <1>3, HeaderKeeps, RegionPageKeeps, RegionDoneKeeps, CopyKeeps, StackKeeps
<1>4. ASSUME NEW e \in Slot, EnvRun(e) PROVE EnvInv'
  BY <1>4, RunKeeps DEF EnvRun
<1>5. ASSUME NEW e \in Slot, EnvFree(e) PROVE EnvInv'
  BY <1>5, EnvFreeKeeps
<1>6. ASSUME NEW va \in VA, FreeMapping(va) PROVE EnvInv'
  BY <1>6, FreeMappingKeeps
<1>7. ASSUME NEW x \in UIdx, FreeTable(x) PROVE EnvInv'
  BY <1>7, FreeTableKeeps
<1>8. CASE FreeDir
  BY <1>8, FreeDirKeeps
<1>9. CASE Monitor \/ UNCHANGED vars
  BY <1>9, StutterKeeps DEF Monitor
<1> QED
  BY <1>1, <1>2, <1>3, <1>4, <1>5, <1>6, <1>7, <1>8, <1>9 DEF Next

(* The inductive invariant: the table of environments, memory, and what is *)
(* loaded, in the middle of env_create and env_free too.                   *)
THEOREM EnvInvariant == Spec => []EnvInv
<1>1. Init => EnvInv
  BY InitInv
<1>2. EnvInv /\ [Next]_vars => EnvInv'
  BY NextKeeps
<1> QED
  BY <1>1, <1>2, PTL DEF Spec

(* Memory is accounted for exactly, however loading and freeing            *)
(* environments take turns (env_setup_vm, region_alloc, env_free).         *)
THEOREM MemoryAccounted == Spec => []EnvMemory
<1>1. EnvInv => EnvMemory
  BY DEF EnvInv
<1> QED
  BY <1>1, EnvInvariant, PTL

(* Every environment has the kernel's half of the address space, and its   *)
(* own page tables at UVPT; the directory that is loaded is never one that *)
(* is being taken apart (env_setup_vm, env_run, env_free).                 *)
THEOREM KernelAlwaysRuns == Spec => []KernelRuns
<1>1. EnvInv => KernelRuns
  BY DEF EnvInv, KernelRuns, LoadedSound, LoadedDirUsable
<1> QED
  BY <1>1, EnvInvariant, PTL

(* No page is mapped twice, in one address space or in two, although       *)
(* region_alloc maps what page_alloc returns without looking at it.        *)
THEOREM AddressSpacesApart == Spec => []Isolated
<1>1. EnvInv => Isolated
  <2> SUFFICES ASSUME EnvInv, NEW p \in MappedPages(k, Dirs) PROVE k.ref[p] = 1
    BY DEF Isolated
  <2>1. Good(k, Dirs, lost) /\ OnceIn(k, Dirs)
    BY InvParts, MemoryFacts
  <2> QED
    BY <2>1, OnceCounted
<1> QED
  BY <1>1, EnvInvariant, PTL

(* An id finds only the environment it was given to, never a later one in  *)
(* the same slot and never a free slot (envid2env, env_alloc, env_free).   *)
THEOREM IdsFindTheirs == Spec => []IdsCurrent
<1>1. EnvInv => IdsCurrent
  <2> SUFFICES ASSUME EnvInv, NEW g \in 1..GenMax, NEW s \in Slot,
                      Envid2Env(<<g, s>>, FALSE) = s
               PROVE  s \in Live /\ <<g, s>> \notin past
    BY DEF IdsCurrent
  <2>1. EnvType /\ SlotsSound /\ GenMax \in Nat
    BY EnvAssumption DEF EnvInv
  <2>2. envs[s].status # "free" /\ envs[s].gen = g
    BY EnvAssumption DEF Envid2Env, IdOf
  <2>3. s \in Live
    BY <2>1, <2>2 DEF SlotsSound, Live
  <2>4. <<g, s>> \notin past
    BY <2>1, <2>2, <2>3 DEF SlotsSound
  <2> QED
    BY <2>3, <2>4
<1> QED
  BY <1>1, EnvInvariant, PTL

----------------------------------------------------------------------------
(* The kernel.                                                             *)

LEMMA LiveSlot == Live \subseteq Slot /\ NoEnv \notin Live
BY EnvAssumption DEF Live

LEMMA Created ==
  ASSUME EnvInv, envFree = SlotOrder, NEW b \in Binary, EnvAlloc(b)
  PROVE  /\ op' = "panic_setup" \/ Slot0 \in Live'
         /\ op' # "free" /\ past' = past
<1>1. EnvType /\ SlotsSound
  BY DEF EnvInv
<1>2. envFree # <<>> => Live' = Live \cup {Slot0} \/ op' = "panic_setup"
  BY <1>1, TakeSlot, Slot0Assumption DEF EnvAlloc
<1> QED
  BY <1>2 DEF EnvAlloc

\* A trap that is dispatched to a system call came from the program.
LEMMA SysCallInProgram ==
  ASSUME KernelInv, NEW c, SysCall(c)
  PROVE  InProgram /\ Resumable
BY DEF KernelInv, SysCall, Handles, InProgram

LEMMA ResumableKept == Resumable /\ UNCHANGED vars => Resumable'
BY DEF Resumable, vars, Live, FreeEnvs, DirOf

LEMMA RunResumes ==
  ASSUME EnvInv, NEW e \in Live, op = "idle", past = {}, Run(e)
  PROVE  Resumable'
<1>1. e \in Slot /\ EnvType
  BY LiveSlot DEF EnvInv
<1>2. Live' = Live /\ envs'[e].status = "running" /\ envs'[e].pgdir = envs[e].pgdir
  BY <1>1 DEF Run, Live, FreeEnvs, EnvType
<1> QED
  BY <1>2 DEF Resumable, Run, DirOf

\* The steps that destroy an environment.
LEMMA DestroyKeeps ==
  ASSUME KernelInv, NEW e, Destroy(e)
  PROVE  KernelInv' /\ Next
<1>1. EnvFree(e) /\ e \in Slot
  BY LiveSlot DEF Destroy, EnvFree
<1>2. Next
  BY <1>1 DEF Next
<1>3. KernelInv'
  BY DEF KernelInv, Destroy, InProgram, TrapAsserts
<1> QED
  BY <1>2, <1>3

\* A system call that returns.
LEMMA ReturningKeeps ==
  ASSUME KernelInv, Resumable, NEW r, Returning(r)
  PROVE  KernelInv' /\ UNCHANGED vars
<1>1. UNCHANGED vars
  BY DEF Returning
<1>2. Resumable'
  BY <1>1, ResumableKept
<1> QED
  BY <1>1, <1>2 DEF KernelInv, Returning, TrapAsserts

LEMMA SysCallsKeep == EnvInv /\ KernelInv /\ SysCalls => KernelInv' /\ [Next]_vars
<1> SUFFICES ASSUME EnvInv, KernelInv, SysCalls PROVE KernelInv' /\ [Next]_vars
  OBVIOUS
<1>1. CASE Cputs
  BY <1>1, SysCallInProgram, DestroyKeeps, ReturningKeeps DEF Cputs
<1>2. CASE CputsFaults
  BY <1>2 DEF CputsFaults, KernelInv, InProgram, TrapFrame, TrapAsserts
<1>3. CASE Cgetc
  BY <1>3, SysCallInProgram, ReturningKeeps DEF Cgetc
<1>4. CASE Getenvid
  BY <1>4, SysCallInProgram, ReturningKeeps DEF Getenvid
<1>5. CASE EnvDestroy
  BY <1>5, SysCallInProgram, DestroyKeeps, ReturningKeeps DEF EnvDestroy
<1>6. CASE UnknownCall
  BY <1>6, SysCallInProgram, ReturningKeeps DEF UnknownCall
<1> QED
  BY <1>1, <1>2, <1>3, <1>4, <1>5, <1>6 DEF SysCalls

LEMMA HandlingKeeps == EnvInv /\ KernelInv /\ Handling => KernelInv' /\ [Next]_vars
<1> SUFFICES ASSUME EnvInv, KernelInv, Handling PROVE KernelInv' /\ [Next]_vars
  OBVIOUS
<1>1. CASE Trap
  <2>1. UNCHANGED vars /\ tf' = tf
    BY <1>1 DEF Trap
  <2>2. tf.user => Resumable /\ curenv # NoEnv
    BY <1>1, LiveSlot DEF Trap, KernelInv, InProgram, Resumable
  <2>3. where' = "dispatch" /\ cause' = cause
    BY <1>1, <2>2 DEF Trap
  <2>4. tf.user => Resumable'
    BY <2>1, <2>2, ResumableKept
  <2> QED
    BY <1>1, <2>1, <2>3, <2>4 DEF Trap, KernelInv, InProgram, TrapAsserts
<1>2. CASE UserFault
  BY <1>2, DestroyKeeps DEF UserFault
<1>3. CASE KernelFault
  BY <1>3 DEF KernelFault, Panicking, KernelInv, InProgram, TrapAsserts
<1>4. CASE Breakpoint
  BY <1>4 DEF Breakpoint, KernelInv, InProgram, TrapAsserts
<1>5. CASE SysCalls
  BY <1>5, SysCallsKeep
<1>6. CASE Return
  <2>1. Resumable /\ curenv # NoEnv
    BY <1>6, LiveSlot DEF Return, KernelInv, InProgram, Resumable
  <2>2. Run(curenv) /\ where' = "user" /\ UNCHANGED <<tf, eax, cause, depth>>
    BY <1>6, <2>1 DEF Return, Resumable
  <2>3. curenv \in Live /\ op = "idle" /\ past = {}
    BY <2>1 DEF Resumable
  <2>4. Resumable'
    BY <2>2, <2>3, RunResumes
  <2>5. Next
    BY <2>2, <2>3, LiveSlot DEF Next, EnvRun
  <2> QED
    BY <2>2, <2>4, <2>5 DEF KernelInv, TrapAsserts
<1>7. CASE Free
  BY <1>7 DEF Free, ctl, KernelInv, InProgram, TrapAsserts, Next
<1>8. CASE Destroyed \/ Panic
  BY <1>8 DEF Destroyed, Panic, KernelInv, InProgram, TrapAsserts
<1> QED
  BY <1>1, <1>2, <1>3, <1>4, <1>5, <1>6, <1>7, <1>8 DEF Handling

\* Every step of the kernel is one that env.c defines, or leaves environments alone.
LEMMA KernelNextKeeps ==
  EnvInv /\ KernelInv /\ [KernelNext]_kvars => KernelInv' /\ [Next]_vars
<1> SUFFICES ASSUME EnvInv, KernelInv, [KernelNext]_kvars PROVE KernelInv' /\ [Next]_vars
  OBVIOUS
<1>1. ASSUME NEW b \in Binary, Create(b) PROVE KernelInv' /\ Next
  <2>1. EnvAlloc(b) /\ where' = "load" /\ envFree = SlotOrder /\ past = {} /\ cause' = cause
    BY <1>1 DEF Create, KernelInv
  <2>2. (op' = "panic_setup" \/ Slot0 \in Live') /\ op' # "free" /\ past' = past
    BY <2>1, Created
  <2> QED
    BY <2>1, <2>2 DEF KernelInv, InProgram, TrapAsserts, Next
<1>2. CASE Load
  <2>1. /\ where = "load" /\ UNCHANGED ctl
        /\ Header \/ RegionPage \/ RegionDone \/ Copy \/ Stack
    BY <1>2 DEF Load
  <2>2. past' = past /\ Live' = Live /\ op # "panic_setup"
    BY <2>1 DEF Header, RegionPage, RegionDone, Copy, Stack, Live, FreeEnvs
  <2>3. op # "free" => op' # "free"
    BY <2>1 DEF Header, RegionPage, RegionDone, Copy, Stack
  <2> QED
    BY <2>1, <2>2, <2>3 DEF KernelInv, InProgram, TrapAsserts, Next, ctl
<1>3. CASE LoadPanics
  BY <1>3 DEF LoadPanics, KernelInv, InProgram, TrapAsserts
<1>4. CASE FirstRun
  <2>1. /\ Run(Slot0) /\ op = "idle" /\ where' = "user" /\ cause' = cause
        /\ Slot0 \in Live /\ past = {}
    BY <1>4 DEF FirstRun, KernelInv
  <2>2. Resumable'
    BY <2>1, RunResumes
  <2>3. Next
    BY <2>1, LiveSlot DEF Next, EnvRun
  <2> QED
    BY <2>1, <2>2, <2>3 DEF KernelInv, TrapAsserts
<1>5. CASE UserTraps
  <2>1. where = "user" /\ where' = "trap" /\ tf'.user /\ UNCHANGED vars /\ cause' = cause
    BY <1>5 DEF UserTraps, UserFrames, TrapFrame, SyscallFrame
  <2>2. Resumable'
    BY <2>1, ResumableKept DEF KernelInv, InProgram
  <2> QED
    BY <2>1, <2>2 DEF KernelInv, TrapAsserts
<1>6. CASE Handling
  BY <1>6, HandlingKeeps
<1>7. CASE Backtrace
  BY <1>7 DEF Backtrace, KernelInv, InProgram, TrapFrame, TrapAsserts
<1>8. CASE UNCHANGED kvars
  <2>1. UNCHANGED vars /\ UNCHANGED <<where, tf, eax, cause, depth>>
    BY <1>8 DEF kvars, ctl
  <2>2. Resumable => Resumable'
    BY <2>1, ResumableKept
  <2> QED
    BY <2>1, <2>2 DEF KernelInv, InProgram, TrapAsserts, vars, Live, FreeEnvs
<1> QED
  BY <1>1, <1>2, <1>3, <1>4, <1>5, <1>6, <1>7, <1>8 DEF KernelNext, Command

LEMMA KernelStart == KernelInit => EnvInv /\ KernelInv
<1> SUFFICES ASSUME KernelInit PROVE EnvInv /\ KernelInv
  OBVIOUS
<1>1. EnvInv
  BY InitInv DEF KernelInit
<1>2. KernelInv
  BY DEF KernelInit, Init, KernelInv, FirstFreeEnvs, InProgram, TrapFrame, TrapAsserts
<1> QED
  BY <1>1, <1>2

(* The inductive invariant of the kernel: wherever trap may get to its     *)
(* end, there is an environment that it can resume.                        *)
THEOREM KernelInvariant == KernelSpec => [](EnvInv /\ KernelInv)
<1>1. KernelInit => EnvInv /\ KernelInv
  BY KernelStart
<1>2. EnvInv /\ KernelInv /\ [KernelNext]_kvars => EnvInv' /\ KernelInv'
  BY KernelNextKeeps, NextKeeps
<1> QED
  BY <1>1, <1>2, PTL DEF KernelSpec

(* What the kernel does to environments and to memory is what env.c        *)
(* allows its callers: all theorems on environments hold for it            *)
(* (i386_init, trap, syscall, env_destroy).                                *)
THEOREM KernelUsesEnv == KernelSpec => Spec
<1>1. KernelInit => Init
  BY DEF KernelInit
<1>2. EnvInv /\ KernelInv /\ [KernelNext]_kvars => [Next]_vars
  BY KernelNextKeeps
<1> QED
  BY <1>1, <1>2, KernelInvariant, PTL DEF KernelSpec, Spec

\* The assertions in trap hold (trap, env_run).
THEOREM AssertionsHold == KernelSpec => []TrapAsserts
<1>1. KernelInv => TrapAsserts
  BY DEF KernelInv
<1> QED
  BY <1>1, KernelInvariant, PTL

\* User mode runs on the tables of a live environment (i386_init, env_run, env_free).
THEOREM UserModeLive == KernelSpec => []RunsLive
<1>1. KernelInv => RunsLive
  BY DEF KernelInv, InProgram, Resumable, RunsLive
<1> QED
  BY <1>1, KernelInvariant, PTL

\* When the environment is gone, no trap ends in user mode again (env_destroy).
THEOREM DestroyIsFinal == KernelSpec => []NoReturn
<1>1. KernelInv => NoReturn
  BY DEF KernelInv, InProgram, Resumable, NoReturn
<1> QED
  BY <1>1, KernelInvariant, PTL

============================================================================
