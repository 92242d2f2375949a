--------------------------------- MODULE Boot ---------------------------------
(***************************************************************************)
(* From the firmware to i386_init: boot.S opens address line 20 and enters *)
(* protected mode, bootmain loads the kernel image, sector by sector,      *)
(* entry.S turns paging on and jumps to the link address.  The memory is   *)
(* cells that hold cells of the disk; the sizes are scaled.                *)
(***************************************************************************)
EXTENDS Integers, Sequences

CONSTANTS
  Image,       \* the disks to boot from
  SECTSIZE,    \* cells of a sector
  HDRSECTS,    \* sectors of the page that holds the ELF header, 8 in the code
  WARM, LOADER, ELFHDR,   \* addresses of the warm boot flag, the boot sector, the header
  MB,          \* the address that line 20 selects
  PGSIZE, NPTENTRIES, NPDENTRIES, KERNBASE

PTSIZE == PGSIZE * NPTENTRIES
MEMSIZE == 2 * MB
Phys == 0..MEMSIZE-1

(* The flag, the boot sector, the header's page and 1 MB come one after    *)
(* the other, page and 1 MB where sectors start; entry_pgtable maps all of *)
(* the memory, and KERNBASE is where a page table's part of the addresses  *)
(* starts.                                                                 *)
ASSUME LayoutAssumption ==
  /\ {SECTSIZE, HDRSECTS, WARM, LOADER, ELFHDR, MB, KERNBASE} \subseteq Nat
  /\ SECTSIZE > 1 /\ HDRSECTS > 0
  /\ WARM < LOADER /\ LOADER + SECTSIZE <= ELFHDR
  /\ ELFHDR + HDRSECTS * SECTSIZE <= MB
  /\ ELFHDR % SECTSIZE = 0 /\ MB % SECTSIZE = 0
  /\ {PGSIZE, NPTENTRIES, NPDENTRIES} \subseteq Nat \ {0} /\ MEMSIZE <= PTSIZE
  /\ KERNBASE % PTSIZE = 0 /\ KERNBASE \div PTSIZE \in 1..NPDENTRIES-1

\* An image: elf, whether it has the magic number, entry, i386_init, pgdir and
\* bootstack, physical addresses, and ph, the program headers.
Ends(ph) == ph.pa + ph.filesz
MemEnds(ph) == ph.pa + ph.memsz
Down(a) == a - (a % SECTSIZE)
Up(a) == Down(a + SECTSIZE - 1)
FileBytes(ph) == ph.pa..Ends(ph)-1
Sectors(ph) == Down(ph.pa)..Up(MemEnds(ph))-1
HeaderCell(i) == ELFHDR + i    \* program header i; the ELF header is at ELFHDR

(* What the linker script and the linker see to: the segments lie above    *)
(* 1 MB, in increasing order, where their place in the file has the same   *)
(* offset within a sector; where two of them share a sector, their         *)
(* distance in the file is their distance in memory; only the last is      *)
(* longer than its part of the file (.bss).  Text and data are two         *)
(* segments; page directory and stack are different data.                  *)
Linked(image) ==
  /\ image.ph \in Seq([pa : Nat, offset : Nat, filesz : Nat, memsz : Nat])
  /\ Len(image.ph) > 1 /\ HeaderCell(Len(image.ph)) < ELFHDR + HDRSECTS * SECTSIZE
  /\ \A i \in DOMAIN image.ph :
       LET s == image.ph[i]
       IN  /\ s.filesz > 0 /\ s.filesz <= s.memsz
           /\ MB <= s.pa /\ Up(MemEnds(s)) <= MEMSIZE
           /\ i < Len(image.ph) => s.filesz = s.memsz
           /\ s.pa % SECTSIZE = s.offset % SECTSIZE
           /\ \A j \in 1..i-1 :
                LET r == image.ph[j]
                IN  /\ MemEnds(r) <= s.pa
                    /\ Down(s.pa) < MemEnds(r) => r.pa - r.offset = s.pa - s.offset
  /\ LET text == Head(image.ph)
         data == image.ph[Len(image.ph)]
     IN  {image.entry, image.i386_init} \subseteq FileBytes(text)
         /\ {image.pgdir, image.bootstack} \subseteq FileBytes(data)
  /\ image.pgdir # image.bootstack

ASSUME ImagesAssumption == \A image \in Image : image.elf => Linked(image)

VARIABLES
  img,
  mem,      \* mem[a]: the disk cell that was copied to a, or one of the values below
  a20,      \* address line 20 is open
  kbc,      \* keyboard controller: "idle", or what it is working on
  port,     \* its next data byte goes to the output port
  disk,     \* [busy, sector]
  rd,       \* the locals of readseg: [pa, end, offset]
  ph,       \* of bootmain: the segment being loaded, 0 for the header
  paging, esp, pc

vars == <<img, mem, a20, kbc, port, disk, rd, ph, paging, esp, pc>>
cpu == <<rd, ph, paging, esp>>
devices == <<a20, kbc, port, disk>>

Other == -1    \* whatever the memory held
Zero == -2
Pushed == -3
WarmFlag == -4

LoaderCells == LOADER..LOADER+SECTSIZE-1
DiskCell(offset) == SECTSIZE + offset   \* the kernel starts in the second sector
KernelCell(image, a) ==
  LET i == CHOOSE i \in DOMAIN image.ph : a \in FileBytes(image.ph[i])
  IN  DiskCell(image.ph[i].offset + a - image.ph[i].pa)

Init ==
  /\ img \in Image
  /\ mem = [a \in Phys |-> IF a \in LoaderCells THEN a - LOADER ELSE Other]
  /\ a20 \in BOOLEAN /\ kbc \in {"idle", "busy"} /\ port = FALSE
  /\ disk = [busy |-> FALSE, sector |-> 0]
  /\ rd = [pa |-> 0, end |-> 0, offset |-> 0]
  /\ ph = 0 /\ paging = FALSE /\ esp = 0
  /\ pc = "seta20.1"

----------------------------------------------------------------------------
(* Addresses.                                                              *)

\* With line 20 low an address loses that bit.
Line20(a) == IF a20 \/ (a \div MB) % 2 = 0 THEN a ELSE a - MB

\* entry_pgtable maps the first 4 MB; entry_pgdir puts it at 0 and at KERNBASE.
entry_pgtable == [i \in 0..NPTENTRIES-1 |-> [frame |-> i, perm |-> {"P", "W"}]]

entry_pgdir ==
  [i \in 0..NPDENTRIES-1 |->
     CASE i = 0 -> {"P"} [] i = KERNBASE \div PTSIZE -> {"P", "W"} [] OTHER -> {}]

Perms(va) ==
  entry_pgdir[va \div PTSIZE] \cap entry_pgtable[(va % PTSIZE) \div PGSIZE].perm
Translated(va) ==
  entry_pgtable[(va % PTSIZE) \div PGSIZE].frame * PGSIZE + (va % PGSIZE)

Reads(va) == ~paging \/ "P" \in Perms(va)
Writes(va) == ~paging \/ {"P", "W"} \subseteq Perms(va)
Physical(va) == Line20(IF paging THEN Translated(va) ELSE va)

----------------------------------------------------------------------------
(* boot.S                                                                  *)

\* The keyboard controller takes a byte; what is written while it is busy is lost.
Out(byte) ==
  IF kbc # "idle" THEN UNCHANGED kbc ELSE kbc' = byte

\* Writes while the controller may be busy.
RushedSeta20_1 ==
  /\ pc = "seta20.1"
  /\ Out("d1")
  /\ pc' = "seta20.2" /\ UNCHANGED <<img, mem, a20, port, disk, cpu>>

Seta20_1 ==
  /\ pc = "seta20.1" /\ kbc = "idle"
  /\ Out("d1")
  /\ pc' = "seta20.2" /\ UNCHANGED <<img, mem, a20, port, disk, cpu>>

\* Goes back to the first label when the controller is busy.
WrongSeta20_2 ==
  /\ pc = "seta20.2"
  /\ IF kbc = "idle" THEN Out("df") /\ pc' = "protcseg" ELSE pc' = "seta20.1" /\ UNCHANGED kbc
  /\ UNCHANGED <<img, mem, a20, port, disk, cpu>>

Seta20_2 ==
  /\ pc = "seta20.2" /\ kbc = "idle"
  /\ Out("df")
  /\ pc' = "protcseg" /\ UNCHANGED <<img, mem, a20, port, disk, cpu>>

\* The second byte reaches the output port, which drives line 20.
KbcDone ==
  /\ kbc # "idle" /\ kbc' = "idle"
  /\ port' = (kbc = "d1")
  /\ a20' = (a20 \/ (port /\ kbc = "df"))
  /\ UNCHANGED <<img, mem, disk, cpu, pc>>

\* The image starts in the first sector.
WrongReadSeg(pa, count, offset) ==
  /\ rd' = [pa |-> Down(pa), end |-> pa + count, offset |-> offset \div SECTSIZE]
  /\ pc' = "readseg"

\* The calls of readseg.
ReadSeg(pa, count, offset) ==
  /\ rd' = [pa |-> Down(pa), end |-> pa + count, offset |-> (offset \div SECTSIZE) + 1]
  /\ pc' = "readseg"

Protcseg ==
  /\ pc = "protcseg"
  /\ esp' = LOADER
  /\ ph' = 0 /\ ReadSeg(ELFHDR, SECTSIZE * HDRSECTS, 0)
  /\ UNCHANGED <<img, mem, devices, paging>>

----------------------------------------------------------------------------
(* boot/main.c                                                             *)

More == rd.pa < rd.end

\* readsect as far as the command.
Command ==
  /\ pc = "readseg" /\ More /\ ~disk.busy
  /\ disk' = [busy |-> TRUE, sector |-> rd.offset]
  /\ pc' = "insl" /\ UNCHANGED <<img, mem, a20, kbc, port, cpu>>

\* The keyboard controller is done with a byte before the disk with a sector.
DiskReady ==
  /\ disk.busy /\ kbc = "idle"
  /\ disk' = [disk EXCEPT !.busy = FALSE]
  /\ UNCHANGED <<img, mem, a20, kbc, port, cpu, pc>>

Transfer ==
  /\ mem' = [a \in Phys |->
               IF \E c \in 0..SECTSIZE-1 : Line20(rd.pa + c) = a
               THEN SECTSIZE * disk.sector + (a % SECTSIZE) ELSE mem[a]]
  /\ rd' = [rd EXCEPT !.pa = @ + SECTSIZE, !.offset = @ + 1]
  /\ pc' = "readseg"

\* The rest of readsect, and of the loop in readseg.
Insl ==
  /\ pc = "insl" /\ ~disk.busy
  /\ Transfer
  /\ UNCHANGED <<img, devices, ph, paging, esp>>

SegmentRead == pc = "readseg" /\ ~More

NotElf ==
  /\ SegmentRead /\ ph = 0 /\ ~img.elf
  /\ pc' = "bad" /\ UNCHANGED <<img, mem, devices, cpu>>

NextSegment ==
  /\ SegmentRead /\ img.elf /\ ph < Len(img.ph)
  /\ ph' = ph + 1
  /\ LET s == img.ph[ph + 1] IN ReadSeg(s.pa, s.memsz, s.offset)
  /\ UNCHANGED <<img, mem, devices, paging, esp>>

CallEntry ==
  /\ SegmentRead /\ img.elf /\ ph = Len(img.ph)
  /\ pc' = "entry" /\ UNCHANGED <<img, mem, devices, cpu>>

----------------------------------------------------------------------------
(* entry.S and the first call of i386_init                                 *)

EnablePaging ==
  /\ pc = "entry"
  /\ mem' = [mem EXCEPT ![WARM] = WarmFlag]
  /\ paging' = TRUE
  /\ pc' = "paged" /\ UNCHANGED <<img, devices, rd, ph, esp>>

Relocate ==
  /\ pc = "paged"
  /\ esp' = KERNBASE + img.bootstack + 1
  /\ pc' = "relocated" /\ UNCHANGED <<img, mem, devices, rd, ph, paging>>

CallInit ==
  /\ pc = "relocated"
  /\ esp' = esp - 1
  /\ mem' = [mem EXCEPT ![Physical(esp - 1)] = Pushed]
  /\ pc' = "i386_init" /\ UNCHANGED <<img, devices, rd, ph, paging>>

Bss == LET data == img.ph[Len(img.ph)] IN Ends(data)..MemEnds(data)-1

ClearBss ==
  /\ pc = "i386_init"
  /\ mem' = [a \in Phys |-> IF \E b \in Bss : Physical(KERNBASE + b) = a THEN Zero ELSE mem[a]]
  /\ pc' = "started" /\ UNCHANGED <<img, devices, cpu>>

Rests == pc \in {"bad", "started"} /\ kbc = "idle" /\ UNCHANGED vars

----------------------------------------------------------------------------
Loads == Seta20_1 \/ Seta20_2 \/ Protcseg \/ Command \/ Insl \/ NotElf \/ NextSegment \/ CallEntry
Enters == EnablePaging \/ Relocate \/ CallInit \/ ClearBss

Next == Loads \/ Enters \/ KbcDone \/ DiskReady \/ Rests

\* The processor runs, the controllers finish what they were told.
Spec ==
  /\ Init /\ [][Next]_vars
  /\ WF_vars(Loads \/ Enters) /\ WF_vars(KbcDone) /\ WF_vars(DiskReady)

----------------------------------------------------------------------------
\* The address that is being executed, and the disk cell that was linked there.
Eip ==
  CASE pc \in {"entry", "paged"} -> img.entry
    [] pc = "relocated" -> KERNBASE + img.entry
    [] pc \in {"i386_init", "started"} -> KERNBASE + img.i386_init
    [] pc \in {"readseg", "insl"} -> LOADER + 1
    [] OTHER -> LOADER

Code ==
  CASE pc \in {"entry", "paged", "relocated"} -> KernelCell(img, img.entry)
    [] pc \in {"i386_init", "started"} -> KernelCell(img, img.i386_init)
    [] pc \in {"readseg", "insl"} -> 1
    [] OTHER -> 0

(* Every instruction is fetched from an address that is mapped and holds   *)
(* the code that was meant to be there, and what the processor is told to  *)
(* interpret or write is in place: the program headers whenever one is   *)
(* looked at, the directory when paging goes on, a stack to call i386_init.   *)
Executes ==
  /\ Reads(Eip) /\ mem[Physical(Eip)] = Code
  /\ SegmentRead /\ img.elf =>
       \A i \in 0..Len(img.ph) : mem[HeaderCell(i)] = DiskCell(i)
  /\ paging => mem[Line20(img.pgdir)] = KernelCell(img, img.pgdir)
  /\ pc = "relocated" => Writes(esp - 1)

(* From the call of the entry point on, the file content of every segment  *)
(* is where its header says, except for the word that is pushed, and once  *)
(* i386_init has cleared its data the rest of it is zero (bootmain,        *)
(* readseg, i386_init).                                                    *)
SegmentsLoaded ==
  pc \in {"entry", "paged", "relocated", "i386_init", "started"} =>
    \A i \in DOMAIN img.ph : \A a \in img.ph[i].pa..MemEnds(img.ph[i])-1 :
      IF a \in FileBytes(img.ph[i])
      THEN mem[a] = KernelCell(img, a) \/ (a = img.bootstack /\ mem[a] = Pushed)
      ELSE pc = "started" => mem[a] = Zero

(* readseg may copy more than asked, but nothing outside the sectors that  *)
(* the header and the segments touch is ever written, but the warm boot    *)
(* flag.                                                                   *)
OnlySectors ==
  LET header == ELFHDR..ELFHDR+(SECTSIZE*HDRSECTS)-1
      segments == IF img.elf THEN UNION {Sectors(img.ph[i]) : i \in DOMAIN img.ph} ELSE {}
  IN  \A a \in Phys \ (header \cup segments \cup {WARM}) :
        mem[a] = IF a \in LoaderCells THEN a - LOADER ELSE Other

\* Memory holds the segments, and nothing that it should not.
MemoryRight == SegmentsLoaded /\ OnlySectors

\* The kernel starts, or the loader stops at a disk without one.
Starts == <>(pc = IF img.elf THEN "started" ELSE "bad")

----------------------------------------------------------------------------
(* The inductive invariant, in parts.                                      *)

Loading == pc \in {"readseg", "insl"}
Paged == pc \in {"paged", "relocated", "i386_init", "started"}
Entered == pc = "entry" \/ Paged

BootType ==
  /\ (img.elf => Linked(img)) /\ mem \in [Phys -> Int] /\ ph \in Nat
  /\ rd \in [pa : Nat, end : Nat, offset : Nat]
  /\ pc \in {"seta20.1", "seta20.2", "protcseg", "bad"} \/ Loading \/ Entered
  /\ ph > 0 => img.elf /\ ph <= Len(img.ph) /\ (Loading \/ Entered)
  /\ Entered => img.elf /\ ph = Len(img.ph)
  /\ paging <=> Paged
  /\ pc = "relocated" => esp = KERNBASE + img.bootstack + 1

\* Line 20 is open before the disk has delivered a sector.
LineInv ==
  /\ pc = "seta20.2" => kbc = "d1" \/ (kbc = "idle" /\ port)
  /\ pc \notin {"seta20.1", "seta20.2"} => a20 \/ (kbc = "df" /\ port)
  /\ disk.busy => pc = "insl"
  /\ ph > 0 \/ (Loading /\ rd.pa > ELFHDR) \/ (pc = "insl" /\ ~disk.busy) => a20

\* What is being read: where it starts and stops in memory, where it starts in the image.
Start == IF ph = 0 THEN ELFHDR ELSE Down(img.ph[ph].pa)
Stop == IF ph = 0 THEN ELFHDR + SECTSIZE * HDRSECTS ELSE MemEnds(img.ph[ph])
First == IF ph = 0 THEN 0 ELSE Down(img.ph[ph].offset)

ReadInv ==
  Loading =>
    /\ rd.pa \in Nat /\ rd.pa % SECTSIZE = 0 /\ rd.pa >= Start /\ rd.end = Stop
    /\ rd.offset \in Nat /\ SECTSIZE * rd.offset = SECTSIZE + First + (rd.pa - Start)
    /\ pc = "insl" => rd.pa < rd.end /\ disk.sector = rd.offset

HeaderLoaded ==
  \A a \in ELFHDR..ELFHDR+(SECTSIZE*HDRSECTS)-1 :
    ph > 0 \/ (Loading /\ a < rd.pa) => mem[a] = DiskCell(a - ELFHDR)

ImageCell(i, a) == DiskCell(img.ph[i].offset + (a - img.ph[i].pa))

\* Of the segment that is being read, what has been read; of those before it, everything.
PartLoaded ==
  img.elf =>
    \A i \in DOMAIN img.ph : \A a \in FileBytes(img.ph[i]) :
      i < ph \/ (i = ph /\ (Entered \/ a < rd.pa)) =>
        \/ mem[a] = ImageCell(i, a)
        \/ a = img.bootstack /\ mem[a] = Pushed /\ pc \in {"i386_init", "started"}

BssZero == pc = "started" => \A a \in Bss : mem[a] = Zero

BootInv ==
  BootType /\ LineInv /\ ReadInv /\ HeaderLoaded /\ PartLoaded /\ BssZero /\ OnlySectors
=============================================================================
