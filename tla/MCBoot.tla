-------------------------------- MODULE MCBoot --------------------------------
(* Small disks for Boot: every linked image of a text and a data segment   *)
(* that fits, and a disk without an image.                                 *)
EXTENDS Boot

Segments ==
  {s \in [pa : 8..14, offset : 5..10, filesz : 1..3, memsz : 1..6] :
     s.filesz <= s.memsz /\ s.pa % 2 = s.offset % 2 /\ s.pa + s.memsz <= 16}

Kernels ==
  {k \in {[elf |-> TRUE, ph |-> <<text, data>>,
           entry |-> text.pa, i386_init |-> text.pa + text.filesz - 1,
           pgdir |-> data.pa, bootstack |-> data.pa + data.filesz - 1] :
            text \in {s \in Segments : s.filesz = s.memsz},
            data \in {s \in Segments : s.filesz > 1}} : Linked(k)}

Disks ==
  Kernels \cup
    {[elf |-> FALSE, ph |-> <<>>, entry |-> 0, i386_init |-> 0, pgdir |-> 0, bootstack |-> 0]}
=============================================================================
