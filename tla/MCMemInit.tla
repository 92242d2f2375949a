------------------------------ MODULE MCMemInit ------------------------------
(* Small instances of MemInit for TLC.                                     *)
EXTENDS MemInit

\* Base memory to page 3 at most, the hole at 4, the kernel at 5, its directory at 6, arrays at 7 and 8.
AllIdx == 0..8
UserIdx == 0..1
AllPages == 0..17
AllPerms == SUBSET {"U", "W"}
UserWrite == {"U", "W"}
AllMachines == (9..18) \X (1..4)
=============================================================================
