------------------------------ MODULE MCUserMem ------------------------------
(* Four pages of four bytes, the last above ULIM, for SysCall and UserMem. *)
EXTENDS SysCall

Flags == {{}, {"P"}, {"P", "U"}, {"P", "U", "W"}}
Perms == {{"U"}, {"U", "W"}}

\* A program has two pages at most; the kernel's is mapped or not.
Spaces ==
  {f \in [0..3 -> {{}, {"P"}, {"P", "U"}}] : f[1] = {"P", "U"} /\ f[0] # {"P"} /\ f[3] # {"P", "U"}}

\* Empty; inside a page; up to its end; over its end; up to ULIM; wrapping around.
Areas == {<<8, 0>>, <<5, 2>>, <<5, 3>>, <<6, 4>>, <<8, 4>>, <<13, 5>>}
Nuls == {0, 1, 20}
=============================================================================
