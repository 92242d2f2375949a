------------------------------- MODULE UserMem -------------------------------
(***************************************************************************)
(* user_mem_check (pmap.c): may a program access [va, va + len)?  One step *)
(* per page, with the arithmetic of uint32_t.                              *)
(***************************************************************************)
EXTENDS Integers

CONSTANTS
  Word,     \* 2^32, the number of addresses
  PGSIZE,
  ULIM,
  Flag,     \* what a page table entry may hold: sets of flags
  Perm      \* what a caller may ask for, besides PTE_P

ASSUME WordAssumption ==
  /\ PGSIZE \in Nat \ {0} /\ Word \in Nat \ {0} /\ Word % PGSIZE = 0
  /\ ULIM \in 0..Word /\ ULIM % PGSIZE = 0

ASSUME FlagAssumption == \A f \in Flag : "P" \notin f => f = {}

VARIABLES
  pte,      \* pgdir_walk: the flags of the entry for each page, {} for a null pointer too
  va, len, perm,          \* the arguments
  mem_start, mem_end,
  user_mem_check_addr,
  pc                      \* "loop", "ok" (0 returned), "fault" (-E_FAULT)

args == <<pte, va, len, perm>>
vars == <<pte, va, len, perm, mem_start, mem_end, user_mem_check_addr, pc>>

Address == 0..Word-1
PageOf(a) == a \div PGSIZE

RoundDown(a) == a - (a % PGSIZE)

\* An address that is a multiple already is rounded up to the next one.
WrongRoundUp(a) == (RoundDown(a) + PGSIZE) % Word

\* ROUNDUP: the sum is that of two uint32_t.
RoundUp(a) == RoundDown((a + PGSIZE - 1) % Word)

Init ==
  /\ pte \in [{PageOf(a) : a \in Address} -> Flag]
  /\ va \in Address /\ len \in Address /\ perm \in Perm
  /\ mem_start = RoundDown(va) /\ mem_end = RoundUp((va + len) % Word)
  /\ user_mem_check_addr = 0
  /\ pc = "loop"

Allows(a) == a < ULIM /\ {"P"} \cup perm \subseteq pte[PageOf(a)]

Pass ==
  /\ pc = "loop" /\ mem_start < mem_end /\ Allows(mem_start)
  /\ mem_start' = (mem_start + PGSIZE) % Word
  /\ UNCHANGED <<args, mem_end, user_mem_check_addr, pc>>

\* The start of the page is reported even when va lies after it.
WrongFault ==
  /\ pc = "loop" /\ mem_start < mem_end /\ ~Allows(mem_start)
  /\ user_mem_check_addr' = mem_start
  /\ pc' = "fault"
  /\ UNCHANGED <<args, mem_start, mem_end>>

Fault ==
  /\ pc = "loop" /\ mem_start < mem_end /\ ~Allows(mem_start)
  /\ user_mem_check_addr' = IF mem_start < va THEN va ELSE mem_start
  /\ pc' = "fault"
  /\ UNCHANGED <<args, mem_start, mem_end>>

Accept ==
  /\ pc = "loop" /\ mem_start >= mem_end
  /\ pc' = "ok"
  /\ UNCHANGED <<args, mem_start, mem_end, user_mem_check_addr>>

Next == Pass \/ Fault \/ Accept

Spec == Init /\ [][Next]_vars

----------------------------------------------------------------------------
\* The addresses of the range, which goes on at 0 after the last address.
Range == {(va + i) % Word : i \in 0..len-1}

Bad == {a \in Range : ~Allows(a)}

(* "Returns 0 if the user program can access this range of addresses, and  *)
(* -E_FAULT otherwise" (pmap.c:549).                                       *)
Exact == (pc = "ok" => Bad = {}) /\ (pc = "fault" => Bad # {})

----------------------------------------------------------------------------
(* What holds.                                                             *)

\* Rounding the end of the range up does not wrap, and the range is not empty.
Fits == va + len <= Word - PGSIZE /\ len > 0

(* The answer is right for every range that ends before the last page      *)
(* (user_mem_check).                                                       *)
ExactIfFits == Fits => Exact

\* The address reported is the first of the range that may not be accessed (user_mem_check).
FirstBad ==
  Fits /\ pc = "fault" =>
    user_mem_check_addr \in Bad /\ \A a \in Bad : user_mem_check_addr <= a
=============================================================================
