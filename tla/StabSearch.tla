------------------------------ MODULE StabSearch ------------------------------
(***************************************************************************)
(* stab_binsearch (kdebug.c): binary search in a table of debugging        *)
(* entries for the entry of one type that contains an address.  Entries of *)
(* other types lie in between and have no address of their own.            *)
(*                                                                         *)
(* One step per iteration of the outer loop; the loops inside it, which    *)
(* only look for an index, are part of the step.                           *)
(***************************************************************************)
EXTENDS Integers

CONSTANTS
  Size,     \* entries in the table
  Type,     \* the values of n_type
  Address   \* the values of n_value and addr

ASSUME SizeAssumption == Size \in Nat \ {0}
ASSUME AddressAssumption == Address \subseteq Nat

VARIABLES
  stabs,        \* the table
  type, goal,   \* the type and the address looked for
  lo, hi,       \* the region to search: *region_left, *region_right
  left, right,  \* *region_left, *region_right
  l, r, addr, any_matches,
  pc            \* "search", "done"

inputs == <<stabs, type, goal, lo, hi>>
vars == <<stabs, type, goal, lo, hi, left, right, l, r, addr, any_matches, pc>>

Index == lo..hi
Stab == [type : Type, value : Address]
Table == [0..Size-1 -> Stab]

Match(i) == stabs[i].type = type

\* "arranged in increasing order by instruction address" (kdebug.c:25)
Sorted ==
  \A i, j \in Index : i < j /\ Match(i) /\ Match(j) => stabs[i].value <= stabs[j].value

Region == lo \in 0..Size-1 /\ hi \in 0..Size-1 /\ lo <= hi

TypeOK ==
  /\ stabs \in Table /\ goal \in Nat
  /\ Region
  /\ left \in Index /\ right \in lo-1..hi
  /\ l \in lo..hi+1 /\ r \in lo-1..hi
  /\ addr \in Nat /\ any_matches \in BOOLEAN
  /\ pc \in {"search", "done"}

Init ==
  /\ lo \in 0..Size-1 /\ hi \in lo..Size-1
  /\ stabs \in Table /\ type \in Type /\ goal \in Address
  /\ Sorted
  /\ left = lo /\ right = hi
  /\ l = lo /\ r = hi
  /\ addr = goal /\ any_matches = FALSE
  /\ pc = "search"

Middle == (l + r) \div 2

\* The entries of the type in the left half.
Candidates == {i \in l..Middle : Match(i)}

\* m after the loop that looks for "earliest stab with right type".
IsLast(m, S) == m \in S /\ \A i \in S : i <= m

NoCandidate ==
  /\ pc = "search" /\ l <= r /\ Candidates = {}
  /\ l' = Middle + 1
  /\ UNCHANGED <<inputs, left, right, r, addr, any_matches, pc>>

Below(m) ==
  /\ stabs[m].value < addr
  /\ left' = m /\ l' = Middle + 1
  /\ UNCHANGED <<right, r, addr>>

\* The entry itself is left in the region.
WrongAbove(m) ==
  /\ stabs[m].value > addr
  /\ right' = m /\ r' = m - 1
  /\ UNCHANGED <<left, l, addr>>

Above(m) ==
  /\ stabs[m].value > addr
  /\ right' = m - 1 /\ r' = m - 1
  /\ UNCHANGED <<left, l, addr>>

\* The search goes on for the right end, as if for the next address.
Exact(m) ==
  /\ stabs[m].value = addr
  /\ left' = m /\ l' = m /\ addr' = addr + 1
  /\ UNCHANGED <<right, r>>

Compare ==
  /\ pc = "search" /\ l <= r
  /\ \E m \in Candidates :
       /\ IsLast(m, Candidates)
       /\ Below(m) \/ Above(m) \/ Exact(m)
  /\ any_matches' = TRUE
  /\ UNCHANGED <<inputs, pc>>

\* The last entry of the type in left + 1 .. right, or left.
Rightmost ==
  LET S == {i \in left+1..right : Match(i)}
  IN  CHOOSE i \in S \cup {left} : \A j \in S : j <= i

\* *region_right is left alone.
WrongFinish ==
  /\ pc = "search" /\ l > r
  /\ left' = Rightmost
  /\ pc' = "done"
  /\ UNCHANGED <<inputs, right, l, r, addr, any_matches>>

Finish ==
  /\ pc = "search" /\ l > r
  /\ IF any_matches
     THEN left' = Rightmost /\ UNCHANGED right
     ELSE right' = left - 1 /\ UNCHANGED left
  /\ pc' = "done"
  /\ UNCHANGED <<inputs, l, r, addr, any_matches>>

Next == NoCandidate \/ Compare \/ Finish

Spec == Init /\ [][Next]_vars

----------------------------------------------------------------------------
(* What the comment before the function promises.                          *)

Hits == {i \in Index : Match(i) /\ stabs[i].value <= goal}
Later(i) == {j \in Index : j > i /\ Match(j)}

\* *region_left is the entry that contains the address, *region_right is just before the next.
Brackets ==
  /\ IsLast(left, Hits)
  /\ \/ right + 1 \in Later(left) /\ \A j \in Later(left) : j >= right + 1
     \/ right = hi /\ Later(left) = {}

\* "this function finds the single stab entry of type 'type' that contains that address"
Found == pc = "done" /\ Hits # {} => Brackets

----------------------------------------------------------------------------
(* What holds.                                                             *)

\* An entry one byte after one that matches the address exactly is taken for another exact match.
Apart ==
  \A i, j \in Index :
    Match(i) /\ Match(j) /\ stabs[i].value = goal => stabs[j].value # goal + 1

(* The entry that contains the address is found, and its region, unless    *)
(* the next one starts one byte after it (stab_binsearch).                 *)
FoundIfApart == Apart => Found

(* Without entries of the type the region is empty, and so it is when the  *)
(* first entry of the region has the type but a greater address.           *)
NotFoundIfFirst ==
  pc = "done" /\ Hits = {} /\ (Later(lo) = {} \/ Match(lo)) => left > right
=============================================================================
