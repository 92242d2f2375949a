---------------------------- MODULE LibraryProofs ----------------------------
(***************************************************************************)
(* Algorithms of the kernel that stand by themselves.                      *)
(*                                                                         *)
(* stab_binsearch finds the entry that contains the address, for tables of *)
(* any length.  The loop keeps everything left of l at or below goal and   *)
(* everything right of r above it; left is the last entry of the type that *)
(* was passed on the left, and r stops just before one.  After an exact    *)
(* match addr is goal + 1, and no entry has that value: that is where      *)
(* Apart is needed.  debuginfo_eip searches three times, each time in the  *)
(* region found before, where the entries looked for are in order.         *)
(*                                                                         *)
(* vprintfmt puts one character after the other, and none is lost,         *)
(* repeated or written past the end on its way out, for buffers and        *)
(* strings of any size, any format and any arguments.                      *)
(*                                                                         *)
(* The functions of lib/string.c do what they should with any arguments    *)
(* that are Proper: the invariant of each loop says what is done when k    *)
(* turns are, and runcmd finds the words of a line of any length.          *)
(***************************************************************************)
EXTENDS DebugInfo, Printf, RunCmd, FiniteSetTheorems, SequenceTheorems, TLAPS

----------------------------------------------------------------------------
(* stab_binsearch.                                                         *)

\* What lies left of l, and what left is.
LeftSound ==
  /\ \A i \in Index : i < l /\ Match(i) => stabs[i].value <= goal /\ i <= left
  /\ \/ Match(left) /\ stabs[left].value <= goal
     \/ left = lo /\ \A i \in Index : i < l => ~Match(i)

\* What lies right of r, and where r stops.
RightSound ==
  /\ right = r
  /\ \A i \in Index : i > r /\ Match(i) => stabs[i].value > goal
  /\ r = hi \/ Match(r + 1)

\* addr has moved on only if goal was met.
AddrSound ==
  \/ addr = goal
  \/ addr = goal + 1 /\ \E i \in Index : Match(i) /\ stabs[i].value = goal

SearchInv ==
  /\ TypeOK /\ Sorted
  /\ pc = "search" => LeftSound /\ RightSound /\ AddrSound
  /\ pc = "search" /\ ~any_matches => r = hi /\ \A i \in Index : i < l => ~Match(i)
  /\ any_matches => \E i \in Index : Match(i)
  /\ pc = "done" => Found /\ NotFoundIfFirst /\ (left \in Hits \/ left = lo)

\* Inductive; Apart speaks of the inputs only, which no step changes.
InputsOK == stabs \in Table /\ goal \in Nat /\ Region

Inv == InputsOK /\ (Apart => SearchInv)

\* What TypeOK says of the region.
LEMMA RegionFacts ==
  ASSUME TypeOK
  PROVE  /\ lo \in Int /\ hi \in Int /\ lo <= hi /\ Index = lo..hi
         /\ \A i \in Index : stabs[i] \in Stab /\ i \in Int
  BY SizeAssumption DEF TypeOK, Region, Table, Index, SizeAssumption

\* The steps leave the inputs alone, and what is defined by them.
LEMMA InputFacts ==
  ASSUME TypeOK, UNCHANGED inputs
  PROVE  /\ stabs' = stabs /\ type' = type /\ goal' = goal /\ lo' = lo /\ hi' = hi /\ Index' = Index
         /\ Region' /\ stabs' \in Table /\ goal' \in Nat
         /\ \A i : Match(i)' <=> Match(i)
  BY DEF TypeOK, inputs, Region, Index, Match

LEMMA MiddleInside ==
  ASSUME NEW a \in Int, NEW b \in Int, a <= b
  PROVE  (a + b) \div 2 \in a..b
  OBVIOUS

\* stab_binsearch has just been called.
Called ==
  /\ InputsOK /\ Sorted
  /\ left = lo /\ right = hi
  /\ l = lo /\ r = hi
  /\ addr = goal /\ any_matches = FALSE
  /\ pc = "search"

LEMMA CalledInv == Called => Inv
<1> SUFFICES ASSUME Called PROVE SearchInv
  BY DEF Inv, Called
<1>1. TypeOK /\ Sorted
  <2>1. goal \in Nat /\ Region /\ lo \in Int /\ hi \in Int
    BY SizeAssumption DEF Called, InputsOK, Region, SizeAssumption
  <2>2. left \in Index /\ right \in lo-1..hi /\ l \in lo..hi+1 /\ r \in lo-1..hi /\ addr \in Nat
    BY <2>1 DEF Called, Index, Region
  <2>3. any_matches \in BOOLEAN /\ pc \in {"search", "done"}
    BY DEF Called
  <2> QED
    BY <2>1, <2>2, <2>3 DEF Called, InputsOK, TypeOK
<1>2. \A i \in Index : ~(i < l) /\ ~(i > r)
  BY <1>1, RegionFacts DEF Called
<1>3. LeftSound /\ RightSound /\ AddrSound
  BY <1>2 DEF Called, LeftSound, RightSound, AddrSound
<1> QED
  BY <1>1, <1>2, <1>3 DEF Called, SearchInv

\* The invariant holds when stab_binsearch is called.
THEOREM InitInv == Init => Inv
<1>1. Init => Called
  BY SizeAssumption, AddressAssumption
    DEF SizeAssumption, AddressAssumption, Called, InputsOK, Init, Region
<1> QED
  BY <1>1, CalledInv

(* One iteration of the loop that finds a candidate; m is the last entry   *)
(* of the type in l .. Middle.                                             *)
LEMMA CompareInv ==
  ASSUME Apart, SearchInv, Compare PROVE SearchInv'
<1> USE SizeAssumption, AddressAssumption DEF SizeAssumption, AddressAssumption
<1>1. PICK m \in Candidates : IsLast(m, Candidates) /\ (Below(m) \/ Above(m) \/ Exact(m))
  BY DEF Compare
<1>2. TypeOK /\ Sorted /\ LeftSound /\ RightSound /\ AddrSound /\ pc = "search" /\ l <= r
  BY DEF Compare, SearchInv
<1>r. /\ lo \in Int /\ hi \in Int /\ lo <= hi /\ Index = lo..hi
      /\ \A i \in Index : stabs[i] \in Stab /\ i \in Int
  BY <1>2, RegionFacts
<1>3. l \in Int /\ r \in Int /\ left \in Int /\ goal \in Nat /\ addr \in Nat
  BY <1>2, <1>r DEF TypeOK
<1>4. Middle \in l..r
  BY <1>2, <1>3, MiddleInside DEF Middle
<1>5. m \in Index /\ l <= m /\ m <= Middle /\ m <= r /\ Match(m) /\ stabs[m].value \in Nat
  <2>1. m \in l..Middle /\ Match(m)
    BY DEF Candidates
  <2>2. m \in Index /\ l <= m /\ m <= Middle /\ m <= r
    BY <2>1, <1>2, <1>3, <1>4, <1>r DEF TypeOK
  <2>3. stabs[m] \in Stab
    BY <2>2, <1>r
  <2> QED
    BY <2>1, <2>2, <2>3 DEF Stab
<1>6. \A i \in Index : Match(i) => stabs[i].value \in Nat
  BY <1>r DEF Stab
<1>7. \A i \in Index : Match(i) /\ i <= Middle => i <= m /\ stabs[i].value <= stabs[m].value
  <2> SUFFICES ASSUME NEW i \in Index, Match(i), i <= Middle
               PROVE  i <= m /\ stabs[i].value <= stabs[m].value
    OBVIOUS
  <2>1. i <= m
    BY <1>1, <1>3, <1>4, <1>5, <1>r DEF IsLast, Candidates
  <2> QED
    BY <2>1, <1>2, <1>5, <1>6, <1>r DEF Sorted
<1>8. \A i \in Index : Match(i) /\ i >= m => stabs[i].value >= stabs[m].value
  BY <1>2, <1>5, <1>6, <1>r DEF Sorted
<1>9. /\ stabs' = stabs /\ goal' = goal /\ lo' = lo /\ hi' = hi /\ Index' = Index /\ pc' = pc
      /\ any_matches' = TRUE /\ Region' /\ stabs' \in Table /\ goal' \in Nat
      /\ \A i : Match(i)' <=> Match(i)
  BY <1>2, InputFacts DEF Compare
<1>10. Match(m)' /\ Sorted' /\ \A i \in Index : Match(i)' <=> Match(i)
  <2>1. Sorted'
    BY <1>2, <1>9 DEF Sorted
  <2> QED
    BY <2>1, <1>5, <1>9
<1>11. addr # goal => stabs[m].value # addr
  BY <1>2, <1>5 DEF AddrSound, Apart
<1>a. CASE Below(m)
  <2>1. left' = m /\ l' = Middle + 1 /\ right' = right /\ r' = r /\ addr' = addr
    BY <1>a DEF Below
  <2>2. stabs[m].value <= goal
    BY <1>a, <1>2, <1>3, <1>5 DEF Below, AddrSound
  <2>3. TypeOK'
    BY <2>1, <1>2, <1>3, <1>4, <1>5, <1>9, <1>r DEF TypeOK
  <2>4. LeftSound'
    <3> SUFFICES \A i \in Index : i < Middle + 1 /\ Match(i) => stabs[i].value <= goal /\ i <= m
      BY <2>1, <2>2, <1>5, <1>9, <1>10 DEF LeftSound
    <3> QED
      BY <1>3, <1>4, <1>5, <1>6, <1>7, <2>2 DEF Index
  <2>5. RightSound' /\ AddrSound'
    BY <2>1, <1>2, <1>9 DEF RightSound, AddrSound
  <2> QED
    BY <2>3, <2>4, <2>5, <1>2, <1>5, <1>9, <1>10 DEF SearchInv
<1>b. CASE Above(m)
  <2>1. right' = m - 1 /\ r' = m - 1 /\ left' = left /\ l' = l /\ addr' = addr
    BY <1>b DEF Above
  <2>2. stabs[m].value > goal
    BY <1>b, <1>2, <1>3, <1>5 DEF Above, AddrSound
  <2>3. TypeOK'
    BY <2>1, <1>2, <1>3, <1>5, <1>9, <1>r DEF TypeOK
  <2>4. LeftSound' /\ AddrSound'
    BY <2>1, <1>2, <1>9 DEF LeftSound, AddrSound
  <2>5. RightSound'
    <3> SUFFICES \A i \in Index : i > m - 1 /\ Match(i) => stabs[i].value > goal
      BY <2>1, <1>3, <1>5, <1>9, <1>10, <1>r DEF RightSound
    <3> QED
      BY <1>3, <1>5, <1>6, <1>8, <1>r, <2>2
  <2> QED
    BY <2>3, <2>4, <2>5, <1>2, <1>5, <1>9, <1>10 DEF SearchInv
<1>c. CASE Exact(m)
  <2>1. /\ left' = m /\ l' = m /\ addr' = addr + 1 /\ right' = right /\ r' = r
        /\ stabs[m].value = addr
    BY <1>c DEF Exact
  <2>2. addr = goal
    BY <2>1, <1>11
  <2>3. TypeOK'
    BY <2>1, <1>2, <1>3, <1>5, <1>9, <1>r DEF TypeOK
  <2>4. LeftSound'
    <3> SUFFICES \A i \in Index : i < m /\ Match(i) => stabs[i].value <= goal /\ i <= m
      BY <2>1, <2>2, <1>3, <1>5, <1>9, <1>10 DEF LeftSound
    <3> QED
      BY <1>3, <1>4, <1>5, <1>6, <1>7, <2>1, <2>2 DEF Index
  <2>5. RightSound'
    BY <2>1, <1>2, <1>9 DEF RightSound
  <2>6. AddrSound'
    BY <2>1, <2>2, <1>5, <1>9, <1>10 DEF AddrSound
  <2> QED
    BY <2>3, <2>4, <2>5, <2>6, <1>2, <1>5, <1>9, <1>10 DEF SearchInv
<1> QED
  BY <1>1, <1>a, <1>b, <1>c

LEMMA NoCandidateInv ==
  ASSUME SearchInv, NoCandidate PROVE SearchInv'
<1> USE SizeAssumption, AddressAssumption DEF SizeAssumption, AddressAssumption
<1>1. /\ TypeOK /\ Sorted /\ LeftSound /\ RightSound /\ AddrSound /\ pc = "search"
      /\ l <= r /\ Candidates = {} /\ l' = Middle + 1
      /\ UNCHANGED <<left, right, r, addr, any_matches, pc>>
  BY DEF NoCandidate, SearchInv
<1>r. /\ lo \in Int /\ hi \in Int /\ lo <= hi /\ Index = lo..hi
      /\ \A i \in Index : stabs[i] \in Stab /\ i \in Int
  BY <1>1, RegionFacts
<1>u. /\ stabs' = stabs /\ type' = type /\ goal' = goal /\ lo' = lo /\ hi' = hi /\ Index' = Index
      /\ Region' /\ stabs' \in Table /\ goal' \in Nat
      /\ \A i : Match(i)' <=> Match(i)
  BY <1>1, InputFacts DEF NoCandidate
<1>2. l \in Int /\ r \in Int /\ left \in Int
  BY <1>1, <1>r DEF TypeOK
<1>3. Middle \in l..r
  BY <1>1, <1>2, MiddleInside DEF Middle
<1>4. \A i \in Index : i < Middle + 1 /\ Match(i) => i < l
  BY <1>1, <1>2, <1>3, <1>r DEF Candidates
<1>5. TypeOK' /\ Sorted'
  <2>1. TypeOK'
    BY <1>1, <1>2, <1>3, <1>r, <1>u DEF TypeOK
  <2>2. Sorted'
    BY <1>1, <1>u DEF Sorted
  <2> QED
    BY <2>1, <2>2
<1>6. LeftSound' /\ RightSound' /\ AddrSound'
  <2>1. LeftSound'
    BY <1>1, <1>4, <1>u DEF LeftSound
  <2>2. RightSound' /\ AddrSound'
    BY <1>1, <1>u DEF RightSound, AddrSound
  <2> QED
    BY <2>1, <2>2
<1>7. ~any_matches' => r' = hi /\ \A i \in Index : i < l' => ~Match(i)'
  BY <1>1, <1>4, <1>u DEF SearchInv
<1> QED
  BY <1>1, <1>5, <1>6, <1>7, <1>u DEF SearchInv

LEMMA FinishInv ==
  ASSUME SearchInv, Finish PROVE SearchInv'
<1> USE SizeAssumption, AddressAssumption DEF SizeAssumption, AddressAssumption
<1>1. /\ TypeOK /\ Sorted /\ LeftSound /\ RightSound /\ pc = "search" /\ l > r
      /\ pc' = "done" /\ UNCHANGED <<l, r, addr, any_matches>>
  BY DEF Finish, SearchInv
<1>r. /\ lo \in Int /\ hi \in Int /\ lo <= hi /\ Index = lo..hi
      /\ \A i \in Index : stabs[i] \in Stab /\ i \in Int
  BY <1>1, RegionFacts
<1>u. /\ stabs' = stabs /\ type' = type /\ goal' = goal /\ lo' = lo /\ hi' = hi /\ Index' = Index
      /\ Region' /\ stabs' \in Table /\ goal' \in Nat
      /\ \A i : Match(i)' <=> Match(i)
  BY <1>1, InputFacts DEF Finish
<1>2. l \in Int /\ r \in Int /\ left \in Int /\ right = r /\ goal \in Nat
  BY <1>1, <1>r DEF TypeOK, RightSound
<1>3. \A i \in Index : Match(i) => stabs[i].value \in Nat
  BY <1>r DEF Stab
<1>4. left' = left
  <2>1. CASE any_matches
    <3>1. {i \in left+1..right : Match(i)} = {}
      BY <1>1, <1>2, <1>r DEF LeftSound, TypeOK
    <3> QED
      BY <2>1, <3>1 DEF Finish, Rightmost
  <2>2. CASE ~any_matches
    BY <2>2 DEF Finish
  <2> QED
    BY <2>1, <2>2
<1>5. Match(left)' = Match(left) /\ \A i \in Index : Match(i)' = Match(i)
  BY <1>4, <1>u DEF Match
<1>6. Hits' = Hits /\ Later(left)' = Later(left) /\ Later(lo)' = Later(lo)
  BY <1>4, <1>5, <1>u DEF Hits, Later
<1>9. left' \in Hits' \/ left' = lo'
  BY <1>1, <1>2, <1>4, <1>6, <1>u DEF LeftSound, Hits, TypeOK
<1>7. CASE any_matches
  <2>1. right' = right
    BY <1>7 DEF Finish
  <2>2. ASSUME Hits # {} PROVE Brackets'
    <3>1. Match(left) /\ left \in Hits
      BY <2>2, <1>1, <1>2, <1>3, <1>r DEF Hits, LeftSound, RightSound, TypeOK
    <3>2. \A i \in Hits : i <= left
      BY <1>1, <1>2, <1>3, <1>r DEF Hits, LeftSound, RightSound
    <3>3. left <= r
      BY <3>1, <1>1, <1>2, <1>3, <1>r DEF Hits, RightSound, TypeOK
    <3>4. \A j \in Later(left) : j > r
      BY <1>1, <1>2, <1>r DEF Later, LeftSound
    <3>5. r = hi => Later(left) = {}
      BY <3>4, <1>2, <1>r DEF Later
    <3>6. r # hi => r + 1 \in Later(left)
      BY <3>3, <1>1, <1>2, <1>r DEF RightSound, Later, TypeOK
    <3>7. IsLast(left, Hits)
      BY <3>1, <3>2 DEF IsLast
    <3>8. (right + 1 \in Later(left) /\ \A j \in Later(left) : j >= right + 1)
            \/ (right = hi /\ Later(left) = {})
      BY <3>4, <3>5, <3>6, <1>2, <1>r DEF Later
    <3> QED
      BY <3>7, <3>8, <1>4, <1>6, <1>u, <2>1 DEF Brackets
  <2>3. ASSUME Hits = {}, Later(lo) = {} \/ Match(lo) PROVE left' > right'
    <3>1. left = lo /\ \A i \in Index : i < l => ~Match(i)
      BY <2>3, <1>1, <1>2, <1>r DEF LeftSound, Hits, TypeOK
    <3>2. \E i \in Index : Match(i)
      BY <1>7 DEF SearchInv
    <3>3. Match(lo)
      BY <2>3, <3>2, <1>r DEF Later
    <3>4. l = lo
      BY <3>1, <3>3, <1>1, <1>2, <1>r DEF TypeOK
    <3> QED
      BY <3>1, <3>4, <1>1, <1>2, <1>4, <2>1
  <2>4. TypeOK'
    BY <2>1, <1>1, <1>2, <1>4, <1>r, <1>u DEF TypeOK
  <2> QED
    <3>1. Sorted'
      BY <1>1, <1>u DEF Sorted
    <3>2. Found' /\ NotFoundIfFirst'
      BY <2>2, <2>3, <1>4, <1>5, <1>6, <1>u DEF Found, NotFoundIfFirst
    <3> QED
      BY <2>4, <3>1, <3>2, <1>1, <1>7, <1>9, <1>u DEF SearchInv
<1>8. CASE ~any_matches
  <2>1. right' = left - 1
    BY <1>8 DEF Finish
  <2>2. Hits = {}
    BY <1>1, <1>2, <1>8, <1>r DEF SearchInv, Hits
  <2>3. TypeOK'
    BY <2>1, <1>1, <1>2, <1>4, <1>r, <1>u DEF TypeOK
  <2> QED
    <3>1. Sorted'
      BY <1>1, <1>u DEF Sorted
    <3>2. Found' /\ NotFoundIfFirst'
      BY <2>1, <2>2, <1>2, <1>4, <1>6 DEF Found, NotFoundIfFirst
    <3> QED
      BY <2>3, <3>1, <3>2, <1>1, <1>8, <1>9 DEF SearchInv
<1> QED
  BY <1>7, <1>8 DEF Inv

\* Every iteration of stab_binsearch preserves it.
THEOREM StepInv == Inv /\ [Next]_vars => Inv'
<1> SUFFICES ASSUME Inv, [Next]_vars PROVE InputsOK' /\ (Apart' => SearchInv')
  BY DEF Inv
<1>1. UNCHANGED inputs
  BY DEF Next, NoCandidate, Compare, Finish, vars, inputs
<1>2. InputsOK'
  BY <1>1 DEF Inv, InputsOK, inputs, Region
<1> SUFFICES ASSUME Apart' PROVE SearchInv'
  BY <1>2
<1>3. Apart /\ SearchInv
  <2>1. Index' = Index /\ stabs' = stabs /\ goal' = goal /\ \A i : Match(i)' <=> Match(i)
    BY <1>1 DEF inputs, Index, Match
  <2>2. Apart
    BY <2>1 DEF Apart
  <2> QED
    BY <2>2 DEF Inv
<1>4. CASE UNCHANGED vars
  BY <1>3, <1>4 DEF vars, SearchInv, TypeOK, Sorted, LeftSound, RightSound, AddrSound, Region,
     Found, NotFoundIfFirst, Brackets, Hits, Later, IsLast, Match, Index
<1> QED
  BY <1>3, <1>4, CompareInv, NoCandidateInv, FinishInv DEF Next

(* For tables of any length: the search brackets the address when no entry *)
(* starts one byte after an exact match (stab_binsearch).                  *)
THEOREM SearchFinds == Spec => []FoundIfApart
<1>1. Inv => FoundIfApart
  BY DEF Inv, SearchInv, FoundIfApart, Found
<1> QED
  BY <1>1, InitInv, StepInv, PTL DEF Spec

(* And it answers that there is none when no entry contains the address    *)
(* and the region starts with an entry of the type (stab_binsearch).       *)
THEOREM SearchFindsNone == Spec => []NotFoundIfFirst
<1>1. Inv => NotFoundIfFirst
  <2> SUFFICES ASSUME Inv, Hits = {} PROVE NotFoundIfFirst
    BY DEF NotFoundIfFirst
  <2>1. goal \in Nat
    BY DEF Inv, InputsOK
  <2>2. Apart
    BY <2>1 DEF Apart, Hits
  <2> QED
    BY <2>2 DEF Inv, SearchInv, NotFoundIfFirst
<1> QED
  BY <1>1, InitInv, StepInv, PTL DEF Spec

----------------------------------------------------------------------------
(* debuginfo_eip: what each search has left for the next, without Max and  *)
(* Min, which stand for it in InfoRight.                                   *)

LEMMA MaxIs ==
  ASSUME NEW S \in SUBSET Int, NEW m \in S, \A x \in S : x <= m
  PROVE  Max(S) = m
<1>1. \A y \in S : m >= y
  OBVIOUS
<1>2. Max(S) \in S /\ \A y \in S : Max(S) >= y
  BY <1>1 DEF Max
<1>3. Max(S) \in Int /\ m \in Int /\ Max(S) >= m /\ Max(S) <= m
  BY <1>2
<1> QED
  BY <1>3

LEMMA MinIs ==
  ASSUME NEW S \in SUBSET Int, NEW m \in S, \A x \in S : m <= x
  PROVE  Min(S) = m
<1>1. Min(S) \in S /\ \A y \in S : Min(S) <= y
  BY DEF Min
<1>2. Min(S) \in Int /\ m \in Int /\ Min(S) <= m /\ m <= Min(S)
  BY <1>1
<1> QED
  BY <1>2

\* The table and the address that debuginfo_eip is given.
GivenTable == stabs \in Table /\ eip \in Nat /\ WellFormed

\* f is the file that contains the address, e its last entry.
FileSpan(f, e) ==
  /\ f \in Files /\ stabs[f].value <= eip
  /\ e \in f..Size-1
  /\ \A i \in Files : i > f => stabs[i].value > eip /\ i > e
  /\ e = Size-1 \/ e + 1 \in Files

\* g is the function in this file that contains the address, h its last entry.
FunctionSpan(f, e, g, h) ==
  /\ g \in Functions /\ f < g /\ stabs[g].value <= eip
  /\ h \in g..e
  /\ \A i \in Functions : g < i /\ i <= e => stabs[i].value > eip /\ i > h
  /\ h = e \/ h + 1 \in Functions

\* m is the line in this function that contains the address.
LineAt(g, h, m) ==
  /\ m \in Lines /\ g < m /\ m <= h
  /\ stabs[m].value <= eip - stabs[g].value
  /\ \A i \in Lines : m < i /\ i <= h => stabs[i].value > eip - stabs[g].value

LEMMA EntryFacts ==
  ASSUME GivenTable
  PROVE  /\ Size \in Nat /\ 0 \in 0..Size-1
         /\ Files \subseteq Int /\ Functions \subseteq Int /\ Lines \subseteq Int
         /\ Files \subseteq 0..Size-1 /\ Functions \subseteq 0..Size-1 /\ Lines \subseteq 0..Size-1
         /\ \A i \in 0..Size-1 : stabs[i].value \in Nat
         /\ 0 \notin Files
         /\ Files \cap Functions = {} /\ Functions \cap Lines = {} /\ Files \cap Lines = {}
<1>1. Size \in Nat /\ Size # 0
  BY SizeAssumption DEF SizeAssumption
<1>2. \A i \in 0..Size-1 : stabs[i] \in Stab
  BY DEF GivenTable, Table
<1>3. \A i \in 0..Size-1 : stabs[i].value \in Nat
  BY <1>2, AddressAssumption DEF AddressAssumption, Stab
<1>4. stabs[0].type = "header"
  BY DEF GivenTable, WellFormed
<1> QED
  BY <1>1, <1>3, <1>4 DEF Files, Functions, Lines

LEMMA FileKnown ==
  ASSUME GivenTable, NEW f, NEW e, FileSpan(f, e)
  PROVE  /\ f \in 0..Size-1 /\ e \in f..Size-1
         /\ Covers(Files, eip) # {} /\ File = f /\ FileEnd(f) = e
         /\ InFile = {i \in Functions : f < i /\ i <= e}
<1>e. /\ Size \in Nat /\ Files \subseteq Int /\ Files \subseteq 0..Size-1
      /\ \A i \in 0..Size-1 : stabs[i].value \in Nat
  BY EntryFacts
<1>f. /\ f \in Files /\ stabs[f].value <= eip /\ e \in f..Size-1
      /\ \A i \in Files : i > f => stabs[i].value > eip /\ i > e
      /\ e = Size-1 \/ e + 1 \in Files
  BY DEF FileSpan
<1>t. eip \in Nat /\ f \in 0..Size-1 /\ f \in Int /\ e \in Int
  BY <1>e, <1>f DEF GivenTable
<1>1. f \in Covers(Files, eip) /\ Covers(Files, eip) \in SUBSET Int
  BY <1>e, <1>f DEF Covers
<1>2. \A i \in Covers(Files, eip) : i <= f
  BY <1>e, <1>f, <1>t DEF Covers
<1>3. File = f
  BY <1>1, <1>2, MaxIs DEF File
<1>4. FileEnd(f) = e
  <2> DEFINE S == {i \in Files : i > f} \cup {Size}
  <2>1. S \subseteq Int
    <3> SUFFICES ASSUME NEW x \in S PROVE x \in Int
      OBVIOUS
    <3>1. CASE x = Size
      BY <3>1, <1>e
    <3>2. CASE x # Size
      BY <3>2, <1>e
    <3> QED
      BY <3>1, <3>2
  <2>2. e + 1 \in S
    BY <1>e, <1>f, <1>t
  <2>3. \A i \in S : e + 1 <= i
    BY <1>e, <1>f, <1>t
  <2>4. Min(S) = e + 1
    <3> HIDE DEF S
    <3> QED
      BY <2>1, <2>2, <2>3, MinIs
  <2> QED
    BY <2>4, <1>t DEF FileEnd
<1> QED
  BY <1>1, <1>3, <1>4, <1>f, <1>t DEF InFile, InRange

LEMMA FunctionKnown ==
  ASSUME GivenTable, NEW f, NEW e, FileSpan(f, e), NEW g, NEW h, FunctionSpan(f, e, g, h)
  PROVE  /\ g \in 0..Size-1 /\ h \in g..Size-1
         /\ InFile # {} /\ Function = g /\ FunctionEnd(g) = h
         /\ InFunction = {i \in Lines : g < i /\ i <= h}
         /\ Offset = eip - stabs[g].value /\ Offset \in Nat
<1>e. /\ Size \in Nat /\ Files \subseteq Int /\ Functions \subseteq Int
      /\ Files \subseteq 0..Size-1 /\ Functions \subseteq 0..Size-1
      /\ \A i \in 0..Size-1 : stabs[i].value \in Nat
  BY EntryFacts
<1>k. /\ f \in 0..Size-1 /\ e \in f..Size-1
      /\ InFile = {i \in Functions : f < i /\ i <= e}
  BY FileKnown
<1>f. /\ \A i \in Files : i > f => i > e
      /\ e = Size-1 \/ e + 1 \in Files
  BY DEF FileSpan
<1>g. /\ g \in Functions /\ f < g /\ stabs[g].value <= eip /\ h \in g..e
      /\ \A i \in Functions : g < i /\ i <= e => stabs[i].value > eip /\ i > h
      /\ h = e \/ h + 1 \in Functions
  BY DEF FunctionSpan
<1>t. eip \in Nat /\ f \in Int /\ e \in Int /\ g \in 0..Size-1 /\ g \in Int /\ h \in Int
  BY <1>e, <1>k, <1>g DEF GivenTable
<1>1. g \in InFile
  BY <1>k, <1>g, <1>t
<1>2. g \in Covers(InFile, eip) /\ Covers(InFile, eip) \in SUBSET Int
  BY <1>1, <1>e, <1>k, <1>g DEF Covers
<1>6. \A i \in Covers(InFile, eip) : i <= g
  <2> SUFFICES ASSUME NEW i \in Covers(InFile, eip) PROVE i <= g
    OBVIOUS
  <2>1. i \in Functions /\ i <= e /\ stabs[i].value <= eip
    BY <1>k DEF Covers
  <2>2. i \in Int /\ stabs[i].value \in Nat
    BY <2>1, <1>e
  <2>3. g < i => stabs[i].value > eip
    BY <2>1, <1>g
  <2> QED
    BY <2>1, <2>2, <2>3, <1>t
<1>3. Function = g /\ InFile # {}
  BY <1>1, <1>2, <1>6, MaxIs DEF Function
<1>4. FunctionEnd(g) = h
  <2> DEFINE S == {i \in Files \cup Functions : i > g} \cup {Size}
  <2>1. S \subseteq Int
    <3> SUFFICES ASSUME NEW x \in S PROVE x \in Int
      OBVIOUS
    <3>1. CASE x = Size
      BY <3>1, <1>e
    <3>2. CASE x # Size
      BY <3>2, <1>e
    <3> QED
      BY <3>1, <3>2
  <2>2. \A i \in S : h + 1 <= i
    BY <1>e, <1>f, <1>g, <1>k, <1>t
  <2>3. h + 1 \in S
    BY <1>e, <1>f, <1>g, <1>k, <1>t
  <2>4. Min(S) = h + 1
    <3> HIDE DEF S
    <3> QED
      BY <2>1, <2>2, <2>3, MinIs
  <2> QED
    BY <2>4, <1>t DEF FunctionEnd
<1>5. Offset = eip - stabs[g].value /\ Offset \in Nat
  BY <1>3, <1>e, <1>g, <1>t DEF Offset
<1>7. InFunction = {i \in Lines : g < i /\ i <= h}
  BY <1>3, <1>4 DEF InFunction, InRange
<1>8. h \in g..Size-1
  BY <1>g, <1>k, <1>e, <1>t
<1> QED
  BY <1>3, <1>4, <1>5, <1>7, <1>8, <1>t

LEMMA LineKnown ==
  ASSUME GivenTable, NEW f, NEW e, FileSpan(f, e), NEW g, NEW h, FunctionSpan(f, e, g, h),
         NEW m, LineAt(g, h, m)
  PROVE  Max(Covers(InFunction, Offset)) = m
<1>e. /\ Lines \subseteq Int /\ Lines \subseteq 0..Size-1
      /\ \A i \in 0..Size-1 : stabs[i].value \in Nat
  BY EntryFacts
<1>k. /\ InFunction = {i \in Lines : g < i /\ i <= h}
      /\ Offset = eip - stabs[g].value /\ Offset \in Nat
  BY FunctionKnown
<1>n. /\ m \in Lines /\ g < m /\ m <= h /\ stabs[m].value <= Offset
      /\ \A i \in Lines : m < i /\ i <= h => stabs[i].value > Offset
  BY <1>k DEF LineAt
<1>1. m \in Covers(InFunction, Offset) /\ Covers(InFunction, Offset) \in SUBSET Int
  BY <1>e, <1>k, <1>n DEF Covers
<1>2. \A i \in Covers(InFunction, Offset) : i <= m
  <2> SUFFICES ASSUME NEW i \in Covers(InFunction, Offset) PROVE i <= m
    OBVIOUS
  <2>1. i \in Lines /\ i <= h /\ stabs[i].value <= Offset
    BY <1>k DEF Covers
  <2>2. i \in Int /\ m \in Int /\ stabs[i].value \in Nat
    BY <2>1, <1>e, <1>n
  <2>3. m < i => stabs[i].value > Offset
    BY <2>1, <1>n
  <2> QED
    BY <2>1, <2>2, <2>3, <1>k
<1> QED
  BY <1>1, <1>2, MaxIs

\* The two ends of a search.
NothingFound ==
  /\ \A i \in lo..hi : Match(i) => stabs[i].value > goal
  /\ left = lo
  /\ (\A i \in lo..hi : i > lo => ~Match(i)) \/ Match(lo) => left > right

Bracketed ==
  /\ Match(left) /\ stabs[left].value <= goal
  /\ right \in left..hi
  /\ \A i \in lo..hi : i > left /\ Match(i) => stabs[i].value > goal /\ i > right
  /\ right = hi \/ (right + 1 \in lo..hi /\ Match(right + 1))

LEMMA SearchSays ==
  ASSUME Inv, Apart, pc = "done"
  PROVE  /\ lo \in 0..Size-1 /\ hi \in lo..Size-1 /\ left \in lo..hi /\ right \in Int
         /\ NothingFound \/ Bracketed
<1>1. TypeOK /\ Found /\ NotFoundIfFirst /\ (left \in Hits \/ left = lo)
  BY DEF Inv, SearchInv
<1>2. /\ lo \in Int /\ hi \in Int /\ lo <= hi /\ Index = lo..hi
      /\ \A i \in Index : stabs[i] \in Stab /\ i \in Int
  BY <1>1, RegionFacts
<1>3. \A i \in Index : stabs[i].value \in Nat
  BY <1>2, AddressAssumption DEF AddressAssumption, Stab
<1>4. goal \in Nat /\ left \in Index /\ right \in Int /\ right <= hi
  BY <1>1, <1>2 DEF TypeOK
<1>5. lo \in 0..Size-1 /\ hi \in lo..Size-1
  BY <1>1, <1>2, SizeAssumption DEF TypeOK, Region, SizeAssumption
<1>6. CASE Hits = {}
  <2>1. \A i \in lo..hi : Match(i) => stabs[i].value > goal
    BY <1>2, <1>3, <1>4, <1>6 DEF Hits
  <2>2. left = lo
    BY <1>1, <1>6
  <2>3. (\A i \in lo..hi : i > lo => ~Match(i)) => Later(lo) = {}
    BY <1>2 DEF Later
  <2>4. Later(lo) = {} \/ Match(lo) => left > right
    BY <1>1, <1>6 DEF NotFoundIfFirst
  <2> QED
    BY <1>2, <1>4, <1>5, <2>1, <2>2, <2>3, <2>4 DEF NothingFound
<1>7. CASE Hits # {}
  <2>1. Brackets
    BY <1>1, <1>7 DEF Found
  <2>2. left \in Hits /\ \A i \in Hits : i <= left
    BY <2>1 DEF Brackets, IsLast
  <2>3. \/ right + 1 \in Later(left) /\ \A j \in Later(left) : j >= right + 1
        \/ right = hi /\ Later(left) = {}
    BY <2>1 DEF Brackets
  <2>4. Match(left) /\ stabs[left].value <= goal
    BY <2>2 DEF Hits
  <2>5. \A i \in lo..hi : i > left /\ Match(i) => stabs[i].value > goal
    <3> SUFFICES ASSUME NEW i \in Index, i > left, Match(i), stabs[i].value <= goal PROVE FALSE
      BY <1>2, <1>3, <1>4
    <3>1. i \in Hits
      BY DEF Hits
    <3> QED
      BY <3>1, <2>2, <1>2, <1>4
  <2>6. \A i \in lo..hi : i > left /\ Match(i) => i > right
    BY <2>3, <1>2, <1>4 DEF Later
  <2>7. right \in left..hi
    BY <2>3, <1>2, <1>4 DEF Later
  <2>8. right = hi \/ (right + 1 \in lo..hi /\ Match(right + 1))
    BY <2>3, <1>2, <1>4 DEF Later
  <2>9. Bracketed
    BY <2>4, <2>5, <2>6, <2>7, <2>8 DEF Bracketed
  <2> QED
    BY <2>9, <1>2, <1>4, <1>5
<1> QED
  BY <1>6, <1>7

Searching(t, a, first, last) == type = t /\ goal = a /\ lo = first /\ hi = last /\ Inv

LEMMA FileAnswer ==
  ASSUME GivenTable, Searching("SO", eip, 0, Size - 1), NoneNext(Files, eip), pc = "done"
  PROVE  /\ Covers(Files, eip) = {} => left = 0
         /\ Covers(Files, eip) # {} => left # 0 /\ FileSpan(left, right)
<1>e. /\ Size \in Nat /\ Files \subseteq 0..Size-1 /\ 0 \notin Files /\ eip \in Nat
      /\ \A i \in 0..Size-1 : stabs[i].value \in Nat
  BY EntryFacts DEF GivenTable
<1>1. /\ lo = 0 /\ hi = Size - 1 /\ goal = eip /\ Inv
      /\ \A i \in 0..Size-1 : Match(i) <=> i \in Files
  BY DEF Searching, Match, Files
<1>2. Apart
  BY <1>1 DEF NoneNext, Apart, Index
<1>3. left \in 0..Size-1 /\ right \in Int /\ (NothingFound \/ Bracketed)
  BY <1>1, <1>2, SearchSays
<1>4. CASE NothingFound
  <2>1. \A i \in Files : ~(stabs[i].value <= eip)
    BY <1>1, <1>4, <1>e DEF NothingFound
  <2>2. Covers(Files, eip) = {}
    BY <2>1 DEF Covers
  <2> QED
    BY <1>1, <1>4, <2>2 DEF NothingFound
<1>5. CASE Bracketed
  <2>1. left \in Files /\ stabs[left].value <= eip /\ right \in left..Size-1
    BY <1>1, <1>3, <1>5 DEF Bracketed
  <2>2. \A i \in Files : i > left => stabs[i].value > eip /\ i > right
    BY <1>1, <1>5, <1>e DEF Bracketed
  <2>3. right = Size-1 \/ right + 1 \in Files
    BY <1>1, <1>5 DEF Bracketed
  <2>4. FileSpan(left, right)
    BY <2>1, <2>2, <2>3 DEF FileSpan
  <2>5. Covers(Files, eip) # {}
    BY <2>1 DEF Covers
  <2> QED
    BY <2>1, <2>4, <2>5, <1>e
<1> QED
  BY <1>3, <1>4, <1>5

LEMMA FunctionAnswer ==
  ASSUME GivenTable, FileSpan(lfile, rfile), Searching("FUN", eip, lfile, rfile),
         NoneNext(InFile, eip), pc = "done"
  PROVE  /\ left \in Int /\ right \in Int
         /\ InFile = {} => left > right
         /\ InFile # {} => left <= right /\ FunctionSpan(lfile, rfile, left, right)
<1>e. /\ Size \in Nat /\ Functions \subseteq 0..Size-1 /\ Files \cap Functions = {} /\ eip \in Nat
      /\ \A i \in 0..Size-1 : stabs[i].value \in Nat
  BY EntryFacts DEF GivenTable
<1>f. /\ lfile \in 0..Size-1 /\ rfile \in lfile..Size-1 /\ FileEnd(lfile) = rfile
      /\ InFile = {i \in Functions : lfile < i /\ i <= rfile}
  BY FileKnown
<1>l. lfile \in Files /\ stabs[lfile].value <= eip
  BY DEF FileSpan
<1>1. /\ lo = lfile /\ hi = rfile /\ goal = eip /\ Inv
      /\ \A i \in 0..Size-1 : Match(i) <=> i \in Functions
  BY DEF Searching, Match, Functions
<1>2. \A i \in lo..hi : Match(i) <=> i \in InFile
  BY <1>1, <1>e, <1>f, <1>l
<1>3. Apart
  BY <1>1, <1>2 DEF NoneNext, Apart, Index
<1>4. left \in lo..hi /\ right \in Int /\ (NothingFound \/ Bracketed)
  BY <1>1, <1>3, SearchSays
<1>i. left \in Int /\ right \in Int
  BY <1>1, <1>4, <1>f
<1>5. CASE InFile = {}
  BY <1>2, <1>4, <1>5 DEF NothingFound, Bracketed
<1>6. CASE InFile # {}
  <2>0. FileFormed(lfile) /\ InFile = InRange(Functions, lfile, FileEnd(lfile))
    BY <1>f, <1>l DEF GivenTable, WellFormed, InRange
  <2>1. PICK i \in InFile : stabs[i].value = stabs[lfile].value
    BY <2>0, <1>6 DEF FileFormed
  <2>2. i \in lo..hi /\ Match(i) /\ stabs[i].value <= goal /\ stabs[i].value \in Nat
    <3>1. i \in 0..Size-1 /\ lfile \in 0..Size-1 /\ i \in lo..hi /\ i \in Functions
      BY <1>1, <1>e, <1>f, <1>l
    <3>2. stabs[i].value <= goal
      BY <2>1, <1>1, <1>l
    <3> QED
      BY <3>1, <3>2, <1>1, <1>e
  <2>3. Bracketed
    BY <2>2, <1>1, <1>4, <1>e DEF NothingFound
  <2>4. left \in InFile /\ stabs[left].value <= eip /\ right \in left..rfile
    BY <2>3, <1>1, <1>2, <1>4 DEF Bracketed
  <2>5. \A j \in Functions : left < j /\ j <= rfile => stabs[j].value > eip /\ j > right
    BY <2>3, <2>4, <1>1, <1>e, <1>f DEF Bracketed
  <2>6. right = rfile \/ right + 1 \in Functions
    BY <2>3, <1>1, <1>2, <1>f DEF Bracketed
  <2>7. left \in Functions /\ lfile < left /\ left <= right
    BY <2>4, <1>f, <1>e
  <2> QED
    BY <2>4, <2>5, <2>6, <2>7, <1>6, <1>i DEF FunctionSpan
<1> QED
  BY <1>5, <1>6, <1>i

LEMMA LineAnswer ==
  ASSUME GivenTable, FileSpan(lfile, rfile), FunctionSpan(lfile, rfile, lfun, rfun),
         Searching("SLINE", eip - stabs[lfun].value, lfun, rfun),
         NoneNext(InFunction, Offset), pc = "done"
  PROVE  LineAt(lfun, rfun, left)
<1>e. /\ Size \in Nat /\ Lines \subseteq 0..Size-1 /\ Functions \cap Lines = {} /\ eip \in Nat
      /\ \A i \in 0..Size-1 : stabs[i].value \in Nat
  BY EntryFacts DEF GivenTable
<1>f. /\ lfun \in 0..Size-1 /\ rfun \in lfun..Size-1 /\ FunctionEnd(lfun) = rfun
      /\ InFunction = {i \in Lines : lfun < i /\ i <= rfun}
      /\ Offset = eip - stabs[lfun].value /\ Offset \in Nat
  BY FunctionKnown
<1>l. lfun \in Functions
  BY DEF FunctionSpan
<1>1. /\ lo = lfun /\ hi = rfun /\ goal = Offset /\ Inv
      /\ \A i \in 0..Size-1 : Match(i) <=> i \in Lines
  BY <1>f DEF Searching, Match, Lines
<1>2. \A i \in lo..hi : Match(i) <=> i \in InFunction
  BY <1>1, <1>e, <1>f, <1>l
<1>3. Apart
  BY <1>1, <1>2 DEF NoneNext, Apart, Index
<1>4. left \in lo..hi /\ right \in Int /\ (NothingFound \/ Bracketed)
  BY <1>1, <1>3, SearchSays
<1>0. FunctionFormed(lfun) /\ InFunction = InRange(Lines, lfun, FunctionEnd(lfun))
  BY <1>f, <1>l DEF GivenTable, WellFormed, InRange
<1>5. PICK i \in InFunction : stabs[i].value = 0
  BY <1>0 DEF FunctionFormed, IsFirst
<1>6. i \in lo..hi /\ Match(i)
  BY <1>5, <1>1, <1>e, <1>f, <1>l
<1>7. Bracketed
  BY <1>5, <1>6, <1>1, <1>4, <1>f DEF NothingFound
<1>8. left \in InFunction /\ stabs[left].value <= Offset
  BY <1>7, <1>1, <1>2, <1>4 DEF Bracketed
<1>9. \A j \in Lines : left < j /\ j <= rfun => stabs[j].value > Offset
  BY <1>7, <1>8, <1>1, <1>e, <1>f DEF Bracketed
<1> QED
  BY <1>8, <1>9, <1>f DEF LineAt

\* A search is called right when the entries of its type are in order in its region.
LEMMA SearchCalled ==
  ASSUME stabs \in Table, stabs' = stabs,
         goal' \in Nat, lo' \in 0..Size-1, hi' \in lo'..Size-1,
         \A i, j \in lo'..hi' : i < j /\ stabs[i].type = type' /\ stabs[j].type = type' =>
            stabs[i].value <= stabs[j].value,
         left' = lo', right' = hi', l' = lo', r' = hi',
         addr' = goal', any_matches' = FALSE, pc' = "search"
  PROVE  Inv'
<1>1. InputsOK'
  BY SizeAssumption DEF SizeAssumption, InputsOK, Region
<1>2. Sorted'
  BY DEF Sorted, Index, Match
<1>3. Called'
  BY <1>1, <1>2 DEF Called
<1>4. (Called => Inv)'
  BY CalledInv, PTL
<1> QED
  BY <1>3, <1>4

LEMMA FilesInOrder ==
  ASSUME GivenTable
  PROVE  \A i, j \in Files : i < j => stabs[i].value <= stabs[j].value
<1>1. Ordered(Files)
  BY DEF GivenTable, WellFormed
<1> QED
  BY <1>1 DEF Ordered

LEMMA FunctionsInOrder ==
  ASSUME GivenTable, NEW f, NEW e, FileSpan(f, e)
  PROVE  \A i, j \in f..e : i < j /\ i \in Functions /\ j \in Functions =>
           stabs[i].value <= stabs[j].value
<1>1. /\ InFile = {i \in Functions : f < i /\ i <= e} /\ FileEnd(f) = e
      /\ f \in 0..Size-1 /\ e \in f..Size-1 /\ f \in Files /\ Files \cap Functions = {}
  BY FileKnown, EntryFacts DEF FileSpan
<1>2. Ordered(InFile)
  <2>1. FileFormed(f) /\ InFile = InRange(Functions, f, FileEnd(f))
    BY <1>1 DEF GivenTable, WellFormed, InRange
  <2> QED
    BY <2>1 DEF FileFormed
<1>3. \A i \in f..e : i \in Functions => i \in InFile
  BY <1>1, EntryFacts
<1> QED
  BY <1>2, <1>3 DEF Ordered

LEMMA LinesInOrder ==
  ASSUME GivenTable, NEW f, NEW e, FileSpan(f, e), NEW g, NEW h, FunctionSpan(f, e, g, h)
  PROVE  \A i, j \in g..h : i < j /\ i \in Lines /\ j \in Lines =>
           stabs[i].value <= stabs[j].value
<1>1. /\ InFunction = {i \in Lines : g < i /\ i <= h} /\ FunctionEnd(g) = h
      /\ g \in 0..Size-1 /\ h \in g..Size-1 /\ g \in Functions /\ Functions \cap Lines = {}
  BY FunctionKnown, EntryFacts DEF FunctionSpan
<1>2. Ordered(InFunction)
  <2>1. FunctionFormed(g) /\ InFunction = InRange(Lines, g, FunctionEnd(g))
    BY <1>1 DEF GivenTable, WellFormed, InRange
  <2> QED
    BY <2>1 DEF FunctionFormed
<1>3. \A i \in g..h : i \in Lines => i \in InFunction
  BY <1>1, EntryFacts
<1> QED
  BY <1>2, <1>3 DEF Ordered

\* The loop over the parameters counts them all when they come first.
LEMMA ArgumentsAre ==
  ASSUME GivenTable, FileSpan(lfile, rfile), FunctionSpan(lfile, rfile, lfun, rfun),
         ParametersFirst
  PROVE  Arguments = Cardinality(Parameters)
<1>1. /\ lfun \in 0..Size-1 /\ rfun \in lfun..Size-1 /\ Function = lfun /\ FunctionEnd(lfun) = rfun
      /\ lfun \in Functions
  BY FunctionKnown DEF FunctionSpan
<1>2. lfun \in Int /\ rfun \in Int
  BY <1>1, SizeAssumption DEF SizeAssumption
<1>3. PICK first \in lfun+1..rfun : \A i \in lfun+1..rfun : stabs[i].type = "PSYM" <=> i < first
  BY <1>1 DEF ParametersFirst
<1>4. Arguments = first - (lfun + 1)
  <2> DEFINE S == {i \in lfun+1..rfun : i = rfun \/ stabs[i].type # "PSYM"}
  <2>1. S \subseteq Int /\ first \in S
    BY <1>2, <1>3
  <2>2. \A i \in S : first <= i
    BY <1>2, <1>3
  <2>3. Min(S) = first
    <3> HIDE DEF S
    <3> QED
      BY <2>1, <2>2, MinIs
  <2>4. ~(lfun >= rfun)
    BY <1>2, <1>3
  <2> QED
    BY <2>3, <2>4 DEF Arguments
<1>5. Parameters = lfun+1..first-1
  BY <1>1, <1>2, <1>3 DEF Parameters
<1>6. Cardinality(lfun+1..first-1) = first - (lfun + 1)
  <2>1. lfun + 1 \in Int /\ first - 1 \in Int /\ first >= lfun + 1
    BY <1>2, <1>3
  <2>2. Cardinality(lfun+1..first-1) =
          IF lfun + 1 > first - 1 THEN 0 ELSE first - 1 - (lfun + 1) + 1
    BY <2>1, FS_Interval
  <2> QED
    BY <2>1, <2>2, <1>2
<1> QED
  BY <1>1, <1>4, <1>5, <1>6

\* The loop back from the line stops at the entry that names its file.
LEMMA SourceIs ==
  ASSUME GivenTable, FileSpan(lfile, rfile), FunctionSpan(lfile, rfile, lfun, rfun),
         LineAt(lfun, rfun, left)
  PROVE  SourceName = Name(Max({i \in File..left : stabs[i].type \in {"SO", "SOL"}}))
<1>1. /\ lfile \in 0..Size-1 /\ lfun \in 0..Size-1 /\ File = lfile /\ lfile \in Files
      /\ lfile < lfun /\ left \in Lines /\ lfun < left
  BY FileKnown, FunctionKnown DEF FileSpan, FunctionSpan, LineAt
<1>2. left \in 0..Size-1 /\ lfile \in lfile..left
  BY <1>1, EntryFacts
<1>3. \A i \in Files : stabs[i].value > 0 /\ stabs[i].value # 0
  BY EntryFacts DEF GivenTable, WellFormed
<1> DEFINE S == {i \in lfile..left : \/ stabs[i].type = "SOL"
                                     \/ stabs[i].type = "SO" /\ stabs[i].value # 0}
           N == {i \in File..left : stabs[i].type \in {"SO", "SOL"}}
<1>4. \A i \in lfile..left : stabs[i].type = "SO" => i \in Files
  BY <1>1, <1>2, EntryFacts DEF Files
<1>5. S = N
  BY <1>1, <1>3, <1>4
<1>6. lfile \in S
  BY <1>1, <1>2, <1>3 DEF Files
<1> QED
  BY <1>5, <1>6 DEF SourceName

\* Begun at the entry of the file it stops there.
LEMMA SourceOfFile ==
  ASSUME GivenTable, FileSpan(lfile, rfile), left = lfile
  PROVE  SourceName = Name(File)
<1>1. lfile \in 0..Size-1 /\ lfile \in Int /\ File = lfile /\ lfile \in Files
  BY FileKnown, EntryFacts DEF FileSpan
<1>2. stabs[lfile].type = "SO" /\ stabs[lfile].value # 0
  <2>1. stabs[lfile].value > 0 /\ stabs[lfile].value \in Nat
    BY <1>1, EntryFacts DEF GivenTable, WellFormed
  <2> QED
    BY <2>1, <1>1 DEF Files
<1> DEFINE S == {i \in lfile..left : \/ stabs[i].type = "SOL"
                                     \/ stabs[i].type = "SO" /\ stabs[i].value # 0}
<1>3. S \in SUBSET Int /\ lfile \in S /\ \A i \in S : i <= lfile
  BY <1>1, <1>2
<1>4. Max(S) = lfile
  <2> HIDE DEF S
  <2> QED
    BY <1>3, MaxIs
<1> QED
  BY <1>1, <1>3, <1>4 DEF SourceName

----------------------------------------------------------------------------
(* debuginfo_eip: what it knows at each place.                             *)

InfoFields ==
  info = [file |-> info.file, line |-> info.line, fn |-> info.fn, addr |-> info.addr, narg |-> info.narg]

FunctionKept ==
  /\ FunctionSpan(lfile, rfile, lfun, rfun)
  /\ info.fn = Name(lfun) /\ info.addr = stabs[lfun].value

NothingKnown == info.fn = Unknown /\ info.line = 0

FilePart ==
  at = "file" => Searching("SO", eip, 0, Size - 1) /\ NothingKnown

FileKept ==
  at \in {"function", "line", "rest"} /\ NoneNext(Files, eip) => FileSpan(lfile, rfile)

FunctionPart ==
  at = "function" =>
    /\ NothingKnown
    /\ NoneNext(Files, eip) => Searching("FUN", eip, lfile, rfile)

LinePart ==
  at = "line" /\ NoneNext(Files, eip) /\ NoneNext(InFile, eip) =>
    /\ InFile # {} /\ FunctionKept
    /\ Searching("SLINE", eip - stabs[lfun].value, lfun, rfun)

RestPart ==
  at = "rest" /\ NoneNext(Files, eip) /\ NoneNext(InFile, eip) =>
    /\ InFile = {} => NothingKnown /\ info.addr = eip /\ left = lfile
    /\ InFile # {} => FunctionKept
    /\ InFile # {} /\ NoneNext(InFunction, Offset) =>
         LineAt(lfun, rfun, left) /\ info.line = left

DebugInv ==
  at # "alone" =>
    /\ GivenTable /\ InfoFields
    /\ at = "check" => NothingKnown
    /\ at \in {"check", "rest", "end"} => pc = "done"
    /\ FilePart /\ FileKept /\ FunctionPart /\ LinePart /\ RestPart
    /\ InfoRight

\* What is said of the table alone stays true.
LEMMA TableKept ==
  ASSUME UNCHANGED <<stabs, given>>
  PROVE  /\ eip' = eip /\ stabs' = stabs
         /\ GivenTable' <=> GivenTable
         /\ Files' = Files /\ InFile' = InFile /\ InFunction' = InFunction /\ Offset' = Offset
         /\ NoneNext(Files, eip)' <=> NoneNext(Files, eip)
         /\ NoneNext(InFile, eip)' <=> NoneNext(InFile, eip)
         /\ NoneNext(InFunction, Offset)' <=> NoneNext(InFunction, Offset)
         /\ Covers(Files, eip)' = Covers(Files, eip)
         /\ File' = File /\ Function' = Function
         /\ Parameters' = Parameters /\ Name(Function)' = Name(Function)
         /\ Name(File)' = Name(File) /\ (ParametersFirst' <=> ParametersFirst)
         /\ \A i : Name(i)' = Name(i)
<1>1. eip' = eip /\ stabs' = stabs /\ named' = named
  BY DEF given
<1>2. Files' = Files /\ Functions' = Functions /\ Lines' = Lines
  BY <1>1 DEF Files, Functions, Lines
<1>3. Covers(Files, eip)' = Covers(Files, eip) /\ File' = File
  BY <1>1, <1>2 DEF Covers, File
<1>4. \A i : FileEnd(i)' = FileEnd(i) /\ FunctionEnd(i)' = FunctionEnd(i)
  BY <1>1, <1>2 DEF FileEnd, FunctionEnd
<1>5. InFile' = InFile
  BY <1>2, <1>3, <1>4 DEF InFile, InRange
<1>6. Function' = Function
  BY <1>1, <1>5 DEF Function, Covers
<1>7. InFunction' = InFunction /\ Offset' = Offset
  BY <1>1, <1>2, <1>4, <1>6 DEF InFunction, Offset, InRange
<1>8. WellFormed' <=> WellFormed
  <2>1. \A f : FileFormed(f)' <=> FileFormed(f)
    BY <1>1, <1>2, <1>4 DEF FileFormed, Ordered, IsFirst, InRange
  <2>2. \A f : FunctionFormed(f)' <=> FunctionFormed(f)
    BY <1>1, <1>2, <1>4 DEF FunctionFormed, Ordered, IsFirst, InRange
  <2> QED
    BY <2>1, <2>2, <1>1, <1>2 DEF WellFormed, Ordered
<1>9. GivenTable' <=> GivenTable
  BY <1>1, <1>8 DEF GivenTable, Table, Stab
<1>10. /\ NoneNext(Files, eip)' <=> NoneNext(Files, eip)
       /\ NoneNext(InFile, eip)' <=> NoneNext(InFile, eip)
       /\ NoneNext(InFunction, Offset)' <=> NoneNext(InFunction, Offset)
  BY <1>1, <1>2, <1>5, <1>7 DEF NoneNext
<1>11. \A i : Name(i)' = Name(i)
  BY <1>1 DEF Name
<1>12. Parameters' = Parameters /\ Name(Function)' = Name(Function)
  <2>1. FunctionEnd(Function)' = FunctionEnd(Function) /\ Name(Function)' = Name(Function)
    BY <1>1, <1>2, <1>6 DEF FunctionEnd, Name
  <2> QED
    BY <2>1, <1>1, <1>6 DEF Parameters
<1>13. Name(File)' = Name(File) /\ (ParametersFirst' <=> ParametersFirst)
  <2>1. FunctionEnd(Function)' = FunctionEnd(Function) /\ Name(File)' = Name(File)
    BY <1>1, <1>2, <1>3, <1>6 DEF FunctionEnd, Name
  <2> QED
    BY <2>1, <1>1, <1>6 DEF ParametersFirst
<1> QED
  BY <1>1, <1>2, <1>3, <1>5, <1>6, <1>7, <1>9, <1>10, <1>11, <1>12, <1>13

\* What has been found stays found.
LEMMA SpansKept ==
  ASSUME UNCHANGED <<stabs, given, lfile, rfile, lfun, rfun>>
  PROVE  /\ FileSpan(lfile, rfile)' <=> FileSpan(lfile, rfile)
         /\ FunctionSpan(lfile, rfile, lfun, rfun)' <=> FunctionSpan(lfile, rfile, lfun, rfun)
BY DEF given, FileSpan, FunctionSpan, Files, Functions

LEMMA DebugInitInv == DebugInit => DebugInv
<1> SUFFICES ASSUME DebugInit, at # "alone" PROVE DebugInv
  BY DEF DebugInv
<1>1. /\ at = "check" /\ stabs \in Tables /\ WellFormed /\ eip \in Address /\ pc = "done"
      /\ info = [file |-> Unknown, line |-> 0, fn |-> Unknown, addr |-> eip, narg |-> 0]
  BY DEF DebugInit
<1>2. GivenTable
  BY <1>1, TablesAssumption, AddressAssumption DEF TablesAssumption, AddressAssumption, GivenTable
<1>3. InfoFields /\ NothingKnown
  BY <1>1 DEF InfoFields, NothingKnown
<1> QED
  BY <1>1, <1>2, <1>3
    DEF DebugInv, FilePart, FileKept, FunctionPart, LinePart, RestPart, InfoRight, Located, LineRight

LEMMA SearchStepKeeps ==
  ASSUME DebugInv, SearchStep
  PROVE  DebugInv'
<1> SUFFICES ASSUME at # "alone" PROVE DebugInv'
  BY DEF DebugInv, SearchStep
<1>1. Next /\ pc = "search" /\ UNCHANGED <<at, given, places, info, result>>
      /\ UNCHANGED <<stabs, type, goal, lo, hi>>
  BY DEF SearchStep, Next, NoCandidate, Compare, Finish, inputs
<1>2. UNCHANGED <<stabs, given, lfile, rfile, lfun, rfun>> /\ UNCHANGED <<at, info, result, type, goal, lo, hi>>
  BY <1>1 DEF places
<1>3. /\ GivenTable /\ InfoFields /\ (at = "check" => NothingKnown)
      /\ at \notin {"check", "rest", "end"}
      /\ FilePart /\ FileKept /\ FunctionPart /\ LinePart
  BY <1>1 DEF DebugInv
<1>4. GivenTable' /\ InfoFields'
  BY <1>2, <1>3, TableKept DEF InfoFields
<1>5. Inv => Inv'
  BY <1>1, StepInv
<1>6. FilePart'
  BY <1>2, <1>3, <1>5, TableKept DEF FilePart, Searching, NothingKnown
<1>7. FunctionPart'
  <2> SUFFICES ASSUME at = "function", NoneNext(Files, eip)
               PROVE  Searching("FUN", eip, lfile, rfile)'
    BY <1>2, <1>3, TableKept DEF FunctionPart, NothingKnown
  <2>1. Searching("FUN", eip, lfile, rfile)
    BY <1>3 DEF FunctionPart
  <2> QED
    BY <2>1, <1>2, <1>5, TableKept DEF Searching
<1>8. LinePart'
  <2> SUFFICES ASSUME at = "line", NoneNext(Files, eip), NoneNext(InFile, eip)
               PROVE  /\ (InFile # {})' /\ FunctionKept'
                      /\ Searching("SLINE", eip - stabs[lfun].value, lfun, rfun)'
    BY <1>2, <1>3, TableKept DEF LinePart
  <2>1. /\ InFile # {} /\ FunctionKept
        /\ Searching("SLINE", eip - stabs[lfun].value, lfun, rfun)
    BY <1>3 DEF LinePart
  <2>2. FunctionKept'
    BY <2>1, <1>2, TableKept, SpansKept DEF FunctionKept
  <2>3. Searching("SLINE", eip - stabs[lfun].value, lfun, rfun)'
    BY <2>1, <1>2, <1>5, TableKept DEF Searching
  <2> QED
    BY <2>1, <2>2, <2>3, <1>2, TableKept
<1>9. FileKept'
  BY <1>2, <1>3, TableKept, SpansKept DEF FileKept
<1> QED
  BY <1>2, <1>3, <1>4, <1>6, <1>7, <1>8, <1>9
    DEF DebugInv, RestPart, InfoRight, Located, LineRight

\* The first search begins, or none does.
LEMMA CheckKeeps ==
  ASSUME DebugInv, Refuse \/ ReadRest \/ FindFile
  PROVE  DebugInv'
<1>1. at = "check" /\ pc = "done" /\ UNCHANGED <<stabs, given, info>>
  BY DEF Refuse, ReadRest, FindFile, Gives, At
<1>2. GivenTable /\ InfoFields /\ NothingKnown
  BY <1>1 DEF DebugInv
<1>3. GivenTable' /\ InfoFields' /\ NothingKnown'
  BY <1>1, <1>2, TableKept DEF InfoFields, NothingKnown
<1>4. CASE Refuse \/ ReadRest
  <2>1. at' = "end" /\ pc' = "done" /\ obstacle' # "none" /\ result' # "found"
    BY <1>1, <1>4 DEF Refuse, ReadRest, Gives, given, search, Refused
  <2>2. InfoRight'
    BY <2>1 DEF InfoRight, Located, LineRight
  <2> QED
    BY <2>1, <2>2, <1>3 DEF DebugInv, FilePart, FileKept, FunctionPart, LinePart, RestPart
<1>5. CASE FindFile
  <2>1. at' = "file" /\ Search("SO", 0, Size - 1, eip)
    BY <1>5 DEF FindFile
  <2>2. eip' = eip /\ stabs' = stabs /\ stabs \in Table /\ eip \in Nat
    BY <1>1, <1>2 DEF given, GivenTable
  <2>3. \A i, j \in 0..Size-1 : i < j /\ stabs[i].type = "SO" /\ stabs[j].type = "SO" =>
           stabs[i].value <= stabs[j].value
    BY <1>2, FilesInOrder DEF Files
  <2>a. /\ type' = "SO" /\ goal' = eip /\ lo' = 0 /\ hi' = Size - 1
        /\ left' = lo' /\ right' = hi' /\ l' = lo' /\ r' = hi'
        /\ addr' = goal' /\ any_matches' = FALSE /\ pc' = "search"
    BY <2>1 DEF Search
  <2>b. goal' \in Nat /\ lo' \in 0..Size-1 /\ hi' \in lo'..Size-1
    BY <2>2, <2>a, SizeAssumption DEF SizeAssumption
  <2>4. Inv'
    BY <2>a, <2>b, <2>2, <2>3, SearchCalled
  <2>5. FilePart'
    BY <2>1, <2>2, <2>4, <2>a, <1>3 DEF FilePart, Searching
  <2> QED
    BY <2>1, <2>5, <1>3
      DEF DebugInv, FileKept, FunctionPart, LinePart, RestPart, InfoRight, Located, LineRight
<1> QED
  BY <1>4, <1>5

\* The file is known, or there is none.
LEMMA FileKeeps ==
  ASSUME DebugInv, NoFile \/ FindFunction
  PROVE  DebugInv'
<1>1. at = "file" /\ pc = "done" /\ UNCHANGED <<stabs, given, info>>
  BY DEF NoFile, FindFunction, Gives, At
<1>2. /\ GivenTable /\ InfoFields /\ NothingKnown
      /\ Searching("SO", eip, 0, Size - 1)
  BY <1>1 DEF DebugInv, FilePart
<1>3. GivenTable' /\ InfoFields' /\ NothingKnown' /\ eip' = eip /\ stabs' = stabs
  BY <1>1, <1>2, TableKept DEF InfoFields, NothingKnown
<1>4. ASSUME NoneNext(Files, eip)
      PROVE  /\ left = 0 <=> Covers(Files, eip) = {}
             /\ left # 0 => FileSpan(left, right)
  BY <1>1, <1>2, <1>4, FileAnswer
<1>5. CASE NoFile
  <2>1. at' = "end" /\ pc' = "done" /\ result' = "failed" /\ left = 0
    BY <1>1, <1>5 DEF NoFile, Gives, search
  <2>2. NoneNext(Files, eip)' => Covers(Files, eip)' = {}
    BY <1>1, <1>4, <2>1, TableKept
  <2>3. InfoRight'
    BY <2>1, <2>2 DEF InfoRight, Located, LineRight
  <2> QED
    BY <2>1, <2>3, <1>3 DEF DebugInv, FilePart, FileKept, FunctionPart, LinePart, RestPart
<1>6. CASE FindFunction
  <2>1. /\ at' = "function" /\ left # 0 /\ lfile' = left /\ rfile' = right
        /\ type' = "FUN" /\ goal' = eip /\ lo' = left /\ hi' = right
        /\ left' = lo' /\ right' = hi' /\ l' = lo' /\ r' = hi'
        /\ addr' = goal' /\ any_matches' = FALSE /\ pc' = "search"
    BY <1>6 DEF FindFunction, Search
  <2>2. ASSUME NoneNext(Files, eip)
        PROVE  FileSpan(lfile, rfile)' /\ Searching("FUN", eip, lfile, rfile)'
    <3>1. FileSpan(left, right)
      BY <1>4, <2>1, <2>2
    <3>2. left \in 0..Size-1 /\ right \in left..Size-1 /\ stabs \in Table /\ eip \in Nat
      BY <3>1, <1>2, FileKnown DEF GivenTable
    <3>3. \A i, j \in left..right : i < j /\ stabs[i].type = "FUN" /\ stabs[j].type = "FUN" =>
             stabs[i].value <= stabs[j].value
      <4>1. \A i \in left..right : stabs[i].type = "FUN" => i \in Functions
        BY <3>2, SizeAssumption DEF Functions, SizeAssumption
      <4> QED
        BY <3>1, <1>2, <4>1, FunctionsInOrder
    <3>4. Inv'
      BY <2>1, <3>2, <3>3, <1>3, SearchCalled
    <3>5. FileSpan(lfile, rfile)'
      BY <2>1, <3>1, <1>3 DEF FileSpan, Files
    <3> QED
      BY <2>1, <3>4, <3>5, <1>3 DEF Searching
  <2>3. FunctionPart' /\ FileKept'
    BY <2>1, <2>2, <1>1, <1>3, TableKept DEF FunctionPart, FileKept
  <2> QED
    BY <2>1, <2>3, <1>3
      DEF DebugInv, FilePart, LinePart, RestPart, InfoRight, Located, LineRight
<1> QED
  BY <1>5, <1>6

\* The function is known, or there is none.
LEMMA FunctionKeeps ==
  ASSUME DebugInv, FindLine \/ NoFunction
  PROVE  DebugInv'
<1>1. at = "function" /\ pc = "done" /\ UNCHANGED <<stabs, given, lfile, rfile>>
  BY DEF FindLine, NoFunction, At
<1>2. /\ GivenTable /\ InfoFields /\ NothingKnown
      /\ NoneNext(Files, eip) => FileSpan(lfile, rfile) /\ Searching("FUN", eip, lfile, rfile)
  BY <1>1 DEF DebugInv, FunctionPart, FileKept
<1>3. GivenTable' /\ eip' = eip /\ stabs' = stabs
  BY <1>1, <1>2, TableKept
<1>k. at' \in {"line", "rest"} => FileKept'
  <2>1. FileSpan(lfile, rfile)' <=> FileSpan(lfile, rfile)
    BY <1>1, <1>3 DEF FileSpan, Files
  <2> QED
    BY <2>1, <1>1, <1>2, <1>3, TableKept DEF FileKept
<1>4. ASSUME NoneNext(Files, eip), NoneNext(InFile, eip)
      PROVE  /\ FileSpan(lfile, rfile)
             /\ InFile = {} => left > right
             /\ InFile # {} => left <= right /\ FunctionSpan(lfile, rfile, left, right)
             /\ left \in Int /\ right \in Int
  <2>1. FileSpan(lfile, rfile) /\ Searching("FUN", eip, lfile, rfile)
    BY <1>2, <1>4
  <2>2. /\ left \in Int /\ right \in Int
        /\ InFile = {} => left > right
        /\ InFile # {} => left <= right /\ FunctionSpan(lfile, rfile, left, right)
    BY <2>1, <1>1, <1>2, <1>4, FunctionAnswer
  <2> QED
    BY <2>1, <2>2
<1>5. CASE FindLine
  <2>1. /\ at' = "line" /\ left <= right /\ lfun' = left /\ rfun' = right
        /\ info' = [info EXCEPT !.fn = Name(left), !.addr = stabs[left].value]
        /\ type' = "SLINE" /\ goal' = eip - stabs[left].value /\ lo' = left /\ hi' = right
        /\ left' = lo' /\ right' = hi' /\ l' = lo' /\ r' = hi'
        /\ addr' = goal' /\ any_matches' = FALSE /\ pc' = "search"
    BY <1>5 DEF FindLine, Search
  <2>2. InfoFields' /\ info'.fn = Name(left) /\ info'.addr = stabs[left].value
    BY <1>2, <2>1 DEF InfoFields
  <2>3. ASSUME NoneNext(Files, eip), NoneNext(InFile, eip)
        PROVE  /\ (InFile # {})' /\ FunctionKept'
               /\ Searching("SLINE", eip - stabs[lfun].value, lfun, rfun)'
    <3>1. FileSpan(lfile, rfile) /\ InFile # {} /\ FunctionSpan(lfile, rfile, left, right)
      BY <1>4, <2>1, <2>3
    <3>2. /\ left \in 0..Size-1 /\ right \in left..Size-1 /\ eip - stabs[left].value \in Nat
          /\ stabs \in Table
      BY <3>1, <1>2, FunctionKnown DEF GivenTable
    <3>3. \A i, j \in left..right : i < j /\ stabs[i].type = "SLINE" /\ stabs[j].type = "SLINE" =>
             stabs[i].value <= stabs[j].value
      <4>1. \A i \in left..right : stabs[i].type = "SLINE" => i \in Lines
        BY <3>2, SizeAssumption DEF Lines, SizeAssumption
      <4> QED
        BY <3>1, <1>2, <4>1, LinesInOrder
    <3>4. Inv'
      BY <2>1, <3>2, <3>3, <1>3, SearchCalled
    <3>5. FunctionSpan(lfile, rfile, lfun, rfun)'
      BY <2>1, <3>1, <1>1, <1>3 DEF FunctionSpan, Functions
    <3>6. FunctionKept'
      BY <2>1, <2>2, <3>5, <1>1, <1>3, TableKept DEF FunctionKept
    <3>7. (InFile # {})'
      BY <1>1, <3>1, TableKept
    <3> QED
      BY <2>1, <3>4, <3>6, <3>7, <1>3 DEF Searching
  <2>4. LinePart'
    BY <2>1, <2>3, <1>1, <1>3, TableKept DEF LinePart
  <2> QED
    BY <2>1, <2>2, <2>4, <1>3, <1>k
      DEF DebugInv, FilePart, FunctionPart, RestPart, InfoRight, Located, LineRight
<1>6. CASE NoFunction
  <2>1. /\ at' = "rest" /\ left > right /\ info' = [info EXCEPT !.addr = eip]
        /\ pc' = "done" /\ left' = lfile /\ lfile' = lfile
    BY <1>1, <1>6 DEF NoFunction
  <2>2. InfoFields' /\ NothingKnown' /\ info'.addr = eip
    BY <1>2, <2>1 DEF InfoFields, NothingKnown
  <2>3. ASSUME NoneNext(Files, eip), NoneNext(InFile, eip)
        PROVE  InFile = {}
    BY <1>4, <2>1, <2>3
  <2>4. RestPart'
    BY <2>1, <2>2, <2>3, <1>1, <1>3, TableKept DEF RestPart
  <2> QED
    BY <2>1, <2>2, <2>4, <1>3, <1>k
      DEF DebugInv, FilePart, FunctionPart, LinePart, InfoRight, Located, LineRight
<1> QED
  BY <1>5, <1>6

\* The line is known.
LEMMA LineKeeps ==
  ASSUME DebugInv, LineFound
  PROVE  DebugInv'
<1>1. /\ at = "line" /\ pc = "done" /\ at' = "rest" /\ info' = [info EXCEPT !.line = left]
      /\ UNCHANGED <<stabs, given, left, pc, lfile, rfile, lfun, rfun>>
  BY DEF LineFound, At, search, places
<1>2. GivenTable /\ InfoFields /\ LinePart /\ FileKept
  BY <1>1 DEF DebugInv
<1>3. /\ GivenTable' /\ eip' = eip /\ stabs' = stabs
      /\ InfoFields' /\ info'.fn = info.fn /\ info'.addr = info.addr /\ info'.line = left
  BY <1>1, <1>2, TableKept DEF InfoFields
<1>4. ASSUME NoneNext(Files, eip), NoneNext(InFile, eip)
      PROVE  /\ InFile # {} /\ FunctionKept'
             /\ NoneNext(InFunction, Offset) => LineAt(lfun, rfun, left)
  <2>1. /\ FileSpan(lfile, rfile) /\ InFile # {} /\ FunctionKept
        /\ Searching("SLINE", eip - stabs[lfun].value, lfun, rfun)
    BY <1>1, <1>2, <1>4 DEF LinePart, FileKept
  <2>2. FunctionKept'
    BY <2>1, <1>1, <1>3, TableKept, SpansKept DEF FunctionKept
  <2>3. NoneNext(InFunction, Offset) => LineAt(lfun, rfun, left)
    BY <2>1, <1>1, <1>2, LineAnswer DEF FunctionKept
  <2> QED
    BY <2>1, <2>2, <2>3
<1>5. LineAt(lfun, rfun, left)' <=> LineAt(lfun, rfun, left)
  BY <1>1, <1>3 DEF LineAt, Lines
<1>6. RestPart'
  BY <1>1, <1>3, <1>4, <1>5, TableKept DEF RestPart
<1>7. FileKept'
  BY <1>1, <1>2, TableKept, SpansKept DEF FileKept
<1> QED
  BY <1>1, <1>3, <1>6, <1>7
    DEF DebugInv, FilePart, FunctionPart, LinePart, InfoRight, Located, LineRight

\* The two loops and the answer.
LEMMA RestKeeps ==
  ASSUME DebugInv, Rest
  PROVE  DebugInv'
<1>1. /\ at = "rest" /\ at' = "end" /\ result' = "found" /\ pc' = "done"
      /\ info' = [info EXCEPT !.file = SourceName, !.narg = Arguments]
      /\ UNCHANGED <<stabs, given>>
  BY DEF Rest, At, search
<1>2. GivenTable /\ InfoFields /\ RestPart /\ FileKept
  BY <1>1 DEF DebugInv
<1>3. /\ GivenTable' /\ eip' = eip /\ stabs' = stabs
      /\ InfoFields' /\ info'.fn = info.fn /\ info'.addr = info.addr /\ info'.line = info.line
      /\ info'.file = SourceName /\ info'.narg = Arguments
  BY <1>1, <1>2, TableKept DEF InfoFields
<1>4. Located'
  <2> SUFFICES ASSUME NoneNext(Files, eip)
               PROVE  /\ Covers(Files, eip) # {}
                      /\ InFile = {} =>
                           NothingKnown /\ info.addr = eip /\ SourceName = Name(File)
                      /\ InFile # {} /\ NoneNext(InFile, eip) =>
                           /\ info.fn = Name(Function) /\ info.addr = stabs[Function].value
                           /\ ParametersFirst => Arguments = Cardinality(Parameters)
    <3>1. stabs[Function].value' = stabs[Function].value
      BY <1>1, <1>3, TableKept
    <3> QED
      BY <3>1, <1>1, <1>3, TableKept DEF Located, NothingKnown
  <2>1. FileSpan(lfile, rfile) /\ Covers(Files, eip) # {}
    BY <1>1, <1>2, FileKnown DEF FileKept
  <2>2. ASSUME InFile = {}
        PROVE  NothingKnown /\ info.addr = eip /\ SourceName = Name(File)
    <3>1. NoneNext(InFile, eip)
      BY <2>2 DEF NoneNext
    <3>2. NothingKnown /\ info.addr = eip /\ left = lfile
      BY <3>1, <2>2, <1>1, <1>2 DEF RestPart
    <3> QED
      BY <3>2, <2>1, <1>2, SourceOfFile
  <2>3. ASSUME InFile # {}, NoneNext(InFile, eip)
        PROVE  /\ info.fn = Name(Function) /\ info.addr = stabs[Function].value
               /\ ParametersFirst => Arguments = Cardinality(Parameters)
    <3>1. FunctionKept
      BY <2>3, <1>1, <1>2 DEF RestPart
    <3> QED
      BY <3>1, <2>1, <1>2, FunctionKnown, ArgumentsAre DEF FunctionKept
  <2> QED
    BY <2>1, <2>2, <2>3
<1>5. LineRight'
  <2> SUFFICES ASSUME NoneNext(Files, eip), InFile # {}, NoneNext(InFile, eip),
                      NoneNext(InFunction, Offset)
               PROVE  /\ info.line = Max(Covers(InFunction, Offset))
                      /\ SourceName = Name(Max({i \in File..Max(Covers(InFunction, Offset)) :
                                                  stabs[i].type \in {"SO", "SOL"}}))
    <3>1. Covers(InFunction, Offset)' = Covers(InFunction, Offset)
      BY <1>1, <1>3, TableKept DEF Covers
    <3> QED
      BY <3>1, <1>1, <1>3, TableKept DEF LineRight
  <2>1. /\ FileSpan(lfile, rfile) /\ FunctionSpan(lfile, rfile, lfun, rfun)
        /\ LineAt(lfun, rfun, left) /\ info.line = left
    BY <1>1, <1>2 DEF RestPart, FunctionKept, FileKept
  <2>2. Max(Covers(InFunction, Offset)) = left
    BY <2>1, <1>2, LineKnown
  <2>3. SourceName = Name(Max({i \in File..left : stabs[i].type \in {"SO", "SOL"}}))
    BY <2>1, <1>2, SourceIs
  <2> QED
    BY <2>1, <2>2, <2>3
<1> QED
  BY <1>1, <1>3, <1>4, <1>5
    DEF DebugInv, FilePart, FileKept, FunctionPart, LinePart, RestPart, InfoRight

LEMMA DebugStutters ==
  ASSUME DebugInv, UNCHANGED dvars
  PROVE  DebugInv'
<1>1. UNCHANGED <<stabs, type, goal, lo, hi, left, right, l, r, addr, any_matches, pc>>
  BY DEF dvars, vars
<1>2. UNCHANGED <<stabs, given, lfile, rfile, lfun, rfun>> /\ UNCHANGED <<at, info, result, left, obstacle>>
  BY DEF dvars, vars, places, given
<1>3. Inv' <=> Inv
  <2>1. UNCHANGED vars
    BY <1>1 DEF vars
  <2> QED
    BY <1>1 DEF Inv, InputsOK, Region, Table, Stab, Apart, SearchInv, TypeOK, Sorted, LeftSound,
      RightSound, AddrSound, Found, NotFoundIfFirst, Brackets, Hits, Later, IsLast, Match, Index
<1>4. LineAt(lfun, rfun, left)' <=> LineAt(lfun, rfun, left)
  BY <1>2, TableKept DEF LineAt, Lines
<1>5. FunctionKept' <=> FunctionKept
  BY <1>2, TableKept, SpansKept DEF FunctionKept
<1>6. (InfoFields' <=> InfoFields) /\ (NothingKnown' <=> NothingKnown)
  BY <1>2 DEF InfoFields, NothingKnown
<1>7. InfoRight' <=> InfoRight
  BY <1>2, TableKept DEF InfoRight, Located, LineRight, Covers
<1>8. /\ FilePart' <=> FilePart
      /\ FileKept' <=> FileKept
      /\ FunctionPart' <=> FunctionPart
      /\ LinePart' <=> LinePart
      /\ RestPart' <=> RestPart
  <2>1. FilePart' <=> FilePart
    BY <1>1, <1>2, <1>3, <1>6, TableKept DEF FilePart, Searching
  <2>2. FunctionPart' <=> FunctionPart
    BY <1>1, <1>2, <1>3, <1>6, TableKept, SpansKept DEF FunctionPart, Searching
  <2>3. LinePart' <=> LinePart
    BY <1>1, <1>2, <1>3, <1>5, TableKept, SpansKept DEF LinePart, Searching
  <2>4. RestPart' <=> RestPart
    BY <1>2, <1>4, <1>5, <1>6, TableKept, SpansKept DEF RestPart
  <2>5. FileKept' <=> FileKept
    BY <1>2, TableKept, SpansKept DEF FileKept
  <2> QED
    BY <2>1, <2>2, <2>3, <2>4, <2>5
<1> QED
  BY <1>1, <1>2, <1>6, <1>7, <1>8, TableKept DEF DebugInv

(* For a table of any length, as gcc and ld write them, and any address:   *)
(* debuginfo_eip names the file, the function and the line that contain    *)
(* the address, the start of the function and how many parameters it has   *)
(* if none in a register comes first; in an assembly file it names the     *)
(* file alone; unless an entry starts one byte after one that matches the  *)
(* address exactly (debuginfo_eip).                                        *)
THEOREM InfoIsRight == DebugSpec => []InfoRight
<1>1. DebugInv /\ [DebugNext]_dvars => DebugInv'
  BY SearchStepKeeps, CheckKeeps, FileKeeps, FunctionKeeps, LineKeeps, RestKeeps, DebugStutters
    DEF DebugNext, Finished
<1>2. DebugInv => InfoRight
  BY DEF DebugInv, InfoRight, Located, LineRight
<1> QED
  BY <1>1, <1>2, DebugInitInv, PTL DEF DebugSpec

----------------------------------------------------------------------------
(* putch, cputs, vsnprintf.                                                *)

\* A sequence of whatever is put out.
IsSeq(q) == \E Char : q \in Seq(Char)

\* console is a sequence only as long as no NUL cuts what is printed short.
InOrder == IsSeq(console) /\ console \o buf = sent

Kept(s) == SubSeq(s, 1, IF Len(s) < n THEN Len(s) ELSE n - 1)

SinkInv ==
  /\ sink \in Sinks /\ n \in Int /\ cnt \in Int /\ closed \in BOOLEAN
  /\ IsSeq(sent) /\ IsSeq(buf)
  /\ sink = "console" => buf = <<>> /\ cnt = 0
  /\ sink = "buffer" => Len(buf) < BUFSIZE - 1 /\ cnt = Len(sent)
  /\ sink \in {"console", "buffer"} /\ closed => buf = <<>>
  /\ sink \in {"console", "buffer"} /\ NoNul => InOrder
  /\ sink = "null" => closed /\ buf = <<>> /\ cnt = -E_INVAL
  /\ sink = "string" /\ n < 1 => closed /\ buf = <<>> /\ cnt = -E_INVAL
  /\ sink = "string" /\ n >= 1 =>
       cnt = Len(sent) /\ buf = IF closed THEN Append(Kept(sent), NUL) ELSE Kept(sent)

----------------------------------------------------------------------------
LEMMA Sizes == BUFSIZE \in Nat /\ BUFSIZE >= 2
BY BufferAssumption DEF BufferAssumption

\* What sys_cputs leaves out is only what follows a NUL.
LEMMA PrintedWhole ==
  ASSUME NEW Char, NEW a \in Seq(Char), NEW b \in Seq(Char),
         \A i \in DOMAIN (a \o b) : (a \o b)[i] # NUL
  PROVE  Printed(b) = b
<1>1. Len(a) \in Nat /\ Len(b) \in Nat /\ DOMAIN b = 1..Len(b)
  BY LenProperties
<1>2. DOMAIN (a \o b) = 1..Len(a) + Len(b)
  BY ConcatProperties, LenProperties
<1>3. ASSUME NEW i \in DOMAIN b
      PROVE  b[i] # NUL
  <2>1. Len(a) + i \in 1..Len(a) + Len(b)
    BY <1>1
  <2>2. (a \o b)[Len(a) + i] = b[i]
    <3>1. ~(Len(a) + i <= Len(a)) /\ Len(a) + i - Len(a) = i
      BY <1>1
    <3> QED
      BY <2>1, <3>1, ConcatProperties
  <2> QED
    BY <1>2, <2>1, <2>2
<1>4. {i \in DOMAIN b : b[i] = NUL} = {}
  BY <1>3
<1> QED
  BY <1>4 DEF Printed

\* One more character moves the end of what is kept, or nothing.
LEMMA KeptAppend ==
  ASSUME NEW Char, NEW s \in Seq(Char), NEW c \in Char, n \in Int, n >= 1
  PROVE  /\ Kept(s) \in Seq(Char)
         /\ Len(Kept(s)) = IF Len(s) < n THEN Len(s) ELSE n - 1
         /\ Kept(Append(s, c)) =
              IF Len(Kept(s)) < n - 1 THEN Append(Kept(s), c) ELSE Kept(s)
<1> DEFINE t == Append(s, c)
           k == IF Len(s) < n THEN Len(s) ELSE n - 1
           j == IF Len(t) < n THEN Len(t) ELSE n - 1
<1>1. /\ Len(s) \in Nat /\ t \in Seq(Char) /\ Len(t) = Len(s) + 1
      /\ \A i \in 1..Len(s) : t[i] = s[i] /\ s[i] \in Char
      /\ t[Len(s) + 1] = c
  OBVIOUS
<1>2. Kept(s) = SubSeq(s, 1, k) /\ Kept(t) = SubSeq(t, 1, j)
  BY DEF Kept
<1>3. k \in Nat /\ j \in Nat /\ k <= Len(s) /\ j <= Len(t)
  BY <1>1
<1>4. /\ SubSeq(s, 1, k) \in Seq(Char) /\ Len(SubSeq(s, 1, k)) = k
      /\ \A i \in 1..k : SubSeq(s, 1, k)[i] = s[i]
  BY <1>1, <1>3
<1>5. /\ SubSeq(t, 1, j) \in Seq(Char) /\ Len(SubSeq(t, 1, j)) = j
      /\ \A i \in 1..j : SubSeq(t, 1, j)[i] = t[i]
  BY <1>1, <1>3
<1>6. CASE k < n - 1
  <2>1. k = Len(s) /\ j = k + 1
    BY <1>1, <1>6
  <2> DEFINE u == Append(SubSeq(s, 1, k), c)
  <2>2. /\ u \in Seq(Char) /\ Len(u) = k + 1 /\ u[k + 1] = c
        /\ \A i \in 1..k : u[i] = SubSeq(s, 1, k)[i]
    BY <1>4, <1>3
  <2>3. \A i \in 1..j : u[i] = SubSeq(t, 1, j)[i]
    BY <1>1, <1>3, <1>4, <1>5, <2>1, <2>2
  <2>4. u = SubSeq(t, 1, j)
    BY <1>5, <2>1, <2>2, <2>3, SeqEqual
  <2> QED
    BY <1>2, <1>4, <1>6, <2>4
<1>7. CASE ~(k < n - 1)
  <2>1. j = k
    BY <1>1, <1>7
  <2>2. \A i \in 1..j : SubSeq(s, 1, k)[i] = SubSeq(t, 1, j)[i]
    BY <1>1, <1>3, <1>4, <1>5, <2>1
  <2>3. SubSeq(s, 1, k) = SubSeq(t, 1, j)
    BY <1>4, <1>5, <2>1, <2>2, SeqEqual
  <2> QED
    BY <1>2, <1>4, <1>7, <2>3
<1> QED
  BY <1>6, <1>7

LEMMA NoNulBefore ==
  ASSUME NEW Char, sent \in Seq(Char), NEW c \in Char, sent' = Append(sent, c), NoNul'
  PROVE  NoNul /\ c # NUL
<1>1. /\ DOMAIN sent = 1..Len(sent) /\ Len(sent) \in Nat
      /\ DOMAIN Append(sent, c) = 1..Len(sent) + 1
      /\ \A i \in 1..Len(sent) : Append(sent, c)[i] = sent[i]
      /\ Append(sent, c)[Len(sent) + 1] = c
  OBVIOUS
<1>2. \A i \in 1..Len(sent) + 1 : Append(sent, c)[i] # NUL
  BY <1>1 DEF NoNul
<1> QED
  BY <1>1, <1>2 DEF NoNul

----------------------------------------------------------------------------
LEMMA SeqIn ==
  ASSUME NEW S, NEW T, S \subseteq T, NEW q \in Seq(S)
  PROVE  q \in Seq(T)
OBVIOUS

LEMMA SomeSeq == ASSUME NEW S, NEW q \in Seq(S) PROVE IsSeq(q)
BY DEF IsSeq

\* A set that has all that was put out, and what comes next.
InAll(Char, c) ==
  /\ c \in Char /\ sent \in Seq(Char) /\ buf \in Seq(Char)
  /\ IsSeq(console) => console \in Seq(Char)

LEMMA Common ==
  ASSUME IsSeq(sent), IsSeq(buf), NEW c
  PROVE  \E Char : InAll(Char, c)
<1>1. PICK S : sent \in Seq(S)
  BY DEF IsSeq
<1>2. PICK T : buf \in Seq(T)
  BY DEF IsSeq
<1>3. PICK U : IsSeq(console) => console \in Seq(U)
  BY DEF IsSeq
<1> DEFINE Char == S \cup T \cup U \cup {c}
<1>4. S \subseteq Char /\ T \subseteq Char /\ U \subseteq Char /\ c \in Char
  OBVIOUS
<1> HIDE DEF Char
<1>5. sent \in Seq(Char) /\ buf \in Seq(Char) /\ (IsSeq(console) => console \in Seq(Char))
  BY <1>1, <1>2, <1>3, <1>4, SeqIn
<1>6. InAll(Char, c)
  BY <1>4, <1>5 DEF InAll
<1> QED
  BY <1>6

LEMMA InitKeeps == SinkInit => SinkInv
<1> SUFFICES ASSUME NEW s \in Sinks, NEW size \in Int, Open(s, size)
             PROVE  SinkInv
  BY DEF SinkInit
<1>1. /\ sink = s /\ n = size /\ buf = <<>> /\ console = <<>> /\ sent = <<>>
      /\ closed = (s = "null" \/ (s = "string" /\ size < 1))
      /\ cnt = IF s = "null" \/ (s = "string" /\ size < 1) THEN -E_INVAL ELSE 0
  BY DEF Open, NoRoom
<1>2. IsSeq(<<>>) /\ Len(<<>>) = 0 /\ <<>> \o <<>> = <<>>
  <2>1. <<>> \in Seq({})
    BY EmptySeq
  <2> QED
    BY <2>1, SomeSeq, EmptySeq, ConcatEmptySeq
<1>3. n >= 1 => Kept(sent) = <<>>
  <2>1. n >= 1 => Kept(sent) = SubSeq(<<>>, 1, 0)
    BY <1>1, <1>2 DEF Kept
  <2> QED
    BY <2>1, SubSeqEmpty
<1>4. InOrder
  BY <1>1, <1>2 DEF InOrder
<1>5. cnt \in Int /\ closed \in BOOLEAN
  BY <1>1 DEF E_INVAL
<1>6. CASE s = "string"
  <2>1. sink = "string" /\ sink \in Sinks /\ n \in Int /\ sent = <<>> /\ buf = <<>>
    BY <1>1, <1>6
  <2>2. CASE size < 1
    <3>1. closed = TRUE
      BY <1>1, <1>6, <2>2, Zenon
    <3>2. cnt = -E_INVAL
      BY <1>1, <1>6, <2>2, Zenon
    <3>3. n < 1 /\ ~(n >= 1)
      BY <1>1, <2>2
    <3> QED
      BY <1>2, <1>5, <2>1, <3>1, <3>2, <3>3 DEF SinkInv
  <2>3. CASE ~(size < 1)
    <3>1. closed = FALSE
      BY <1>1, <1>6, <2>3, Zenon
    <3>2. cnt = 0
      BY <1>1, <1>6, <2>3, Zenon
    <3>3. n >= 1 /\ ~(n < 1)
      BY <1>1, <2>3
    <3> QED
      BY <1>2, <1>3, <1>5, <2>1, <3>1, <3>2, <3>3 DEF SinkInv
  <2> QED
    BY <2>2, <2>3
<1>8. CASE s = "null"
  <2>1. closed = TRUE
    BY <1>1, <1>8, Zenon
  <2>2. cnt = -E_INVAL
    BY <1>1, <1>8, Zenon
  <2>3. sink = "null" /\ sink \in Sinks /\ n \in Int /\ sent = <<>> /\ buf = <<>>
    BY <1>1, <1>8
  <2> QED
    BY <1>2, <1>5, <2>1, <2>2, <2>3 DEF SinkInv
<1>7. CASE s # "string" /\ s # "null"
  <2>1. closed = FALSE /\ cnt = 0
    BY <1>1, <1>7
  <2> QED
    BY <1>1, <1>2, <1>4, <1>5, <1>7, <2>1, Sizes DEF SinkInv
<1> QED
  BY <1>6, <1>7, <1>8

LEMMA PutchKeeps ==
  ASSUME SinkInv, NEW c, Putch(c)
  PROVE  SinkInv'
<1>s. IsSeq(sent) /\ IsSeq(buf)
  BY DEF SinkInv
<1>p. PICK Char : InAll(Char, c)
  BY <1>s, Common
<1>0. /\ c \in Char /\ sent \in Seq(Char) /\ buf \in Seq(Char)
      /\ IsSeq(console) => console \in Seq(Char)
  BY <1>p DEF InAll
<1>1. /\ ~closed /\ sent' = Append(sent, c)
      /\ sink' = sink /\ n' = n /\ closed' = closed
  BY DEF Putch
<1>2. /\ sent \in Seq(Char) /\ buf \in Seq(Char) /\ n \in Int /\ cnt \in Int
      /\ sink \in Sinks /\ closed \in BOOLEAN /\ IsSeq(sent) /\ IsSeq(buf)
  BY <1>0 DEF SinkInv
<1>3. sent' \in Seq(Char) /\ IsSeq(sent') /\ Len(sent') = Len(sent) + 1 /\ Len(sent) \in Nat
  <2>1. sent' \in Seq(Char) /\ Len(sent') = Len(sent) + 1 /\ Len(sent) \in Nat
    BY <1>0, <1>1
  <2>2. IsSeq(sent')
    BY <2>1, SomeSeq
  <2> QED
    BY <2>1, <2>2
<1>4. NoNul' => NoNul /\ c # NUL
  BY <1>0, <1>1, <1>2, NoNulBefore
<1>5. CASE ConsolePut(c)
  <2>1. sink = "console" /\ console' = Append(console, c) /\ buf' = buf /\ cnt' = cnt
    BY <1>5 DEF ConsolePut
  <2>2. buf = <<>> /\ cnt = 0
    BY <2>1 DEF SinkInv
  <2>3. ASSUME NoNul'
        PROVE  InOrder'
    <3>1. console \in Seq(Char) /\ console \o buf = sent
      BY <1>0, <1>4, <2>1, <2>3 DEF SinkInv, InOrder
    <3>2. console = sent
      BY <2>2, <3>1, ConcatEmptySeq
    <3>3. sent' \o <<>> = sent'
      BY <1>3, ConcatEmptySeq
    <3> QED
      BY <1>1, <1>3, <2>1, <2>2, <3>2, <3>3 DEF InOrder
  <2> QED
    BY <1>1, <1>2, <1>3, <2>1, <2>2, <2>3 DEF SinkInv
<1>6. CASE BufferPut(c)
  <2> DEFINE b == Append(buf, c)
  <2>1. sink = "buffer" /\ cnt' = cnt + 1 /\ cnt = Len(sent) /\ Len(buf) < BUFSIZE - 1
    BY <1>6 DEF BufferPut, SinkInv
  <2>2. b \in Seq(Char) /\ IsSeq(b) /\ Len(b) = Len(buf) + 1 /\ Len(buf) \in Nat
    <3>1. b \in Seq(Char) /\ Len(b) = Len(buf) + 1 /\ Len(buf) \in Nat
      BY <1>0
    <3> HIDE DEF b
    <3>2. IsSeq(b)
      BY <3>1, SomeSeq
    <3> QED
      BY <3>1, <3>2
  <2>3. ASSUME NoNul'
        PROVE  console \in Seq(Char) /\ IsSeq(console) /\ console \o b = sent'
    <3>1. console \in Seq(Char) /\ console \o buf = sent
      BY <1>0, <1>4, <2>1, <2>3 DEF SinkInv, InOrder
    <3>2. console \o b = Append(console \o buf, c)
      BY <1>0, <1>2, <3>1
    <3> QED
      BY <1>1, <3>1, <3>2, SomeSeq
  <2>4. CASE Len(buf) + 1 = BUFSIZE - 1
    <3>1. console' = console \o Printed(b) /\ buf' = <<>>
      BY <1>6, <2>4 DEF BufferPut
    <3>2. IsSeq(<<>>) /\ Len(<<>>) = 0
      BY EmptySeq, SomeSeq
    <3>3. ASSUME NoNul'
          PROVE  InOrder'
      <4>1. \A i \in DOMAIN (console \o b) : (console \o b)[i] # NUL
        BY <2>3, <3>3 DEF NoNul
      <4>2. Printed(b) = b
        BY <2>2, <2>3, <3>3, <4>1, PrintedWhole
      <4>3. sent' \o <<>> = sent'
        BY <1>3, ConcatEmptySeq
      <4> QED
        BY <1>3, <2>3, <3>1, <3>3, <4>2, <4>3 DEF InOrder
    <3> QED
      BY <1>1, <1>2, <1>3, <2>1, <3>1, <3>2, <3>3, Sizes DEF SinkInv
  <2>5. CASE Len(buf) + 1 # BUFSIZE - 1
    <3>1. console' = console /\ buf' = b
      BY <1>6, <2>5 DEF BufferPut
    <3>2. Len(buf') < BUFSIZE - 1
      BY <2>1, <2>2, <2>5, <3>1, Sizes
    <3>3. NoNul' => InOrder'
      BY <2>3, <3>1 DEF InOrder
    <3> QED
      BY <1>1, <1>2, <1>3, <2>1, <2>2, <3>1, <3>2, <3>3 DEF SinkInv
  <2> QED
    BY <2>4, <2>5
<1>7. CASE StringPut(c)
  <2>1. /\ sink = "string" /\ cnt' = cnt + 1
        /\ buf' = IF Len(buf) < n - 1 THEN Append(buf, c) ELSE buf
    BY <1>7 DEF StringPut
  <2>2. n >= 1 /\ cnt = Len(sent) /\ buf = Kept(sent)
    BY <1>1, <1>2, <2>1 DEF SinkInv
  <2>3. buf' = Kept(Append(sent, c))
    BY <1>0, <1>2, <2>1, <2>2, KeptAppend
  <2>4. Kept(sent)' = Kept(Append(sent, c))
    BY <1>1 DEF Kept
  <2>5. IsSeq(buf')
    <3>1. buf' \in Seq(Char)
      BY <1>0, <2>1
    <3> QED
      BY <3>1, SomeSeq
  <2> QED
    BY <1>1, <1>2, <1>3, <2>1, <2>2, <2>3, <2>4, <2>5 DEF SinkInv
<1> QED
  BY <1>5, <1>6, <1>7 DEF Putch

LEMMA CloseKeeps ==
  ASSUME SinkInv, Close
  PROVE  SinkInv'
<1>s. IsSeq(sent) /\ IsSeq(buf)
  BY DEF SinkInv
<1>p. PICK Char : InAll(Char, NUL)
  BY <1>s, Common
<1>0. /\ NUL \in Char /\ sent \in Seq(Char) /\ buf \in Seq(Char)
      /\ IsSeq(console) => console \in Seq(Char)
  BY <1>p DEF InAll
<1>1. /\ ~closed /\ closed' = TRUE
      /\ sink' = sink /\ n' = n /\ cnt' = cnt /\ sent' = sent
  BY DEF Close
<1>2. /\ sent \in Seq(Char) /\ buf \in Seq(Char) /\ n \in Int /\ cnt \in Int
      /\ sink \in Sinks /\ IsSeq(sent) /\ IsSeq(buf)
  BY <1>0 DEF SinkInv
<1>3. NoNul' <=> NoNul
  BY <1>1 DEF NoNul
<1>4. CASE sink = "console"
  <2>1. buf' = buf /\ console' = console
    BY <1>4 DEF Close
  <2>2. InOrder' <=> InOrder
    BY <1>1, <2>1 DEF InOrder
  <2> QED
    BY <1>1, <1>2, <1>3, <1>4, <2>1, <2>2 DEF SinkInv
<1>5. CASE sink = "buffer"
  <2>1. console' = console \o Printed(buf) /\ buf' = <<>>
    BY <1>5 DEF Close
  <2>2. IsSeq(<<>>) /\ Len(<<>>) = 0
    BY EmptySeq, SomeSeq
  <2>3. ASSUME NoNul'
        PROVE  InOrder'
    <3>1. console \in Seq(Char) /\ IsSeq(console) /\ console \o buf = sent
      BY <1>0, <1>3, <1>5, <2>3 DEF SinkInv, InOrder
    <3>2. \A i \in DOMAIN (console \o buf) : (console \o buf)[i] # NUL
      BY <1>3, <2>3, <3>1 DEF NoNul
    <3>3. Printed(buf) = buf
      BY <1>2, <3>1, <3>2, PrintedWhole
    <3>4. sent \o <<>> = sent
      BY <1>2, ConcatEmptySeq
    <3> QED
      BY <1>1, <1>2, <2>1, <3>1, <3>3, <3>4 DEF InOrder
  <2> QED
    BY <1>1, <1>2, <1>5, <2>1, <2>2, <2>3, Sizes DEF SinkInv
<1>6. CASE sink = "string"
  <2>1. buf' = Append(buf, NUL)
    BY <1>6 DEF Close
  <2>2. n >= 1 /\ cnt = Len(sent) /\ buf = Kept(sent)
    BY <1>1, <1>2, <1>6 DEF SinkInv
  <2>3. Kept(sent)' = Kept(sent)
    BY <1>1 DEF Kept
  <2>4. IsSeq(buf')
    <3>1. buf' \in Seq(Char)
      BY <1>0, <2>1
    <3> QED
      BY <3>1, SomeSeq
  <2> QED
    BY <1>1, <1>2, <1>6, <2>1, <2>2, <2>3, <2>4 DEF SinkInv
<1>7. sink # "null"
  BY <1>1 DEF SinkInv
<1> QED
  BY <1>2, <1>4, <1>5, <1>6, <1>7 DEF Sinks

LEMMA StutterKeeps ==
  ASSUME SinkInv, UNCHANGED sinkVars
  PROVE  SinkInv'
BY DEF SinkInv, sinkVars, NoNul, InOrder, Kept, IsSeq

LEMMA Invariant == SinkSpec => []SinkInv
<1>1. SinkInit => SinkInv
  BY InitKeeps
<1>2. SinkInv /\ [(\E c : Putch(c)) \/ Close]_sinkVars => SinkInv'
  BY PutchKeeps, CloseKeeps, StutterKeeps
<1> QED
  BY <1>1, <1>2, PTL DEF SinkSpec

----------------------------------------------------------------------------
(* vprintfmt does nothing with its sink but put characters, one after the  *)
(* other, and its callers end with one Close, whatever the format and the  *)
(* arguments (vprintfmt).                                                  *)
THEOREM PrintfPuts == PrintfSpec => SinkSpec
<1>1. PrintfInit => SinkInit
  BY CallAssumption DEF CallAssumption, PrintfInit, SinkInit
<1>2. PrintfNext => (\E c : Putch(c)) \/ Close \/ UNCHANGED sinkVars
  <2> SUFFICES ASSUME PrintfNext PROVE (\E c : Putch(c)) \/ Close \/ UNCHANGED sinkVars
    OBVIOUS
  <2>1. CASE Literal \/ Return
    BY <2>1 DEF Literal, Return
  <2>2. CASE Collect
    BY <2>2 DEF Collect, Percent, Flag, Number, Star
  <2>3. CASE Convert
    BY <2>3 DEF Convert, CharEscape, ErrorEscape, Decimal, Unsigned, Pointer, Octal,
      PercentEscape, UnknownEscape, StringEscape, Converts
  <2>4. CASE StringChar \/ StringEnd \/ Emit \/ EscapeDone
    BY <2>4 DEF StringChar, StringEnd, Emit, EscapeDone
  <2>5. CASE Returned
    BY <2>5 DEF Returned, printfVars
  <2> QED
    BY <2>1, <2>2, <2>3, <2>4, <2>5 DEF PrintfNext
<1>3. [PrintfNext]_printfVars => [(\E c : Putch(c)) \/ Close]_sinkVars
  BY <1>2 DEF printfVars
<1> QED
  BY <1>1, <1>3, PTL DEF PrintfSpec, SinkSpec

(* Whatever is printed and however long the buffer, a cprintf puts every   *)
(* character on the console once and in order, and leaves none in the      *)
(* buffer when it returns (putch, vcprintf of lib/printf.c and printf.c).  *)
THEOREM NothingLost == PrintfSpec => []Delivered
<1>1. SinkInv => Delivered
  <2> SUFFICES ASSUME SinkInv, sink \in {"console", "buffer"}
               PROVE  /\ NoNul => console \o buf = sent
                      /\ closed => buf = <<>>
                      /\ Len(buf) < BUFSIZE - 1
                      /\ cnt = IF sink = "buffer" THEN Len(sent) ELSE 0
    BY DEF Delivered
  <2>1. sink = "console" \/ sink = "buffer"
    OBVIOUS
  <2>2. Len(<<>>) = 0
    BY EmptySeq
  <2> QED
    BY <2>1, <2>2, Sizes DEF SinkInv, InOrder
<1> QED
  BY <1>1, PrintfPuts, Invariant, PTL

(* For any size, snprintf writes the longest beginning that fits with its  *)
(* NUL and nothing after it, and its result is the length of the whole     *)
(* (sprintputch, vsnprintf).                                               *)
THEOREM StringFits == PrintfSpec => []Truncated
<1>1. SinkInv => Truncated
  <2> SUFFICES ASSUME SinkInv, sink \in {"string", "null"}
               PROVE  IF sink = "null" \/ n < 1 THEN buf = <<>> /\ cnt = -E_INVAL ELSE
                      /\ buf = IF closed THEN Append(Kept(sent), NUL) ELSE Kept(sent)
                      /\ Len(buf) <= n /\ cnt = Len(sent)
    BY DEF Truncated, Kept
  <2>n. n \in Int /\ IsSeq(sent) /\ IsSeq(buf)
    BY DEF SinkInv
  <2>p. PICK Char : InAll(Char, NUL)
    BY <2>n, Common
  <2>1. n \in Int /\ sent \in Seq(Char) /\ NUL \in Char
    BY <2>n, <2>p DEF InAll
  <2>0. CASE sink = "null"
    BY <2>0 DEF SinkInv
  <2>2. CASE sink = "string" /\ n < 1
    BY <2>2 DEF SinkInv
  <2>3. CASE sink = "string" /\ n >= 1
    <3>1. cnt = Len(sent) /\ buf = IF closed THEN Append(Kept(sent), NUL) ELSE Kept(sent)
      BY <2>3 DEF SinkInv
    <3>2. Kept(sent) \in Seq(Char) /\ Len(Kept(sent)) <= n - 1
      BY <2>1, <2>3, Sizes, KeptAppend
    <3>3. Len(buf) <= n
      BY <2>1, <3>1, <3>2, Sizes
    <3> QED
      BY <2>1, <2>3, <3>1, <3>3
  <2> QED
    BY <2>0, <2>1, <2>2, <2>3
<1> QED
  BY <1>1, PrintfPuts, Invariant, PTL

----------------------------------------------------------------------------
(* lib/string.c: every function does what it should with arguments that    *)
(* are Proper.                                                             *)

\* No call changes its arguments, and each has its own steps.
Idle == UNCHANGED callVars

LEMMA Steps ==
  ASSUME [CmdNext]_cmdVars
  PROVE  /\ call' = call /\ mem0' = mem0
         /\ call.fn \in {"memmove", "memcpy"} => StartMove \/ Move \/ BlockDone \/ Idle
         /\ call.fn = "memset" => StartSet \/ SetNothing \/ Set \/ BlockDone \/ Idle
         /\ call.fn = "strcpy" => Begin \/ CopyChar \/ Idle
         /\ call.fn = "strcat" => AppendAt \/ CopyChar \/ Idle
         /\ call.fn = "strncpy" => Begin \/ PadChar \/ PadDone \/ Idle
         /\ call.fn = "strlcpy" => CopyNothing \/ BeginLimited \/ CopyLimited \/ Idle
         /\ call.fn \in {"strcmp", "strncmp", "memcmp"} => Begin \/ CompareChar \/ Idle
         /\ call.fn \in {"strlen", "strnlen", "strchr", "strfind", "memfind"} => Begin \/ Find \/ Idle
         /\ call.fn = "strtol" => SkipSpace \/ SignAndBase \/ TakeDigit \/ DigitsDone \/ Idle
         /\ call.fn = "runcmd" => runcmd \/ UNCHANGED cmdVars
<1>1. CASE runcmd
  BY <1>1 DEF runcmd, Gobble, TooMany, SaveArg, ScanArg, ArgEnds, LineEnds, NextCommand, Invoke, NoCommand,
              AtStage, Moves
<1>2. CASE Blocks /\ UNCHANGED <<argv, outcome>>
  BY <1>2 DEF Blocks, StartMove, Move, StartSet, SetNothing, Set, BlockDone, Calls, Loops, Enter, Again, Returns
<1>3. CASE Copies /\ UNCHANGED <<argv, outcome>>
  BY <1>3 DEF Copies, AppendAt, CopyChar, PadChar, PadDone, CopyNothing, BeginLimited, CopyLimited,
              Calls, Loops, Enter, Again, Returns
<1>4. CASE Searches /\ UNCHANGED <<argv, outcome>>
  BY <1>4 DEF Searches, Begin, CompareChar, Find, Calls, Loops, Enter, Again, Returns
<1>5. CASE Numbers /\ UNCHANGED <<argv, outcome>>
  BY <1>5 DEF Numbers, SkipSpace, SignAndBase, TakeDigit, DigitsDone, Calls, Loops, Enter, Again, Returns
<1>6. CASE Done /\ UNCHANGED <<argv, outcome>>
  BY <1>6 DEF Done, Idle, callVars, cmdVars
<1>7. CASE UNCHANGED cmdVars
  BY <1>7 DEF cmdVars, callVars, Idle
<1> QED
  BY <1>1, <1>2, <1>3, <1>4, <1>5, <1>6, <1>7 DEF CmdNext, CallNext

\* The memory is an interval of addresses.
LEMMA Cells ==
  ASSUME NEW c, NEW m, Proper(c, m)
  PROVE  /\ \E k \in Nat : DOMAIN m = 0..k
         /\ m = [a \in DOMAIN m |-> m[a]] /\ \A a \in DOMAIN m : m[a] \in 0..BYTE-1
         /\ \A a \in DOMAIN m : a \in Nat
         /\ c.n \in Nat /\ c.c \in Int /\ c.dst \in Nat /\ c.src \in Nat
<1>1. PICK k \in DOMAIN m : m \in [0..k -> 0..BYTE-1]
  BY DEF Proper
<1> QED
  BY <1>1 DEF Proper

\* n turns of u bytes.
LEMMA Turns ==
  ASSUME NEW u \in Nat, NEW k \in Nat
  PROVE  /\ k * u \in Nat /\ (k = 0 => k * u = 0)
         /\ k > 0 => k - 1 \in Nat /\ k * u = (k - 1) * u + u /\ (k - 1) * u \in Nat
<1>1. CASE k = 0
  BY <1>1
<1>2. CASE k > 0
  <2> DEFINE j == k - 1
  <2>1. j \in Nat /\ k = j + 1
    BY <1>2
  <2>2. (j + 1) * u = j * u + u /\ j * u \in Nat
    BY <2>1
  <2> QED
    BY <1>2, <2>1, <2>2
<1> QED
  BY <1>1, <1>2

\* A unit divides all the numbers it is chosen for.
LEMMA UnitDivides ==
  ASSUME NEW S \in SUBSET Nat, NEW k \in S, WORD \in Nat \ {0}
  PROVE  /\ Unit(S) \in Nat /\ Unit(S) > 0
         /\ k \div Unit(S) \in Nat /\ (k \div Unit(S)) * Unit(S) = k
<1>1. CASE \A a \in S : a % WORD = 0
  <2>1. Unit(S) = WORD /\ k % WORD = 0 /\ k \in Nat
    BY <1>1 DEF Unit
  <2>2. k = WORD * (k \div WORD) + (k % WORD) /\ k \div WORD \in Nat
    BY <2>1
  <2>3. WORD * (k \div WORD) = (k \div WORD) * WORD
    BY <2>2
  <2> QED
    BY <2>1, <2>2, <2>3
<1>2. CASE ~(\A a \in S : a % WORD = 0)
  <2>1. Unit(S) = 1 /\ k \in Nat
    BY <1>2 DEF Unit
  <2> QED
    BY <2>1
<1> QED
  BY <1>1, <1>2

----------------------------------------------------------------------------
(* memmove, memcpy.                                                        *)

Moving == call.fn \in {"memmove", "memcpy"}

\* What has been copied is the destination from low up to high.
Copied(low, high) ==
  [a \in DOMAIN mem0 |->
     IF low <= a /\ a < high THEN mem0[call.src + (a - call.dst)] ELSE mem0[a]]

Turn == IF step < 0 THEN -step ELSE step

Upward ==
  /\ step > 0
  /\ call.dst <= call.src \/ call.src + call.n <= call.dst
  /\ call.dst <= to /\ (to - call.dst) + count * Turn = call.n
  /\ mem = Copied(call.dst, to)

Downward ==
  /\ step < 0
  /\ call.src < call.dst
  /\ to + Turn <= call.dst + call.n /\ (to + Turn) - call.dst = count * Turn
  /\ mem = Copied(to + Turn, call.dst + call.n)

MoveInv ==
  Moving =>
    /\ Proper(call, mem0)
    /\ stage \in {"start", "loop", "done"}
    /\ stage = "start" => mem = mem0 /\ from = call.src /\ to = call.dst /\ count = call.n
    /\ stage = "loop" =>
         /\ step \in Int /\ from \in Int /\ to \in Int /\ count \in Nat
         /\ from - to = call.src - call.dst
         /\ Upward \/ Downward
    /\ stage = "done" => mem = Copied(call.dst, call.dst + call.n) /\ ret = call.dst

LEMMA MoveStarts ==
  ASSUME Moving, MoveInv, StartMove, call' = call, mem0' = mem0
  PROVE  MoveInv'
<1>1. /\ Proper(call, mem0) /\ stage = "start" /\ mem = mem0 /\ from = call.src /\ to = call.dst /\ count = call.n
      /\ mem' = mem /\ stage' = "loop"
  BY DEF MoveInv, StartMove, Calls, Enter
<1>2. /\ call.n \in Nat /\ call.dst \in Nat /\ call.src \in Nat /\ mem0 = [a \in DOMAIN mem0 |-> mem0[a]]
      /\ \A a \in DOMAIN mem0 : a \in Nat
  BY <1>1, Cells
<1>3. CASE Backward
  <2> DEFINE u == Unit({from + count, to + count, count})
  <2>1. /\ count' = count \div u /\ step' = -u /\ from' = from + count - u /\ to' = to + count - u
    BY <1>3 DEF StartMove
  <2>2. u \in Nat /\ u > 0 /\ count \div u \in Nat /\ (count \div u) * u = count
    <3>1. {from + count, to + count, count} \in SUBSET Nat
      BY <1>1, <1>2
    <3> QED
      BY <3>1, UnitDivides, StartAssumption
  <2> HIDE DEF u
  <2>3. Turn' = u /\ step' \in Int /\ step' < 0 /\ from' \in Int /\ to' \in Int /\ count' \in Nat
    BY <1>1, <1>2, <2>1, <2>2 DEF Turn
  <2>4. call.src < call.dst
    BY <1>1, <1>3 DEF Backward
  <2>5. to' + Turn' <= call.dst + call.n /\ (to' + Turn') - call.dst = count' * Turn'
    BY <1>1, <1>2, <2>1, <2>2, <2>3
  <2>6. mem' = [a \in DOMAIN mem0 |->
                  IF to' + Turn' <= a /\ a < call.dst + call.n
                  THEN mem0[call.src + (a - call.dst)] ELSE mem0[a]]
    <3>1. to' + Turn' = call.dst + call.n
      BY <1>1, <1>2, <2>1, <2>2, <2>3
    <3>2. \A a \in DOMAIN mem0 : ~(to' + Turn' <= a /\ a < call.dst + call.n)
      BY <1>2, <3>1
    <3> QED
      BY <1>1, <1>2, <3>2
  <2>7. Downward'
    BY <2>3, <2>4, <2>5, <2>6 DEF Downward, Copied
  <2>8. from' - to' = call.src - call.dst
    BY <1>1, <1>2, <2>1, <2>2
  <2> QED
    BY <1>1, <2>3, <2>7, <2>8 DEF MoveInv
<1>4. CASE ~Backward
  <2> DEFINE u == Unit({from, to, count})
  <2>1. count' = count \div u /\ step' = u /\ from' = from /\ to' = to
    BY <1>4 DEF StartMove
  <2>2. u \in Nat /\ u > 0 /\ count \div u \in Nat /\ (count \div u) * u = count
    <3>1. {from, to, count} \in SUBSET Nat
      BY <1>1, <1>2
    <3> QED
      BY <3>1, UnitDivides, StartAssumption
  <2> HIDE DEF u
  <2>3. Turn' = u /\ step' \in Int /\ step' > 0 /\ from' \in Int /\ to' \in Int /\ count' \in Nat
    BY <1>1, <1>2, <2>1, <2>2 DEF Turn
  <2>4. call.dst <= call.src \/ call.src + call.n <= call.dst
    BY <1>1, <1>2, <1>4 DEF Backward
  <2>5. call.dst <= to' /\ (to' - call.dst) + count' * Turn' = call.n
    BY <1>1, <1>2, <2>1, <2>2, <2>3
  <2>6. mem' = [a \in DOMAIN mem0 |->
                  IF call.dst <= a /\ a < to' THEN mem0[call.src + (a - call.dst)] ELSE mem0[a]]
    <3>1. \A a \in DOMAIN mem0 : ~(call.dst <= a /\ a < to')
      BY <1>1, <1>2, <2>1
    <3> QED
      BY <1>1, <1>2, <3>1
  <2>7. Upward'
    BY <2>3, <2>4, <2>5, <2>6 DEF Upward, Copied
  <2>8. from' - to' = call.src - call.dst
    BY <1>1, <1>2, <2>1, <2>2
  <2> QED
    BY <1>1, <2>3, <2>7, <2>8 DEF MoveInv
<1> QED
  BY <1>3, <1>4

LEMMA MoveGoesOn ==
  ASSUME Moving, MoveInv, Move, call' = call, mem0' = mem0
  PROVE  MoveInv'
<1>1. /\ Proper(call, mem0) /\ stage = "loop" /\ stage' = "loop" /\ step' = step
      /\ step \in Int /\ from \in Int /\ to \in Int /\ count \in Nat /\ count > 0
      /\ from - to = call.src - call.dst
      /\ mem' = [a \in DOMAIN mem |-> IF a \in Span(to) THEN mem[from + a - to] ELSE mem[a]]
      /\ from' = from + step /\ to' = to + step /\ count' = count - 1
  BY DEF MoveInv, Move, Loops, Again, Bytes, Moving
<1>2. /\ call.n \in Nat /\ call.dst \in Nat /\ call.src \in Nat /\ mem0 = [a \in DOMAIN mem0 |-> mem0[a]]
      /\ \A a \in DOMAIN mem0 : a \in Nat
  BY <1>1, Cells
<1>3. /\ call.dst .. call.dst + call.n - 1 \subseteq DOMAIN mem0
      /\ call.src .. call.src + call.n - 1 \subseteq DOMAIN mem0
  BY <1>1 DEF Moving, Proper, Fits
<1>4. Turn \in Nat /\ Turn' = Turn /\ Span(to) = to .. to + Turn - 1
  BY <1>1 DEF Turn, Span
<1> DEFINE rest == (count - 1) * Turn
<1>5. count - 1 \in Nat /\ count * Turn = rest + Turn /\ rest \in Nat
  BY <1>1, <1>4, Turns
<1> HIDE DEF rest
<1>6. count' \in Nat /\ from' \in Int /\ to' \in Int /\ from' - to' = call.src - call.dst
  BY <1>1, <1>5
<1>7. count' * Turn' = rest
  BY <1>1, <1>4 DEF rest
<1> DEFINE src == call.src
           dst == call.dst
           num == call.n
<1>n. /\ src \in Nat /\ dst \in Nat /\ num \in Nat /\ from \in Int /\ to \in Int /\ from - to = src - dst
      /\ Turn \in Nat /\ rest \in Nat
  BY <1>1, <1>2, <1>4, <1>5
<1>8. CASE Upward
  <2>1. /\ step > 0 /\ step = Turn /\ call.dst <= to /\ (to - call.dst) + (rest + Turn) = call.n
        /\ mem = Copied(call.dst, to)
        /\ call.dst <= call.src \/ call.src + call.n <= call.dst
    BY <1>1, <1>5, <1>8 DEF Upward, Turn
  <2>n. /\ step = Turn /\ dst <= to /\ (to - dst) + (rest + Turn) = num /\ step > 0
        /\ dst <= src \/ src + num <= dst
    BY <2>1
  <2>2. DOMAIN mem = DOMAIN mem0
    BY <2>1 DEF Copied
  <2>3. ASSUME NEW a \in DOMAIN mem0, a \in Span(to)
        PROVE  mem[from + a - to] = mem0[call.src + (a - call.dst)] /\ call.dst <= a /\ a < to'
    <3> DEFINE b == from + a - to
    <3>1. a \in Nat /\ to <= a /\ a < to + Turn
      BY <1>1, <1>2, <1>4, <2>3
    <3> HIDE DEF src, dst, num
    <3>2. b = src + (a - dst) /\ b \in Int /\ src <= b /\ b < src + num /\ ~(dst <= b /\ b < to)
      BY <1>n, <2>n, <3>1
    <3>3. b \in DOMAIN mem0
      BY <1>3, <1>n, <3>2 DEF src, num
    <3>4. ~(call.dst <= b /\ b < to)
      BY <3>2 DEF dst
    <3> HIDE DEF b
    <3>5. mem[b] = mem0[b]
      BY <2>1, <3>3, <3>4 DEF Copied
    <3> QED
      BY <3>1, <3>2, <3>5, <2>n, <1>n, <1>1 DEF b, src, dst
  <2>4. ASSUME NEW a \in DOMAIN mem0, a \notin Span(to)
        PROVE  mem[a] = Copied(call.dst, to')[a]
    <3>1. (call.dst <= a /\ a < to) <=> (call.dst <= a /\ a < to')
      BY <1>1, <1>2, <1>4, <2>1, <2>4
    <3> QED
      BY <2>1, <3>1 DEF Copied
  <2>5. \A a \in DOMAIN mem0 : mem'[a] = Copied(call.dst, to')[a]
    BY <1>1, <2>2, <2>3, <2>4 DEF Copied
  <2>6. mem' = Copied(call.dst, to')
    BY <1>1, <2>2, <2>5 DEF Copied
  <2>7. Copied(call.dst, to)' = Copied(call.dst, to')
    BY DEF Copied
  <2>8. call.dst <= to' /\ (to' - call.dst) + count' * Turn' = call.n
    BY <1>1, <1>7, <1>n, <2>n
  <2>9. Upward'
    BY <1>1, <2>1, <2>6, <2>7, <2>8 DEF Upward
  <2> QED
    BY <1>1, <1>6, <2>9 DEF MoveInv
<1>9. CASE Downward
  <2>1. /\ step < 0 /\ step = -Turn /\ call.src < call.dst /\ (to + Turn) - call.dst = rest + Turn
        /\ to + Turn <= call.dst + call.n /\ mem = Copied(to + Turn, call.dst + call.n)
    BY <1>1, <1>5, <1>9 DEF Downward, Turn
  <2>n. step = -Turn /\ src < dst /\ (to + Turn) - dst = rest + Turn /\ to + Turn <= dst + num
    BY <2>1
  <2>2. DOMAIN mem = DOMAIN mem0 /\ to' + Turn' = to
    BY <1>1, <1>4, <2>1 DEF Copied
  <2>3. ASSUME NEW a \in DOMAIN mem0, a \in Span(to)
        PROVE  mem[from + a - to] = mem0[call.src + (a - call.dst)] /\ to <= a /\ a < call.dst + call.n
    <3> DEFINE b == from + a - to
    <3>1. a \in Nat /\ to <= a /\ a < to + Turn
      BY <1>1, <1>2, <1>4, <2>3
    <3> HIDE DEF src, dst, num
    <3>2. b = src + (a - dst) /\ b \in Int /\ src <= b /\ b < src + num /\ ~(to + Turn <= b /\ b < dst + num) /\ a < dst + num
      BY <1>n, <2>n, <3>1
    <3>3. b \in DOMAIN mem0
      BY <1>3, <1>n, <3>2 DEF src, num
    <3>4. ~(to + Turn <= b /\ b < call.dst + call.n)
      BY <3>2 DEF dst, num
    <3> HIDE DEF b
    <3>5. mem[b] = mem0[b]
      BY <2>1, <3>3, <3>4 DEF Copied
    <3> QED
      BY <3>1, <3>2, <3>5, <2>n, <1>n, <1>1 DEF b, src, dst, num
  <2>4. ASSUME NEW a \in DOMAIN mem0, a \notin Span(to)
        PROVE  mem[a] = Copied(to, call.dst + call.n)[a]
    <3>1. a \in Nat /\ ~(to <= a /\ a < to + Turn)
      BY <1>1, <1>2, <1>4, <2>4
    <3>2. to <= a <=> to + Turn <= a
      BY <3>1, <1>n
    <3> QED
      BY <2>1, <3>2 DEF Copied
  <2>5. \A a \in DOMAIN mem0 : mem'[a] = Copied(to, call.dst + call.n)[a]
    BY <1>1, <2>2, <2>3, <2>4 DEF Copied
  <2>6. mem' = Copied(to, call.dst + call.n)
    BY <1>1, <2>2, <2>5 DEF Copied
  <2>7. Copied(to' + Turn', call.dst + call.n) = Copied(to, call.dst + call.n)
    BY <2>2
  <2>8. to' + Turn' <= call.dst + call.n /\ (to' + Turn') - call.dst = count' * Turn'
    BY <2>2, <1>7, <1>n, <2>n
  <2>9. mem' = Copied(to' + Turn', call.dst + call.n)
    BY <2>6, <2>7
  <2>10. mem' = Copied(to + Turn, call.dst + call.n)'
    BY <2>9 DEF Copied
  <2>11. Downward'
    BY <1>1, <2>1, <2>8, <2>10 DEF Downward
  <2> QED
    BY <1>1, <1>6, <2>11 DEF MoveInv
<1> QED
  BY <1>1, <1>8, <1>9 DEF MoveInv

LEMMA MoveEnds ==
  ASSUME Moving, MoveInv, BlockDone, call' = call, mem0' = mem0
  PROVE  MoveInv'
<1>1. /\ Proper(call, mem0) /\ stage' = "done" /\ ret' = call.dst /\ mem' = mem /\ count = 0
      /\ from \in Int /\ to \in Int /\ step \in Int /\ (Upward \/ Downward)
  BY DEF MoveInv, BlockDone, Loops, Returns
<1>2. call.n \in Nat /\ call.dst \in Nat
  BY <1>1, Cells
<1>3. Turn \in Nat /\ count * Turn = 0
  <2>1. Turn \in Nat
    <3>1. step \in Int
      BY <1>1
    <3>2. CASE step < 0
      BY <3>1, <3>2 DEF Turn
    <3>3. CASE ~(step < 0)
      BY <3>1, <3>3 DEF Turn
    <3> QED
      BY <3>2, <3>3
  <2> HIDE DEF Turn
  <2>2. 0 * Turn = 0
    BY <2>1
  <2> QED
    BY <1>1, <2>1, <2>2
<1> DEFINE dst == call.dst
           num == call.n
<1>n. dst \in Nat /\ num \in Nat /\ to \in Int /\ Turn \in Nat
  BY <1>1, <1>2, <1>3
<1>4. mem = Copied(call.dst, call.dst + call.n)
  <2>1. CASE Upward
    <3>1. mem = Copied(call.dst, to) /\ (to - call.dst) + 0 = call.n
      BY <1>3, <2>1 DEF Upward
    <3>2. (to - dst) + 0 = num
      BY <3>1
    <3> HIDE DEF dst, num
    <3>3. to = dst + num
      BY <1>n, <3>2
    <3> QED
      BY <3>1, <3>3 DEF dst, num
  <2>2. CASE Downward
    <3>1. mem = Copied(to + Turn, call.dst + call.n) /\ (to + Turn) - call.dst = 0
      BY <1>3, <2>2 DEF Downward
    <3>2. (to + Turn) - dst = 0
      BY <3>1
    <3> HIDE DEF dst
    <3>3. to + Turn = dst
      BY <1>n, <3>2
    <3> QED
      BY <3>1, <3>3 DEF dst, num
  <2> QED
    BY <1>1, <2>1, <2>2
<1>5. Copied(call.dst, call.dst + call.n)' = Copied(call.dst, call.dst + call.n)
  BY DEF Copied
<1> QED
  BY <1>1, <1>4, <1>5 DEF MoveInv

\* A turn of memmove or memcpy, of any size and in any direction.
LEMMA MoveKeeps == MoveInv /\ [CmdNext]_cmdVars => MoveInv'
<1> SUFFICES ASSUME MoveInv, [CmdNext]_cmdVars PROVE MoveInv'
  OBVIOUS
<1>1. call' = call /\ mem0' = mem0 /\ (Moving => StartMove \/ Move \/ BlockDone \/ Idle)
  BY Steps DEF Moving
<1>2. CASE ~Moving
  BY <1>1, <1>2 DEF MoveInv, Moving
<1>3. CASE Moving /\ Idle
  <2>1. UNCHANGED <<call, mem, mem0, from, to, count, step, ret, stage>>
    BY <1>3 DEF Idle, callVars
  <2> QED
    BY <2>1 DEF MoveInv, Moving, Upward, Downward, Copied, Turn
<1>4. CASE Moving /\ ~Idle
  BY <1>1, <1>4, MoveStarts, MoveGoesOn, MoveEnds
<1> QED
  BY <1>2, <1>3, <1>4

\* What memmove should leave.
LEMMA MoveRight ==
  ASSUME MoveInv, After({"memmove", "memcpy"})
  PROVE  mem = Over(mem0, call.dst, [i \in 0..call.n-1 |-> mem0[call.src + i]]) /\ ret = call.dst
<1>1. Proper(call, mem0) /\ mem = Copied(call.dst, call.dst + call.n) /\ ret = call.dst
  BY DEF MoveInv, Moving, After
<1>2. call.n \in Nat /\ call.dst \in Nat /\ \A a \in DOMAIN mem0 : a \in Nat
  BY <1>1, Cells
<1> DEFINE v == [i \in 0..call.n-1 |-> mem0[call.src + i]]
<1>3. \A a \in DOMAIN mem0 : (call.dst <= a /\ a < call.dst + call.n) <=> a - call.dst \in DOMAIN v
  BY <1>2
<1>4. \A a \in DOMAIN mem0 : a - call.dst \in DOMAIN v => v[a - call.dst] = mem0[call.src + (a - call.dst)]
  OBVIOUS
<1> HIDE DEF v
<1>5. Copied(call.dst, call.dst + call.n) = Over(mem0, call.dst, v)
  BY <1>3, <1>4 DEF Copied, Over
<1> QED
  BY <1>1, <1>5 DEF v

----------------------------------------------------------------------------
(* memset.                                                                 *)

\* What has been set is the destination up to high.
Filled(high) ==
  [a \in DOMAIN mem0 |-> IF call.dst <= a /\ a < high THEN call.c % BYTE ELSE mem0[a]]

SetInv ==
  call.fn = "memset" =>
    /\ Proper(call, mem0)
    /\ stage \in {"start", "loop", "done"}
    /\ stage = "start" => mem = mem0 /\ to = call.dst /\ count = call.n
    /\ stage = "loop" =>
         /\ step \in Nat /\ to \in Nat /\ count \in Nat
         /\ call.dst <= to /\ (to - call.dst) + count * step = call.n
         /\ mem = Filled(to)
    /\ stage = "done" => mem = Filled(call.dst + call.n) /\ ret = call.dst

LEMMA SetKeeps == SetInv /\ [CmdNext]_cmdVars => SetInv'
<1> SUFFICES ASSUME SetInv, [CmdNext]_cmdVars PROVE SetInv'
  OBVIOUS
<1>1. /\ call' = call /\ mem0' = mem0
      /\ call.fn = "memset" => StartSet \/ SetNothing \/ Set \/ BlockDone \/ Idle
  BY Steps
<1>2. CASE call.fn # "memset"
  BY <1>1, <1>2 DEF SetInv
<1>3. CASE call.fn = "memset" /\ Idle
  <2>1. UNCHANGED <<call, mem, mem0, to, count, step, ret, stage>>
    BY <1>3 DEF Idle, callVars
  <2> QED
    BY <2>1 DEF SetInv, Filled
<1> SUFFICES ASSUME call.fn = "memset", ~Idle PROVE SetInv'
  BY <1>2, <1>3
<1>4. /\ call.n \in Nat /\ call.dst \in Nat /\ mem0 = [a \in DOMAIN mem0 |-> mem0[a]]
      /\ \A a \in DOMAIN mem0 : a \in Nat
      /\ Proper(call, mem0)
  BY Cells DEF SetInv
<1> DEFINE dst == call.dst
           num == call.n
<1>n. dst \in Nat /\ num \in Nat
  BY <1>4
<1>6. ASSUME NEW k \in Nat, k <= call.dst PROVE mem0 = Filled(k)
  <2>1. \A a \in DOMAIN mem0 : ~(call.dst <= a /\ a < k)
    BY <1>4, <1>6
  <2> QED
    BY <1>4, <2>1 DEF Filled
<1>7. CASE SetNothing
  <2>1. stage = "start" /\ stage' = "done" /\ mem' = mem /\ mem = mem0 /\ call.n = 0 /\ ret' = call.dst
    BY <1>7 DEF SetInv, SetNothing, Calls, Returns
  <2>2. call.dst + call.n = call.dst
    BY <2>1, <1>4
  <2>3. mem' = Filled(call.dst + call.n)
    BY <2>1, <2>2, <1>6, <1>4
  <2>4. mem' = Filled(call.dst + call.n)'
    BY <2>3, <1>1 DEF Filled
  <2> QED
    BY <1>1, <1>4, <2>1, <2>4 DEF SetInv
<1>8. CASE StartSet
  <2> DEFINE u == Unit({to, count})
  <2>1. /\ stage = "start" /\ stage' = "loop" /\ mem' = mem /\ mem = mem0 /\ to' = to /\ to = call.dst
        /\ count = call.n /\ count' = count \div u /\ step' = u
    BY <1>8 DEF SetInv, StartSet, Calls, Enter
  <2>2. u \in Nat /\ u > 0 /\ count \div u \in Nat /\ (count \div u) * u = count
    <3>1. {to, count} \in SUBSET Nat
      BY <2>1, <1>4
    <3> QED
      BY <3>1, UnitDivides, StartAssumption
  <2> HIDE DEF u
  <2>3. step' \in Nat /\ to' \in Nat /\ count' \in Nat /\ count' * step' = call.n
    BY <2>1, <2>2, <1>4
  <2>4. call.dst <= to' /\ (to' - call.dst) + count' * step' = call.n
    <3> HIDE DEF num
    <3>1. to' - dst = 0 /\ dst <= to'
      BY <2>1, <1>n DEF dst
    <3> QED
      BY <2>3, <3>1, <1>4
  <2>5. mem' = Filled(to') /\ Filled(to)' = Filled(to')
    <3>1. to' \in Nat /\ to' <= call.dst
      BY <2>1, <1>4
    <3>2. mem0 = Filled(to')
      BY <3>1, <1>6
    <3>3. Filled(to)' = Filled(to')
      BY <1>1 DEF Filled
    <3> QED
      BY <3>2, <3>3, <2>1
  <2> QED
    BY <1>1, <1>4, <2>1, <2>3, <2>4, <2>5 DEF SetInv
<1>9. CASE Set
  <2>1. /\ stage = "loop" /\ stage' = "loop" /\ step' = step /\ to' = to + step /\ count' = count - 1 /\ count > 0
        /\ mem' = [a \in DOMAIN mem |-> IF a \in Span(to) THEN call.c % BYTE ELSE mem[a]]
        /\ step \in Nat /\ to \in Nat /\ count \in Nat
        /\ mem = Filled(to)
    BY <1>9 DEF SetInv, Set, Loops, Again, Bytes
  <2> DEFINE rest == (count - 1) * step
  <2>2. count - 1 \in Nat /\ count * step = rest + step /\ rest \in Nat
    BY <2>1, Turns
  <2>3. dst <= to /\ (to - dst) + count * step = num
    BY <2>1 DEF SetInv
  <2> HIDE DEF rest
  <2>4. Span(to) = to .. to + step - 1
    BY <2>1 DEF Span
  <2>5. call.dst <= to' /\ (to' - call.dst) + count' * step' = call.n /\ to' \in Nat /\ count' \in Nat
    <3>1. count' * step' = rest
      BY <2>1 DEF rest
    <3> HIDE DEF dst, num
    <3>2. dst <= to' /\ (to' - dst) + rest = num
      BY <2>1, <2>2, <2>3, <1>n
    <3> QED
      BY <3>1, <3>2, <2>1, <2>2 DEF dst, num
  <2>6. mem' = Filled(to')
    <3>1. ASSUME NEW a \in DOMAIN mem0
          PROVE  a \in Span(to) \/ (dst <= a /\ a < to) <=> dst <= a /\ a < to'
      <4>1. a \in Nat
        BY <1>4
      <4> HIDE DEF dst, num
      <4> QED
        BY <4>1, <2>1, <2>3, <2>4, <1>n
    <3>2. DOMAIN mem = DOMAIN mem0
      BY <2>1 DEF Filled
    <3>3. ASSUME NEW a \in DOMAIN mem0
          PROVE  mem'[a] = IF dst <= a /\ a < to' THEN call.c % BYTE ELSE mem0[a]
      <4>1. mem'[a] = IF a \in Span(to) THEN call.c % BYTE ELSE mem[a]
        BY <2>1, <3>2
      <4>2. mem[a] = IF dst <= a /\ a < to THEN call.c % BYTE ELSE mem0[a]
        BY <2>1 DEF Filled
      <4> QED
        BY <4>1, <4>2, <3>1
    <3> QED
      BY <2>1, <3>2, <3>3 DEF Filled
  <2>7. Filled(to)' = Filled(to')
    BY <1>1 DEF Filled
  <2> QED
    BY <1>1, <1>4, <2>1, <2>5, <2>6, <2>7 DEF SetInv
<1>10. CASE BlockDone
  <2>1. stage = "loop" /\ stage' = "done" /\ mem' = mem /\ mem = Filled(to) /\ count = 0 /\ ret' = call.dst
    BY <1>10 DEF SetInv, BlockDone, Loops, Returns
  <2>2. to = call.dst + call.n
    <3>1. dst <= to /\ (to - dst) + 0 * step = num /\ step \in Nat /\ to \in Nat
      BY <2>1 DEF SetInv
    <3> HIDE DEF dst, num
    <3>2. 0 * step = 0
      BY <3>1
    <3>3. to = dst + num
      BY <3>1, <3>2, <1>n
    <3> QED
      BY <3>3 DEF dst, num
  <2>3. mem' = Filled(call.dst + call.n) /\ Filled(call.dst + call.n)' = Filled(call.dst + call.n)
    BY <1>1, <2>1, <2>2 DEF Filled
  <2> QED
    BY <1>1, <1>4, <2>1, <2>3 DEF SetInv
<1> QED
  BY <1>1, <1>7, <1>8, <1>9, <1>10

LEMMA SetRight ==
  ASSUME SetInv, After({"memset"})
  PROVE  mem = Over(mem0, call.dst, [i \in 0..call.n-1 |-> call.c % BYTE]) /\ ret = call.dst
<1>1. Proper(call, mem0) /\ mem = Filled(call.dst + call.n) /\ ret = call.dst
  BY DEF SetInv, After
<1>2. call.n \in Nat /\ call.dst \in Nat /\ \A a \in DOMAIN mem0 : a \in Nat
  BY <1>1, Cells
<1> DEFINE v == [i \in 0..call.n-1 |-> call.c % BYTE]
<1>3. \A a \in DOMAIN mem0 : (call.dst <= a /\ a < call.dst + call.n) <=> a - call.dst \in DOMAIN v
  BY <1>2
<1>4. \A a \in DOMAIN mem0 : a - call.dst \in DOMAIN v => v[a - call.dst] = call.c % BYTE
  OBVIOUS
<1> HIDE DEF v
<1>5. Filled(call.dst + call.n) = Over(mem0, call.dst, v)
  BY <1>3, <1>4 DEF Filled, Over
<1> QED
  BY <1>1, <1>5 DEF v

----------------------------------------------------------------------------
(* Strings, and their copies.                                              *)

\* The length of a string is that of its bytes before the first NUL.
LEMMA StringEnds ==
  ASSUME NEW c, NEW m, Proper(c, m), NEW a, IsString(m, a)
  PROVE  /\ a \in Nat /\ LengthIn(m, a) \in Nat
         /\ \A i \in 0..LengthIn(m, a) : a + i \in DOMAIN m /\ (m[a + i] = 0 <=> i = LengthIn(m, a))
<1>1. a \in Nat /\ (\A b \in DOMAIN m : b \in Nat) /\ \E k \in Nat : DOMAIN m = 0..k
  BY Cells DEF IsString
<1>2. PICK e \in DOMAIN m : a <= e /\ m[e] = 0 /\ \A b \in a..e-1 : m[b] # 0
  BY DEF IsString
<1> DEFINE S == {b \in DOMAIN m : b >= a /\ m[b] = 0}
<1>3. e \in S /\ \A b \in S : e <= b
  BY <1>1, <1>2
<1>4. Min(S) = e
  <2> HIDE DEF S
  <2>1. \A b \in S : b \in Nat
    BY <1>1 DEF S
  <2> QED
    BY <1>3, <2>1 DEF Min
<1>5. LengthIn(m, a) = e - a
  BY <1>4 DEF LengthIn
<1>6. e \in Nat /\ e - a \in Nat
  BY <1>1, <1>2
<1>7. ASSUME NEW i \in 0..e-a PROVE a + i \in DOMAIN m /\ (m[a + i] = 0 <=> i = e - a)
  <2>1. a + i \in Nat /\ a + i <= e
    BY <1>1, <1>6, <1>7
  <2>2. a + i \in DOMAIN m
    BY <1>1, <2>1, <1>2
  <2>3. CASE i = e - a
    <3>1. a + i = e
      BY <2>3, <1>1, <1>6
    <3> QED
      BY <3>1, <1>2, <2>2, <2>3
  <2>4. CASE i # e - a
    <3>1. a + i \in a..e-1
      BY <2>4, <1>1, <1>6, <1>7
    <3> QED
      BY <3>1, <1>2, <2>2, <2>4
  <2> QED
    BY <2>3, <2>4
<1> QED
  BY <1>1, <1>5, <1>6, <1>7

\* m with k bytes written at t: a string of length len at f, then NULs.
CopyOf(m, f, t, len, k) ==
  [a \in DOMAIN m |->
     IF t <= a /\ a < t + k THEN IF a - t < len THEN m[f + (a - t)] ELSE 0 ELSE m[a]]

\* What is read next has not been overwritten, or with the same NUL.
LEMMA NextRead ==
  ASSUME NEW m, NEW f \in Nat, NEW t \in Nat, NEW len \in Nat, NEW k \in Nat, NEW i \in Nat,
         Behind(t, f, len), i <= len, i <= k, i = k \/ i = len, f + i \in DOMAIN m, m[f + len] = 0
  PROVE  CopyOf(m, f, t, len, k)[f + i] = m[f + i]
<1> DEFINE b == f + i
<1>1. b \in Nat /\ (t <= b /\ b < t + k => i = len /\ b - t >= len)
  BY DEF Behind
<1>2. CASE t <= b /\ b < t + k
  <2>1. i = len /\ ~(b - t < len)
    BY <1>1, <1>2
  <2>2. m[b] = 0
    BY <2>1
  <2> HIDE DEF b
  <2>3. CopyOf(m, f, t, len, k)[b] = 0
    BY <1>2, <2>1 DEF CopyOf, b
  <2> QED
    BY <2>2, <2>3 DEF b
<1>3. CASE ~(t <= b /\ b < t + k)
  BY <1>3 DEF CopyOf
<1> QED
  BY <1>2, <1>3

LEMMA NothingCopied ==
  ASSUME NEW m, m = [a \in DOMAIN m |-> m[a]], \A a \in DOMAIN m : a \in Nat,
         NEW f \in Nat, NEW t \in Nat, NEW len \in Nat
  PROVE  CopyOf(m, f, t, len, 0) = m
<1>1. \A a \in DOMAIN m : ~(t <= a /\ a < t + 0)
  OBVIOUS
<1> QED
  BY <1>1 DEF CopyOf

Copying == call.fn \in {"strcpy", "strcat", "strncpy", "strlcpy"}

\* Where the copy begins.
Target == IF call.fn = "strcat" THEN call.dst + Length(call.dst) ELSE call.dst

\* k bytes are written, and the pointers are behind them.
CopiedTo(k) ==
  LET len == Length(call.src)
  IN  /\ to = Target + k
      /\ mem = CopyOf(mem0, call.src, Target, len, k)
      /\ from = call.src + (IF k < len THEN k ELSE len)
      /\ count \in Nat
      /\ call.fn = "strncpy" => k + count = call.n
      /\ call.fn # "strncpy" => k <= len
      /\ call.fn = "strlcpy" => (k + count) + 1 = call.n

\* The k bytes that fit, and the NUL.
Cut(k) == [CopyOf(mem0, call.src, Target, Length(call.src), k) EXCEPT ![Target + k] = 0]

Fitting == IF Length(call.src) < call.n THEN Length(call.src) ELSE call.n - 1

CopyDone ==
  LET len == Length(call.src)
  IN  /\ call.fn \in {"strcpy", "strcat"} => mem = CopyOf(mem0, call.src, Target, len, len + 1)
      /\ call.fn = "strncpy" => mem = CopyOf(mem0, call.src, Target, len, call.n)
      /\ call.fn = "strlcpy" =>
           IF call.n = 0 THEN mem = mem0 /\ ret = 0 ELSE mem = Cut(Fitting) /\ ret = Fitting

CopyInv ==
  Copying =>
    /\ Proper(call, mem0)
    /\ stage \in {"start", "loop", "done"}
    /\ stage = "start" => mem = mem0 /\ from = call.src /\ to = call.dst /\ count = call.n
    /\ stage = "loop" => \E k \in Nat : CopiedTo(k)
    /\ stage = "done" => CopyDone

\* What the steps of the copies find.
LEMMA CopyFacts ==
  ASSUME Copying, Proper(call, mem0)
  PROVE  /\ call.src \in Nat /\ call.dst \in Nat /\ call.n \in Nat /\ Target \in Nat
         /\ Length(call.src) \in Nat
         /\ mem0 = [a \in DOMAIN mem0 |-> mem0[a]] /\ \A a \in DOMAIN mem0 : a \in Nat
         /\ \A i \in 0..Length(call.src) :
              call.src + i \in DOMAIN mem0 /\ (mem0[call.src + i] = 0 <=> i = Length(call.src))
         /\ Behind(Target, call.src, Length(call.src))
         /\ call.fn \in {"strcpy", "strcat"} => \A i \in 0..Length(call.src) : Target + i \in DOMAIN mem0
         /\ call.fn \in {"strncpy", "strlcpy"} => \A i \in 0..call.n-1 : Target + i \in DOMAIN mem0
         /\ call.fn = "strcat" =>
              /\ call.dst + Length(call.dst) \in DOMAIN mem0 /\ mem0[call.dst + Length(call.dst)] = 0
              /\ \A b \in call.dst .. Target-1 : mem0[b] # 0 /\ b \in DOMAIN mem0
<1>1. IsString(mem0, call.src)
  BY DEF Copying, Proper
<1>2. /\ call.src \in Nat /\ call.dst \in Nat /\ call.n \in Nat
      /\ mem0 = [a \in DOMAIN mem0 |-> mem0[a]] /\ \A a \in DOMAIN mem0 : a \in Nat
  BY Cells
<1>3. /\ Length(call.src) \in Nat
      /\ \A i \in 0..Length(call.src) :
           call.src + i \in DOMAIN mem0 /\ (mem0[call.src + i] = 0 <=> i = Length(call.src))
  BY <1>1, StringEnds DEF Length
<1>4. CASE call.fn = "strcat"
  <2> DEFINE d == call.dst
             len == Length(call.dst)
  <2>1. IsString(mem0, d)
    BY <1>4 DEF Proper
  <2>2. /\ d \in Nat /\ len \in Nat
        /\ \A i \in 0..len : d + i \in DOMAIN mem0 /\ (mem0[d + i] = 0 <=> i = len)
    BY <2>1, StringEnds DEF Length
  <2>3. Target = d + len
    BY <1>4 DEF Target
  <2>4. /\ Behind(Target, call.src, Length(call.src))
        /\ Target .. Target + (Length(call.src) + 1) - 1 \subseteq DOMAIN mem0
    BY <1>4, <2>3 DEF Proper, Length, Fits
  <2> HIDE DEF d, len
  <2>5. Target \in Nat /\ Target \in DOMAIN mem0 /\ mem0[Target] = 0
    BY <2>2, <2>3
  <2>6. \A b \in d .. Target-1 : mem0[b] # 0 /\ b \in DOMAIN mem0
    <3> TAKE b \in d .. Target-1
    <3>1. b - d \in 0..len /\ b - d # len /\ d + (b - d) = b
      BY <2>2, <2>3
    <3> QED
      BY <3>1, <2>2
  <2>7. \A i \in 0..Length(call.src) : Target + i \in DOMAIN mem0
    <3> TAKE i \in 0..Length(call.src)
    <3>1. Target + i \in Target .. Target + (Length(call.src) + 1) - 1
      BY <1>3, <2>5
    <3> QED
      BY <3>1, <2>4
  <2> QED
    BY <1>2, <1>3, <1>4, <2>3, <2>4, <2>5, <2>6, <2>7 DEF d, len
<1>5. CASE call.fn # "strcat"
  <2>1. Target = call.dst
    BY <1>5 DEF Target
  <2>2. Behind(call.dst, call.src, Length(call.src))
    BY <1>5 DEF Copying, Proper, Length
  <2>3. call.fn = "strcpy" => \A i \in 0..Length(call.src) : call.dst + i \in DOMAIN mem0
    <3> SUFFICES ASSUME call.fn = "strcpy", NEW i \in 0..Length(call.src) PROVE call.dst + i \in DOMAIN mem0
      OBVIOUS
    <3>1. call.dst .. call.dst + (Length(call.src) + 1) - 1 \subseteq DOMAIN mem0
      BY DEF Proper, Fits, Length
    <3>2. call.dst + i \in call.dst .. call.dst + (Length(call.src) + 1) - 1
      BY <1>2, <1>3
    <3> QED
      BY <3>1, <3>2
  <2>4. call.fn \in {"strncpy", "strlcpy"} => \A i \in 0..call.n-1 : call.dst + i \in DOMAIN mem0
    <3> SUFFICES ASSUME call.fn \in {"strncpy", "strlcpy"}, NEW i \in 0..call.n-1 PROVE call.dst + i \in DOMAIN mem0
      OBVIOUS
    <3>1. call.dst .. call.dst + call.n - 1 \subseteq DOMAIN mem0
      BY DEF Proper, Fits
    <3>2. call.dst + i \in call.dst .. call.dst + call.n - 1
      BY <1>2
    <3> QED
      BY <3>1, <3>2
  <2> QED
    BY <1>2, <1>3, <1>5, <2>1, <2>2, <2>3, <2>4
<1> QED
  BY <1>4, <1>5

\* The next byte of the source, as the loop reads it.
LEMMA CopyReads ==
  ASSUME Copying, Proper(call, mem0), NEW k \in Nat, CopiedTo(k)
  PROVE  /\ mem[from] = mem0[from] /\ (mem[from] = 0 <=> k >= Length(call.src))
         /\ mem[from] = IF k < Length(call.src) THEN mem0[call.src + k] ELSE 0
         /\ from = call.src + (IF k < Length(call.src) THEN k ELSE Length(call.src))
<1> DEFINE len == Length(call.src)
           i == IF k < len THEN k ELSE len
<1>1. /\ from = call.src + i /\ mem = CopyOf(mem0, call.src, Target, len, k)
  BY DEF CopiedTo
<1>2. /\ call.src \in Nat /\ Target \in Nat /\ len \in Nat /\ Behind(Target, call.src, len)
      /\ \A j \in 0..len : call.src + j \in DOMAIN mem0 /\ (mem0[call.src + j] = 0 <=> j = len)
  BY CopyFacts
<1> HIDE DEF len
<1>3. i \in Nat /\ i <= len /\ i <= k /\ (i = k \/ i = len) /\ i \in 0..len /\ len \in 0..len /\ (i = len <=> k >= len)
  BY <1>2
<1> HIDE DEF i
<1>4. call.src + i \in DOMAIN mem0 /\ mem0[call.src + len] = 0 /\ (mem0[call.src + i] = 0 <=> i = len)
  BY <1>2, <1>3
<1>5. mem[from] = mem0[call.src + i]
  BY <1>1, <1>2, <1>3, <1>4, NextRead
<1>6. i = IF k < len THEN k ELSE len
  BY DEF i
<1>7. mem0[call.src + i] = IF k < len THEN mem0[call.src + k] ELSE 0
  BY <1>2, <1>3, <1>4, <1>6
<1> QED
  BY <1>1, <1>3, <1>4, <1>5, <1>6, <1>7 DEF len

\* What is written next.
LEMMA CopyWrites ==
  ASSUME Copying, Proper(call, mem0), NEW k \in Nat, CopiedTo(k), Target + k \in DOMAIN mem0,
         mem' = [mem EXCEPT ![to] = mem[from]]
  PROVE  mem' = CopyOf(mem0, call.src, Target, Length(call.src), k + 1)
<1> DEFINE len == Length(call.src)
           f == call.src
           v == mem[from]
<1>1. /\ Target \in Nat /\ \A a \in DOMAIN mem0 : a \in Nat
  BY CopyFacts
<1>2. mem = CopyOf(mem0, f, Target, len, k) /\ to = Target + k
  BY DEF CopiedTo
<1>3. v = IF k < len THEN mem0[f + k] ELSE 0
  BY CopyReads
<1>4. mem' = [mem EXCEPT ![to] = v]
  OBVIOUS
<1> HIDE DEF len, f, v
<1>5. ASSUME NEW a \in DOMAIN mem0
      PROVE  mem'[a] = CopyOf(mem0, f, Target, len, k + 1)[a]
  <2>1. a \in Nat
    BY <1>1
  <2>2. CASE a = to
    <3>1. a - Target = k /\ Target <= a /\ a < Target + (k + 1)
      BY <2>2, <1>1, <1>2
    <3>2. mem'[a] = v
      BY <2>2, <1>2, <1>4 DEF CopyOf
    <3> QED
      BY <3>1, <3>2, <1>3 DEF CopyOf
  <2>3. CASE a # to
    <3>1. (Target <= a /\ a < Target + k) <=> (Target <= a /\ a < Target + (k + 1))
      BY <2>1, <2>3, <1>1, <1>2
    <3>2. mem'[a] = CopyOf(mem0, f, Target, len, k)[a]
      BY <2>3, <1>2, <1>4 DEF CopyOf
    <3> QED
      BY <3>1, <3>2 DEF CopyOf
  <2> QED
    BY <2>2, <2>3
<1>6. mem' = CopyOf(mem0, f, Target, len, k + 1)
  BY <1>2, <1>4, <1>5 DEF CopyOf
<1> QED
  BY <1>6 DEF f, len

LEMMA CopyStarts ==
  ASSUME Copying, CopyInv, Begin \/ AppendAt \/ BeginLimited \/ CopyNothing, call' = call, mem0' = mem0
  PROVE  CopyInv'
<1>1. /\ Proper(call, mem0) /\ stage = "start" /\ mem = mem0 /\ from = call.src /\ to = call.dst /\ count = call.n
      /\ mem' = mem
  BY DEF CopyInv, Begin, AppendAt, BeginLimited, CopyNothing, Calls
<1>2. /\ call.src \in Nat /\ call.dst \in Nat /\ call.n \in Nat /\ Target \in Nat /\ Length(call.src) \in Nat
      /\ mem0 = [a \in DOMAIN mem0 |-> mem0[a]] /\ \A a \in DOMAIN mem0 : a \in Nat
  BY <1>1, CopyFacts
<1>3. CASE CopyNothing
  <2>1. stage' = "done" /\ call.fn = "strlcpy" /\ call.n = 0 /\ ret' = 0
    BY <1>1, <1>3 DEF CopyNothing, Calls, Returns
  <2>2. CopyDone'
    BY <1>1, <2>1 DEF CopyDone
  <2> QED
    BY <1>1, <2>1, <2>2 DEF CopyInv
<1>4. CASE Begin \/ AppendAt \/ BeginLimited
  <2>1. from' = from /\ stage' = "loop"
    BY <1>4 DEF Begin, AppendAt, BeginLimited, Enter
  <2>2. to' = Target
    <3>1. CASE call.fn # "strcat"
      BY <1>1, <1>4, <3>1 DEF Begin, AppendAt, BeginLimited, Calls, Target
    <3>2. CASE call.fn = "strcat"
      <4>1. to' = CHOOSE a \in Bytes : a >= to /\ mem[a] = 0 /\ \A b \in to..a-1 : mem[b] # 0
        BY <1>4, <3>2 DEF Begin, BeginLimited, AppendAt, Calls
      <4>2. /\ Target \in DOMAIN mem0 /\ mem0[Target] = 0 /\ Target >= call.dst
            /\ \A b \in call.dst .. Target-1 : mem0[b] # 0
        <5>1. Target = call.dst + Length(call.dst)
          BY <3>2 DEF Target
        <5>2. Length(call.dst) \in Nat
          BY <1>1, <3>2, StringEnds DEF Proper, Length
        <5>3. Target >= call.dst
          BY <5>1, <5>2, <1>2
        <5> QED
          BY <5>1, <5>3, <1>1, <3>2, CopyFacts
      <4> DEFINE S == {a \in DOMAIN mem0 : a >= call.dst /\ mem0[a] = 0 /\ \A b \in call.dst..a-1 : mem0[b] # 0}
      <4>3. to' = CHOOSE a \in S : TRUE
        BY <4>1, <1>1 DEF Bytes
      <4>4. Target \in S
        BY <4>2
      <4>5. ASSUME NEW a \in S PROVE a = Target
        <5> DEFINE d == call.dst
        <5>1. a \in Nat /\ a >= d /\ mem0[a] = 0 /\ \A b \in d..a-1 : mem0[b] # 0
          BY <4>5, <1>2
        <5>2. Target \in Nat /\ Target >= d /\ mem0[Target] = 0 /\ (\A b \in d..Target-1 : mem0[b] # 0) /\ d \in Nat
          BY <4>2, <1>2
        <5> HIDE DEF S, d
        <5>3. ~(a < Target)
          <6> SUFFICES ASSUME a < Target PROVE FALSE
            OBVIOUS
          <6>1. a \in d..Target-1
            BY <5>1, <5>2
          <6> QED
            BY <6>1, <5>1, <5>2
        <5>4. ~(Target < a)
          <6> SUFFICES ASSUME Target < a PROVE FALSE
            OBVIOUS
          <6>1. Target \in d..a-1
            BY <5>1, <5>2
          <6> QED
            BY <6>1, <5>1, <5>2
        <5> QED
          BY <5>1, <5>2, <5>3, <5>4
      <4> HIDE DEF S
      <4> QED
        BY <4>3, <4>4, <4>5
    <3> QED
      BY <3>1, <3>2
  <2>3. mem' = CopyOf(mem0, call.src, Target, Length(call.src), 0)
    BY <1>1, <1>2, NothingCopied
  <2>4. to' = Target + 0 /\ from' = call.src + (IF 0 < Length(call.src) THEN 0 ELSE Length(call.src))
    <3> DEFINE len == Length(call.src)
               f == call.src
    <3>1. from' = f
      BY <1>1, <2>1
    <3>2. len \in Nat /\ f \in Nat
      BY <1>2
    <3> HIDE DEF len, f
    <3>3. from' = f + (IF 0 < len THEN 0 ELSE len)
      BY <3>1, <3>2
    <3> QED
      BY <1>2, <2>2, <3>3 DEF len, f
  <2>5. /\ count' \in Nat /\ (call.fn = "strncpy" => 0 + count' = call.n)
        /\ call.fn = "strlcpy" => (0 + count') + 1 = call.n
    <3>1. CASE BeginLimited
      <4>1. count' = call.n - 1 /\ call.n > 0 /\ call.fn = "strlcpy"
        BY <1>1, <3>1 DEF BeginLimited, Calls
      <4> QED
        BY <4>1, <1>2
    <3>2. CASE Begin \/ AppendAt
      <4>1. count' = call.n /\ call.fn # "strlcpy"
        BY <1>1, <3>2 DEF Begin, AppendAt, Calls
      <4> QED
        BY <4>1, <1>2
    <3> QED
      BY <1>4, <3>1, <3>2
  <2>6. 0 <= Length(call.src)
    BY <1>2
  <2>7. CopiedTo(0)'
    BY <1>1, <2>3, <2>4, <2>5, <2>6 DEF CopiedTo, Target, Length
  <2> QED
    BY <1>1, <2>1, <2>7 DEF CopyInv
<1> QED
  BY <1>3, <1>4

\* A byte more.
LEMMA CopyGoesOn ==
  ASSUME Copying, CopyInv, NEW k \in Nat, CopiedTo(k), call' = call, mem0' = mem0,
         stage = "loop", stage' = "loop",
         \/ CopyChar /\ mem[from] # 0
         \/ PadChar
         \/ CopyLimited /\ mem[from] # 0 /\ count > 0
  PROVE  CopyInv'
<1> DEFINE len == Length(call.src)
           f == call.src
<1>1. Proper(call, mem0)
  BY DEF CopyInv
<1>2. /\ f \in Nat /\ call.dst \in Nat /\ call.n \in Nat /\ Target \in Nat /\ len \in Nat
      /\ \A a \in DOMAIN mem0 : a \in Nat
  BY <1>1, CopyFacts
<1>3. /\ to = Target + k /\ mem = CopyOf(mem0, f, Target, len, k) /\ count \in Nat
      /\ call.fn = "strncpy" => k + count = call.n
      /\ call.fn # "strncpy" => k <= len
      /\ call.fn = "strlcpy" => (k + count) + 1 = call.n
  BY DEF CopiedTo
<1>4. /\ (mem[from] = 0 <=> k >= len) /\ from = f + (IF k < len THEN k ELSE len)
      /\ mem[from] = IF k < len THEN mem0[f + k] ELSE 0
  BY <1>1, CopyReads
<1>5. mem' = [mem EXCEPT ![to] = mem[from]] /\ to' = to + 1
  BY DEF CopyChar, PadChar, CopyLimited, Store
<1>6. /\ call.fn # "strncpy" => mem[from] # 0
      /\ from' = IF mem[from] # 0 THEN from + 1 ELSE from
  BY DEF CopyChar, PadChar, CopyLimited, Loops
<1>7. /\ call.fn = "strncpy" => count > 0 /\ count' = count - 1
      /\ call.fn = "strlcpy" => count > 0 /\ count' = count - 1
      /\ call.fn \in {"strcpy", "strcat"} => count' = count
  BY DEF CopyChar, PadChar, CopyLimited, Loops
<1>8. Target + k \in DOMAIN mem0
  <2>1. CASE call.fn \in {"strcpy", "strcat"}
    <3>1. k \in 0..len
      BY <2>1, <1>2, <1>3
    <3> QED
      BY <2>1, <3>1, <1>1, CopyFacts
  <2>2. CASE call.fn \in {"strncpy", "strlcpy"}
    <3>1. k \in 0..call.n-1
      <4> DEFINE n0 == call.n
      <4>1. n0 \in Nat /\ count \in Nat /\ count > 0 /\ (k + count = n0 \/ (k + count) + 1 = n0)
        BY <2>2, <1>2, <1>3, <1>7
      <4> HIDE DEF n0
      <4>2. k \in 0..n0-1
        BY <4>1
      <4> QED
        BY <4>2 DEF n0
    <3> QED
      BY <2>2, <3>1, <1>1, CopyFacts
  <2> QED
    BY <2>1, <2>2 DEF Copying
<1>9. mem' = CopyOf(mem0, f, Target, len, k + 1)
  BY <1>1, <1>5, <1>8, CopyWrites
<1>10. to' = Target + (k + 1) /\ from' = f + (IF k + 1 < len THEN k + 1 ELSE len)
  <2> HIDE DEF f, len
  <2>1. to' = Target + (k + 1)
    BY <1>2, <1>3, <1>5
  <2>2. CASE k < len
    <3>1. from' = (f + k) + 1
      BY <2>2, <1>2, <1>4, <1>6
    <3> QED
      BY <2>1, <2>2, <3>1, <1>2
  <2>3. CASE ~(k < len)
    <3>1. from' = f + len
      BY <2>3, <1>2, <1>4, <1>6
    <3> QED
      BY <2>1, <2>3, <3>1, <1>2
  <2> QED
    BY <2>2, <2>3
<1>11. /\ count' \in Nat
       /\ call.fn = "strncpy" => (k + 1) + count' = call.n
       /\ call.fn # "strncpy" => k + 1 <= len
       /\ call.fn = "strlcpy" => ((k + 1) + count') + 1 = call.n
  <2> DEFINE n0 == call.n
  <2>1. n0 \in Nat
    BY <1>2
  <2>2. call.fn = "strncpy" => k + count = n0
    BY <1>3
  <2>3. call.fn = "strlcpy" => (k + count) + 1 = n0
    BY <1>3
  <2> HIDE DEF n0, len, f
  <2>4. count' \in Nat
    BY <1>3, <1>7 DEF Copying
  <2>5. call.fn = "strncpy" => (k + 1) + count' = n0
    BY <2>1, <2>2, <1>3, <1>7
  <2>6. call.fn = "strlcpy" => ((k + 1) + count') + 1 = n0
    BY <2>1, <2>3, <1>3, <1>7
  <2>7. call.fn # "strncpy" => k + 1 <= len
    BY <1>2, <1>4, <1>6
  <2> QED
    BY <2>4, <2>5, <2>6, <2>7 DEF n0
<1>12. CopiedTo(k + 1)'
  BY <1>9, <1>10, <1>11 DEF CopiedTo, Target, Length
<1>13. k + 1 \in Nat
  OBVIOUS
<1> QED
  BY <1>1, <1>12, <1>13 DEF CopyInv

\* The last byte of strcpy and strcat, and the end of strncpy.
LEMMA CopyEnds ==
  ASSUME Copying, CopyInv, NEW k \in Nat, CopiedTo(k), call' = call, mem0' = mem0,
         stage = "loop", stage' = "done",
         (CopyChar /\ mem[from] = 0) \/ PadDone
  PROVE  CopyInv'
<1> DEFINE len == Length(call.src)
           f == call.src
<1>1. Proper(call, mem0)
  BY DEF CopyInv
<1>2. /\ f \in Nat /\ call.dst \in Nat /\ call.n \in Nat /\ Target \in Nat /\ len \in Nat
      /\ \A a \in DOMAIN mem0 : a \in Nat
  BY <1>1, CopyFacts
<1>3. /\ to = Target + k /\ mem = CopyOf(mem0, f, Target, len, k) /\ count \in Nat
      /\ call.fn = "strncpy" => k + count = call.n
      /\ call.fn # "strncpy" => k <= len
  BY DEF CopiedTo
<1>4. CASE CopyChar /\ mem[from] = 0
  <2>1. call.fn \in {"strcpy", "strcat"} /\ mem' = [mem EXCEPT ![to] = mem[from]]
    BY <1>4 DEF CopyChar, Loops, Store
  <2>2. k = len
    <3>1. k >= len
      BY <1>1, <1>4, CopyReads
    <3> HIDE DEF len
    <3> QED
      BY <3>1, <2>1, <1>2, <1>3
  <2>3. Target + k \in DOMAIN mem0
    <3>1. k \in 0..len
      BY <2>2, <1>2
    <3> QED
      BY <3>1, <2>1, <1>1, CopyFacts
  <2>4. mem' = CopyOf(mem0, f, Target, len, len + 1)
    BY <1>1, <2>1, <2>2, <2>3, CopyWrites
  <2>5. CopyDone'
    BY <2>1, <2>4 DEF CopyDone, Target, Length
  <2> QED
    BY <1>1, <2>5 DEF CopyInv
<1>5. CASE PadDone
  <2>1. call.fn = "strncpy" /\ mem' = mem /\ count = 0
    BY <1>5 DEF PadDone, Loops
  <2>2. k = call.n
    <3> DEFINE n0 == call.n
    <3>1. k + count = n0 /\ n0 \in Nat
      BY <2>1, <1>2, <1>3
    <3> HIDE DEF n0
    <3>2. k = n0
      BY <2>1, <3>1
    <3> QED
      BY <3>2 DEF n0
  <2>3. mem' = CopyOf(mem0, f, Target, len, call.n)
    BY <1>3, <2>1, <2>2
  <2>4. CopyDone'
    BY <2>1, <2>3 DEF CopyDone, Target, Length
  <2> QED
    BY <1>1, <2>4 DEF CopyInv
<1> QED
  BY <1>4, <1>5

\* The NUL of strlcpy.
LEMMA LimitedEnds ==
  ASSUME Copying, CopyInv, NEW k \in Nat, CopiedTo(k), call' = call, mem0' = mem0,
         stage = "loop", stage' = "done",
         CopyLimited, ~(count > 0 /\ mem[from] # 0)
  PROVE  CopyInv'
<1> DEFINE len == Length(call.src)
           f == call.src
           size == call.n
           fits == IF len < size THEN len ELSE size - 1
<1>1. Proper(call, mem0)
  BY DEF CopyInv
<1>2. call.fn = "strlcpy" /\ mem' = [mem EXCEPT ![to] = 0] /\ ret' = to - call.dst
  BY DEF CopyLimited, Loops, Store, Returns
<1>3. /\ size \in Nat /\ len \in Nat /\ call.dst \in Nat
      /\ \A i \in 0..size-1 : Target + i \in DOMAIN mem0
  BY <1>1, <1>2, CopyFacts
<1>4. to = Target + k /\ count \in Nat /\ k <= len /\ (k + count) + 1 = size /\ Target = call.dst
  BY <1>2 DEF CopiedTo, Target
<1>5. mem[from] = 0 <=> k >= len
  BY <1>1, CopyReads
<1>6. k = fits /\ size # 0 /\ k \in 0..size-1
  <2> HIDE DEF len, size
  <2> QED
    BY <1>3, <1>4, <1>5
<1>7. mem' = Cut(k)
  BY <1>2, <1>4 DEF Cut, CopiedTo
<1>8. ret' = k
  BY <1>2, <1>3, <1>4
<1>9. mem' = Cut(Fitting) /\ ret' = Fitting
  BY <1>6, <1>7, <1>8 DEF Fitting
<1>10. mem' = Cut(Fitting)' /\ ret' = Fitting'
  BY <1>9 DEF Cut, Fitting, Target, Length
<1>11. CopyDone'
  BY <1>2, <1>6, <1>10 DEF CopyDone
<1> QED
  BY <1>1, <1>11 DEF CopyInv

LEMMA CopyKeeps == CopyInv /\ [CmdNext]_cmdVars => CopyInv'
<1> SUFFICES ASSUME CopyInv, [CmdNext]_cmdVars PROVE CopyInv'
  OBVIOUS
<1>1. /\ call' = call /\ mem0' = mem0
      /\ Copying => \/ Begin \/ AppendAt \/ BeginLimited \/ CopyNothing
                    \/ CopyChar \/ PadChar \/ PadDone \/ CopyLimited \/ Idle
  BY Steps DEF Copying
<1>2. CASE ~Copying
  BY <1>1, <1>2 DEF CopyInv, Copying
<1>3. CASE Copying /\ Idle
  <2>1. UNCHANGED <<call, mem, mem0, from, to, count, ret, stage>>
    BY <1>3 DEF Idle, callVars
  <2> QED
    BY <2>1 DEF CopyInv, Copying, CopiedTo, Target, Length, CopyDone, Cut, Fitting
<1>4. CASE Copying /\ (Begin \/ AppendAt \/ BeginLimited \/ CopyNothing)
  BY <1>1, <1>4, CopyStarts
<1>5. CASE Copying /\ (CopyChar \/ PadChar \/ PadDone \/ CopyLimited)
  <2>1. stage = "loop"
    BY <1>5 DEF CopyChar, PadChar, PadDone, CopyLimited, Loops
  <2>2. PICK k \in Nat : CopiedTo(k)
    BY <1>5, <2>1 DEF CopyInv
  <2>3. CASE CopyChar
    <3>1. CASE mem[from] # 0
      <4>1. stage' = "loop"
        BY <2>1, <2>3, <3>1 DEF CopyChar, Again
      <4> QED
        BY <1>1, <1>5, <2>1, <2>2, <2>3, <3>1, <4>1, CopyGoesOn
    <3>2. CASE mem[from] = 0
      <4>1. stage' = "done"
        BY <2>3, <3>2 DEF CopyChar, Returns
      <4> QED
        BY <1>1, <1>5, <2>1, <2>2, <2>3, <3>2, <4>1, CopyEnds
    <3> QED
      BY <3>1, <3>2
  <2>4. CASE PadChar
    <3>1. stage' = "loop"
      BY <2>1, <2>4 DEF PadChar, Again
    <3> QED
      BY <1>1, <1>5, <2>1, <2>2, <2>4, <3>1, CopyGoesOn
  <2>5. CASE PadDone
    <3>1. stage' = "done"
      BY <2>5 DEF PadDone, Returns
    <3> QED
      BY <1>1, <1>5, <2>1, <2>2, <2>5, <3>1, CopyEnds
  <2>6. CASE CopyLimited
    <3>1. CASE count > 0 /\ mem[from] # 0
      <4>1. stage' = "loop"
        BY <2>1, <2>6, <3>1 DEF CopyLimited, Again
      <4> QED
        BY <1>1, <1>5, <2>1, <2>2, <2>6, <3>1, <4>1, CopyGoesOn
    <3>2. CASE ~(count > 0 /\ mem[from] # 0)
      <4>1. stage' = "done"
        BY <2>6, <3>2 DEF CopyLimited, Returns
      <4> QED
        BY <1>1, <1>5, <2>1, <2>2, <2>6, <3>2, <4>1, LimitedEnds
    <3> QED
      BY <3>1, <3>2
  <2> QED
    BY <1>5, <2>3, <2>4, <2>5, <2>6
<1> QED
  BY <1>1, <1>2, <1>3, <1>4, <1>5

\* The k bytes of a copy.
Values(k) == [i \in 0..k-1 |-> IF i < Length(call.src) THEN mem0[call.src + i] ELSE 0]

LEMMA CopyWritten ==
  ASSUME Copying, Proper(call, mem0), NEW k \in Nat
  PROVE  CopyOf(mem0, call.src, Target, Length(call.src), k) = Over(mem0, Target, Values(k))
<1> DEFINE v == Values(k)
           len == Length(call.src)
           f == call.src
<1>1. /\ Target \in Nat /\ \A a \in DOMAIN mem0 : a \in Nat
  BY CopyFacts
<1>2. \A a \in DOMAIN mem0 : (Target <= a /\ a < Target + k) <=> a - Target \in DOMAIN v
  BY <1>1 DEF Values
<1>3. \A a \in DOMAIN mem0 : a - Target \in DOMAIN v =>
        v[a - Target] = IF a - Target < len THEN mem0[f + (a - Target)] ELSE 0
  BY DEF Values
<1> HIDE DEF v
<1>4. CopyOf(mem0, f, Target, len, k) = Over(mem0, Target, v)
  BY <1>2, <1>3 DEF CopyOf, Over
<1> QED
  BY <1>4 DEF v

LEMMA CutWritten ==
  ASSUME Copying, Proper(call, mem0), NEW k \in Nat, Target + k \in DOMAIN mem0
  PROVE  Cut(k) = Over(mem0, Target, [Values(k + 1) EXCEPT ![k] = 0])
<1> DEFINE len == Length(call.src)
           f == call.src
           v == [Values(k + 1) EXCEPT ![k] = 0]
<1>1. /\ Target \in Nat /\ \A a \in DOMAIN mem0 : a \in Nat
  BY CopyFacts
<1>2. DOMAIN v = 0..k /\ v[k] = 0 /\ \A i \in 0..k-1 : v[i] = IF i < len THEN mem0[f + i] ELSE 0
  BY DEF Values
<1> HIDE DEF v, len, f
<1>3. ASSUME NEW a \in DOMAIN mem0
      PROVE  Cut(k)[a] = Over(mem0, Target, v)[a]
  <2>1. a \in Nat
    BY <1>1
  <2>2. CASE a = Target + k
    <3>1. a - Target = k /\ k \in 0..k
      BY <2>2, <1>1
    <3>2. Cut(k)[a] = 0
      BY <2>2 DEF CopyOf, Cut
    <3> QED
      BY <3>1, <3>2, <1>2 DEF Over
  <2>3. CASE a # Target + k
    <3> DEFINE i == a - Target
    <3>1. i \in Int /\ (Target <= a /\ a < Target + k <=> i \in 0..k) /\ (i \in 0..k => i \in 0..k-1)
      BY <2>1, <2>3, <1>1
    <3>2. Cut(k)[a] = IF Target <= a /\ a < Target + k THEN IF i < len THEN mem0[f + i] ELSE 0 ELSE mem0[a]
      BY <2>3 DEF CopyOf, Cut, len, f
    <3>3. Over(mem0, Target, v)[a] = IF i \in 0..k THEN v[i] ELSE mem0[a]
      BY <1>2 DEF Over
    <3> HIDE DEF i
    <3> QED
      BY <3>1, <3>2, <3>3, <1>2
  <2> QED
    BY <2>2, <2>3
<1>4. Cut(k) = Over(mem0, Target, v)
  BY <1>3 DEF CopyOf, Over, Cut
<1> QED
  BY <1>4 DEF v

\* What the copies should leave, and strlcpy return.
LEMMA CopyIsRight == CopyInv => CopyRight
<1> SUFFICES ASSUME CopyInv, Copying, stage = "done" PROVE CopyRight
  BY DEF CopyRight, After, Copying
<1>1. Proper(call, mem0) /\ CopyDone
  BY DEF CopyInv
<1>2. Length(call.src) \in Nat /\ call.n \in Nat
  BY <1>1, CopyFacts
<1>3. ASSUME call.fn \in {"strcpy", "strcat"}
      PROVE  mem = Over(mem0, Target, Values(Length(call.src) + 1))
  <2> DEFINE k == Length(call.src) + 1
  <2>1. k \in Nat /\ mem = CopyOf(mem0, call.src, Target, Length(call.src), k)
    BY <1>1, <1>2, <1>3 DEF CopyDone
  <2> HIDE DEF k
  <2>2. mem = Over(mem0, Target, Values(k))
    BY <1>1, <2>1, CopyWritten
  <2> QED
    BY <2>2 DEF k
<1>4. ASSUME call.fn = "strncpy"
      PROVE  mem = Over(mem0, Target, Values(call.n))
  BY <1>1, <1>2, <1>4, CopyWritten DEF CopyDone
<1>5. ASSUME call.fn = "strlcpy", call.n # 0
      PROVE  mem = Over(mem0, Target, [Values(Fitting + 1) EXCEPT ![Fitting] = 0]) /\ ret = Fitting
  <2>1. mem = Cut(Fitting) /\ ret = Fitting
    BY <1>1, <1>5 DEF CopyDone
  <2>2. Fitting \in Nat /\ Fitting \in 0..call.n-1
    <3> DEFINE len == Length(call.src)
               size == call.n
    <3>1. len \in Nat /\ size \in Nat /\ size # 0
      BY <1>2, <1>5
    <3>2. Fitting = IF len < size THEN len ELSE size - 1
      BY DEF Fitting
    <3> HIDE DEF len, size
    <3>3. Fitting \in Nat /\ Fitting \in 0..size-1
      BY <3>1, <3>2
    <3> QED
      BY <3>3 DEF size
  <2>3. Target + Fitting \in DOMAIN mem0
    BY <1>1, <1>5, <2>2, CopyFacts
  <2> QED
    BY <1>1, <2>1, <2>2, <2>3, CutWritten
<1>6. Target = IF call.fn = "strcat" THEN call.dst + Length(call.dst) ELSE call.dst
  BY DEF Target
<1>7. call.fn = "strlcpy" /\ call.n = 0 => mem = mem0 /\ ret = 0
  BY <1>1 DEF CopyDone
<1>8. /\ call.fn = "strcpy" => mem = Over(mem0, call.dst, Values(Length(call.src) + 1))
      /\ call.fn = "strcat" => mem = Over(mem0, call.dst + Length(call.dst), Values(Length(call.src) + 1))
      /\ call.fn = "strncpy" => mem = Over(mem0, call.dst, Values(call.n))
      /\ call.fn = "strlcpy" =>
           IF call.n = 0 THEN mem = mem0 /\ ret = 0
           ELSE /\ mem = Over(mem0, call.dst, [Values(Fitting + 1) EXCEPT ![Fitting] = 0]) /\ ret = Fitting
  BY <1>3, <1>4, <1>5, <1>6, <1>7
<1> QED
  BY <1>8 DEF CopyRight, After, Values, Fitting

----------------------------------------------------------------------------
(* Comparing, and finding.                                                 *)

\* The memory is an interval: what is in it is within its last address.
LEMMA WithinBytes ==
  ASSUME NEW c, Proper(c, mem), NEW a \in Nat, NEW i \in Nat
  PROVE  /\ a + i \in Bytes => i \in 0..Max(Bytes)
         /\ Max(Bytes) \in Int
<1>1. PICK e \in Nat : Bytes = 0..e
  BY Cells DEF Bytes
<1>2. Max(0..e) = e
  BY DEF Max
<1> QED
  BY <1>1, <1>2

Comparing == call.fn \in {"strcmp", "strncmp", "memcmp"}

\* k bytes are the same.
ComparedTo(k) ==
  /\ mem = mem0 /\ from = call.src + k /\ to = call.dst + k
  /\ \A i \in 0..k-1 :
       mem0[call.dst + i] = mem0[call.src + i] /\ (call.fn # "memcmp" => mem0[call.dst + i] # 0)
  /\ call.fn # "strcmp" => count \in Nat /\ k + count = call.n

ComparisonInv ==
  Comparing =>
    /\ Proper(call, mem0)
    /\ stage \in {"start", "loop", "done"}
    /\ stage = "start" => mem = mem0 /\ from = call.src /\ to = call.dst /\ count = call.n
    /\ stage # "start" => \E k \in Nat : ComparedTo(k)
    /\ stage = "done" =>
         /\ ~Same
         /\ ret = IF call.fn # "strcmp" /\ count = 0 THEN 0 ELSE mem[to] - mem[from]

LEMMA CompareKeeps == ComparisonInv /\ [CmdNext]_cmdVars => ComparisonInv'
<1> SUFFICES ASSUME ComparisonInv, [CmdNext]_cmdVars PROVE ComparisonInv'
  OBVIOUS
<1>1. /\ call' = call /\ mem0' = mem0
      /\ Comparing => Begin \/ CompareChar \/ Idle
  BY Steps DEF Comparing
<1>2. CASE ~Comparing
  BY <1>1, <1>2 DEF ComparisonInv, Comparing
<1>3. CASE Comparing /\ Idle
  <2>1. UNCHANGED <<call, mem, mem0, from, to, count, ret, stage>>
    BY <1>3 DEF Idle, callVars
  <2> QED
    BY <2>1 DEF ComparisonInv, Comparing, ComparedTo, Same
<1> SUFFICES ASSUME Comparing, ~Idle PROVE ComparisonInv'
  BY <1>2, <1>3
<1>4. Proper(call, mem0) /\ call.src \in Nat /\ call.dst \in Nat /\ call.n \in Nat
  BY Cells DEF ComparisonInv
<1> DEFINE f == call.src
           t == call.dst
           size == call.n
<1>5. CASE Begin
  <2>1. /\ stage' = "loop" /\ mem' = mem0 /\ from' = f /\ to' = t /\ count' = size
    BY <1>5 DEF ComparisonInv, Begin, Calls, Enter
  <2>2. from' = f + 0 /\ to' = t + 0 /\ count' \in Nat /\ 0 + count' = size
    <3>1. f \in Nat /\ t \in Nat /\ size \in Nat
      BY <1>4
    <3> HIDE DEF f, t, size
    <3> QED
      BY <2>1, <3>1
  <2>3. ComparedTo(0)'
    BY <1>1, <2>1, <2>2 DEF ComparedTo
  <2> QED
    BY <1>1, <1>4, <2>1, <2>3 DEF ComparisonInv
<1>6. CASE CompareChar
  <2>1. stage = "loop" /\ mem' = mem
    BY <1>6 DEF CompareChar, Loops
  <2>2. PICK k \in Nat : ComparedTo(k)
    BY <2>1 DEF ComparisonInv
  <2>3. /\ mem = mem0 /\ from = f + k /\ to = t + k
        /\ \A i \in 0..k-1 :
             mem0[t + i] = mem0[f + i] /\ (call.fn # "memcmp" => mem0[t + i] # 0)
        /\ call.fn # "strcmp" => count \in Nat /\ k + count = size
    BY <2>2 DEF ComparedTo
  <2>4. CASE Same
    <3>1. /\ from' = from + 1 /\ to' = to + 1 /\ stage' = "loop"
          /\ call.fn # "strcmp" => count' = count - 1
      BY <1>6, <2>1, <2>4 DEF CompareChar, Again
    <3>2. /\ mem0[t + k] = mem0[f + k] /\ (call.fn # "memcmp" => mem0[t + k] # 0)
          /\ call.fn # "strcmp" => count > 0
      BY <2>3, <2>4 DEF Same, Comparing
    <3>3. from' = f + (k + 1) /\ to' = t + (k + 1)
      BY <1>4, <2>3, <3>1
    <3>4. call.fn # "strcmp" => count' \in Nat /\ (k + 1) + count' = size
      <4>1. size \in Nat
        BY <1>4
      <4> HIDE DEF size
      <4> QED
        BY <4>1, <2>3, <3>1, <3>2
    <3>5. \A i \in 0..(k+1)-1 :
            mem0[t + i] = mem0[f + i] /\ (call.fn # "memcmp" => mem0[t + i] # 0)
      <4>1. \A i \in 0..(k+1)-1 : i \in 0..k-1 \/ i = k
        OBVIOUS
      <4> HIDE DEF f, t
      <4> QED
        BY <4>1, <2>3, <3>2
    <3>6. ComparedTo(k + 1)' /\ k + 1 \in Nat
      BY <1>1, <2>1, <2>3, <3>3, <3>4, <3>5 DEF ComparedTo
    <3> QED
      BY <1>1, <1>4, <3>1, <3>6 DEF ComparisonInv
  <2>5. CASE ~Same
    <3>1. /\ stage' = "done" /\ UNCHANGED <<call, mem0, from, to, count>>
          /\ ret' = IF call.fn # "strcmp" /\ count = 0 THEN 0 ELSE mem[to] - mem[from]
      BY <1>6, <2>5 DEF CompareChar, Returns
    <3>2. ~Same' /\ ComparedTo(k)'
      BY <2>1, <2>2, <2>5, <3>1 DEF Same, ComparedTo
    <3>3. ret' = IF call'.fn # "strcmp" /\ count' = 0 THEN 0 ELSE mem'[to'] - mem'[from']
      BY <2>1, <3>1
    <3> QED
      BY <1>1, <1>4, <3>1, <3>2, <3>3 DEF ComparisonInv
  <2> QED
    BY <2>4, <2>5
<1> QED
  BY <1>1, <1>5, <1>6

\* What ends a comparison or a search.
Limit == IF call.fn \in {"strncmp", "memcmp", "strnlen", "memfind"} THEN {call.n} ELSE {}
NulAt == IF call.fn \notin {"memcmp", "memfind"} THEN {Length(call.src)} ELSE {}
Differing == {i \in 0..Max(Bytes) : {call.dst + i, call.src + i} \subseteq Bytes
                                       /\ mem0[call.dst + i] # mem0[call.src + i]}

\* The first difference is where the comparison stops.
LEMMA CompareStops ==
  ASSUME Comparing, Proper(call, mem0), NEW k \in Nat, ComparedTo(k), ~Same
  PROVE  /\ Min(Differing \cup NulAt \cup Limit) = k
         /\ k \in Limit <=> call.fn # "strcmp" /\ count = 0
<1> DEFINE f == call.src
           t == call.dst
           size == call.n
           len == Length(call.src)
<1>1. f \in Nat /\ t \in Nat /\ size \in Nat /\ Bytes = DOMAIN mem0 /\ Proper(call, mem)
  BY Cells DEF ComparedTo, Bytes
<1>2. /\ mem = mem0 /\ from = f + k /\ to = t + k
      /\ \A i \in 0..k-1 :
           mem0[t + i] = mem0[f + i] /\ (call.fn # "memcmp" => mem0[t + i] # 0)
      /\ call.fn # "strcmp" => count \in Nat /\ k + count = size
  BY DEF ComparedTo
<1>3. call.fn # "strcmp" => k <= size /\ (k = size <=> count = 0)
  <2> HIDE DEF size
  <2> QED
    BY <1>1, <1>2
<1>4. /\ call.fn # "memcmp" =>
           /\ len \in Nat /\ \A i \in 0..len : f + i \in Bytes /\ (mem0[f + i] = 0 <=> i = len)
           /\ Length(t) \in Nat
           /\ \A i \in 0..Length(t) : t + i \in Bytes /\ (mem0[t + i] = 0 <=> i = Length(t))
  BY <1>1, StringEnds DEF Proper, Comparing, Length
<1>5. call.fn # "memcmp" => k <= len /\ k <= Length(t)
  <2> SUFFICES ASSUME call.fn # "memcmp" PROVE k <= len /\ k <= Length(t)
    OBVIOUS
  <2>1. ~(len < k)
    <3> SUFFICES ASSUME len < k PROVE FALSE
      OBVIOUS
    <3>1. len \in 0..k-1 /\ len \in 0..len
      BY <1>4
    <3> QED
      BY <3>1, <1>2, <1>4
  <2>2. ~(Length(t) < k)
    <3> DEFINE h == Length(t)
    <3> SUFFICES ASSUME h < k PROVE FALSE
      OBVIOUS
    <3>1. h \in 0..k-1 /\ h \in 0..h
      BY <1>4
    <3> QED
      BY <3>1, <1>2, <1>4
  <2> QED
    BY <1>4, <2>1, <2>2
<1>6. ASSUME NEW i \in Differing PROVE i \in Int /\ k <= i
  <2>1. i \in Int /\ 0 <= i /\ mem0[t + i] # mem0[f + i]
    BY <1>1, WithinBytes DEF Differing
  <2>2. ~(i < k)
    <3> SUFFICES ASSUME i < k PROVE FALSE
      OBVIOUS
    <3>1. i \in 0..k-1
      BY <2>1
    <3> QED
      BY <3>1, <2>1, <1>2
  <2> QED
    BY <2>1, <2>2
<1>7. \A i \in Differing \cup NulAt \cup Limit : i \in Int /\ k <= i
  BY <1>1, <1>3, <1>4, <1>5, <1>6 DEF Comparing, Limit, NulAt
<1>8. k \in Differing \cup NulAt \cup Limit
  <2>1. CASE call.fn # "strcmp" /\ count = 0
    BY <2>1, <1>3 DEF Comparing, Limit
  <2>2. CASE ~(call.fn # "strcmp" /\ count = 0)
    <3>1. call.fn # "strcmp" => count > 0 /\ k < size
      BY <2>2, <1>1, <1>2, <1>3
    <3>2. f + k \in Bytes /\ t + k \in Bytes
      <4>1. CASE call.fn # "memcmp"
        <5>1. k \in 0..len /\ k \in 0..Length(t)
          BY <4>1, <1>4, <1>5
        <5> QED
          BY <4>1, <5>1, <1>4
      <4>2. CASE call.fn = "memcmp"
        <5>1. f .. f + size - 1 \subseteq Bytes /\ t .. t + size - 1 \subseteq Bytes
          BY <4>2, <1>1 DEF Proper, Fits
        <5>2. f + k \in f .. f + size - 1 /\ t + k \in t .. t + size - 1
          <6>1. k < size
            BY <3>1, <4>2
          <6> HIDE DEF f, t, size
          <6> QED
            BY <6>1, <1>1
        <5> QED
          BY <5>1, <5>2
      <4> QED
        BY <4>1, <4>2
    <3>3. mem0[t + k] # mem0[f + k] \/ (call.fn # "memcmp" /\ mem0[t + k] = 0)
      BY <1>2, <3>1 DEF Same, Comparing
    <3>4. CASE mem0[t + k] # mem0[f + k]
      <4>1. k \in 0..Max(Bytes)
        BY <3>2, <1>1, WithinBytes
      <4> QED
        BY <4>1, <3>2, <3>4 DEF Differing
    <3>5. CASE mem0[t + k] = mem0[f + k] /\ call.fn # "memcmp" /\ mem0[t + k] = 0
      <4>1. k \in 0..len
        BY <3>5, <1>4, <1>5
      <4>2. k = len
        BY <3>5, <4>1, <1>4
      <4> QED
        BY <3>5, <4>2 DEF NulAt, Comparing
    <3> QED
      BY <3>3, <3>4, <3>5
  <2> QED
    BY <2>1, <2>2
<1>9. k \in Limit <=> call.fn # "strcmp" /\ count = 0
  BY <1>3 DEF Comparing, Limit
<1>10. Min(Differing \cup NulAt \cup Limit) = k
  <2> DEFINE S == Differing \cup NulAt \cup Limit
  <2>1. S \in SUBSET Int /\ k \in S /\ \A i \in S : k <= i
    BY <1>7, <1>8
  <2> HIDE DEF S
  <2>2. Min(S) = k
    BY <2>1, MinIs
  <2> QED
    BY <2>2 DEF S
<1> QED
  BY <1>9, <1>10

\* What the comparisons should answer.
LEMMA ComparisonRight ==
  ASSUME ComparisonInv, After({"strcmp", "strncmp", "memcmp"})
  PROVE  LET pos == Min(Differing \cup NulAt \cup Limit)
         IN  ret = IF pos \in Limit THEN 0 ELSE mem0[call.dst + pos] - mem0[call.src + pos]
<1>1. /\ Comparing /\ Proper(call, mem0) /\ ~Same
      /\ ret = IF call.fn # "strcmp" /\ count = 0 THEN 0 ELSE mem[to] - mem[from]
      /\ \E k \in Nat : ComparedTo(k)
  BY DEF ComparisonInv, Comparing, After
<1>2. PICK k \in Nat : ComparedTo(k)
  BY <1>1
<1>3. Min(Differing \cup NulAt \cup Limit) = k /\ (k \in Limit <=> call.fn # "strcmp" /\ count = 0)
  BY <1>1, <1>2, CompareStops
<1>4. mem = mem0 /\ from = call.src + k /\ to = call.dst + k
  BY <1>2 DEF ComparedTo
<1> QED
  BY <1>1, <1>3, <1>4

Finding == call.fn \in {"strlen", "strnlen", "strchr", "strfind", "memfind"}

\* k bytes are passed.
FoundTo(k) ==
  /\ mem = mem0 /\ from = call.src + k /\ count \in Int
  /\ \A i \in 0..k-1 :
       /\ call.fn # "memfind" => mem0[call.src + i] # 0
       /\ call.fn \notin {"strlen", "strnlen"} => mem0[call.src + i] # call.c % BYTE
  /\ call.fn \in {"strnlen", "memfind"} => count \in Nat /\ k + count = call.n

FindInv ==
  Finding =>
    /\ Proper(call, mem0)
    /\ stage \in {"start", "loop", "done"}
    /\ stage = "start" => mem = mem0 /\ from = call.src /\ count = call.n
    /\ stage # "start" => \E k \in Nat : FoundTo(k)
    /\ stage = "done" => ~GoesOn /\ ret = Result

LEMMA FindKeeps == FindInv /\ [CmdNext]_cmdVars => FindInv'
<1> SUFFICES ASSUME FindInv, [CmdNext]_cmdVars PROVE FindInv'
  OBVIOUS
<1>1. /\ call' = call /\ mem0' = mem0
      /\ Finding => Begin \/ Find \/ Idle
  BY Steps DEF Finding
<1>2. CASE ~Finding
  BY <1>1, <1>2 DEF FindInv, Finding
<1>3. CASE Finding /\ Idle
  <2>1. UNCHANGED <<call, mem, mem0, from, to, count, ret, stage>>
    BY <1>3 DEF Idle, callVars
  <2> QED
    BY <2>1 DEF FindInv, Finding, FoundTo, GoesOn, Result
<1> SUFFICES ASSUME Finding, ~Idle PROVE FindInv'
  BY <1>2, <1>3
<1>4. Proper(call, mem0) /\ call.src \in Nat /\ call.n \in Nat
  BY Cells DEF FindInv
<1> DEFINE f == call.src
           size == call.n
<1>5. CASE Begin
  <2>1. /\ stage' = "loop" /\ mem' = mem0 /\ from' = f /\ count' = size
    BY <1>5 DEF FindInv, Begin, Calls, Enter
  <2>2. from' = f + 0 /\ count' \in Nat /\ count' \in Int /\ 0 + count' = size
    <3>1. f \in Nat /\ size \in Nat
      BY <1>4
    <3> HIDE DEF f, size
    <3> QED
      BY <2>1, <3>1
  <2>3. FoundTo(0)'
    BY <1>1, <2>1, <2>2 DEF FoundTo
  <2> QED
    BY <1>1, <1>4, <2>1, <2>3 DEF FindInv
<1>6. CASE Find
  <2>1. stage = "loop" /\ mem' = mem
    BY <1>6 DEF Find, Loops
  <2>2. PICK k \in Nat : FoundTo(k)
    BY <2>1 DEF FindInv
  <2> DEFINE Passed(i) ==
               /\ call.fn # "memfind" => mem0[f + i] # 0
               /\ call.fn \notin {"strlen", "strnlen"} => mem0[f + i] # call.c % BYTE
  <2>3. /\ mem = mem0 /\ from = f + k /\ count \in Int
        /\ \A i \in 0..k-1 : Passed(i)
        /\ call.fn \in {"strnlen", "memfind"} => count \in Nat /\ k + count = size
    BY <2>2 DEF FoundTo
  <2>4. CASE GoesOn
    <3>1. from' = from + 1 /\ stage' = "loop" /\ count' = count - 1
      BY <1>6, <2>1, <2>4 DEF Find, Again
    <3>2. Passed(k) /\ (call.fn \in {"strnlen", "memfind"} => count > 0)
      BY <2>3, <2>4 DEF GoesOn, Finding
    <3>3. from' = f + (k + 1)
      BY <1>4, <2>3, <3>1
    <3>4. count' \in Int /\ (call.fn \in {"strnlen", "memfind"} => count' \in Nat /\ (k + 1) + count' = size)
      <4>1. size \in Nat
        BY <1>4
      <4> HIDE DEF size
      <4> QED
        BY <4>1, <2>3, <3>1, <3>2
    <3>5. \A i \in 0..(k+1)-1 : Passed(i)
      <4>1. \A i \in 0..(k+1)-1 : i \in 0..k-1 \/ i = k
        OBVIOUS
      <4> HIDE DEF Passed
      <4> QED
        BY <4>1, <2>3, <3>2
    <3>6. FoundTo(k + 1)' /\ k + 1 \in Nat
      BY <1>1, <2>1, <2>3, <3>3, <3>4, <3>5 DEF FoundTo
    <3> QED
      BY <1>1, <1>4, <3>1, <3>6 DEF FindInv
  <2>5. CASE ~GoesOn
    <3>1. stage' = "done" /\ UNCHANGED <<call, mem0, from, to, count>> /\ ret' = Result
      BY <1>6, <2>5 DEF Find, Returns
    <3>2. ~GoesOn' /\ FoundTo(k)' /\ ret' = Result'
      BY <2>1, <2>2, <2>5, <3>1 DEF GoesOn, FoundTo, Result
    <3> QED
      BY <1>1, <1>4, <3>1, <3>2 DEF FindInv
  <2> QED
    BY <2>4, <2>5
<1> QED
  BY <1>1, <1>5, <1>6

\* The places that are looked for.
Places == {i \in 0..Max(Bytes) : call.src + i \in Bytes /\ mem0[call.src + i] = call.c % BYTE}
Sought == IF call.fn \in {"strlen", "strnlen"} THEN {} ELSE Places

\* The first of them is where the search stops.
LEMMA FindStops ==
  ASSUME Finding, Proper(call, mem0), NEW k \in Nat, FoundTo(k), ~GoesOn
  PROVE  /\ Min(Sought \cup NulAt \cup Limit) = k
         /\ call.fn = "strchr" => (k \in NulAt <=> mem0[call.src + k] = 0)
<1> DEFINE f == call.src
           size == call.n
           len == Length(call.src)
<1>1. f \in Nat /\ size \in Nat /\ Bytes = DOMAIN mem0 /\ Proper(call, mem)
  BY Cells DEF FoundTo, Bytes
<1>2. /\ mem = mem0 /\ from = f + k
      /\ \A i \in 0..k-1 :
           /\ call.fn # "memfind" => mem0[f + i] # 0
           /\ call.fn \notin {"strlen", "strnlen"} => mem0[f + i] # call.c % BYTE
      /\ call.fn \in {"strnlen", "memfind"} => count \in Nat /\ k + count = size
  BY DEF FoundTo
<1>3. call.fn \in {"strnlen", "memfind"} => k <= size /\ (count > 0 <=> k < size) /\ (k < size \/ k = size)
  <2> HIDE DEF size
  <2> QED
    BY <1>1, <1>2
<1>4. call.fn # "memfind" =>
        len \in Nat /\ \A i \in 0..len : f + i \in Bytes /\ (mem0[f + i] = 0 <=> i = len)
  BY <1>1, StringEnds DEF Proper, Finding, Length
<1>5. call.fn # "memfind" => k \in 0..len
  <2> SUFFICES ASSUME call.fn # "memfind" PROVE k \in 0..len
    OBVIOUS
  <2>1. ~(len < k)
    <3> SUFFICES ASSUME len < k PROVE FALSE
      OBVIOUS
    <3>1. len \in 0..k-1 /\ len \in 0..len
      BY <1>4
    <3> QED
      BY <3>1, <1>2, <1>4
  <2> QED
    BY <1>4, <2>1
<1>6. ASSUME NEW i \in Sought PROVE i \in Int /\ k <= i
  <2>1. i \in Int /\ 0 <= i /\ mem0[f + i] = call.c % BYTE /\ call.fn \notin {"strlen", "strnlen"}
    BY <1>1, WithinBytes DEF Sought, Places
  <2>2. ~(i < k)
    <3> SUFFICES ASSUME i < k PROVE FALSE
      OBVIOUS
    <3>1. i \in 0..k-1
      BY <2>1
    <3> QED
      BY <3>1, <2>1, <1>2
  <2> QED
    BY <2>1, <2>2
<1>7. \A i \in Sought \cup NulAt \cup Limit : i \in Int /\ k <= i
  BY <1>1, <1>3, <1>4, <1>5, <1>6 DEF Finding, Limit, NulAt
<1>8. k \in Sought \cup NulAt \cup Limit
  <2>1. CASE call.fn \in {"strnlen", "memfind"} /\ k = size
    BY <2>1 DEF Limit
  <2>2. CASE ~(call.fn \in {"strnlen", "memfind"} /\ k = size)
    <3>1. call.fn \in {"strnlen", "memfind"} => count > 0 /\ k < size
      BY <2>2, <1>3
    <3>2. f + k \in Bytes
      <4>1. CASE call.fn # "memfind"
        BY <4>1, <1>4, <1>5
      <4>2. CASE call.fn = "memfind"
        <5>1. f .. f + size - 1 \subseteq Bytes
          BY <4>2, <1>1 DEF Proper, Fits
        <5>2. f + k \in f .. f + size - 1
          <6>1. k < size
            BY <3>1, <4>2
          <6> HIDE DEF f, size
          <6> QED
            BY <6>1, <1>1
        <5> QED
          BY <5>1, <5>2
      <4> QED
        BY <4>1, <4>2
    <3>3. \/ call.fn \notin {"strlen", "strnlen"} /\ mem0[f + k] = call.c % BYTE
          \/ call.fn # "memfind" /\ mem0[f + k] = 0
      BY <1>2, <3>1 DEF GoesOn, Finding
    <3>4. CASE call.fn \notin {"strlen", "strnlen"} /\ mem0[f + k] = call.c % BYTE
      <4>1. k \in 0..Max(Bytes)
        BY <3>2, <1>1, WithinBytes
      <4> QED
        BY <4>1, <3>2, <3>4 DEF Sought, Places
    <3>5. CASE call.fn # "memfind" /\ mem0[f + k] = 0
      <4>1. k = len
        BY <3>5, <1>4, <1>5
      <4> QED
        BY <3>5, <4>1 DEF NulAt, Finding
    <3> QED
      BY <3>3, <3>4, <3>5
  <2> QED
    BY <2>1, <2>2
<1>9. call.fn = "strchr" => (k \in NulAt <=> mem0[f + k] = 0)
  BY <1>4, <1>5 DEF NulAt
<1>10. Min(Sought \cup NulAt \cup Limit) = k
  <2> DEFINE S == Sought \cup NulAt \cup Limit
  <2>1. S \in SUBSET Int /\ k \in S /\ \A i \in S : k <= i
    BY <1>7, <1>8
  <2> HIDE DEF S
  <2>2. Min(S) = k
    BY <2>1, MinIs
  <2> QED
    BY <2>2 DEF S
<1> QED
  BY <1>9, <1>10

\* What the searches should answer.
LEMMA FindRight ==
  ASSUME FindInv
  PROVE  LET found == Min(Sought \cup NulAt \cup Limit)
         IN  /\ After({"strlen", "strnlen"}) => ret = found
             /\ After({"strfind", "memfind"}) => ret = call.src + found
             /\ After({"strchr"}) => ret = IF found \in NulAt THEN NULL ELSE call.src + found
<1> SUFFICES ASSUME Finding, stage = "done"
             PROVE  LET found == Min(Sought \cup NulAt \cup Limit)
                    IN  /\ After({"strlen", "strnlen"}) => ret = found
                        /\ After({"strfind", "memfind"}) => ret = call.src + found
                        /\ After({"strchr"}) => ret = IF found \in NulAt THEN NULL ELSE call.src + found
  BY DEF After, Finding
<1>1. Proper(call, mem0) /\ ~GoesOn /\ ret = Result /\ \E k \in Nat : FoundTo(k)
  BY DEF FindInv
<1>2. PICK k \in Nat : FoundTo(k)
  BY <1>1
<1>3. /\ Min(Sought \cup NulAt \cup Limit) = k
      /\ call.fn = "strchr" => (k \in NulAt <=> mem0[call.src + k] = 0)
  BY <1>1, <1>2, FindStops
<1>4. mem = mem0 /\ from = call.src + k /\ call.src \in Nat
  BY <1>1, <1>2, Cells DEF FoundTo
<1>5. /\ call.fn \in {"strlen", "strnlen"} => ret = k
      /\ call.fn \in {"strfind", "memfind"} => ret = call.src + k
      /\ call.fn = "strchr" => ret = IF k \in NulAt THEN NULL ELSE call.src + k
  <2>1. call.fn \in {"strlen", "strnlen"} => ret = from - call.src
    BY <1>1 DEF Result
  <2>2. call.fn = "strchr" => ret = IF mem[from] = 0 THEN NULL ELSE from
    BY <1>1 DEF Result
  <2>3. call.fn \in {"strfind", "memfind"} => ret = from
    BY <1>1 DEF Result
  <2>4. from - call.src = k
    <3> DEFINE f == call.src
    <3>1. from = f + k /\ f \in Nat
      BY <1>4
    <3> HIDE DEF f
    <3>2. from - f = k
      BY <3>1
    <3> QED
      BY <3>2 DEF f
  <2> QED
    BY <2>1, <2>2, <2>3, <2>4, <1>3, <1>4
<1> QED
  BY <1>3, <1>5 DEF After

----------------------------------------------------------------------------
(* strtol.                                                                 *)

\* A long that does not overflow.
LEMMA NoOverflow ==
  ASSUME NEW x \in Int, -LONG <= x, x < LONG
  PROVE  AsLong(x) = x
<1> DEFINE y == x + LONG
           w == 2 * LONG
<1>1. LONG \in Nat \ {0}
  BY StartAssumption
<1>2. y \in 0..w-1 /\ w \in Nat \ {0}
  BY <1>1
<1> HIDE DEF w, y
<1>3. y % w = y
  BY <1>2
<1>4. AsLong(x) = (y % w) - LONG
  BY DEF AsLong, y, w
<1> QED
  BY <1>1, <1>3, <1>4 DEF y

\* The pointer is in the spaces before the numeral, then among its digits.
NumeralInv ==
  LET w == call.numeral
  IN  call.fn = "strtol" =>
        /\ Proper(call, mem0) /\ mem = mem0
        /\ stage \in {"start", "loop", "done"}
        /\ stage = "start" => from \in call.src .. w.at
        /\ stage = "loop" =>
             /\ from \in w.first .. w.end
             /\ val = [neg |-> w.neg, base |-> w.base, val |-> w.value[from - w.first]]
        /\ stage = "done" =>
             /\ ret = IF w.neg THEN -w.value[w.end - w.first] ELSE w.value[w.end - w.first]
             /\ from = w.end

LEMMA NumeralKeeps == NumeralInv /\ [CmdNext]_cmdVars => NumeralInv'
<1> SUFFICES ASSUME NumeralInv, [CmdNext]_cmdVars PROVE NumeralInv'
  OBVIOUS
<1>1. /\ call' = call /\ mem0' = mem0
      /\ call.fn = "strtol" => SkipSpace \/ SignAndBase \/ TakeDigit \/ DigitsDone \/ Idle
  BY Steps
<1>2. CASE call.fn # "strtol"
  BY <1>1, <1>2 DEF NumeralInv
<1>3. CASE call.fn = "strtol" /\ Idle
  <2>1. UNCHANGED <<call, mem, mem0, from, val, ret, stage>>
    BY <1>3 DEF Idle, callVars
  <2> QED
    BY <2>1 DEF NumeralInv
<1> SUFFICES ASSUME call.fn = "strtol", ~Idle PROVE NumeralInv'
  BY <1>2, <1>3
<1> DEFINE w == call.numeral
           pos == w.at
           first == w.first
           end == w.end
           base == w.base
           value == w.value
           src == call.src
           t == IF mem0[pos] \in {43, 45} THEN pos + 1 ELSE pos
<1>4. Proper(call, mem0) /\ mem = mem0 /\ src \in Nat
  BY Cells DEF NumeralInv
<1>5. IsNumeral(mem0, call, w)
  BY <1>4 DEF Proper
<1>6. /\ pos \in Nat /\ pos >= src /\ mem0[pos] \notin {Space, Tab}
      /\ \A a \in src..pos-1 : mem0[a] \in {Space, Tab}
      /\ w.neg = (mem0[pos] = 45)
      /\ base \in Nat /\ end \in Nat /\ end >= first /\ ~InBase(mem0[end], base)
      /\ value \in [0..end-first -> 0..LONG-1] /\ value[0] = 0
      /\ \A i \in 0..end-first-1 :
           /\ InBase(mem0[first + i], base)
           /\ value[i + 1] = value[i] * base + Digit(mem0[first + i])
  BY <1>5 DEF IsNumeral
<1>7. \/ call.c \in {0, 16} /\ mem0[t] = 48 /\ mem0[t + 1] = 120 /\ base = 16 /\ first = t + 2
      \/ call.c = 0 /\ mem0[t] = 48 /\ mem0[t + 1] # 120 /\ base = 8 /\ first = t + 1
      \/ call.c = 0 /\ mem0[t] # 48 /\ base = 10 /\ first = t
      \/ call.c # 0 /\ ~(call.c = 16 /\ mem0[t] = 48 /\ mem0[t + 1] = 120) /\ base = call.c /\ first = t
  BY <1>5 DEF IsNumeral
<1>8. first \in Nat /\ t \in Nat
  <2> HIDE DEF pos, first
  <2> QED
    BY <1>6, <1>7
<1>9. LONG \in Nat \ {0}
  BY StartAssumption
<1>10. CASE SkipSpace
  <2>1. /\ stage = "start" /\ stage' = "start" /\ mem' = mem /\ mem[from] \in {Space, Tab} /\ from' = from + 1
        /\ from \in src..pos
    BY <1>10 DEF NumeralInv, SkipSpace, Calls
  <2>2. from' \in src..pos
    <3>1. from # pos
      BY <1>4, <1>6, <2>1
    <3> HIDE DEF src, pos
    <3> QED
      BY <3>1, <2>1, <1>4, <1>6
  <2> QED
    BY <1>1, <1>4, <2>1, <2>2 DEF NumeralInv
<1>11. CASE SignAndBase
  <2>1. /\ stage = "start" /\ stage' = "loop" /\ mem' = mem /\ mem[from] \notin {Space, Tab}
        /\ from \in src..pos
    BY <1>11 DEF NumeralInv, SignAndBase, Calls
  <2>2. from = pos
    <3>1. ~(from \in src..pos-1)
      BY <1>4, <1>6, <2>1
    <3> HIDE DEF src, pos
    <3> QED
      BY <3>1, <2>1, <1>4, <1>6
  <2> DEFINE hex == call.c \in {0, 16} /\ mem0[t] = 48 /\ mem0[t + 1] = 120
             octal == call.c = 0 /\ mem0[t] = 48 /\ ~hex
  <2>3. /\ from' = t + (IF hex THEN 2 ELSE IF octal THEN 1 ELSE 0)
        /\ val' = [neg |-> mem0[pos] = 45, val |-> 0,
                   base |-> IF hex THEN 16 ELSE IF octal THEN 8 ELSE IF call.c = 0 THEN 10 ELSE call.c]
    BY <1>11, <1>4, <2>2 DEF SignAndBase
  <2>4. /\ first = t + (IF hex THEN 2 ELSE IF octal THEN 1 ELSE 0)
        /\ base = IF hex THEN 16 ELSE IF octal THEN 8 ELSE IF call.c = 0 THEN 10 ELSE call.c
    <3> HIDE DEF t, base, first
    <3> QED
      BY <1>7, <1>8
  <2>5. from' = first /\ first \in first..end /\ first - first = 0
    <3>1. from' = first
      BY <2>3, <2>4
    <3>2. first \in Nat /\ end \in Nat /\ end >= first
      BY <1>6, <1>8
    <3> HIDE DEF first, end
    <3> QED
      BY <3>1, <3>2
  <2>6. val' = [neg |-> w.neg, base |-> base, val |-> value[from' - first]]
    BY <2>3, <2>4, <2>5, <1>6
  <2> QED
    BY <1>1, <1>4, <2>1, <2>5, <2>6 DEF NumeralInv
<1>12. CASE TakeDigit
  <2> DEFINE i == from - first
  <2>1. /\ stage = "loop" /\ stage' = "loop" /\ mem' = mem /\ from' = from + 1
        /\ from \in first..end
        /\ val = [neg |-> w.neg, base |-> base, val |-> value[i]]
        /\ InBase(mem0[from], base)
        /\ val' = [val EXCEPT !.val = AsLong(val.val * val.base + Digit(mem[from]))]
    BY <1>12, <1>4 DEF NumeralInv, TakeDigit, Loops, IsDigit
  <2>2. from # end
    BY <2>1, <1>6
  <2>3. i \in 0..end-first-1 /\ first + i = from /\ from' - first = i + 1 /\ i + 1 \in 0..end-first /\ from' \in first..end
    <3> HIDE DEF first, end
    <3> QED
      BY <2>1, <2>2, <1>6, <1>8
  <2>4. value[i + 1] = value[i] * base + Digit(mem0[from]) /\ value[i + 1] \in 0..LONG-1
    BY <2>3, <1>6
  <2>5. AsLong(value[i + 1]) = value[i + 1]
    <3> DEFINE x == value[i + 1]
    <3>1. x \in Int /\ -LONG <= x /\ x < LONG
      BY <2>4, <1>9
    <3> HIDE DEF x
    <3>2. AsLong(x) = x
      BY <3>1, NoOverflow
    <3> QED
      BY <3>2 DEF x
  <2>6. val.val * val.base + Digit(mem[from]) = value[i + 1]
    BY <2>1, <2>4, <1>4
  <2>7. val' = [neg |-> w.neg, base |-> base, val |-> value[i + 1]]
    BY <2>1, <2>5, <2>6
  <2>8. val' = [neg |-> w.neg, base |-> base, val |-> value[from' - first]]
    BY <2>3, <2>7
  <2> QED
    BY <1>1, <1>4, <2>1, <2>3, <2>8 DEF NumeralInv
<1>13. CASE DigitsDone
  <2>1. /\ stage = "loop" /\ stage' = "done" /\ mem' = mem /\ from' = from
        /\ from \in first..end
        /\ val = [neg |-> w.neg, base |-> base, val |-> value[from - first]]
        /\ ~InBase(mem0[from], base)
        /\ ret' = IF val.neg THEN AsLong(-val.val) ELSE val.val
    BY <1>13, <1>4 DEF NumeralInv, DigitsDone, Loops, IsDigit, Returns
  <2>2. from = end
    <3> SUFFICES ASSUME from # end PROVE FALSE
      OBVIOUS
    <3>1. from - first \in 0..end-first-1 /\ first + (from - first) = from
      <4> HIDE DEF first, end
      <4> QED
        BY <2>1, <1>6, <1>8
    <3> QED
      BY <3>1, <2>1, <1>6
  <2> DEFINE x == value[end - first]
  <2>3. x \in Int /\ 0 <= x /\ x < LONG
    <3>1. end - first \in 0..end-first
      BY <1>6, <1>8
    <3> QED
      BY <3>1, <1>6, <1>9
  <2>4. val.val = x /\ val.neg = w.neg
    BY <2>1, <2>2
  <2>5. AsLong(-x) = -x
    <3> HIDE DEF x
    <3>1. -x \in Int /\ -LONG <= -x /\ -x < LONG
      BY <2>3, <1>9
    <3> QED
      BY <3>1, NoOverflow
  <2>6. ret' = IF w.neg THEN -x ELSE x
    BY <2>1, <2>4, <2>5
  <2> QED
    BY <1>1, <1>4, <2>1, <2>2, <2>6 DEF NumeralInv
<1> QED
  BY <1>1, <1>10, <1>11, <1>12, <1>13

LEMMA NumeralIsRead == NumeralInv => NumeralRead
BY DEF NumeralInv, NumeralRead, After

\* Every function is on its way to its result.
ResultInv == MoveInv /\ SetInv /\ CopyInv /\ ComparisonInv /\ FindInv /\ NumeralInv

LEMMA ResultStarts == CallInit => ResultInv
<1> SUFFICES ASSUME CallInit PROVE ResultInv
  OBVIOUS
<1>1. PICK st \in Start : call = st.call /\ mem = st.mem /\ mem0 = st.mem
  BY DEF CallInit
<1>2. Proper(call, mem0) /\ mem = mem0
  BY <1>1, StartAssumption
<1>3. from = call.src /\ to = call.dst /\ count = call.n /\ stage = "start"
  BY <1>1 DEF CallInit
<1>4. MoveInv /\ SetInv
  BY <1>2, <1>3 DEF MoveInv, SetInv
<1>5. CopyInv /\ ComparisonInv /\ FindInv
  BY <1>2, <1>3 DEF CopyInv, ComparisonInv, FindInv
<1>6. ASSUME call.fn = "strtol" PROVE from \in call.src .. call.numeral.at
  <2> DEFINE src == call.src
             pos == call.numeral.at
  <2>1. src \in Nat /\ pos \in Nat /\ pos >= src /\ from = src
    BY <1>2, <1>3, <1>6, Cells DEF Proper, IsNumeral
  <2> HIDE DEF src, pos
  <2>2. from \in src..pos
    BY <2>1
  <2> QED
    BY <2>2 DEF src, pos
<1>7. NumeralInv
  BY <1>2, <1>3, <1>6 DEF NumeralInv
<1> QED
  BY <1>4, <1>5, <1>7 DEF ResultInv

LEMMA ResultKeeps == ResultInv /\ [CmdNext]_cmdVars => ResultInv'
BY MoveKeeps, SetKeeps, CopyKeeps, CompareKeeps, FindKeeps, NumeralKeeps DEF ResultInv

LEMMA ResultIsRight == ResultInv => ResultRight
<1> SUFFICES ASSUME ResultInv PROVE ResultRight
  OBVIOUS
<1>1. BlockRight
  BY MoveRight, SetRight DEF ResultInv, BlockRight
<1>2. CopyRight
  BY CopyIsRight DEF ResultInv
<1>3. AnswerRight
  BY ComparisonRight, FindRight DEF ResultInv, AnswerRight, Limit, NulAt, Differing, Sought, Places
<1>4. NumeralRead
  BY NumeralIsRead DEF ResultInv
<1> QED
  BY <1>1, <1>2, <1>3, <1>4 DEF ResultRight

(* Each function of lib/string.c leaves in memory and returns what it      *)
(* promises, for a memory of any size and all arguments that are Proper.   *)
THEOREM CallsRight == CmdSpec => []ResultRight
<1>1. CmdInit => ResultInv
  BY ResultStarts DEF CmdInit
<1>2. ResultInv /\ [CmdNext]_cmdVars => ResultInv'
  BY ResultKeeps
<1>3. CmdSpec => []ResultInv
  BY <1>1, <1>2, PTL DEF CmdSpec
<1> QED
  BY <1>3, ResultIsRight, PTL

----------------------------------------------------------------------------
(* runcmd.                                                                 *)

\* The line of the call c in the memory m, its letters, and its words.
OnLine(c, m) == c.fn = "runcmd" /\ Proper(c, m)
LineEnd(c, m) == c.src + LengthIn(m, c.src)
Letter(c, m, a) == a \in c.src .. LineEnd(c, m) - 1 /\ m[a] \notin WHITESPACE
Firsts(c, m) == {a \in c.src .. LineEnd(c, m) - 1 : Letter(c, m, a) /\ ~Letter(c, m, a - 1)}
Before(c, m, a) == {b \in Firsts(c, m) : b < a}
WordFrom(c, m, a, e) ==
  /\ e \in Int /\ a < e /\ e <= LineEnd(c, m) /\ ~Letter(c, m, e)
  /\ \A b \in a..e-1 : Letter(c, m, b)

\* The line with its white space before a replaced.
NulsTo(c, m, a) ==
  [b \in DOMAIN m |-> IF c.src <= b /\ b < a /\ m[b] \in WHITESPACE THEN 0 ELSE m[b]]

LEMMA LineFacts ==
  ASSUME NEW c, NEW m, OnLine(c, m)
  PROVE  /\ c.src \in Nat /\ LineEnd(c, m) \in Nat /\ c.src <= LineEnd(c, m)
         /\ \A a \in c.src .. LineEnd(c, m) : a \in DOMAIN m /\ (m[a] = 0 <=> a = LineEnd(c, m))
         /\ m = [a \in DOMAIN m |-> m[a]] /\ \A a \in DOMAIN m : a \in Nat /\ m[a] \in Nat
         /\ BYTE \in Nat
<1> DEFINE s0 == c.src
           l0 == LengthIn(m, c.src)
<1>1. s0 \in Nat /\ l0 \in Nat /\ \A i \in 0..l0 : s0 + i \in DOMAIN m /\ (m[s0 + i] = 0 <=> i = l0)
  BY StringEnds DEF OnLine, Proper
<1>2. m = [a \in DOMAIN m |-> m[a]] /\ \A a \in DOMAIN m : a \in Nat /\ m[a] \in Nat
  BY Cells, StartAssumption DEF OnLine
<1>3. LineEnd(c, m) = s0 + l0
  BY DEF LineEnd
<1> HIDE DEF s0, l0
<1>4. s0 + l0 \in Nat /\ s0 <= s0 + l0
  BY <1>1
<1>5. \A a \in s0 .. s0 + l0 : a \in DOMAIN m /\ (m[a] = 0 <=> a = s0 + l0)
  <2> TAKE a \in s0 .. s0 + l0
  <2>1. a - s0 \in 0..l0 /\ s0 + (a - s0) = a /\ (a - s0 = l0 <=> a = s0 + l0)
    BY <1>1
  <2> QED
    BY <2>1, <1>1
<1> QED
  BY <1>1, <1>2, <1>3, <1>4, <1>5, StartAssumption DEF s0

\* A character of the line is a letter, white space, or the end.
LEMMA CharIs ==
  ASSUME NEW c, NEW m, OnLine(c, m), NEW a \in c.src .. LineEnd(c, m)
  PROVE  /\ a \in DOMAIN m /\ NulsTo(c, m, a)[a] = m[a]
         /\ Letter(c, m, a) <=> m[a] \notin WHITESPACE \cup {0}
         /\ m[a] = 0 <=> a = LineEnd(c, m)
         /\ m[a] \in WHITESPACE => a < LineEnd(c, m)
<1>1. /\ c.src \in Nat /\ LineEnd(c, m) \in Nat
      /\ a \in DOMAIN m /\ (m[a] = 0 <=> a = LineEnd(c, m)) /\ a \in Nat
  BY LineFacts
<1>2. NulsTo(c, m, a)[a] = m[a]
  BY <1>1 DEF NulsTo
<1>3. 0 \notin WHITESPACE
  BY DEF WHITESPACE
<1>4. a = LineEnd(c, m) \/ a \in c.src .. LineEnd(c, m) - 1
  <2> DEFINE s0 == c.src
             e0 == LineEnd(c, m)
  <2>1. s0 \in Nat /\ e0 \in Nat /\ a \in s0..e0
    BY <1>1
  <2> HIDE DEF s0, e0
  <2>2. a = e0 \/ a \in s0..e0-1
    BY <2>1
  <2> QED
    BY <2>2 DEF s0, e0
<1>5. ~(LineEnd(c, m) \in c.src .. LineEnd(c, m) - 1)
  BY <1>1
<1> QED
  BY <1>1, <1>2, <1>3, <1>4, <1>5 DEF Letter

\* Passing an address passes a word at most.
LEMMA WordsBefore ==
  ASSUME NEW c, NEW m, OnLine(c, m)
  PROVE  /\ \A a \in Firsts(c, m) : a \in Nat
         /\ \A a \in Int :
              /\ IsFiniteSet(Before(c, m, a)) /\ Cardinality(Before(c, m, a)) \in Nat
              /\ a \in Firsts(c, m) =>
                   Cardinality(Before(c, m, a + 1)) = Cardinality(Before(c, m, a)) + 1
              /\ a \notin Firsts(c, m) => Before(c, m, a + 1) = Before(c, m, a)
         /\ IsFiniteSet(Firsts(c, m))
         /\ Before(c, m, c.src) = {}
         /\ Before(c, m, LineEnd(c, m)) = Firsts(c, m)
<1>1. c.src \in Nat /\ LineEnd(c, m) \in Nat
  BY LineFacts
<1>2. \A a \in Firsts(c, m) : a \in Nat /\ a \in c.src .. LineEnd(c, m) - 1
  BY <1>1 DEF Firsts
<1>3. IsFiniteSet(Firsts(c, m))
  <2>1. IsFiniteSet(c.src .. LineEnd(c, m) - 1)
    BY <1>1, FS_Interval
  <2>2. Firsts(c, m) \subseteq c.src .. LineEnd(c, m) - 1
    BY <1>2
  <2> QED
    BY <2>1, <2>2, FS_Subset
<1>4. ASSUME NEW a \in Int
      PROVE  /\ IsFiniteSet(Before(c, m, a)) /\ Cardinality(Before(c, m, a)) \in Nat
             /\ a \in Firsts(c, m) =>
                  Cardinality(Before(c, m, a + 1)) = Cardinality(Before(c, m, a)) + 1
             /\ a \notin Firsts(c, m) => Before(c, m, a + 1) = Before(c, m, a)
  <2>1. IsFiniteSet(Before(c, m, a))
    <3>1. Before(c, m, a) \subseteq Firsts(c, m)
      BY DEF Before
    <3> QED
      BY <3>1, <1>3, FS_Subset
  <2>2. Cardinality(Before(c, m, a)) \in Nat
    BY <2>1, FS_CardinalityType
  <2>3. ASSUME a \in Firsts(c, m)
        PROVE  Cardinality(Before(c, m, a + 1)) = Cardinality(Before(c, m, a)) + 1
    <3>1. Before(c, m, a + 1) = Before(c, m, a) \cup {a}
      <4>1. \A b \in Firsts(c, m) : b < a + 1 <=> b < a \/ b = a
        BY <1>2
      <4> QED
        BY <4>1, <2>3 DEF Before
    <3>2. a \notin Before(c, m, a)
      BY DEF Before
    <3> QED
      BY <3>1, <3>2, <2>1, FS_AddElement
  <2>4. ASSUME a \notin Firsts(c, m) PROVE Before(c, m, a + 1) = Before(c, m, a)
    <3>1. \A b \in Firsts(c, m) : b < a + 1 <=> b < a
      BY <1>2, <2>4
    <3> QED
      BY <3>1 DEF Before
  <2> QED
    BY <2>1, <2>2, <2>3, <2>4
<1>5. Before(c, m, c.src) = {} /\ Before(c, m, LineEnd(c, m)) = Firsts(c, m)
  <2>1. \A b \in Firsts(c, m) : ~(b < c.src) /\ b < LineEnd(c, m)
    BY <1>1, <1>2
  <2> QED
    BY <2>1 DEF Before
<1> QED
  BY <1>2, <1>3, <1>4, <1>5

\* q is the words that begin before a, in order.
ArgsAre(c, m, q, a) ==
  /\ q \in Seq(Nat) /\ Len(q) < MAXARGS /\ Len(q) = Cardinality(Before(c, m, a))
  /\ \A i \in 1..Len(q) :
       q[i] \in Firsts(c, m) /\ q[i] < a /\ Cardinality(Before(c, m, q[i])) = i - 1

\* The first k of them end by a.
Ended(c, m, q, k, a) == \A i \in 1..k : \E e \in Int : e <= a /\ WordFrom(c, m, q[i], e)

\* The word at a is the name.
Spells(c, m, name, a) ==
  \E e \in Int : /\ WordFrom(c, m, a, e) /\ Len(name) = e - a
                 /\ \A i \in 1..Len(name) : name[i] = m[a + i - 1]

\* Between two words, in a word, and after the line has been read.
Between == ArgsAre(call, mem0, argv, from) /\ Ended(call, mem0, argv, Len(argv), from)
Within ==
  /\ ArgsAre(call, mem0, argv, from + 1) /\ Len(argv) # 0
  /\ Ended(call, mem0, argv, Len(argv) - 1, from)
  /\ argv[Len(argv)] <= from /\ \A b \in argv[Len(argv)] .. from-1 : Letter(call, mem0, b)
Looking ==
  /\ from = LineEnd(call, mem0) /\ argv # <<>>
  /\ step \in 1..Len(commands)+1
  /\ \A i \in 1..step-1 : ~Spells(call, mem0, commands[i], argv[1])

RunInv ==
  call.fn = "runcmd" =>
    /\ OnLine(call, mem0)
    /\ stage \in {"start", "word", "lookup", "done"}
    /\ from \in call.src .. LineEnd(call, mem0) /\ mem = NulsTo(call, mem0, from)
    /\ stage = "word" => Within
    /\ stage # "word" => Between
    /\ stage = "start" /\ Letter(call, mem0, from) => ~Letter(call, mem0, from - 1)
    /\ stage = "lookup" => Looking
    /\ stage = "done" =>
         \/ outcome = <<"too many">> /\ Len(argv) = MAXARGS - 1 /\ from \in Firsts(call, mem0)
         \/ outcome = <<"empty">> /\ from = LineEnd(call, mem0)
         \/ outcome = <<"unknown">> /\ Looking /\ step = Len(commands) + 1
         \/ /\ outcome = <<"run", step>> /\ Looking /\ step <= Len(commands)
            /\ Spells(call, mem0, commands[step], argv[1])

LEMMA RunStarts == CmdInit => RunInv
<1> SUFFICES ASSUME CmdInit, call.fn = "runcmd" PROVE RunInv
  BY DEF RunInv
<1>1. PICK st \in Start : call = st.call /\ mem = st.mem /\ mem0 = st.mem
  BY DEF CmdInit, CallInit
<1>2. OnLine(call, mem0) /\ mem = mem0
  BY <1>1, StartAssumption DEF OnLine
<1>3. from = call.src /\ stage = "start" /\ argv = <<>>
  BY <1>1 DEF CmdInit, CallInit
<1>4. /\ call.src \in Nat /\ LineEnd(call, mem0) \in Nat /\ call.src <= LineEnd(call, mem0)
      /\ mem0 = [a \in DOMAIN mem0 |-> mem0[a]] /\ \A a \in DOMAIN mem0 : a \in Nat
  BY <1>2, LineFacts
<1>5. mem = NulsTo(call, mem0, from)
  <2>1. \A b \in DOMAIN mem0 : ~(call.src <= b /\ b < call.src)
    BY <1>4
  <2> QED
    BY <1>2, <1>3, <1>4, <2>1 DEF NulsTo
<1>6. from \in call.src .. LineEnd(call, mem0)
  BY <1>3, <1>4
<1>7. Between
  <2>1. Before(call, mem0, from) = {} /\ Cardinality({}) = 0
    BY <1>2, <1>3, WordsBefore, FS_EmptySet
  <2>2. argv \in Seq(Nat) /\ Len(argv) = 0 /\ Len(argv) < MAXARGS
    BY <1>3, CommandAssumption
  <2> QED
    BY <2>1, <2>2 DEF Between, ArgsAre, Ended
<1>8. ~Letter(call, mem0, from - 1)
  BY <1>3, <1>4 DEF Letter
<1> QED
  BY <1>2, <1>3, <1>5, <1>6, <1>7, <1>8 DEF RunInv

\* What the parsing steps find.
LEMMA RunFacts ==
  ASSUME RunInv, call.fn = "runcmd"
  PROVE  /\ OnLine(call, mem0) /\ call.src \in Nat /\ LineEnd(call, mem0) \in Nat /\ from \in Int
         /\ from \in call.src .. LineEnd(call, mem0) /\ mem = NulsTo(call, mem0, from)
         /\ mem[from] = mem0[from] /\ DOMAIN mem = DOMAIN mem0
         /\ Letter(call, mem0, from) <=> mem[from] \notin WHITESPACE \cup {0}
         /\ mem[from] = 0 <=> from = LineEnd(call, mem0)
         /\ mem[from] \in WHITESPACE => from < LineEnd(call, mem0)
<1>1. OnLine(call, mem0) /\ from \in call.src .. LineEnd(call, mem0) /\ mem = NulsTo(call, mem0, from)
  BY DEF RunInv
<1>2. mem[from] = mem0[from]
  BY <1>1, CharIs
<1>3. call.src \in Nat /\ LineEnd(call, mem0) \in Nat /\ from \in Int
  BY <1>1, LineFacts
<1>4. DOMAIN mem = DOMAIN mem0
  BY <1>1 DEF NulsTo
<1> QED
  BY <1>1, <1>2, <1>3, <1>4, CharIs

\* White space becomes NUL.
LEMMA GobbleKeeps ==
  ASSUME RunInv, Gobble, call' = call, mem0' = mem0
  PROVE  RunInv'
<1>1. /\ call.fn = "runcmd" /\ stage = "start" /\ stage' = "start" /\ mem[from] \in WHITESPACE
      /\ mem' = [mem EXCEPT ![from] = 0] /\ from' = from + 1 /\ argv' = argv
  BY DEF Gobble, AtStage, Moves, Parsing
<1> DEFINE c == call
           m == mem0
<1>2. /\ OnLine(c, m) /\ c.src \in Nat /\ LineEnd(c, m) \in Nat /\ from \in Int
      /\ from \in c.src .. LineEnd(c, m) /\ mem = NulsTo(c, m, from)
      /\ mem[from] = m[from] /\ ~Letter(c, m, from) /\ from < LineEnd(c, m)
      /\ from \notin Firsts(c, m)
  BY <1>1, RunFacts DEF Firsts
<1>3. from' \in c.src .. LineEnd(c, m)
  BY <1>1, <1>2
<1>4. mem' = NulsTo(c, m, from')
  <2>1. \A a \in DOMAIN m : a \in Nat
    BY <1>2, LineFacts
  <2>2. \A a \in DOMAIN m : c.src <= a /\ a < from' <=> (c.src <= a /\ a < from) \/ a = from
    BY <1>1, <1>2, <2>1
  <2>3. m[from] \in WHITESPACE
    BY <1>1, <1>2
  <2> QED
    BY <1>1, <1>2, <2>2, <2>3 DEF NulsTo
<1>5. Between
  BY <1>1 DEF RunInv
<1>6. Between'
  <2>1. Before(c, m, from + 1) = Before(c, m, from)
    BY <1>2, WordsBefore
  <2>2. argv \in Seq(Nat) /\ \A i \in 1..Len(argv) : argv[i] \in Firsts(c, m) /\ argv[i] < from
    BY <1>5 DEF Between, ArgsAre
  <2>3. \A i \in 1..Len(argv) : argv[i] < from + 1
    BY <1>2, <2>2
  <2>4. ArgsAre(c, m, argv, from + 1)
    BY <1>5, <2>1, <2>3 DEF Between, ArgsAre
  <2>5. Ended(c, m, argv, Len(argv), from + 1)
    <3>1. \A e \in Int : e <= from => e <= from + 1
      BY <1>2
    <3> QED
      BY <1>5, <3>1 DEF Between, Ended
  <2> QED
    BY <1>1, <2>4, <2>5 DEF Between
<1>7. ~Letter(c, m, from' - 1)
  BY <1>1, <1>2
<1> QED
  BY <1>1, <1>2, <1>3, <1>4, <1>6, <1>7 DEF RunInv

\* A word has one end.
LEMMA OneEnd ==
  ASSUME NEW c, NEW m, NEW a \in Int, NEW e, NEW f, WordFrom(c, m, a, e), WordFrom(c, m, a, f)
  PROVE  e = f
<1>1. e \in Int /\ f \in Int /\ a < e /\ a < f
  BY DEF WordFrom
<1>2. ~(e < f)
  <2> SUFFICES ASSUME e < f PROVE FALSE
    OBVIOUS
  <2>1. e \in a..f-1
    BY <1>1
  <2> QED
    BY <2>1 DEF WordFrom
<1>3. ~(f < e)
  <2> SUFFICES ASSUME f < e PROVE FALSE
    OBVIOUS
  <2>1. f \in a..e-1
    BY <1>1
  <2> QED
    BY <2>1 DEF WordFrom
<1> QED
  BY <1>1, <1>2, <1>3

\* A word that has been passed is there with its NUL.
LEMMA WordInPlace ==
  ASSUME NEW c, NEW m, OnLine(c, m), NEW a \in c.src .. LineEnd(c, m), NEW e, WordFrom(c, m, a, e),
         NEW x \in c.src .. LineEnd(c, m), e < x \/ e = LineEnd(c, m)
  PROVE  /\ e \in Int /\ a < e
         /\ \A b \in a..e : b \in DOMAIN m /\ b \in DOMAIN NulsTo(c, m, x)
         /\ \A b \in a..e-1 : NulsTo(c, m, x)[b] = m[b] /\ m[b] \notin WHITESPACE \cup {0} /\ m[b] \in Nat
         /\ NulsTo(c, m, x)[e] = 0
<1>1. /\ c.src \in Nat /\ LineEnd(c, m) \in Nat /\ e \in Int /\ a < e /\ e <= LineEnd(c, m)
      /\ ~Letter(c, m, e) /\ \A b \in a..e-1 : Letter(c, m, b)
  BY LineFacts DEF WordFrom
<1>2. \A b \in a..e : b \in c.src .. LineEnd(c, m)
  BY <1>1
<1>3. \A b \in a..e : b \in DOMAIN m /\ b \in DOMAIN NulsTo(c, m, x) /\ m[b] \in Nat
  BY <1>2, LineFacts DEF NulsTo
<1>4. ASSUME NEW b \in a..e-1
      PROVE  NulsTo(c, m, x)[b] = m[b] /\ m[b] \notin WHITESPACE \cup {0} /\ m[b] \in Nat
  <2>1. b \in a..e /\ b \in c.src .. LineEnd(c, m)
    BY <1>1, <1>2
  <2>2. m[b] \notin WHITESPACE \cup {0}
    BY <2>1, <1>1, CharIs
  <2> QED
    BY <2>1, <2>2, <1>3 DEF NulsTo
<1>5. NulsTo(c, m, x)[e] = 0
  <2>1. e \in c.src .. LineEnd(c, m) /\ e \in DOMAIN m
    BY <1>1, <1>2, <1>3
  <2>2. m[e] \in WHITESPACE \/ m[e] = 0
    BY <2>1, <1>1, CharIs
  <2>3. m[e] # 0 => e < x
    BY <2>1, <1>1, CharIs
  <2>4. c.src <= e
    BY <2>1, <1>1
  <2> QED
    BY <2>1, <2>2, <2>3, <2>4 DEF NulsTo
<1> QED
  BY <1>1, <1>3, <1>4, <1>5

\* The words that have been passed end before the end of what has been read.
LEMMA PassedWords ==
  ASSUME RunInv, call.fn = "runcmd", stage # "word", NEW i \in 1..Len(argv),
         from = LineEnd(call, mem0) \/ from \in Firsts(call, mem0)
  PROVE  /\ argv[i] \in Firsts(call, mem0) /\ argv[i] \in call.src .. LineEnd(call, mem0)
         /\ \E e \in Int : WordFrom(call, mem0, argv[i], e) /\ (e < from \/ e = LineEnd(call, mem0))
<1>1. Between /\ OnLine(call, mem0)
  BY DEF RunInv
<1>2. argv[i] \in Firsts(call, mem0)
  BY <1>1 DEF Between, ArgsAre
<1>3. argv[i] \in call.src .. LineEnd(call, mem0)
  BY <1>1, <1>2, LineFacts DEF Firsts
<1>4. PICK e \in Int : e <= from /\ WordFrom(call, mem0, argv[i], e)
  BY <1>1 DEF Between, Ended
<1>5. e < from \/ e = LineEnd(call, mem0)
  <2>1. CASE from = LineEnd(call, mem0)
    BY <1>1, <1>4, <2>1, LineFacts
  <2>2. CASE from \in Firsts(call, mem0)
    <3>1. Letter(call, mem0, from) /\ from \in Nat
      BY <1>1, <2>2, WordsBefore DEF Firsts
    <3>2. e # from
      BY <1>4, <3>1 DEF WordFrom
    <3> QED
      BY <1>4, <3>1, <3>2
  <2> QED
    BY <2>1, <2>2
<1> QED
  BY <1>2, <1>3, <1>4, <1>5

\* What strcmp finds is whether the word is the name.
LEMMA NameRead ==
  ASSUME RunInv, call.fn = "runcmd", stage = "lookup",
         NEW name \in Seq(Nat \ (WHITESPACE \cup {0})) \ {<<>>}
  PROVE  NameIs(name) <=> Spells(call, mem0, name, argv[1])
<1> DEFINE c == call
           m == mem0
           a == argv[1]
           k == Len(name)
<1>1. OnLine(c, m) /\ mem = NulsTo(c, m, from) /\ from = LineEnd(c, m) /\ from \in c.src .. LineEnd(c, m)
      /\ argv # <<>> /\ argv \in Seq(Nat)
  BY DEF RunInv, Looking, Between, ArgsAre
<1>2. 1 \in 1..Len(argv)
  BY <1>1
<1>3. a \in c.src .. LineEnd(c, m)
  BY <1>1, <1>2, PassedWords
<1>4. PICK e \in Int : WordFrom(c, m, a, e) /\ (e < from \/ e = LineEnd(c, m))
  BY <1>1, <1>2, PassedWords
<1>5. /\ a < e /\ \A b \in a..e : b \in DOMAIN mem
      /\ \A b \in a..e-1 : mem[b] = m[b] /\ m[b] # 0
      /\ mem[e] = 0
  BY <1>1, <1>3, <1>4, WordInPlace
<1>6. a \in Int /\ k \in Nat /\ DOMAIN name = 1..k /\ \A i \in 1..k : name[i] # 0
  BY <1>1, <1>3, LineFacts
<1> HIDE DEF a, k
<1>7. ASSUME NameIs(name) PROVE Spells(c, m, name, a)
  <2>1. (\A i \in 1..k : mem[a + i - 1] = name[i]) /\ mem[a + k] = 0
    BY <1>6, <1>7 DEF NameIs, a, k
  <2>2. ~(k > e - a)
    <3> SUFFICES ASSUME k > e - a PROVE FALSE
      OBVIOUS
    <3> DEFINE i == (e - a) + 1
    <3>1. i \in 1..k /\ a + i - 1 = e
      BY <1>4, <1>5, <1>6
    <3> HIDE DEF i
    <3> QED
      BY <3>1, <2>1, <1>5, <1>6
  <2>3. ~(k < e - a)
    <3> SUFFICES ASSUME k < e - a PROVE FALSE
      OBVIOUS
    <3>1. a + k \in a..e-1
      BY <1>4, <1>6
    <3> QED
      BY <3>1, <2>1, <1>5
  <2>4. k = e - a
    BY <2>2, <2>3, <1>4, <1>6
  <2>5. ASSUME NEW i \in 1..k PROVE name[i] = m[a + i - 1]
    <3>1. a + i - 1 \in a..e-1
      BY <2>4, <1>4, <1>6
    <3> QED
      BY <3>1, <2>1, <1>5
  <2> QED
    BY <1>4, <2>4, <2>5 DEF Spells, k
<1>8. ASSUME Spells(c, m, name, a) PROVE NameIs(name)
  <2>1. PICK f \in Int : WordFrom(c, m, a, f) /\ k = f - a /\ \A i \in 1..k : name[i] = m[a + i - 1]
    BY <1>8 DEF Spells, k
  <2>2. f = e
    BY <2>1, <1>4, <1>6, OneEnd
  <2>3. a + k = e
    BY <2>1, <2>2, <1>4, <1>6
  <2>4. ASSUME NEW i \in 1..k PROVE a + i - 1 \in DOMAIN mem /\ mem[a + i - 1] = name[i]
    <3>1. a + i - 1 \in a..e-1 /\ a + i - 1 \in a..e
      BY <2>3, <1>4, <1>6
    <3> QED
      BY <3>1, <2>1, <1>5
  <2> QED
    BY <1>5, <1>6, <2>3, <2>4 DEF NameIs, Bytes, a, k
<1> QED
  BY <1>7, <1>8 DEF a

\* A word begins.
LEMMA SaveKeeps ==
  ASSUME RunInv, SaveArg, call' = call, mem0' = mem0
  PROVE  RunInv'
<1> DEFINE c == call
           m == mem0
           k == Len(argv)
<1>1. /\ call.fn = "runcmd" /\ stage = "start" /\ stage' = "word" /\ mem' = mem /\ from' = from
      /\ mem[from] \notin WHITESPACE \cup {0} /\ argv' = Append(argv, from) /\ k # MAXARGS - 1
  BY DEF SaveArg, AtStage, Moves
<1>2. /\ OnLine(c, m) /\ from \in Int /\ from \in c.src .. LineEnd(c, m) /\ mem = NulsTo(c, m, from)
      /\ Letter(c, m, from) /\ c.src \in Nat
  BY <1>1, RunFacts
<1>3. from \in Firsts(c, m)
  BY <1>1, <1>2 DEF RunInv, Firsts, Letter
<1>4. /\ argv \in Seq(Nat) /\ k < MAXARGS /\ k = Cardinality(Before(c, m, from))
      /\ \A i \in 1..k : argv[i] \in Firsts(c, m) /\ argv[i] < from /\ Cardinality(Before(c, m, argv[i])) = i - 1
      /\ Ended(c, m, argv, k, from)
  BY <1>1 DEF RunInv, Between, ArgsAre
<1>5. k \in Nat /\ MAXARGS \in Nat /\ k + 1 < MAXARGS
  BY <1>1, <1>4, CommandAssumption
<1>6. /\ argv' \in Seq(Nat) /\ Len(argv') = k + 1 /\ argv'[k + 1] = from
      /\ \A i \in 1..k : argv'[i] = argv[i]
  BY <1>1, <1>2, <1>4
<1> HIDE DEF k
<1>7. ArgsAre(c, m, argv', from + 1)
  <2>1. Cardinality(Before(c, m, from + 1)) = k + 1
    BY <1>2, <1>3, <1>4, WordsBefore
  <2>2. ASSUME NEW i \in 1..k+1
        PROVE  /\ argv'[i] \in Firsts(c, m) /\ argv'[i] < from + 1
               /\ Cardinality(Before(c, m, argv'[i])) = i - 1
    <3>1. CASE i = k + 1
      BY <3>1, <1>2, <1>3, <1>4, <1>5, <1>6
    <3>2. CASE i # k + 1
      <4>1. i \in 1..k
        BY <3>2, <1>5
      <4>2. argv[i] \in Nat /\ argv[i] < from
        BY <4>1, <1>2, <1>4, WordsBefore
      <4> QED
        BY <4>1, <4>2, <1>2, <1>4, <1>6
    <3> QED
      BY <3>1, <3>2
  <2> QED
    BY <2>1, <2>2, <1>5, <1>6 DEF ArgsAre
<1>8. Ended(c, m, argv', Len(argv') - 1, from)
  <2>1. Len(argv') - 1 = k
    BY <1>5, <1>6
  <2> QED
    BY <2>1, <1>4, <1>6 DEF Ended
<1>9. argv'[Len(argv')] <= from /\ \A b \in argv'[Len(argv')] .. from-1 : Letter(c, m, b)
  BY <1>2, <1>6
<1>10. Within'
  BY <1>1, <1>5, <1>6, <1>7, <1>8, <1>9 DEF Within
<1> QED
  BY <1>1, <1>2, <1>10 DEF RunInv

\* The word goes on.
LEMMA ScanKeeps ==
  ASSUME RunInv, ScanArg, call' = call, mem0' = mem0
  PROVE  RunInv'
<1> DEFINE c == call
           m == mem0
           k == Len(argv)
<1>1. /\ call.fn = "runcmd" /\ stage = "word" /\ stage' = "word" /\ mem' = mem /\ from' = from + 1
      /\ mem[from] \notin WHITESPACE \cup {0} /\ argv' = argv
  BY DEF ScanArg, AtStage, Moves, Parsing
<1>2. /\ OnLine(c, m) /\ from \in Int /\ from \in c.src .. LineEnd(c, m) /\ mem = NulsTo(c, m, from)
      /\ Letter(c, m, from) /\ c.src \in Nat /\ LineEnd(c, m) \in Nat
      /\ mem[from] # 0 /\ m[from] \notin WHITESPACE /\ from # LineEnd(c, m)
  BY <1>1, RunFacts
<1>3. Within
  BY <1>1 DEF RunInv
<1>4. from + 1 \in c.src .. LineEnd(c, m) /\ (from + 1) - 1 = from /\ from + 1 \in Int
  BY <1>2
<1>5. mem' = NulsTo(c, m, from + 1)
  <2>1. \A a \in DOMAIN m : a \in Nat
    BY <1>2, LineFacts
  <2>2. \A a \in DOMAIN m : (c.src <= a /\ a < from + 1 /\ m[a] \in WHITESPACE)
                               <=> (c.src <= a /\ a < from /\ m[a] \in WHITESPACE)
    BY <1>2, <2>1
  <2> QED
    BY <1>1, <1>2, <2>2 DEF NulsTo
<1>6. from + 1 \notin Firsts(c, m)
  BY <1>2, <1>4 DEF Firsts
<1>7. Before(c, m, (from + 1) + 1) = Before(c, m, from + 1)
  BY <1>2, <1>4, <1>6, WordsBefore
<1>8. ArgsAre(c, m, argv, (from + 1) + 1)
  <2>1. \A i \in 1..k : argv[i] \in Nat /\ argv[i] < (from + 1) + 1
    <3>1. \A i \in 1..k : argv[i] \in Nat /\ argv[i] < from + 1
      BY <1>2, <1>3, WordsBefore DEF Within, ArgsAre
    <3> QED
      BY <3>1, <1>2
  <2> QED
    BY <1>3, <1>7, <2>1 DEF Within, ArgsAre
<1>9. Ended(c, m, argv, k - 1, from + 1)
  <2>1. \A e \in Int : e <= from => e <= from + 1
    BY <1>2
  <2> QED
    BY <1>3, <2>1 DEF Within, Ended
<1>10. argv[k] <= from + 1 /\ \A b \in argv[k] .. from : Letter(c, m, b)
  <2>1. argv[k] \in Int /\ argv[k] <= from
    <3>1. argv \in Seq(Nat) /\ k # 0
      BY <1>3 DEF Within, ArgsAre
    <3> QED
      BY <3>1, <1>3 DEF Within
  <2>2. \A b \in argv[k] .. from : b \in argv[k] .. from-1 \/ b = from
    BY <1>2, <2>1
  <2> QED
    BY <1>2, <1>3, <2>1, <2>2 DEF Within
<1>11. Within'
  BY <1>1, <1>3, <1>4, <1>8, <1>9, <1>10 DEF Within
<1> QED
  BY <1>1, <1>2, <1>4, <1>5, <1>11 DEF RunInv

\* The word ends.
LEMMA EndKeeps ==
  ASSUME RunInv, ArgEnds, call' = call, mem0' = mem0
  PROVE  RunInv'
<1> DEFINE c == call
           m == mem0
           k == Len(argv)
<1>1. /\ call.fn = "runcmd" /\ stage = "word" /\ stage' = "start" /\ mem' = mem /\ from' = from
      /\ mem[from] \in WHITESPACE \cup {0} /\ argv' = argv
  BY DEF ArgEnds, AtStage, Moves, Parsing
<1>2. /\ OnLine(c, m) /\ from \in Int /\ from \in c.src .. LineEnd(c, m) /\ mem = NulsTo(c, m, from)
      /\ ~Letter(c, m, from) /\ from <= LineEnd(c, m)
  BY <1>1, RunFacts
<1>3. Within
  BY <1>1 DEF RunInv
<1>4. from \notin Firsts(c, m)
  BY <1>2 DEF Firsts
<1>5. Before(c, m, from + 1) = Before(c, m, from)
  BY <1>2, <1>4, WordsBefore
<1>6. ArgsAre(c, m, argv, from)
  <2>1. \A i \in 1..k : argv[i] \in Nat /\ argv[i] < from + 1 /\ argv[i] # from
    BY <1>2, <1>3, <1>4, WordsBefore DEF Within, ArgsAre
  <2>2. \A i \in 1..k : argv[i] < from
    BY <1>2, <2>1
  <2> QED
    BY <1>3, <1>5, <2>2 DEF Within, ArgsAre
<1>7. Ended(c, m, argv, k, from)
  <2>1. k \in Nat /\ k # 0 /\ argv \in Seq(Nat)
    BY <1>3 DEF Within, ArgsAre
  <2>2. argv[k] < from
    BY <2>1, <1>6 DEF ArgsAre
  <2>3. WordFrom(c, m, argv[k], from)
    BY <1>2, <1>3, <2>2 DEF Within, WordFrom
  <2>4. from <= from /\ \A i \in 1..k : i \in 1..k-1 \/ i = k
    BY <1>2, <2>1
  <2> QED
    BY <1>2, <1>3, <2>3, <2>4 DEF Within, Ended
<1>8. Between'
  BY <1>1, <1>6, <1>7 DEF Between
<1> QED
  BY <1>1, <1>2, <1>8 DEF RunInv

\* The line has been read, or is too long.
LEMMA ReadKeeps ==
  ASSUME RunInv, TooMany \/ LineEnds, call' = call, mem0' = mem0
  PROVE  RunInv'
<1> DEFINE c == call
           m == mem0
<1>1. /\ call.fn = "runcmd" /\ stage = "start" /\ mem' = mem /\ from' = from /\ argv' = argv
  BY DEF TooMany, LineEnds, AtStage, Moves
<1>2. /\ OnLine(c, m) /\ from \in c.src .. LineEnd(c, m) /\ mem = NulsTo(c, m, from) /\ Between
      /\ Letter(c, m, from) => ~Letter(c, m, from - 1)
      /\ Letter(c, m, from) <=> mem[from] \notin WHITESPACE \cup {0}
      /\ mem[from] = 0 <=> from = LineEnd(c, m)
  BY <1>1, RunFacts DEF RunInv
<1>3. Between'
  BY <1>1, <1>2 DEF Between
<1>4. CASE TooMany
  <2>1. stage' = "done" /\ outcome' = <<"too many">> /\ Len(argv') = MAXARGS - 1 /\ Letter(c, m, from)
    BY <1>1, <1>2, <1>4 DEF TooMany, Moves
  <2>2. from' \in Firsts(c, m)
    BY <1>1, <1>2, <2>1 DEF Firsts, Letter
  <2> QED
    BY <1>1, <1>2, <1>3, <2>1, <2>2 DEF RunInv
<1>5. CASE LineEnds /\ argv = <<>>
  <2>1. stage' = "done" /\ outcome' = <<"empty">> /\ from' = LineEnd(c, m)
    BY <1>1, <1>2, <1>5 DEF LineEnds, Moves
  <2> QED
    BY <1>1, <1>2, <1>3, <2>1 DEF RunInv
<1>6. CASE LineEnds /\ argv # <<>>
  <2>1. stage' = "lookup" /\ step' = 1 /\ from' = LineEnd(c, m)
    BY <1>1, <1>2, <1>6 DEF LineEnds, Moves
  <2>2. 1 \in 1..Len(commands)+1
    BY CommandAssumption
  <2>3. Looking'
    BY <1>1, <1>6, <2>1, <2>2 DEF Looking
  <2> QED
    BY <1>1, <1>2, <1>3, <2>1, <2>3 DEF RunInv
<1> QED
  BY <1>4, <1>5, <1>6

\* The table of commands is searched from the start.
LEMMA LookupKeeps ==
  ASSUME RunInv, NextCommand \/ Invoke \/ NoCommand, call' = call, mem0' = mem0
  PROVE  RunInv'
<1> DEFINE c == call
           m == mem0
           k == Len(commands)
<1>1. /\ call.fn = "runcmd" /\ stage = "lookup" /\ mem' = mem /\ from' = from /\ argv' = argv
  BY DEF NextCommand, Invoke, NoCommand, AtStage, Moves
<1>2. OnLine(c, m) /\ from \in c.src .. LineEnd(c, m) /\ mem = NulsTo(c, m, from) /\ Between /\ Looking
  BY <1>1 DEF RunInv
<1>3. Between'
  BY <1>1, <1>2 DEF Between
<1>4. k \in Nat /\ step \in 1..k+1
  BY <1>2, CommandAssumption DEF Looking
<1>5. \A i \in 1..k : NameIs(commands[i]) <=> Spells(c, m, commands[i], argv[1])
  <2> TAKE i \in 1..k
  <2>1. commands[i] \in Seq(Nat \ (WHITESPACE \cup {0})) \ {<<>>}
    BY CommandAssumption
  <2> QED
    BY <1>1, <2>1, NameRead
<1>6. CASE NextCommand
  <2>1. stage' = "lookup" /\ step' = step + 1 /\ step <= k /\ ~NameIs(commands[step])
    BY <1>6 DEF NextCommand, Moves
  <2>2. ~Spells(c, m, commands[step], argv[1]) /\ step' \in 1..k+1
    BY <1>4, <1>5, <2>1
  <2>3. \A i \in 1..step'-1 : ~Spells(c, m, commands[i], argv[1])
    <3>1. \A i \in 1..step'-1 : i \in 1..step-1 \/ i = step
      BY <1>4, <2>1
    <3> QED
      BY <1>2, <2>2, <3>1 DEF Looking
  <2>4. Looking'
    BY <1>1, <1>2, <2>2, <2>3 DEF Looking
  <2> QED
    BY <1>1, <1>2, <1>3, <2>1, <2>4 DEF RunInv
<1>7. CASE Invoke
  <2>1. stage' = "done" /\ step' = step /\ step <= k /\ NameIs(commands[step]) /\ outcome' = <<"run", step>>
    BY <1>7 DEF Invoke, Moves
  <2>2. Spells(c, m, commands[step], argv[1])
    BY <1>4, <1>5, <2>1
  <2>3. Looking'
    BY <1>1, <1>2, <2>1 DEF Looking
  <2> QED
    BY <1>1, <1>2, <1>3, <2>1, <2>2, <2>3 DEF RunInv
<1>8. CASE NoCommand
  <2>1. stage' = "done" /\ step' = step /\ step > k /\ outcome' = <<"unknown">>
    BY <1>8 DEF NoCommand, Moves
  <2>2. step = k + 1
    BY <1>4, <2>1
  <2>3. Looking'
    BY <1>1, <1>2, <2>1 DEF Looking
  <2> QED
    BY <1>1, <1>2, <1>3, <2>1, <2>2, <2>3 DEF RunInv
<1> QED
  BY <1>6, <1>7, <1>8

LEMMA RunKeeps == RunInv /\ [CmdNext]_cmdVars => RunInv'
<1> SUFFICES ASSUME RunInv, [CmdNext]_cmdVars PROVE RunInv'
  OBVIOUS
<1>1. call' = call /\ mem0' = mem0 /\ (call.fn = "runcmd" => runcmd \/ UNCHANGED cmdVars)
  BY Steps
<1>2. CASE call.fn # "runcmd"
  BY <1>1, <1>2 DEF RunInv
<1>3. CASE call.fn = "runcmd" /\ UNCHANGED cmdVars
  <2>1. UNCHANGED <<call, mem, mem0, from, step, stage, argv, outcome>>
    BY <1>3 DEF cmdVars, callVars
  <2> QED
    BY <2>1 DEF RunInv, Between, Within, Looking
<1>4. CASE runcmd
  BY <1>1, <1>4, GobbleKeeps, SaveKeeps, ScanKeeps, EndKeeps, ReadKeeps, LookupKeeps DEF runcmd
<1> QED
  BY <1>1, <1>2, <1>3, <1>4

\* The words of the line are those of WordsRight.
LEMMA WordsAre ==
  ASSUME RunInv, call.fn = "runcmd"
  PROVE  /\ \A a : InWord(a) <=> Letter(call, mem0, a)
         /\ InLine = call.src .. LineEnd(call, mem0) - 1
         /\ Begins = Firsts(call, mem0)
<1>1. /\ OnLine(call, mem0) /\ call.src \in Nat /\ LineEnd(call, mem0) \in Nat /\ Bytes = DOMAIN mem0
  BY RunFacts DEF Bytes
<1>2. \A a \in Bytes : a \in Nat
  BY <1>1, LineFacts
<1>3. LineEnd(call, mem0) = call.src + Length(call.src)
  BY DEF LineEnd, Length
<1>4. \A a \in call.src .. LineEnd(call, mem0) - 1 : a \in Bytes
  <2>1. \A a \in call.src .. LineEnd(call, mem0) - 1 : a \in call.src .. LineEnd(call, mem0)
    BY <1>1
  <2> QED
    BY <2>1, <1>1, LineFacts
<1>5. InLine = call.src .. LineEnd(call, mem0) - 1
  <2> DEFINE s0 == call.src
             e0 == LineEnd(call, mem0)
  <2>1. InLine = {a \in Bytes : a >= s0 /\ a < e0}
    BY <1>3 DEF InLine
  <2>2. s0 \in Nat /\ e0 \in Nat /\ \A a \in s0..e0-1 : a \in Bytes
    BY <1>1, <1>4
  <2> HIDE DEF s0, e0
  <2>3. InLine = s0..e0-1
    BY <2>1, <2>2, <1>2
  <2> QED
    BY <2>3 DEF s0, e0
<1>6. \A a : InWord(a) <=> Letter(call, mem0, a)
  BY <1>5 DEF InWord, Letter
<1>7. Begins = Firsts(call, mem0)
  BY <1>5, <1>6 DEF Begins, Firsts
<1> QED
  BY <1>5, <1>6, <1>7

\* Where a word ends, and which it is.
LEMMA WordIs ==
  ASSUME RunInv, call.fn = "runcmd", NEW a \in call.src .. LineEnd(call, mem0),
         NEW e \in Int, WordFrom(call, mem0, a, e)
  PROVE  /\ WordEnd(a) = e
         /\ DOMAIN Word(a) = 1..e-a /\ \A i \in 1..e-a : Word(a)[i] = mem0[a + i - 1]
         /\ Word(a) = [i \in 1..e-a |-> Word(a)[i]]
<1> DEFINE S == {b \in Bytes : b > a /\ ~InWord(b)}
<1>1. /\ OnLine(call, mem0) /\ Bytes = DOMAIN mem0 /\ a \in Int
      /\ \A b \in Bytes : b \in Nat
  BY RunFacts, LineFacts DEF Bytes
<1>2. \A b : InWord(b) <=> Letter(call, mem0, b)
  BY WordsAre
<1>3. /\ a < e /\ e <= LineEnd(call, mem0) /\ ~Letter(call, mem0, e)
      /\ \A b \in a..e-1 : Letter(call, mem0, b)
  BY DEF WordFrom
<1>4. e \in Bytes
  <2>1. e \in call.src .. LineEnd(call, mem0)
    BY <1>1, <1>3, LineFacts
  <2> QED
    BY <2>1, <1>1, LineFacts
<1>5. S \in SUBSET Int /\ e \in S
  BY <1>1, <1>2, <1>3, <1>4
<1>6. ASSUME NEW b \in S PROVE e <= b
  <2>1. b \in Int /\ b > a /\ ~Letter(call, mem0, b)
    BY <1>1, <1>2, <1>6
  <2>2. ~(b < e)
    <3> SUFFICES ASSUME b < e PROVE FALSE
      OBVIOUS
    <3>1. b \in a..e-1
      BY <2>1, <1>1
    <3> QED
      BY <3>1, <2>1, <1>3
  <2> QED
    BY <2>1, <2>2
<1>7. Min(S) = e
  <2> HIDE DEF S
  <2> QED
    BY <1>5, <1>6, MinIs
<1>8. WordEnd(a) = e
  BY <1>7 DEF WordEnd
<1> QED
  BY <1>8 DEF Word

\* A name is the word, or it is not.
LEMMA SpellsWord ==
  ASSUME RunInv, call.fn = "runcmd", NEW a \in call.src .. LineEnd(call, mem0),
         NEW e \in Int, WordFrom(call, mem0, a, e),
         NEW name \in Seq(Nat \ (WHITESPACE \cup {0}))
  PROVE  Spells(call, mem0, name, a) <=> name = Word(a)
<1>1. /\ DOMAIN Word(a) = 1..e-a /\ \A i \in 1..e-a : Word(a)[i] = mem0[a + i - 1]
      /\ Word(a) = [i \in 1..e-a |-> Word(a)[i]]
  BY WordIs
<1>2. a \in Int /\ a < e
  BY RunFacts DEF WordFrom
<1>3. Len(name) \in Nat /\ DOMAIN name = 1..Len(name) /\ name = [i \in 1..Len(name) |-> name[i]]
  OBVIOUS
<1>4. ASSUME Spells(call, mem0, name, a) PROVE name = Word(a)
  <2>1. PICK f \in Int : /\ WordFrom(call, mem0, a, f) /\ Len(name) = f - a
                         /\ \A i \in 1..Len(name) : name[i] = mem0[a + i - 1]
    BY <1>4 DEF Spells
  <2>2. f = e
    BY <2>1, <1>2, OneEnd
  <2>3. Len(name) = e - a
    BY <2>1, <2>2
  <2>4. \A i \in 1..e-a : name[i] = Word(a)[i]
    BY <1>1, <2>1, <2>3
  <2> QED
    BY <1>1, <1>3, <2>3, <2>4
<1>5. ASSUME name = Word(a) PROVE Spells(call, mem0, name, a)
  <2>1. 1..Len(name) = 1..e-a
    BY <1>1, <1>3, <1>5
  <2>2. Len(name) = e - a
    <3> DEFINE k == Len(name)
               d == e - a
    <3>1. k \in Nat /\ d \in Nat /\ 1..k = 1..d /\ d > 0
      BY <1>2, <1>3, <2>1
    <3> HIDE DEF k, d
    <3>2. d \in 1..k /\ (k > 0 => k \in 1..d)
      BY <3>1
    <3>3. k = d
      BY <3>1, <3>2
    <3> QED
      BY <3>3 DEF k, d
  <2>3. \A i \in 1..Len(name) : name[i] = mem0[a + i - 1]
    BY <1>1, <1>5, <2>2
  <2> QED
    BY <2>2, <2>3 DEF Spells
<1> QED
  BY <1>4, <1>5

\* The words and the command that runcmd should find.
LEMMA RunRight == RunInv => WordsRight
<1> SUFFICES ASSUME RunInv, call.fn = "runcmd", stage = "done" PROVE WordsRight
  BY DEF WordsRight
<1> DEFINE c == call
           m == mem0
<1>1. /\ OnLine(c, m) /\ mem = NulsTo(c, m, from) /\ from \in c.src .. LineEnd(c, m) /\ Between
      /\ c.src \in Nat /\ LineEnd(c, m) \in Nat
  BY RunFacts DEF RunInv
<1>2. \/ outcome = <<"too many">> /\ Len(argv) = MAXARGS - 1 /\ from \in Firsts(c, m)
      \/ outcome = <<"empty">> /\ from = LineEnd(c, m)
      \/ outcome = <<"unknown">> /\ Looking /\ step = Len(commands) + 1
      \/ /\ outcome = <<"run", step>> /\ Looking /\ step <= Len(commands)
         /\ Spells(c, m, commands[step], argv[1])
  BY DEF RunInv
<1>3. from = LineEnd(c, m) \/ from \in Firsts(c, m)
  BY <1>2 DEF Looking
<1>4. Begins = Firsts(c, m) /\ InLine = c.src .. LineEnd(c, m) - 1
  BY WordsAre
<1>5. /\ argv \in Seq(Nat) /\ Len(argv) < MAXARGS /\ Len(argv) = Cardinality(Before(c, m, from))
      /\ \A i \in 1..Len(argv) :
           argv[i] \in Firsts(c, m) /\ argv[i] < from /\ Cardinality(Before(c, m, argv[i])) = i - 1
  BY <1>1 DEF Between, ArgsAre
<1>6. DOMAIN argv = 1..Len(argv) /\ Len(argv) \in Nat /\ MAXARGS \in Nat /\ DOMAIN commands = 1..Len(commands)
      /\ Len(commands) \in Nat
  BY <1>5, CommandAssumption
<1>7. \A a : Before(c, m, a) = {b \in Begins : b < a}
  BY <1>4 DEF Before
<1>8. IsFiniteSet(Firsts(c, m)) /\ Cardinality(Firsts(c, m)) \in Nat
  BY <1>1, WordsBefore, FS_CardinalityType
<1> DEFINE k == Len(argv)
           words == Cardinality(Firsts(c, m))
<1>t. k \in Nat /\ MAXARGS \in Nat /\ words \in Nat /\ k < MAXARGS
  BY <1>5, <1>6, <1>8
<1>9. outcome = <<"too many">> => words >= MAXARGS /\ k = MAXARGS - 1
  <2>1. ASSUME from \in Firsts(c, m) PROVE k + 1 <= words
    <3>1. from \in Int
      BY RunFacts
    <3>2. Cardinality(Before(c, m, from + 1)) = k + 1
      BY <1>1, <1>5, <2>1, <3>1, WordsBefore
    <3>3. Before(c, m, from + 1) \subseteq Firsts(c, m)
      BY DEF Before
    <3> QED
      BY <3>2, <3>3, <1>8, FS_Subset
  <2>2. outcome = <<"too many">> => Len(argv) = MAXARGS - 1 /\ from \in Firsts(c, m)
    <3>1. <<"too many">> # <<"empty">> /\ <<"too many">> # <<"unknown">> /\ <<"too many">> # <<"run", step>>
      OBVIOUS
    <3> QED
      BY <1>2, <3>1, Zenon
  <2> HIDE DEF k, words
  <2>3. k = MAXARGS - 1 /\ k + 1 <= words => words >= MAXARGS
    BY <1>t
  <2>4. from \in Firsts(c, m) => k + 1 <= words
    BY <2>1
  <2>5. outcome = <<"too many">> => k = MAXARGS - 1 /\ from \in Firsts(c, m)
    BY <2>2, Zenon DEF k
  <2> QED
    BY <2>3, <2>4, <2>5, Zenon
<1>10. outcome # <<"too many">> => Len(argv) = Cardinality(Begins)
  <2> SUFFICES ASSUME outcome # <<"too many">> PROVE Len(argv) = Cardinality(Begins)
    OBVIOUS
  <2>1. from = LineEnd(c, m)
    BY <1>2 DEF Looking
  <2> QED
    BY <2>1, <1>1, <1>4, <1>5, WordsBefore
<1>11. ASSUME NEW i \in DOMAIN argv
       PROVE  /\ argv[i] \in Begins /\ Cardinality({a \in Begins : a < argv[i]}) = i - 1
              /\ \A j \in 0..WordEnd(argv[i]) - argv[i] :
                   mem[argv[i] + j] = IF j < WordEnd(argv[i]) - argv[i] THEN mem0[argv[i] + j] ELSE 0
  <2> DEFINE a == argv[i]
  <2>1. i \in 1..Len(argv)
    BY <1>6
  <2>2. a \in Firsts(c, m) /\ a \in c.src .. LineEnd(c, m) /\ Cardinality(Before(c, m, a)) = i - 1
    BY <1>3, <1>5, <2>1, PassedWords
  <2>3. PICK e \in Int : WordFrom(c, m, a, e) /\ (e < from \/ e = LineEnd(c, m))
    BY <1>3, <2>1, PassedWords
  <2>4. a < e /\ mem[e] = 0 /\ \A b \in a..e-1 : mem[b] = m[b]
    BY <1>1, <2>2, <2>3, WordInPlace
  <2>5. WordEnd(a) = e
    BY <2>2, <2>3, WordIs
  <2>6. a \in Int
    BY <1>1, <2>2
  <2>7. ASSUME NEW j \in 0..e-a PROVE mem[a + j] = IF j < e - a THEN m[a + j] ELSE 0
    <3> HIDE DEF a
    <3>1. CASE j < e - a
      <4>1. a + j \in a..e-1
        BY <2>3, <2>6, <3>1
      <4> QED
        BY <4>1, <3>1, <2>4
    <3>2. CASE ~(j < e - a)
      <4>1. a + j = e
        BY <2>3, <2>6, <3>2
      <4> QED
        BY <4>1, <3>2, <2>4
    <3> QED
      BY <3>1, <3>2
  <2> QED
    BY <1>4, <1>7, <2>2, <2>5, <2>7
<1>12. ASSUME NEW a \in Bytes, mem[a] # mem0[a]
       PROVE  a \in InLine /\ mem0[a] \in WHITESPACE /\ mem[a] = 0
  <2>1. a \in DOMAIN m /\ a \in Nat
    BY <1>1, RunFacts, LineFacts DEF Bytes
  <2>2. c.src <= a /\ a < from /\ m[a] \in WHITESPACE /\ mem[a] = 0
    BY <1>1, <1>12, <2>1 DEF NulsTo
  <2>3. a \in c.src .. LineEnd(c, m) - 1
    BY <1>1, <2>1, <2>2
  <2> QED
    BY <1>4, <2>2, <2>3
<1>13. ASSUME Looking, NEW i \in 1..Len(commands)
       PROVE  Spells(c, m, commands[i], argv[1]) <=> commands[i] = Word(argv[1])
  <2>1. 1 \in 1..Len(argv)
    BY <1>5, <1>13 DEF Looking
  <2>2. argv[1] \in c.src .. LineEnd(c, m)
    BY <1>3, <2>1, PassedWords
  <2>3. PICK e \in Int : WordFrom(c, m, argv[1], e)
    BY <1>3, <2>1, PassedWords
  <2>4. commands[i] \in Seq(Nat \ (WHITESPACE \cup {0}))
    BY CommandAssumption
  <2> QED
    BY <2>2, <2>3, <2>4, SpellsWord
<1>14. Head(outcome) = "run" =>
         /\ commands[outcome[2]] = Word(argv[1])
         /\ \A i \in 1..outcome[2]-1 : commands[i] # Word(argv[1])
  <2> SUFFICES ASSUME Head(outcome) = "run"
               PROVE  /\ commands[outcome[2]] = Word(argv[1])
                      /\ \A i \in 1..outcome[2]-1 : commands[i] # Word(argv[1])
    OBVIOUS
  <2>1. /\ outcome = <<"run", step>> /\ Looking /\ step <= Len(commands)
        /\ Spells(c, m, commands[step], argv[1])
    <3>1. Head(<<"too many">>) # "run" /\ Head(<<"empty">>) # "run" /\ Head(<<"unknown">>) # "run"
      OBVIOUS
    <3>2. outcome # <<"too many">> /\ outcome # <<"empty">> /\ outcome # <<"unknown">>
      BY <3>1
    <3> QED
      BY <1>2, <3>2
  <2>2. step \in 1..Len(commands) /\ outcome[2] = step
    BY <2>1, <1>6 DEF Looking
  <2>3. \A i \in 1..step-1 : i \in 1..Len(commands) /\ ~Spells(c, m, commands[i], argv[1])
    BY <2>1, <2>2, <1>6 DEF Looking
  <2> QED
    BY <2>1, <2>2, <2>3, <1>13
<1>15. outcome = <<"unknown">> => \A i \in DOMAIN commands : commands[i] # Word(argv[1])
  <2> SUFFICES ASSUME outcome = <<"unknown">>, NEW i \in 1..Len(commands) PROVE commands[i] # Word(argv[1])
    BY <1>6
  <2>1. Looking /\ step = Len(commands) + 1
    BY <1>2
  <2>2. i \in 1..step-1
    BY <2>1, <1>6
  <2> QED
    BY <2>1, <2>2, <1>13 DEF Looking
<1>16. outcome = <<"too many">> <=> Cardinality(Begins) >= MAXARGS
  <2>1. outcome # <<"too many">> => k = words
    BY <1>4, <1>10
  <2> HIDE DEF k, words
  <2>2. k = words => ~(words >= MAXARGS)
    BY <1>t
  <2>3. outcome = <<"too many">> <=> words >= MAXARGS
    BY <1>9, <2>1, <2>2
  <2> QED
    BY <2>3, <1>4 DEF words
<1>17. Len(argv) = IF outcome = <<"too many">> THEN MAXARGS - 1 ELSE Cardinality(Begins)
  BY <1>9, <1>10
<1> QED
  BY <1>5, <1>11, <1>12, <1>14, <1>15, <1>16, <1>17 DEF WordsRight

(* runcmd finds the words of a line of any length, in place, and the first *)
(* command of any table that the first of them names.                      *)
THEOREM LineRead == CmdSpec => []WordsRight
<1>1. CmdInit => RunInv
  BY RunStarts
<1>2. RunInv /\ [CmdNext]_cmdVars => RunInv'
  BY RunKeeps
<1>3. CmdSpec => []RunInv
  BY <1>1, <1>2, PTL DEF CmdSpec
<1> QED
  BY <1>3, RunRight, PTL
=============================================================================
