---------------------------- MODULE SysCallProofs ----------------------------
(***************************************************************************)
(* user_mem_check (pmap.c) answers rightly, for any page size, any bound   *)
(* ULIM and any page table, about every range whose rounded end does not   *)
(* wrap around; and for any programs and strings a trap frame describes    *)
(* the interrupted code, a program gets its registers back, and sys_cputs  *)
(* prints only what the program may read.                                  *)
(***************************************************************************)
EXTENDS SysCall, TLAPS

Aligned(a) == a % PGSIZE = 0

----------------------------------------------------------------------------
(* Pages and their addresses.                                              *)

LEMMA DivMod ==
  ASSUME NEW n \in Nat \ {0}, NEW a \in Nat
  PROVE  /\ a = n * (a \div n) + (a % n)
         /\ a % n \in 0..n-1 /\ a \div n \in Nat
OBVIOUS

LEMMA Multiples ==
  ASSUME NEW n \in Nat \ {0}, NEW p \in Nat, NEW q \in Nat, p < q
  PROVE  n * p + n <= n * q
OBVIOUS

LEMMA ZeroMod ==
  ASSUME NEW n \in Nat \ {0}, NEW q \in Nat
  PROVE  (n * q) % n = 0
OBVIOUS

\* An address lies in the page between two neighbouring multiples.
LEMMA Quotient ==
  ASSUME NEW n \in Nat \ {0}, NEW a \in Nat, NEW q \in Nat,
         n * q <= a, a < n * q + n
  PROVE  a \div n = q
<1> DEFINE d == a \div n
<1>1. n * d <= a /\ a < n * d + n /\ d \in Nat
  BY DivMod
<1> HIDE DEF d
<1>2. ~(d < q)
  BY <1>1, Multiples
<1>3. ~(q < d)
  BY <1>1, Multiples
<1>4. d = q
  BY <1>1, <1>2, <1>3
<1> QED
  BY <1>4 DEF d

\* The start of a page is a multiple of the page size.
LEMMA AlignedIsMultiple ==
  ASSUME NEW a \in Nat, Aligned(a)
  PROVE  a = PGSIZE * (a \div PGSIZE) /\ a \div PGSIZE \in Nat
<1>1. PGSIZE \in Nat \ {0}
  BY WordAssumption DEF WordAssumption
<1>2. /\ a = PGSIZE * (a \div PGSIZE) + (a % PGSIZE)
      /\ a \div PGSIZE \in Nat
  BY <1>1, DivMod
<1> QED
  BY <1>1, <1>2 DEF Aligned

\* Between two starts of pages lies at least a page.
LEMMA AlignedApart ==
  ASSUME NEW a \in Nat, NEW b \in Nat, Aligned(a), Aligned(b), a < b
  PROVE  a + PGSIZE <= b
<1>1. PGSIZE \in Nat \ {0}
  BY WordAssumption DEF WordAssumption
<1> DEFINE p == a \div PGSIZE
           q == b \div PGSIZE
<1>2. a = PGSIZE * p /\ b = PGSIZE * q /\ p \in Nat /\ q \in Nat
  BY AlignedIsMultiple
<1> HIDE DEF p, q
<1>3. ~(q < p)
  BY <1>1, <1>2, Multiples
<1>4. p # q
  BY <1>2
<1>5. p < q
  BY <1>2, <1>3, <1>4
<1> QED
  BY <1>1, <1>2, <1>5, Multiples

\* The page after one starts PGSIZE later.
LEMMA AlignedNext ==
  ASSUME NEW a \in Nat, Aligned(a)
  PROVE  Aligned(a + PGSIZE)
<1>1. PGSIZE \in Nat \ {0}
  BY WordAssumption DEF WordAssumption
<1> DEFINE p == a \div PGSIZE
<1>2. a = PGSIZE * p /\ p \in Nat
  BY AlignedIsMultiple
<1> HIDE DEF p
<1>3. a + PGSIZE = PGSIZE * (p + 1) /\ p + 1 \in Nat
  BY <1>1, <1>2
<1>4. (PGSIZE * (p + 1)) % PGSIZE = 0
  BY <1>1, <1>3, ZeroMod
<1> QED
  BY <1>3, <1>4 DEF Aligned

\* ROUNDDOWN gives the start of the page.
LEMMA RoundDownPage ==
  ASSUME NEW a \in Nat
  PROVE  /\ RoundDown(a) \in Nat /\ Aligned(RoundDown(a))
         /\ RoundDown(a) <= a /\ a < RoundDown(a) + PGSIZE
<1>1. PGSIZE \in Nat \ {0}
  BY WordAssumption DEF WordAssumption
<1> DEFINE p == a \div PGSIZE
           r == a % PGSIZE
<1>2. a = PGSIZE * p + r /\ r \in 0..PGSIZE-1 /\ p \in Nat
  BY <1>1, DivMod
<1>3. RoundDown(a) = a - r
  BY DEF RoundDown
<1> HIDE DEF p, r
<1>4. RoundDown(a) = PGSIZE * p /\ PGSIZE * p \in Nat
  BY <1>1, <1>2, <1>3
<1>5. Aligned(RoundDown(a))
  BY <1>1, <1>2, <1>4, ZeroMod DEF Aligned
<1>6. RoundDown(a) <= a /\ a < RoundDown(a) + PGSIZE
  BY <1>1, <1>2, <1>3
<1> QED
  BY <1>4, <1>5, <1>6

\* All addresses of a page have the page's number.
LEMMA SamePage ==
  ASSUME NEW s \in Nat, Aligned(s), NEW a \in Nat, s <= a, a < s + PGSIZE
  PROVE  PageOf(a) = PageOf(s)
<1>1. PGSIZE \in Nat \ {0}
  BY WordAssumption DEF WordAssumption
<1> DEFINE p == s \div PGSIZE
<1>2. s = PGSIZE * p /\ p \in Nat
  BY AlignedIsMultiple
<1> HIDE DEF p
<1>3. a \div PGSIZE = p
  BY <1>1, <1>2, Quotient
<1> QED
  BY <1>3 DEF p, PageOf

\* ULIM is the start of a page: a page is allowed as a whole or not at all.
LEMMA AllowsPage ==
  ASSUME NEW s \in Nat, Aligned(s), NEW a \in Nat, s <= a, a < s + PGSIZE
  PROVE  Allows(a) <=> Allows(s)
<1>1. PGSIZE \in Nat \ {0} /\ ULIM \in Nat /\ Aligned(ULIM)
  BY WordAssumption DEF WordAssumption, Aligned
<1>2. s < ULIM => s + PGSIZE <= ULIM
  BY <1>1, AlignedApart
<1>3. a < ULIM <=> s < ULIM
  BY <1>1, <1>2
<1>4. PageOf(a) = PageOf(s)
  BY SamePage
<1> QED
  BY <1>3, <1>4 DEF Allows

----------------------------------------------------------------------------
(* The inductive invariant.                                                *)

Arguments == va \in Address /\ len \in Address

\* The loop visits starts of pages, from that of va to the end of the last page.
Bounds ==
  /\ mem_start \in Nat /\ mem_end \in Nat
  /\ Aligned(mem_start) /\ Aligned(mem_end)
  /\ RoundDown(va) <= mem_start
  /\ va + len <= mem_end /\ mem_end < va + len + PGSIZE /\ mem_end < Word

\* What lies behind may be accessed.
Passed == \A a \in Nat : va <= a /\ a < va + len /\ a < mem_start => Allows(a)

\* How the loop was left.
Outcome ==
  /\ pc = "ok" => mem_start >= mem_end
  /\ pc = "fault" =>
       /\ mem_start < mem_end /\ ~Allows(mem_start)
       /\ user_mem_check_addr = IF mem_start < va THEN va ELSE mem_start

\* The rounding and the mask of the loop need no more than Fits.
CheckInv == Arguments /\ (Fits => Bounds /\ Passed /\ Outcome)

----------------------------------------------------------------------------
LEMMA WordFacts ==
  /\ PGSIZE \in Nat \ {0} /\ Word \in Nat \ {0}
  /\ PGSIZE <= Word
  /\ \A a \in 0..Word-1 : a % Word = a
<1>1. PGSIZE \in Nat \ {0} /\ Word \in Nat \ {0} /\ Aligned(Word)
  BY WordAssumption DEF WordAssumption, Aligned
<1>2. 0 % PGSIZE = 0
  BY <1>1
<1>3. PGSIZE <= Word
  BY <1>1, <1>2, AlignedApart DEF Aligned
<1>4. ASSUME NEW a \in 0..Word-1 PROVE a % Word = a
  BY <1>1, <1>4
<1> QED
  BY <1>1, <1>3, <1>4

\* The end of a range that fits is rounded up to the end of its last page.
LEMMA RoundUpFits ==
  ASSUME NEW a \in Nat, a <= Word - PGSIZE
  PROVE  /\ RoundUp(a) \in Nat /\ Aligned(RoundUp(a))
         /\ a <= RoundUp(a) /\ RoundUp(a) < a + PGSIZE /\ RoundUp(a) < Word
<1> DEFINE b == a + PGSIZE - 1
<1>1. b \in 0..Word-1 /\ b \in Nat
  BY WordFacts
<1>2. RoundUp(a) = RoundDown(b)
  BY <1>1, WordFacts DEF RoundUp
<1>3. /\ RoundDown(b) \in Nat /\ Aligned(RoundDown(b))
      /\ RoundDown(b) <= b /\ b < RoundDown(b) + PGSIZE
  BY <1>1, RoundDownPage
<1> QED
  BY <1>1, <1>2, <1>3, WordFacts

\* A check about to begin.
Begun ==
  /\ va \in Address /\ len \in Address
  /\ mem_start = RoundDown(va) /\ mem_end = RoundUp((va + len) % Word)
  /\ pc = "loop"

LEMMA BegunCheck == Begun => CheckInv
<1> SUFFICES ASSUME Begun PROVE CheckInv
  OBVIOUS
<1>1. Arguments
  BY DEF Begun, Arguments
<1>2. va \in Nat /\ len \in Nat
  BY <1>1, WordFacts DEF Arguments, Address
<1>3. ASSUME Fits PROVE Bounds
  <2>1. va + len \in Nat /\ va + len > 0 /\ va + len <= Word - PGSIZE
    BY <1>2, <1>3 DEF Fits
  <2>2. (va + len) % Word = va + len
    BY <2>1, WordFacts
  <2>3. mem_start = RoundDown(va) /\ mem_end = RoundUp(va + len)
    BY <2>2 DEF Begun
  <2> QED
    BY <1>2, <2>1, <2>3, RoundDownPage, RoundUpFits DEF Bounds
<1>4. Passed
  <2>1. mem_start \in Nat /\ mem_start <= va
    BY <1>2, RoundDownPage DEF Begun
  <2> QED
    BY <1>2, <2>1 DEF Passed
<1>5. Outcome
  BY DEF Begun, Outcome
<1> QED
  BY <1>1, <1>3, <1>4, <1>5 DEF CheckInv

\* The invariant holds when user_mem_check is called.
THEOREM InitCheck == Init => CheckInv
BY BegunCheck DEF Init, Begun

\* One turn of the loop: the whole page at mem_start may be accessed.
LEMMA PassInv ==
  ASSUME CheckInv, Pass
  PROVE  CheckInv'
<1>1. UNCHANGED <<pte, va, len, perm, mem_end, user_mem_check_addr, pc>>
  BY DEF Pass, args
<1>2. Arguments' /\ va \in Nat /\ len \in Nat
  BY <1>1, WordFacts DEF CheckInv, Arguments, Address
<1>3. SUFFICES ASSUME Fits PROVE Bounds' /\ Passed' /\ Outcome'
  BY <1>1, <1>2 DEF CheckInv, Fits
<1>4. Bounds /\ Passed /\ Outcome
  BY <1>3 DEF CheckInv
<1>5. mem_start + PGSIZE <= mem_end
  BY <1>4, AlignedApart DEF Bounds, Pass
<1>6. mem_start' = mem_start + PGSIZE
  <2>1. mem_start + PGSIZE \in 0..Word-1
    BY <1>4, <1>5, WordFacts DEF Bounds
  <2> QED
    BY <2>1, WordFacts DEF Pass
<1>7. Bounds'
  <2>1. Aligned(mem_start + PGSIZE)
    BY <1>4, AlignedNext DEF Bounds
  <2>2. Aligned(mem_start)' /\ Aligned(mem_end)' /\ RoundDown(va)' = RoundDown(va)
    BY <1>1, <1>4, <1>6, <2>1 DEF Bounds, Aligned, RoundDown
  <2>3. RoundDown(va) \in Nat
    BY <1>2, RoundDownPage
  <2> QED
    BY <1>1, <1>2, <1>4, <1>6, <2>2, <2>3, WordFacts DEF Bounds
<1>8. Passed'
  <2> SUFFICES ASSUME NEW a \in Nat, va <= a, a < va + len, a < mem_start + PGSIZE
               PROVE  Allows(a)
    BY <1>1, <1>6 DEF Passed, Allows
  <2>1. CASE a < mem_start
    BY <2>1, <1>4 DEF Passed
  <2>2. CASE ~(a < mem_start)
    BY <2>2, <1>4, AllowsPage DEF Bounds, Pass
  <2> QED
    BY <2>1, <2>2
<1>9. Outcome'
  BY <1>1 DEF Outcome, Pass
<1> QED
  BY <1>7, <1>8, <1>9

\* Every page that user_mem_check looks at preserves it.
THEOREM StepCheck == CheckInv /\ [Next]_vars => CheckInv'
<1> SUFFICES ASSUME CheckInv, [Next]_vars PROVE CheckInv'
  OBVIOUS
<1>1. CASE Pass
  BY <1>1, PassInv
<1>2. CASE Fault
  <2>1. UNCHANGED <<pte, va, len, perm, mem_start, mem_end>>
    BY <1>2 DEF Fault, args
  <2>2. Outcome'
    BY <1>2, <2>1 DEF Fault, Outcome, Allows
  <2> QED
    BY <2>1, <2>2 DEF CheckInv, Arguments, Bounds, Passed, Fits, Allows,
                      Aligned, RoundDown
<1>3. CASE Accept
  <2>1. UNCHANGED <<pte, va, len, perm, mem_start, mem_end>>
    BY <1>3 DEF Accept, args
  <2>2. Outcome'
    BY <1>3, <2>1 DEF Accept, Outcome
  <2> QED
    BY <2>1, <2>2 DEF CheckInv, Arguments, Bounds, Passed, Fits, Allows,
                      Aligned, RoundDown
<1>4. CASE UNCHANGED vars
  BY <1>4 DEF vars, CheckInv, Arguments, Bounds, Passed, Outcome, Fits, Allows,
              Aligned, RoundDown
<1> QED
  BY <1>1, <1>2, <1>3, <1>4 DEF Next

LEMMA CheckAlways == Spec => []CheckInv
<1> QED
  BY InitCheck, StepCheck, PTL DEF Spec

----------------------------------------------------------------------------
(* The results.                                                            *)

\* A range that fits does not go on at 0.
LEMMA RangeFits ==
  ASSUME Arguments, Fits
  PROVE  \A a : a \in Range <=> a \in Nat /\ va <= a /\ a < va + len
<1>1. va \in Nat /\ len \in Nat /\ va + len < Word
  BY WordFacts DEF Arguments, Address, Fits
<1>2. ASSUME NEW i \in 0..len-1 PROVE (va + i) % Word = va + i
  BY <1>1, <1>2, WordFacts
<1>3. ASSUME NEW a \in Nat, va <= a, a < va + len PROVE a \in Range
  <2>1. a - va \in 0..len-1 /\ va + (a - va) = a
    BY <1>1, <1>3
  <2> QED
    BY <1>2, <2>1 DEF Range
<1>4. ASSUME NEW a \in Range PROVE a \in Nat /\ va <= a /\ a < va + len
  <2>1. PICK i \in 0..len-1 : a = (va + i) % Word
    BY <1>4 DEF Range
  <2> QED
    BY <1>1, <1>2, <2>1
<1> QED
  BY <1>3, <1>4

\* The address at which the loop stops, or va after it, is the first bad one.
LEMMA FaultFirst ==
  ASSUME CheckInv, Fits, pc = "fault"
  PROVE  user_mem_check_addr \in Bad /\ \A a \in Bad : user_mem_check_addr <= a
<1> DEFINE u == user_mem_check_addr
<1>1. Arguments /\ Bounds /\ Passed /\ Outcome
  BY DEF CheckInv
<1>2. va \in Nat /\ len \in Nat /\ len > 0
  BY <1>1, WordFacts DEF Arguments, Address, Fits
<1>3. mem_start + PGSIZE <= mem_end
  BY <1>1, AlignedApart DEF Bounds, Outcome
<1>4. mem_start < va + len
  BY <1>1, <1>2, <1>3, WordFacts DEF Bounds
<1>5. u = IF mem_start < va THEN va ELSE mem_start
  BY <1>1 DEF Outcome
<1>6. va < mem_start + PGSIZE
  <2>1. RoundDown(va) \in Nat /\ va < RoundDown(va) + PGSIZE
    BY <1>2, RoundDownPage
  <2> QED
    BY <1>1, <1>2, <2>1, WordFacts DEF Bounds
<1>7. u \in Nat /\ va <= u /\ u < va + len /\ mem_start <= u /\ u < mem_start + PGSIZE
  BY <1>1, <1>2, <1>4, <1>5, <1>6, WordFacts DEF Bounds
<1>8. ~Allows(u)
  BY <1>1, <1>7, AllowsPage DEF Bounds, Outcome
<1>9. u \in Bad
  BY <1>1, <1>7, <1>8, RangeFits DEF Bad
<1>10. ASSUME NEW a \in Bad PROVE u <= a
  <2>1. a \in Nat /\ va <= a /\ a < va + len /\ ~Allows(a)
    BY <1>1, RangeFits DEF Bad
  <2>2. ~(a < mem_start)
    BY <1>1, <2>1 DEF Passed
  <2> QED
    BY <1>1, <1>2, <1>5, <2>1, <2>2 DEF Bounds
<1> QED
  BY <1>9, <1>10

\* Nothing of an accepted range is bad: the loop has passed it all.
LEMMA AcceptAll ==
  ASSUME CheckInv, Fits, pc = "ok"
  PROVE  Bad = {}
<1>1. Arguments /\ Bounds /\ Passed /\ Outcome
  BY DEF CheckInv
<1>2. va \in Nat /\ len \in Nat
  BY <1>1, WordFacts DEF Arguments, Address
<1>3. ASSUME NEW a \in Range PROVE Allows(a)
  <2>1. a \in Nat /\ va <= a /\ a < va + len
    BY <1>1, RangeFits
  <2>2. a < mem_start
    BY <1>1, <1>2, <2>1 DEF Bounds, Outcome
  <2> QED
    BY <1>1, <2>1, <2>2 DEF Passed
<1> QED
  BY <1>3 DEF Bad

(* user_mem_check accepts a range exactly when the program may access all  *)
(* of it, if the end of the range, rounded up, is within 32 bits.          *)
THEOREM CheckExact == Spec => []ExactIfFits
<1>1. CheckInv => ExactIfFits
  BY AcceptAll, FaultFirst DEF ExactIfFits, Exact
<1> QED
  BY <1>1, CheckAlways, PTL

\* Of such a range, user_mem_check_addr is the first address that may not be accessed.
THEOREM CheckFirst == Spec => []FirstBad
<1>1. CheckInv => FirstBad
  BY FaultFirst DEF FirstBad
<1> QED
  BY <1>1, CheckAlways, PTL

----------------------------------------------------------------------------
(* Words on the kernel stack, counted from the last one pushed.            *)

At(s, i) == s[Len(s) - i]

\* The last words of s are those of t; the words of k lie n further down.
Above(s, t) == \A i \in 0..Len(t)-1 : At(s, i) = At(t, i)
Below(s, k, n) == \A i \in 0..Len(k)-1 : At(s, n + i) = At(k, i)

LEMMA AtConcat ==
  ASSUME NEW V, NEW s \in Seq(V), NEW t \in Seq(V)
  PROVE  /\ s \o t \in Seq(V) /\ Len(s \o t) = Len(s) + Len(t)
         /\ Above(s \o t, t) /\ Below(s \o t, s, Len(t))
<1>1. s \o t \in Seq(V) /\ Len(s \o t) = Len(s) + Len(t) /\ Len(s) \in Nat /\ Len(t) \in Nat
  OBVIOUS
<1>2. ASSUME NEW i \in 0..Len(t)-1 PROVE (s \o t)[Len(s \o t) - i] = t[Len(t) - i]
  BY <1>1
<1>3. ASSUME NEW i \in 0..Len(s)-1 PROVE (s \o t)[Len(s \o t) - (Len(t) + i)] = s[Len(s) - i]
  BY <1>1
<1> QED
  BY <1>1, <1>2, <1>3 DEF At, Above, Below

LEMMA OneWord ==
  ASSUME NEW V, NEW x \in V
  PROVE  <<x>> \in Seq(V) /\ Len(<<x>>) = 1 /\ At(<<x>>, 0) = x
<1>1. <<x>> \in Seq(V) /\ Len(<<x>>) = 1 /\ <<x>>[1] = x
  OBVIOUS
<1> QED
  BY <1>1 DEF At

Position(f) ==
  CASE f = "edi" -> 1 [] f = "esi" -> 2 [] f = "ebp" -> 3 [] f = "oesp" -> 4 [] f = "ebx" -> 5
    [] f = "edx" -> 6 [] f = "ecx" -> 7 [] f = "eax" -> 8 [] f = "es" -> 9 [] f = "ds" -> 10
    [] f = "trapno" -> 11 [] f = "err" -> 12 [] f = "eip" -> 13 [] f = "cs" -> 14
    [] f = "eflags" -> 15 [] f = "esp" -> 16 [] f = "ss" -> 17

LEMMA LayoutFacts ==
  /\ DOMAIN Layout = 1..17 /\ Len(Layout) = 17 /\ DOMAIN Popped = 1..17
  /\ \A i \in 1..17 : Position(Layout[i]) = i
  /\ \A i \in 1..17 : Popped[i] = "skip" \/ Popped[i] = Layout[i]
<1>1. DOMAIN Layout = 1..17 /\ Len(Layout) = 17 /\ DOMAIN Popped = 1..17
  BY DEF Layout, Popped
<1>2. \A i \in 1..17 : Position(Layout[i]) = i
  BY DEF Layout, Position
<1>3. \A i \in 1..17 : Popped[i] = "skip" \/ Popped[i] = Layout[i]
  BY DEF Layout, Popped
<1> QED
  BY <1>1, <1>2, <1>3

\* The word of a field, for a frame on any stack.
FieldIn(s, f) == LET i == CHOOSE i \in DOMAIN Layout : Layout[i] = f IN s[Len(s) + 1 - i]

\* The words of struct Trapframe, in order.
FieldWords(s) ==
  /\ FieldIn(s, "edi") = At(s, 0) /\ FieldIn(s, "esi") = At(s, 1) /\ FieldIn(s, "ebp") = At(s, 2)
  /\ FieldIn(s, "oesp") = At(s, 3) /\ FieldIn(s, "ebx") = At(s, 4) /\ FieldIn(s, "edx") = At(s, 5)
  /\ FieldIn(s, "ecx") = At(s, 6) /\ FieldIn(s, "eax") = At(s, 7) /\ FieldIn(s, "es") = At(s, 8)
  /\ FieldIn(s, "ds") = At(s, 9) /\ FieldIn(s, "trapno") = At(s, 10) /\ FieldIn(s, "err") = At(s, 11)
  /\ FieldIn(s, "eip") = At(s, 12) /\ FieldIn(s, "cs") = At(s, 13) /\ FieldIn(s, "eflags") = At(s, 14)
  /\ FieldIn(s, "esp") = At(s, 15) /\ FieldIn(s, "ss") = At(s, 16)

LEMMA FieldAt ==
  ASSUME NEW s \in Seq(Value), NEW i \in 1..17
  PROVE  FieldIn(s, Layout[i]) = At(s, i - 1)
<1>1. (CHOOSE j \in DOMAIN Layout : Layout[j] = Layout[i]) = i
  BY LayoutFacts
<1>2. FieldIn(s, Layout[i]) = s[Len(s) + 1 - i]
  BY <1>1 DEF FieldIn
<1>3. Len(s) + 1 - i = Len(s) - (i - 1)
  OBVIOUS
<1> QED
  BY <1>2, <1>3 DEF At

LEMMA FieldsAt == ASSUME NEW s \in Seq(Value) PROVE FieldWords(s)
<1>1. \A i \in 1..17 : FieldIn(s, Layout[i]) = At(s, i - 1)
  BY FieldAt
<1>2. /\ Layout[1] = "edi" /\ Layout[2] = "esi" /\ Layout[3] = "ebp" /\ Layout[4] = "oesp"
      /\ Layout[5] = "ebx" /\ Layout[6] = "edx" /\ Layout[7] = "ecx" /\ Layout[8] = "eax"
      /\ Layout[9] = "es" /\ Layout[10] = "ds" /\ Layout[11] = "trapno" /\ Layout[12] = "err"
      /\ Layout[13] = "eip" /\ Layout[14] = "cs" /\ Layout[15] = "eflags" /\ Layout[16] = "esp"
      /\ Layout[17] = "ss"
  BY DEF Layout
<1> QED
  BY <1>1, <1>2 DEF FieldWords

\* env_pop_tf finds every register where the frame has it.
LEMMA PopFrameIs ==
  ASSUME NEW t
  PROVE  PopFrame(t) = [r \in Register |-> t[r]]
<1>1. ASSUME NEW r \in Register PROVE PopFrame(t)[r] = t[r]
  <2> DEFINE i == CHOOSE i \in DOMAIN Popped : Popped[i] = r
  <2>1. \E j \in DOMAIN Popped : Popped[j] = r
    BY DEF Popped, Register, General
  <2>2. i \in 1..17 /\ Popped[i] = r
    BY <2>1, LayoutFacts
  <2>3. r # "skip"
    BY DEF Register, General
  <2>4. Layout[i] = r
    BY <2>2, <2>3, LayoutFacts
  <2> QED
    BY <2>4 DEF PopFrame
<1> QED
  BY <1>1 DEF PopFrame

----------------------------------------------------------------------------
(* The frame that alltraps builds on what the processor has pushed.        *)

LEMMA NumberedValue == ASSUME NEW x \in Name, NEW n \in 0..2 PROVE <<x, n>> \in Value
BY DEF Value

LEMMA KnownValue == ASSUME NEW x \in Name PROVE Known(x) \in Value
<1>1. 0 \in 0..2
  OBVIOUS
<1> QED
  BY <1>1, NumberedValue DEF Known

LEMMA SelectorValues ==
  UserText \in Value /\ UserData \in Value /\ KernelText \in Value /\ KernelData \in Value
<1>1. {"GD_UT|3", "GD_UD|3", "GD_KT", "GD_KD"} \subseteq Name
  BY DEF Name
<1> QED
  BY <1>1, KnownValue DEF UserText, UserData, KernelText, KernelData

LEMMA KnownApart == \A x, y : Known(x) = Known(y) => x = y
BY DEF Known

LEMMA TextApart == KernelText # UserText
<1>1. "GD_KT" # "GD_UT|3"
  OBVIOUS
<1> QED
  BY <1>1, KnownApart DEF KernelText, UserText

\* Every gate pushes one error code, its own or the processor's.
LEMMA GateFacts ==
  ASSUME NEW v \in Gate
  PROVE  v \in Name /\ (v \in NoErrorCode <=> v \notin HasErrorCode)
<1>1. v \in Name
  BY DEF Name
<1>2. v \in NoErrorCode \/ v \in HasErrorCode
  BY DEF Gate, NoErrorCode, HasErrorCode
<1>3. ~(v \in NoErrorCode /\ v \in HasErrorCode)
  BY DEF NoErrorCode, HasErrorCode
<1> QED
  BY <1>1, <1>2, <1>3

PushedWords(p, v) ==
  /\ p \in Seq(Value) /\ Len(p) \in {1, 2} /\ At(p, 0) = Known(v)
  /\ v \in HasErrorCode => Len(p) = 1
  /\ v \notin HasErrorCode => Len(p) = 2 /\ At(p, 1) = Known("0")

LEMMA PushedIs == ASSUME NEW v \in Gate PROVE PushedWords(Pushed(v), v)
<1> DEFINE t == <<Known(v)>>
<1>1. Known(v) \in Value
  BY KnownValue, GateFacts
<1>2. Known("0") \in Value
  BY KnownValue DEF Name
<1>3. t \in Seq(Value) /\ Len(t) = 1 /\ At(t, 0) = Known(v)
  BY <1>1 DEF At
<1> HIDE DEF t
<1>4. CASE v \in HasErrorCode
  <2>1. <<>> \in Seq(Value) /\ Len(<<>>) = 0
    OBVIOUS
  <2>2. Pushed(v) = <<>> \o t
    BY <1>4, GateFacts DEF Pushed, t
  <2>3. <<>> \o t \in Seq(Value) /\ Len(<<>> \o t) = 0 + 1 /\ Above(<<>> \o t, t)
    BY <1>3, <2>1, AtConcat
  <2>4. At(<<>> \o t, 0) = At(t, 0)
    BY <1>3, <2>3 DEF Above
  <2> QED
    BY <1>3, <1>4, <2>2, <2>3, <2>4 DEF PushedWords
<1>5. CASE v \notin HasErrorCode
  <2> DEFINE z == <<Known("0")>>
  <2>1. z \in Seq(Value) /\ Len(z) = 1 /\ At(z, 0) = Known("0")
    BY <1>2 DEF At
  <2> HIDE DEF z
  <2>2. Pushed(v) = z \o t
    BY <1>5, GateFacts DEF Pushed, t, z
  <2>3. /\ z \o t \in Seq(Value) /\ Len(z \o t) = Len(z) + Len(t)
        /\ Above(z \o t, t) /\ Below(z \o t, z, Len(t))
    BY <1>3, <2>1, AtConcat
  <2>4. At(z \o t, 0) = At(t, 0) /\ At(z \o t, 1 + 0) = At(z, 0)
    BY <1>3, <2>1, <2>3 DEF Above, Below
  <2>5. 1 + 0 = 1 /\ 1 + 1 = 2
    OBVIOUS
  <2> QED
    BY <1>3, <1>5, <2>1, <2>2, <2>3, <2>4, <2>5 DEF PushedWords
<1> QED
  BY <1>4, <1>5

GeneralPushed(g, regs) ==
  /\ At(g, 0) = regs["edi"] /\ At(g, 1) = regs["esi"] /\ At(g, 2) = regs["ebp"]
  /\ At(g, 4) = regs["ebx"] /\ At(g, 5) = regs["edx"] /\ At(g, 6) = regs["ecx"]
  /\ At(g, 7) = regs["eax"]

RegistersPushed(s, v, regs) ==
  /\ GeneralPushed(s, regs)
  /\ At(s, 8) = regs["es"] /\ At(s, 9) = regs["ds"] /\ At(s, 10) = Known(v)

LEMMA PushalIs ==
  ASSUME NEW regs \in [Register -> Value]
  PROVE  /\ Pushal(regs) \in Seq(Value) /\ Len(Pushal(regs)) = 8
         /\ GeneralPushed(Pushal(regs), regs)
<1>1. \A r \in Register : regs[r] \in Value
  OBVIOUS
<1>2. Pushal(regs) \in Seq(Value) /\ Len(Pushal(regs)) = 8
  BY <1>1 DEF Pushal, Register, General
<1>3. GeneralPushed(Pushal(regs), regs)
  BY <1>2 DEF Pushal, GeneralPushed, At
<1> QED
  BY <1>2, <1>3

\* What lies where, after three pushes on top of each other.
LEMMA FrameWords ==
  ASSUME NEW k \in Seq(Value), NEW v \in Gate, NEW regs \in [Register -> Value]
  PROVE  LET s == k \o Pushed(v) \o <<regs["ds"], regs["es"]>> \o Pushal(regs)
         IN  /\ s \in Seq(Value)
             /\ RegistersPushed(s, v, regs)
             /\ v \notin HasErrorCode =>
                  At(s, 11) = Known("0") /\ Len(s) = Len(k) + 12 /\ Below(s, k, 12)
             /\ v \in HasErrorCode => Len(s) = Len(k) + 11 /\ Below(s, k, 11)
<1> DEFINE p == Pushed(v)
           d == <<regs["ds"], regs["es"]>>
           g == Pushal(regs)
           kp == k \o p
           kpd == kp \o d
           s == kpd \o g
           n == Len(k)
<1>0. regs["ds"] \in Value /\ regs["es"] \in Value
  BY DEF Register
<1>1. d \in Seq(Value) /\ Len(d) = 2 /\ At(d, 0) = regs["es"] /\ At(d, 1) = regs["ds"]
  BY <1>0 DEF At
<1>2. g \in Seq(Value) /\ Len(g) = 8 /\ GeneralPushed(g, regs)
  BY PushalIs
<1>3. PushedWords(p, v)
  BY PushedIs
<1>4. p \in Seq(Value) /\ Len(p) \in {1, 2} /\ n \in Nat
  BY <1>3 DEF PushedWords
<1> HIDE DEF p, d, g
<1>5. kp \in Seq(Value) /\ Len(kp) = n + Len(p) /\ Above(kp, p) /\ Below(kp, k, Len(p))
  BY <1>4, AtConcat
<1> HIDE DEF kp
<1>6. kpd \in Seq(Value) /\ Len(kpd) = Len(kp) + Len(d) /\ Above(kpd, d) /\ Below(kpd, kp, Len(d))
  BY <1>1, <1>5, AtConcat
<1> HIDE DEF kpd
<1>7. s \in Seq(Value) /\ Len(s) = Len(kpd) + Len(g) /\ Above(s, g) /\ Below(s, kpd, Len(g))
  BY <1>2, <1>6, AtConcat
<1> HIDE DEF s
<1>8. Len(kp) = n + Len(p) /\ Len(kpd) = n + Len(p) + 2 /\ Len(s) = n + Len(p) + 10
  BY <1>1, <1>2, <1>4, <1>5, <1>6, <1>7
<1>9. ASSUME NEW i \in 0..n+Len(p)-1 PROVE At(s, 10 + i) = At(kp, i)
  <2>1. At(kpd, 2 + i) = At(kp, i)
    BY <1>1, <1>5, <1>6 DEF Below
  <2>2. 2 + i \in 0..Len(kpd)-1 /\ 8 + (2 + i) = 10 + i
    BY <1>4, <1>8
  <2>3. At(s, 8 + (2 + i)) = At(kpd, 2 + i)
    BY <1>2, <1>7, <2>2 DEF Below
  <2> QED
    BY <2>1, <2>2, <2>3
<1>10. ASSUME NEW i \in 0..Len(p)-1 PROVE At(s, 10 + i) = At(p, i)
  <2>1. i \in 0..n+Len(p)-1
    BY <1>4
  <2> QED
    BY <1>5, <1>9, <2>1 DEF Above
<1>11. ASSUME NEW i \in 0..n-1 PROVE At(s, 10 + (Len(p) + i)) = At(k, i)
  <2>1. Len(p) + i \in 0..n+Len(p)-1
    BY <1>4
  <2> QED
    BY <1>5, <1>9, <2>1 DEF Below
<1>12. At(s, 8) = regs["es"] /\ At(s, 9) = regs["ds"]
  <2>1. /\ 0 \in 0..Len(kpd)-1 /\ 1 \in 0..Len(kpd)-1 /\ 8 + 0 = 8 /\ 8 + 1 = 9
        /\ 0 \in 0..2-1 /\ 1 \in 0..2-1
    BY <1>4, <1>8
  <2>2. At(s, 8) = At(kpd, 0) /\ At(s, 9) = At(kpd, 1)
    BY <1>2, <1>7, <2>1 DEF Below
  <2> QED
    BY <1>1, <1>6, <2>1, <2>2 DEF Above
<1>13. GeneralPushed(s, regs)
  <2>1. \A i \in 0..7 : At(s, i) = At(g, i)
    BY <1>2, <1>7 DEF Above
  <2>2. /\ At(s, 0) = At(g, 0) /\ At(s, 1) = At(g, 1) /\ At(s, 2) = At(g, 2)
        /\ At(s, 4) = At(g, 4) /\ At(s, 5) = At(g, 5) /\ At(s, 6) = At(g, 6)
        /\ At(s, 7) = At(g, 7)
    BY <2>1
  <2> QED
    BY <1>2, <2>2 DEF GeneralPushed
<1>14. At(s, 10) = Known(v)
  <2>1. 0 \in 0..Len(p)-1 /\ 10 + 0 = 10
    <3>1. Len(p) = 1 \/ Len(p) = 2
      BY <1>4
    <3> QED
      BY <3>1
  <2> QED
    BY <1>3, <1>10, <2>1 DEF PushedWords
<1>15. CASE v \in HasErrorCode
  <2>1. Len(p) = 1
    BY <1>3, <1>15 DEF PushedWords
  <2>2. \A i \in 0..n-1 : 10 + (1 + i) = 11 + i
    OBVIOUS
  <2>3. Below(s, k, 11)
    BY <1>11, <2>1, <2>2 DEF Below
  <2>4. Len(s) = n + 11
    BY <1>4, <1>8, <2>1
  <2> HIDE DEF n
  <2>5. Len(s) = Len(k) + 11
    BY <2>4 DEF n
  <2> QED
    BY <1>7, <1>12, <1>13, <1>14, <1>15, <2>3, <2>5
       DEF RegistersPushed, s, kpd, kp, p, d, g
<1>16. CASE v \notin HasErrorCode
  <2>1. Len(p) = 2 /\ At(p, 1) = Known("0")
    BY <1>3, <1>16 DEF PushedWords
  <2>2. \A i \in 0..n-1 : 10 + (2 + i) = 12 + i
    OBVIOUS
  <2>3. Below(s, k, 12)
    BY <1>11, <2>1, <2>2 DEF Below
  <2>4. Len(s) = n + 12
    BY <1>4, <1>8, <2>1
  <2>5. At(s, 11) = Known("0")
    BY <1>10, <2>1
  <2> HIDE DEF n
  <2>6. Len(s) = Len(k) + 12
    BY <2>4 DEF n
  <2> QED
    BY <1>7, <1>12, <1>13, <1>14, <1>16, <2>3, <2>5, <2>6
       DEF RegistersPushed, s, kpd, kp, p, d, g
<1> QED
  BY <1>15, <1>16

----------------------------------------------------------------------------
(* What the processor pushes.                                              *)

\* The number of error codes among it.
Codes(v) == IF v \in HasErrorCode THEN 1 ELSE 0

DeliveredWords(s, v, regs) ==
  /\ Codes(v) = 1 => At(s, 0) = Known("error code")
  /\ At(s, Codes(v)) = regs["eip"] /\ At(s, Codes(v) + 1) = regs["cs"]
  /\ At(s, Codes(v) + 2) = regs["eflags"]

LEMMA DeliverWords ==
  ASSUME NEW k \in Seq(Value), NEW v, NEW regs \in [Register -> Value]
  PROVE  LET code == IF v \in HasErrorCode THEN <<Known("error code")>> ELSE <<>>
             s == k \o <<regs["eflags"], regs["cs"], regs["eip"]>> \o code
         IN  /\ s \in Seq(Value) /\ Len(s) = Len(k) + 3 + Codes(v)
             /\ DeliveredWords(s, v, regs) /\ Below(s, k, Codes(v) + 3)
<1> DEFINE f == <<regs["eflags"], regs["cs"], regs["eip"]>>
           kf == k \o f
           code == IF v \in HasErrorCode THEN <<Known("error code")>> ELSE <<>>
           s == kf \o code
           n == Len(k)
           c == Codes(v)
<1>1. regs["eflags"] \in Value /\ regs["cs"] \in Value /\ regs["eip"] \in Value
  BY DEF Register
<1>2. f \in Seq(Value) /\ Len(f) = 3
  BY <1>1
<1>3. At(f, 0) = regs["eip"] /\ At(f, 1) = regs["cs"] /\ At(f, 2) = regs["eflags"]
  BY <1>1 DEF At
<1>4. Known("error code") \in Value
  BY KnownValue DEF Name
<1>5. code \in Seq(Value) /\ Len(code) = c /\ (c = 1 => At(code, 0) = Known("error code"))
  <2>1. CASE v \in HasErrorCode
    <3> DEFINE z == <<Known("error code")>>
    <3>1. code = z /\ c = 1
      BY <2>1 DEF Codes
    <3>2. z \in Seq(Value) /\ Len(z) = 1 /\ At(z, 0) = Known("error code")
      BY <1>4, OneWord
    <3> QED
      BY <3>1, <3>2
  <2>2. CASE v \notin HasErrorCode
    <3>1. code = <<>> /\ c = 0
      BY <2>2 DEF Codes
    <3> QED
      BY <3>1
  <2> QED
    BY <2>1, <2>2
<1>6. c \in Nat /\ (c = 0 \/ c = 1)
  BY DEF Codes
<1> HIDE DEF f, code, c
<1>7. kf \in Seq(Value) /\ Len(kf) = n + Len(f) /\ Above(kf, f) /\ Below(kf, k, Len(f))
  BY <1>2, AtConcat
<1> HIDE DEF kf
<1>8. s \in Seq(Value) /\ Len(s) = Len(kf) + Len(code) /\ Above(s, code) /\ Below(s, kf, Len(code))
  BY <1>5, <1>7, AtConcat
<1> HIDE DEF s
<1>9. n \in Nat /\ Len(kf) = n + 3 /\ Len(s) = n + 3 + c
  <2>1. n \in Nat
    OBVIOUS
  <2> HIDE DEF n
  <2> QED
    BY <1>2, <1>5, <1>6, <1>7, <1>8, <2>1
<1>10. ASSUME NEW i \in 0..n+2 PROVE At(s, c + i) = At(kf, i)
  <2>1. i \in 0..Len(kf)-1
    BY <1>9
  <2> QED
    BY <1>5, <1>8, <2>1 DEF Below
<1>11. At(s, c) = regs["eip"] /\ At(s, c + 1) = regs["cs"] /\ At(s, c + 2) = regs["eflags"]
  <2>1. At(kf, 0) = At(f, 0) /\ At(kf, 1) = At(f, 1) /\ At(kf, 2) = At(f, 2)
    BY <1>2, <1>7 DEF Above
  <2>2. 0 \in 0..n+2 /\ 1 \in 0..n+2 /\ 2 \in 0..n+2 /\ c + 0 = c
    BY <1>6, <1>9
  <2> QED
    BY <1>3, <1>10, <2>1, <2>2
<1>12. c = 1 => At(s, 0) = Known("error code")
  <2> SUFFICES ASSUME c = 1 PROVE At(s, 0) = Known("error code")
    OBVIOUS
  <2>1. Len(code) = 1
    BY <1>5
  <2>2. 0 \in 0..1-1
    OBVIOUS
  <2>3. At(s, 0) = At(code, 0)
    BY <1>8, <2>1, <2>2 DEF Above
  <2> QED
    BY <1>5, <2>3
<1>13. ASSUME NEW i \in 0..n-1 PROVE At(s, (c + 3) + i) = At(k, i)
  <2>1. At(kf, 3 + i) = At(k, i)
    BY <1>2, <1>7 DEF Below
  <2>2. 3 + i \in 0..n+2 /\ c + (3 + i) = (c + 3) + i
    BY <1>6, <1>9
  <2> QED
    BY <1>10, <2>1, <2>2
<1>14. Below(s, k, c + 3)
  BY <1>13 DEF Below
<1>15. DeliveredWords(s, v, regs)
  BY <1>11, <1>12 DEF DeliveredWords, c
<1> QED
  BY <1>8, <1>9, <1>14, <1>15 DEF s, kf, f, code, c

\* The new words on the stack of an interrupted program, or on the kernel's own.
LEMMA DeliverIs ==
  ASSUME NEW regs \in [Register -> Value], NEW v \in Gate, kstack \in Seq(Value),
         Deliver(regs, v)
  PROVE  /\ kstack' \in Seq(Value) /\ cpu' \in [Register -> Value]
         /\ before' = regs /\ vector' = v /\ env_tf' = env_tf
         /\ cpu'["cs"] = KernelText /\ Delivered'
<1> DEFINE top == IF FromUser(regs) THEN <<Known("KSTACKTOP"), regs["ss"], regs["esp"]>> ELSE kstack
           code == IF v \in HasErrorCode THEN <<Known("error code")>> ELSE <<>>
           c == Codes(v)
           s == top \o <<regs["eflags"], regs["cs"], regs["eip"]>> \o code
<1>1. /\ kstack' = s
      /\ cpu' = [r \in Register |-> CASE r = "cs" -> KernelText
                                      [] r = "ss" -> KernelData
                                      [] r = "esp" -> Known("kstack")
                                      [] r = "eip" -> Known(v)
                                      [] OTHER -> regs[r]]
      /\ vector' = v /\ before' = regs /\ env_tf' = env_tf
  BY DEF Deliver
<1>2. cpu' \in [Register -> Value]
  <2>1. KernelText \in Value /\ KernelData \in Value
    BY SelectorValues
  <2>2. Known("kstack") \in Value
    BY KnownValue DEF Name
  <2>3. Known(v) \in Value
    BY KnownValue, GateFacts
  <2> QED
    BY <1>1, <2>1, <2>2, <2>3
<1>3. cpu'["cs"] = KernelText
  BY <1>1 DEF Register
<1>4. \A r \in General \cup {"ds", "es"} : cpu'[r] = regs[r]
  BY <1>1 DEF Register, General
<1>5. regs["ss"] \in Value /\ regs["esp"] \in Value
  BY DEF Register
<1>6. Known("KSTACKTOP") \in Value
  BY KnownValue DEF Name
<1>7. /\ top \in Seq(Value)
      /\ FromUser(regs) => Len(top) = 3 /\ At(top, 0) = regs["esp"] /\ At(top, 1) = regs["ss"]
  <2>1. CASE FromUser(regs)
    <3> DEFINE u == <<Known("KSTACKTOP"), regs["ss"], regs["esp"]>>
    <3>1. top = u
      BY <2>1
    <3>2. u \in Seq(Value) /\ Len(u) = 3 /\ At(u, 0) = regs["esp"] /\ At(u, 1) = regs["ss"]
      BY <1>5, <1>6 DEF At
    <3> QED
      BY <3>1, <3>2
  <2>2. CASE ~FromUser(regs)
    BY <2>2
  <2> QED
    BY <2>1, <2>2
<1> HIDE DEF top
<1>8. /\ s \in Seq(Value) /\ Len(s) = Len(top) + 3 + Codes(v)
      /\ DeliveredWords(s, v, regs) /\ Below(s, top, Codes(v) + 3)
  BY <1>7, DeliverWords
<1>9. c \in Nat /\ (c = 0 \/ c = 1)
  BY DEF Codes
<1> HIDE DEF s, c
<1> DEFINE pushed == IF FromUser(regs) THEN 5 ELSE 3
<1>10. Len(s) >= c + pushed
  <2> DEFINE long == Len(s)
             below == Len(top)
  <2>1. below \in Nat /\ long = below + 3 + c
    BY <1>7, <1>8 DEF c
  <2>2. FromUser(regs) => below = 3
    BY <1>7
  <2>3. (FromUser(regs) /\ pushed = 5) \/ (~FromUser(regs) /\ pushed = 3)
    OBVIOUS
  <2> HIDE DEF pushed, long, below
  <2>4. long >= c + pushed
    <3>1. (below = 3 /\ pushed = 5) \/ pushed = 3
      BY <2>2, <2>3
    <3> QED
      BY <1>9, <2>1, <3>1
  <2> QED
    BY <2>4 DEF long
<1>11. FromUser(regs) => At(s, c + 3) = regs["esp"] /\ At(s, c + 4) = regs["ss"]
  <2> SUFFICES ASSUME FromUser(regs)
               PROVE  At(s, c + 3) = regs["esp"] /\ At(s, c + 4) = regs["ss"]
    OBVIOUS
  <2>1. Len(top) = 3 /\ At(top, 0) = regs["esp"] /\ At(top, 1) = regs["ss"]
    BY <1>7
  <2>2. \A i \in 0..2 : At(s, (c + 3) + i) = At(top, i)
    BY <1>8, <2>1 DEF Below, c
  <2>3. (c + 3) + 0 = c + 3 /\ (c + 3) + 1 = c + 4 /\ 0 \in 0..2 /\ 1 \in 0..2
    BY <1>9
  <2> QED
    BY <2>1, <2>2, <2>3
<1>12. DeliveredWords(s, v, regs) /\ c = IF v \in HasErrorCode THEN 1 ELSE 0
  BY <1>8 DEF c, Codes
<1>13. Delivered'
  BY <1>1, <1>4, <1>10, <1>11, <1>12 DEF Delivered, DeliveredWords, Under, At, c
<1> QED
  BY <1>1, <1>2, <1>3, <1>8, <1>13

----------------------------------------------------------------------------
(* alltraps completes the frame.                                           *)

\* What the processor has pushed, where alltraps leaves it.
PushedBefore(s, v, regs) ==
  /\ At(s, 11) = IF v \in HasErrorCode THEN Known("error code") ELSE Known("0")
  /\ At(s, 12) = regs["eip"] /\ At(s, 13) = regs["cs"] /\ At(s, 14) = regs["eflags"]
  /\ FromUser(regs) => At(s, 15) = regs["esp"] /\ At(s, 16) = regs["ss"] /\ Len(s) >= 17

LEMMA BelowFrame ==
  ASSUME kstack \in Seq(Value), cpu \in [Register -> Value], vector \in Gate, Delivered, NEW s,
         s = kstack \o Pushed(vector) \o <<cpu["ds"], cpu["es"]>> \o Pushal(cpu)
  PROVE  /\ s \in Seq(Value) /\ RegistersPushed(s, vector, cpu)
         /\ PushedBefore(s, vector, before)
<1> DEFINE n == Len(kstack)
           u == FromUser(before)
           least == IF u THEN 5 ELSE 3
<1>1. /\ s \in Seq(Value) /\ RegistersPushed(s, vector, cpu)
      /\ vector \notin HasErrorCode =>
           At(s, 11) = Known("0") /\ Len(s) = Len(kstack) + 12 /\ Below(s, kstack, 12)
      /\ vector \in HasErrorCode => Len(s) = Len(kstack) + 11 /\ Below(s, kstack, 11)
  BY FrameWords
<1>2. n \in Nat
  OBVIOUS
<1>3. (u /\ least = 5) \/ (~u /\ least = 3)
  OBVIOUS
<1>4. u \in BOOLEAN
  BY DEF FromUser
<1>5. CASE vector \in HasErrorCode
  <2>1. /\ n >= 1 + least
        /\ At(kstack, 0) = Known("error code") /\ At(kstack, 1) = before["eip"]
        /\ At(kstack, 1 + 1) = before["cs"] /\ At(kstack, 1 + 2) = before["eflags"]
        /\ u => At(kstack, 1 + 3) = before["esp"] /\ At(kstack, 1 + 4) = before["ss"]
    BY <1>5 DEF Delivered, Under, At
  <2> HIDE DEF n, u, least
  <2>2. \A i \in 0..n-1 : At(s, 11 + i) = At(kstack, i)
    BY <1>1, <1>5 DEF Below, n
  <2>3. n >= 4 /\ (u => n >= 6)
    <3>1. n >= 1 + least
      BY <2>1
    <3>2. CASE u /\ least = 5
      BY <1>2, <3>1, <3>2
    <3>3. CASE ~u /\ least = 3
      BY <1>2, <3>1, <3>3
    <3> QED
      BY <1>3, <3>2, <3>3
  <2>4. /\ 0 \in 0..n-1 /\ 1 \in 0..n-1 /\ 2 \in 0..n-1 /\ 3 \in 0..n-1
        /\ u => 4 \in 0..n-1 /\ 5 \in 0..n-1
    BY <1>2, <2>3
  <2>5. /\ At(s, 11 + 0) = At(kstack, 0) /\ At(s, 11 + 1) = At(kstack, 1)
        /\ At(s, 11 + 2) = At(kstack, 2) /\ At(s, 11 + 3) = At(kstack, 3)
        /\ u => At(s, 11 + 4) = At(kstack, 4) /\ At(s, 11 + 5) = At(kstack, 5)
    BY <2>2, <2>4
  <2>6. /\ 1 + 1 = 2 /\ 1 + 2 = 3 /\ 1 + 3 = 4 /\ 1 + 4 = 5 /\ 11 + 0 = 11 /\ 11 + 1 = 12
        /\ 11 + 2 = 13 /\ 11 + 3 = 14 /\ 11 + 4 = 15 /\ 11 + 5 = 16
    OBVIOUS
  <2>7. u => Len(s) >= 17
    <3>1. Len(s) = n + 11
      BY <1>1, <1>5 DEF n
    <3> QED
      BY <1>2, <2>3, <3>1
  <2>8. PushedBefore(s, vector, before)
    BY <1>5, <2>1, <2>5, <2>6, <2>7 DEF PushedBefore, u
  <2> QED
    BY <1>1, <2>8
<1>6. CASE vector \notin HasErrorCode
  <2>1. /\ n >= 0 + least
        /\ At(kstack, 0) = before["eip"]
        /\ At(kstack, 0 + 1) = before["cs"] /\ At(kstack, 0 + 2) = before["eflags"]
        /\ u => At(kstack, 0 + 3) = before["esp"] /\ At(kstack, 0 + 4) = before["ss"]
    BY <1>6 DEF Delivered, Under, At
  <2> HIDE DEF n, u, least
  <2>2. \A i \in 0..n-1 : At(s, 12 + i) = At(kstack, i)
    BY <1>1, <1>6 DEF Below, n
  <2>3. n >= 3 /\ (u => n >= 5)
    BY <1>2, <1>3, <2>1
  <2>4. /\ 0 \in 0..n-1 /\ 1 \in 0..n-1 /\ 2 \in 0..n-1
        /\ u => 3 \in 0..n-1 /\ 4 \in 0..n-1
    BY <1>2, <2>3
  <2>5. /\ At(s, 12 + 0) = At(kstack, 0) /\ At(s, 12 + 1) = At(kstack, 1)
        /\ At(s, 12 + 2) = At(kstack, 2)
        /\ u => At(s, 12 + 3) = At(kstack, 3) /\ At(s, 12 + 4) = At(kstack, 4)
    BY <2>2, <2>4
  <2>6. /\ 0 + 1 = 1 /\ 0 + 2 = 2 /\ 0 + 3 = 3 /\ 0 + 4 = 4 /\ 12 + 0 = 12 /\ 12 + 1 = 13
        /\ 12 + 2 = 14 /\ 12 + 3 = 15 /\ 12 + 4 = 16
    OBVIOUS
  <2>7. u => Len(s) >= 17
    <3>1. Len(s) = n + 12
      BY <1>1, <1>6 DEF n
    <3> QED
      BY <1>2, <2>3, <3>1
  <2>8. PushedBefore(s, vector, before)
    BY <1>1, <1>6, <2>1, <2>5, <2>6, <2>7 DEF PushedBefore, u
  <2> QED
    BY <1>1, <2>8
<1> QED
  BY <1>5, <1>6

\* The frame describes the interrupted code.
LEMMA BuildIs ==
  ASSUME kstack \in Seq(Value), cpu \in [Register -> Value], vector \in Gate, Delivered, AllTraps
  PROVE  /\ kstack' \in Seq(Value) /\ cpu' \in [Register -> Value]
         /\ cpu'["cs"] = cpu["cs"] /\ FrameBuilt'
<1> DEFINE s == kstack'
<1>1. s = kstack \o Pushed(vector) \o <<cpu["ds"], cpu["es"]>> \o Pushal(cpu)
  BY DEF AllTraps
<1>2. vector' = vector /\ before' = before
  BY DEF AllTraps
<1>3. cpu' = [r \in Register |-> IF r \in {"ds", "es"} THEN KernelData
                                  ELSE IF r \in General THEN Known("kernel") ELSE cpu[r]]
  BY DEF AllTraps
<1>4. cpu' \in [Register -> Value]
  <2>1. Known("kernel") \in Value
    BY KnownValue DEF Name
  <2> QED
    BY <1>3, <2>1, SelectorValues
<1>5. cpu'["cs"] = cpu["cs"] /\ cpu'["ds"] = KernelData /\ cpu'["es"] = KernelData
  BY <1>3 DEF Register, General
<1> HIDE DEF s
<1>6. /\ s \in Seq(Value) /\ RegistersPushed(s, vector, cpu)
      /\ PushedBefore(s, vector, before)
  BY <1>1, BelowFrame
<1>7. FieldWords(s)
  BY <1>6, FieldsAt
<1>8. \A r \in General \cup {"ds", "es"} : cpu[r] = before[r]
  BY DEF Delivered
<1>9. ASSUME NEW r \in Register, r \in {"esp", "ss"} => FromUser(before)
      PROVE  FieldIn(s, r) = before[r]
  <2>1. CASE r \in General \cup {"ds", "es"}
    BY <1>6, <1>7, <1>8, <2>1 DEF FieldWords, RegistersPushed, GeneralPushed, General
  <2>2. CASE r \in {"cs", "eip", "eflags"}
    BY <1>6, <1>7, <2>2 DEF FieldWords, PushedBefore
  <2>3. CASE r \in {"esp", "ss"}
    BY <1>6, <1>7, <1>9, <2>3 DEF FieldWords, PushedBefore
  <2> QED
    BY <2>1, <2>2, <2>3 DEF Register
<1>10. /\ FieldIn(s, "trapno") = Known(vector)
       /\ FieldIn(s, "err") = IF vector \in HasErrorCode THEN Known("error code") ELSE Known("0")
       /\ FromUser(before) => Len(s) >= Len(Layout)
  BY <1>6, <1>7, LayoutFacts DEF FieldWords, RegistersPushed, PushedBefore
<1>11. FrameBuilt'
  BY <1>2, <1>5, <1>9, <1>10 DEF FrameBuilt, FieldIn, Field, s, FromUser
<1> QED
  BY <1>4, <1>5, <1>6, <1>11 DEF s

----------------------------------------------------------------------------
(* The frame that trap and its callees look at.                            *)

LEMMA FrameFields == FrameField = Register \cup {"oesp", "trapno", "err"}
<1>1. FrameField = {Layout[i] : i \in 1..17}
  BY LayoutFacts DEF FrameField
<1>2. 1..17 = {1, 2, 3, 4, 5, 6, 7, 8, 9, 10, 11, 12, 13, 14, 15, 16, 17}
  OBVIOUS
<1>3. ASSUME NEW i \in {1, 2, 3, 4, 5, 6, 7, 8, 9, 10, 11, 12, 13, 14, 15, 16, 17}
      PROVE  Layout[i] \in Register \cup {"oesp", "trapno", "err"}
  BY <1>3 DEF Layout, Register, General
<1>4. ASSUME NEW f \in Register \cup {"oesp", "trapno", "err"} PROVE \E i \in 1..17 : Layout[i] = f
  <2>1. /\ Layout[1] = "edi" /\ Layout[2] = "esi" /\ Layout[3] = "ebp" /\ Layout[4] = "oesp"
        /\ Layout[5] = "ebx" /\ Layout[6] = "edx" /\ Layout[7] = "ecx" /\ Layout[8] = "eax"
        /\ Layout[9] = "es" /\ Layout[10] = "ds" /\ Layout[11] = "trapno" /\ Layout[12] = "err"
        /\ Layout[13] = "eip" /\ Layout[14] = "cs" /\ Layout[15] = "eflags" /\ Layout[16] = "esp"
        /\ Layout[17] = "ss"
    BY DEF Layout
  <2> QED
    BY <1>2, <1>4, <2>1 DEF Register, General
<1> QED
  BY <1>1, <1>2, <1>3, <1>4

\* The registers of the frame are those of the interrupted code, a program's or the kernel's.
LEMMA BuiltFromUser == FrameBuilt => (FrameFromUser <=> FromUser(before))
<1> SUFFICES ASSUME FrameBuilt PROVE FrameFromUser <=> FromUser(before)
  OBVIOUS
<1>1. "cs" \in Register /\ "cs" \notin {"esp", "ss"}
  BY DEF Register
<1>2. Field("cs") = before["cs"]
  BY <1>1 DEF FrameBuilt
<1> QED
  BY <1>2 DEF FrameFromUser, FromUser

\* What trap_dispatch sees is the frame on the stack, whether or not it was copied.
LEMMA DispatchSees ==
  ASSUME FrameInv, at = "dispatch"
  PROVE  FrameBuilt /\ \A f \in FrameField : Tf(f) = Field(f)
<1>1. FrameBuilt
  BY DEF FrameInv
<1>2. FromUser(before) => \A f \in FrameField : env_tf[f] = Field(f)
  BY DEF FrameInv
<1> QED
  BY <1>1, <1>2, BuiltFromUser DEF Tf

LEMMA DispatchFrame ==
  ASSUME FrameInv, at = "dispatch"
  PROVE  /\ \A r \in Register : (r \in {"esp", "ss"} => FromUser(before)) => Tf(r) = before[r]
         /\ Tf("trapno") = Known(vector)
         /\ Tf("err") = IF vector \in HasErrorCode THEN Known("error code") ELSE Known("0")
         /\ cpu["ds"] = KernelData /\ cpu["es"] = KernelData
<1>1. FrameBuilt /\ \A f \in FrameField : Tf(f) = Field(f)
  BY DispatchSees
<1>2. "trapno" \in FrameField /\ "err" \in FrameField /\ Register \subseteq FrameField
  BY FrameFields
<1>3. Tf("trapno") = Field("trapno") /\ Tf("err") = Field("err")
  BY <1>1, <1>2
<1>4. \A r \in Register : Tf(r) = Field(r)
  BY <1>1, <1>2
<1> QED
  BY <1>1, <1>3, <1>4 DEF FrameBuilt

\* The copy of a program's frame.
LEMMA StackFrameType ==
  ASSUME kstack \in Seq(Value), Len(kstack) >= Len(Layout)
  PROVE  StackFrame \in [FrameField -> Value] /\ \A f \in FrameField : StackFrame[f] = Field(f)
<1>1. StackFrame = [f \in FrameField |-> Field(f)]
  BY DEF StackFrame, FrameField
<1>2. ASSUME NEW i \in 1..17 PROVE FieldIn(kstack, Layout[i]) \in Value
  <2>1. FieldIn(kstack, Layout[i]) = kstack[Len(kstack) - (i - 1)]
    BY FieldAt DEF At
  <2>2. Len(kstack) - (i - 1) \in 1..Len(kstack)
    BY LayoutFacts
  <2> QED
    BY <2>1, <2>2
<1>3. ASSUME NEW f \in FrameField PROVE Field(f) \in Value
  <2>1. PICK i \in 1..17 : f = Layout[i]
    BY LayoutFacts DEF FrameField
  <2>2. Field(f) = FieldIn(kstack, f)
    BY DEF Field, FieldIn
  <2> QED
    BY <1>2, <2>1, <2>2
<1> QED
  BY <1>1, <1>3

LEMMA FreshIs ==
  /\ FreshFrame \in [FrameField -> Value]
  /\ PopFrame(FreshFrame) = [r \in Register |-> FreshFrame[r]]
  /\ PopFrame(FreshFrame) \in [Register -> Value]
  /\ FromUser(PopFrame(FreshFrame))
  /\ PopFrame(FreshFrame)["eax"] = Known("0")
<1>1. {"USTACKTOP", "e_entry", "0"} \subseteq Name
  BY DEF Name
<1>2. Known("USTACKTOP") \in Value /\ Known("e_entry") \in Value /\ Known("0") \in Value
  BY <1>1, KnownValue
<1>3. FreshFrame = [f \in FrameField |->
         CASE f \in {"ds", "es", "ss"} -> UserData
           [] f = "cs" -> UserText
           [] f = "esp" -> Known("USTACKTOP")
           [] f = "eip" -> Known("e_entry")
           [] OTHER -> Known("0")]
  BY DEF FreshFrame, FrameField
<1>4. FreshFrame \in [FrameField -> Value]
  BY <1>2, <1>3, SelectorValues
<1>5. PopFrame(FreshFrame) = [r \in Register |-> FreshFrame[r]]
  BY PopFrameIs
<1>6. Register \subseteq FrameField /\ "cs" \in Register /\ "eax" \in Register
  BY FrameFields DEF Register, General
<1>7. FreshFrame["cs"] = UserText /\ FreshFrame["eax"] = Known("0")
  BY <1>3, <1>6
<1>8. PopFrame(FreshFrame) \in [Register -> Value]
  BY <1>4, <1>5, <1>6
<1> QED
  BY <1>4, <1>5, <1>6, <1>7, <1>8 DEF FromUser

----------------------------------------------------------------------------
(* user_mem_check within sys_cputs.                                        *)

LEMMA BegunNext == Begun' => CheckInv'
BY BegunCheck, PTL

\* Unless a check begins, the arguments of the last one stand.
LEMMA SameCheck ==
  ASSUME UNCHANGED vars
  PROVE  /\ va' = va /\ len' = len /\ pc' = pc
         /\ ShortEnough' = ShortEnough /\ Bad' = Bad /\ CheckInv' = CheckInv
<1>1. va' = va /\ len' = len /\ pc' = pc /\ mem_start' = mem_start /\ mem_end' = mem_end
      /\ pte' = pte /\ perm' = perm /\ user_mem_check_addr' = user_mem_check_addr
  BY DEF vars
<1>2. ShortEnough' = ShortEnough
  BY <1>1 DEF ShortEnough, Fits
<1>3. Bad' = Bad
  BY <1>1 DEF Bad, Range, Allows
<1>4. CheckInv' = CheckInv
  BY <1>1 DEF CheckInv, Arguments, Bounds, Passed, Outcome, Fits, Allows, Aligned, RoundDown
<1> QED
  BY <1>1, <1>2, <1>3, <1>4

LEMMA AcceptedAll ==
  ASSUME CheckInv, pc = "ok", ShortEnough
  PROVE  Bad = {}
<1>1. CASE Fits
  BY <1>1, AcceptAll
<1>2. CASE len = 0
  <2>1. Range = {}
    BY <1>2 DEF Range
  <2> QED
    BY <2>1 DEF Bad
<1> QED
  BY <1>1, <1>2 DEF ShortEnough

\* The kernel can read what the program may read.
LEMMA ReadsAllowed ==
  ASSUME CheckInv, pc = "ok", ShortEnough, printed \in Nat, Prints, ~KernelReads(NextChar)
  PROVE  printed = len /\ NextChar = va + len
<1>1. va \in Nat /\ len \in Nat /\ va < Word
  BY WordFacts DEF CheckInv, Arguments, Address
<1>2. Bad = {}
  BY AcceptedAll
<1>3. ~(printed < len)
  <2> SUFFICES ASSUME printed < len PROVE FALSE
    OBVIOUS
  <2>1. printed \in 0..len-1
    BY <1>1
  <2>2. NextChar \in Range
    BY <2>1 DEF Range, NextChar
  <2>3. Allows(NextChar)
    BY <1>2, <2>2 DEF Bad
  <2> QED
    BY <2>3 DEF Allows, KernelReads
<1>4. printed = len
  BY <1>1, <1>3 DEF Prints
<1>5. va + len \in 0..Word-1
  BY <1>1, WordFacts DEF ShortEnough, Fits
<1> QED
  BY <1>4, <1>5, WordFacts DEF NextChar

----------------------------------------------------------------------------
(* The inductive invariant holds at first.                                 *)

LEMMA NamesUsed ==
  {"0", "kernel", "envid", "char", "-E_INVAL", "s", "len", "bad id", "SYS_cputs", "SYS_cgetc",
   "SYS_getenvid", "SYS_env_destroy"} \subseteq Name
BY DEF Name

LEMMA SysInitInv == SysInit => SysInv /\ CheckInv
<1> SUFFICES ASSUME SysInit PROVE SysInv /\ CheckInv
  OBVIOUS
<1>1. /\ env_tf = FreshFrame /\ cpu = [r \in Register |-> Known("kernel")]
      /\ kstack = <<>> /\ vector = "none" /\ before = PopFrame(FreshFrame)
      /\ prog = "_start" /\ thisenv = Known("0") /\ result = Known("0")
      /\ area = <<0, 0>> /\ nul = 0 /\ printed = 0
      /\ at = "alone" \/ at = "run"
  BY DEF SysInit
<1>2. Known("0") \in Value /\ Known("kernel") \in Value
  BY NamesUsed, KnownValue
<1>3. 0 \in Address
  BY WordFacts DEF Address
<1>4. SysType
  <2>1. cpu \in [Register -> Value]
    BY <1>1, <1>2
  <2>2. kstack \in Seq(Value)
    BY <1>1
  <2>3. env_tf \in [FrameField -> Value] /\ before \in [Register -> Value]
    BY <1>1, FreshIs
  <2>4. area \in Address \X Address
    BY <1>1, <1>3
  <2> QED
    BY <1>1, <1>2, <2>1, <2>2, <2>3, <2>4 DEF SysType
<1>5. FromUser(before)
  BY <1>1, FreshIs
<1>6. FrameInv
  BY <1>1, <1>5 DEF FrameInv, InTrap
<1>7. ResumeInv
  <2>1. \A r \in Register : env_tf[r] = [before EXCEPT !["eax"] = result][r]
    BY <1>1, FreshIs
  <2> QED
    BY <1>1, <2>1 DEF ResumeInv
<1>8. ~CallsCputs
  <2>1. before["eax"] = Known("0")
    BY <1>1, FreshIs
  <2> QED
    BY <2>1, KnownApart DEF CallsCputs
<1>9. CputsInv
  BY <1>1, <1>5, <1>8 DEF CputsInv, InTrap
<1>10. CheckInv
  <2>1. CASE Init
    BY <2>1, InitCheck
  <2>2. CASE va = 0 /\ len = 0 /\ pc = "ok"
    BY <1>3, <2>2 DEF CheckInv, Arguments, Fits
  <2> QED
    BY <2>1, <2>2 DEF SysInit
<1> QED
  BY <1>4, <1>6, <1>7, <1>9, <1>10 DEF SysInv

----------------------------------------------------------------------------
(* The kernel's steps preserve it.                                         *)

\* A system call comes from a program, and the frame was copied.
LEMMA FromSyscall ==
  ASSUME SysInv, at = "dispatch", Tf("trapno") = Known("T_SYSCALL")
  PROVE  /\ FromUser(before) /\ vector = "T_SYSCALL"
         /\ \A r \in Register : Tf(r) = before[r] /\ env_tf[r] = before[r]
<1>1. FrameInv /\ CputsInv
  BY DEF SysInv
<1>2. vector = "T_SYSCALL"
  BY <1>1, DispatchFrame, KnownApart
<1>3. FromUser(before)
  BY <1>1, <1>2 DEF CputsInv, InTrap
<1>4. \A f \in FrameField : env_tf[f] = Field(f)
  BY <1>1, <1>3 DEF FrameInv
<1>5. \A f \in FrameField : Tf(f) = Field(f)
  BY <1>1, DispatchSees
<1>6. Register \subseteq FrameField
  BY FrameFields
<1>7. \A r \in Register : Tf(r) = before[r]
  BY <1>1, <1>3, DispatchFrame
<1> QED
  BY <1>2, <1>3, <1>4, <1>5, <1>6, <1>7

\* What the stubs of a program in libmain and of sys_cputs have put into the registers.
LEMMA SyscallNumber ==
  ASSUME SysInv, NEW num, Syscall(num)
  PROVE  /\ before["eax"] = Known(num)
         /\ prog = "libmain" => num = "SYS_getenvid"
         /\ CallsCputs => num = "SYS_cputs"
<1>1. at = "dispatch" /\ Tf("trapno") = Known("T_SYSCALL") /\ Tf("eax") = Known(num)
  BY DEF Syscall
<1>2. FromUser(before) /\ before["eax"] = Known(num)
  BY <1>1, FromSyscall DEF Register, General
<1>3. prog = "libmain" => before["eax"] = Known("SYS_getenvid")
  BY <1>1, <1>2 DEF SysInv, ResumeInv, InTrap
<1> QED
  BY <1>2, <1>3, KnownApart DEF CallsCputs

\* The monitor or another environment takes over.
LEMMA EndsInv ==
  ASSUME SysInv, CheckInv, NEW w \in {"destroyed", "breakpoint", "panic"}, Ends(w),
         at # "alone", prog # "libmain", w = "panic" => at = "dispatch" /\ ~FromUser(before)
  PROVE  SysInv' /\ CheckInv'
<1>1. SysType /\ FrameInv /\ ResumeInv /\ CputsInv
  BY DEF SysInv
<1>2. at' = w /\ UNCHANGED <<vars, frameVars, progVars, result, printed>>
  BY DEF Ends
<1>3. /\ cpu' = cpu /\ kstack' = kstack /\ env_tf' = env_tf /\ vector' = vector /\ before' = before
      /\ prog' = prog /\ thisenv' = thisenv /\ area' = area /\ nul' = nul
      /\ result' = result /\ printed' = printed /\ UNCHANGED vars
  BY <1>2 DEF frameVars, progVars
<1>4. /\ va' = va /\ len' = len /\ pc' = pc
      /\ ShortEnough' = ShortEnough /\ Bad' = Bad /\ CheckInv' = CheckInv
  BY <1>3, SameCheck
<1>5. SysType'
  BY <1>1, <1>2, <1>3 DEF SysType
<1>6. FrameBuilt' = FrameBuilt /\ FromUser(before)' = FromUser(before)
  BY <1>3 DEF FrameBuilt, Field, FromUser
<1>7. FrameInv'
  BY <1>1, <1>2, <1>3, <1>6 DEF FrameInv, InTrap
<1>8. ResumeInv'
  BY <1>1, <1>2, <1>3 DEF ResumeInv, InTrap
<1>9. NextChar' = NextChar
  BY <1>3, <1>4 DEF NextChar
<1>10. at # "alone" => (ShortEnough /\ printed > 0 => Bad = {})
  BY <1>1 DEF CputsInv
<1>11. CputsInv'
  BY <1>1, <1>2, <1>3, <1>4, <1>6, <1>9, <1>10 DEF CputsInv, InTrap
<1> QED
  BY <1>4, <1>5, <1>7, <1>8, <1>11 DEF SysInv

\* A system call returns: env_tf is the frame of the call but for eax.
LEMMA ReturnsInv ==
  ASSUME SysInv, CheckInv, at \in {"dispatch", "print"}, NEW x \in Value, Returns(x), FromUser(before),
         \A r \in Register : env_tf[r] = before[r],
         prog = "libmain" => x = Me,
         CallsCputs => printed = IF nul < len THEN nul ELSE len
  PROVE  SysInv' /\ CheckInv'
<1>1. SysType /\ FrameInv /\ ResumeInv /\ CputsInv
  BY DEF SysInv
<1>2. /\ at' = "run" /\ result' = x /\ env_tf' = [env_tf EXCEPT !["eax"] = x]
      /\ cpu' = cpu /\ kstack' = kstack /\ vector' = vector /\ before' = before
      /\ prog' = prog /\ thisenv' = thisenv /\ area' = area /\ nul' = nul
      /\ printed' = printed /\ UNCHANGED vars
  BY DEF Returns, progVars
<1>3. /\ va' = va /\ len' = len /\ pc' = pc
      /\ ShortEnough' = ShortEnough /\ Bad' = Bad /\ CheckInv' = CheckInv
  BY <1>2, SameCheck
<1>4. SysType'
  BY <1>1, <1>2 DEF SysType
<1>5. FromUser(before)' /\ CallsCputs' = CallsCputs
  BY <1>2 DEF FromUser, CallsCputs
<1>6. FrameInv'
  BY <1>2, <1>5 DEF FrameInv, InTrap
<1>7. \A r \in Register : env_tf'[r] = [before EXCEPT !["eax"] = x][r]
  <2>1. Register \subseteq FrameField
    BY FrameFields
  <2> QED
    BY <1>1, <1>2, <2>1 DEF SysType
<1>8. ResumeInv'
  BY <1>1, <1>2, <1>7 DEF ResumeInv, InTrap, Me
<1>9. CputsInv'
  BY <1>1, <1>2, <1>3, <1>5 DEF CputsInv, InTrap
<1> QED
  BY <1>3, <1>4, <1>6, <1>8, <1>9 DEF SysInv

\* alltraps, on what the processor has pushed.
LEMMA EnterInv == SysInv /\ CheckInv /\ Enter => SysInv' /\ CheckInv'
<1> SUFFICES ASSUME SysInv, CheckInv, Enter PROVE SysInv' /\ CheckInv'
  OBVIOUS
<1>1. SysType /\ FrameInv /\ ResumeInv /\ CputsInv
  BY DEF SysInv
<1>2. /\ at = "alltraps" /\ at' = "trap" /\ AllTraps
      /\ env_tf' = env_tf /\ vector' = vector /\ before' = before
      /\ prog' = prog /\ thisenv' = thisenv /\ area' = area /\ nul' = nul
      /\ result' = result /\ printed' = printed /\ UNCHANGED vars
  BY DEF Enter, AllTraps, progVars
<1>3. /\ va' = va /\ len' = len /\ pc' = pc
      /\ ShortEnough' = ShortEnough /\ Bad' = Bad /\ CheckInv' = CheckInv
  BY <1>2, SameCheck
<1>4. Delivered /\ vector \in Gate /\ cpu["cs"] = KernelText
  BY <1>1, <1>2 DEF FrameInv, InTrap
<1>5. /\ kstack' \in Seq(Value) /\ cpu' \in [Register -> Value]
      /\ cpu'["cs"] = cpu["cs"] /\ FrameBuilt'
  BY <1>1, <1>2, <1>4, BuildIs DEF SysType
<1>6. SysType'
  BY <1>1, <1>2, <1>5 DEF SysType
<1>7. FromUser(before)' = FromUser(before) /\ CallsCputs' = CallsCputs /\ NextChar' = NextChar
  BY <1>2, <1>3 DEF FromUser, CallsCputs, NextChar
<1>8. FrameInv'
  BY <1>2, <1>4, <1>5 DEF FrameInv, InTrap
<1>9. ResumeInv'
  BY <1>1, <1>2, <1>7 DEF ResumeInv, InTrap, Me
<1>10. CputsInv'
  BY <1>1, <1>2, <1>3, <1>7 DEF CputsInv, InTrap
<1> QED
  BY <1>3, <1>6, <1>8, <1>9, <1>10 DEF SysInv

\* trap copies the frame of a program.
LEMMA TrapInv == SysInv /\ CheckInv /\ Trap => SysInv' /\ CheckInv'
<1> SUFFICES ASSUME SysInv, CheckInv, Trap PROVE SysInv' /\ CheckInv'
  OBVIOUS
<1>1. SysType /\ FrameInv /\ ResumeInv /\ CputsInv
  BY DEF SysInv
<1>2. /\ at = "trap" /\ at' = "dispatch"
      /\ cpu' = cpu /\ kstack' = kstack /\ vector' = vector /\ before' = before
      /\ prog' = prog /\ thisenv' = thisenv /\ area' = area /\ nul' = nul
      /\ result' = result /\ printed' = printed /\ UNCHANGED vars
      /\ IF FrameFromUser THEN CopyFrame ELSE UNCHANGED env_tf
  BY DEF Trap, progVars
<1>3. /\ va' = va /\ len' = len /\ pc' = pc
      /\ ShortEnough' = ShortEnough /\ Bad' = Bad /\ CheckInv' = CheckInv
  BY <1>2, SameCheck
<1>4. FrameBuilt /\ vector \in Gate /\ cpu["cs"] = KernelText
  BY <1>1, <1>2 DEF FrameInv, InTrap
<1>5. FrameFromUser <=> FromUser(before)
  BY <1>4, BuiltFromUser
<1>6. /\ env_tf' \in [FrameField -> Value]
      /\ FromUser(before) => \A f \in FrameField : env_tf'[f] = Field(f)
  <2>1. CASE FromUser(before)
    <3>1. Len(kstack) >= Len(Layout) /\ kstack \in Seq(Value)
      BY <1>1, <1>4, <2>1 DEF FrameBuilt, SysType
    <3>2. env_tf' = StackFrame
      BY <1>2, <1>5, <2>1 DEF CopyFrame
    <3>3. StackFrame \in [FrameField -> Value] /\ \A f \in FrameField : StackFrame[f] = Field(f)
      BY <3>1, StackFrameType
    <3> QED
      BY <3>2, <3>3
  <2>2. CASE ~FromUser(before)
    BY <1>1, <1>2, <1>5, <2>2 DEF SysType
  <2> QED
    BY <2>1, <2>2
<1>7. SysType'
  BY <1>1, <1>2, <1>6 DEF SysType
<1>8. /\ FromUser(before)' = FromUser(before) /\ CallsCputs' = CallsCputs /\ NextChar' = NextChar
      /\ FrameBuilt' = FrameBuilt /\ \A f : Field(f)' = Field(f)
  BY <1>2, <1>3 DEF FromUser, CallsCputs, NextChar, FrameBuilt, Field
<1>9. FrameInv'
  BY <1>2, <1>4, <1>6, <1>8 DEF FrameInv, InTrap
<1>10. ResumeInv'
  BY <1>1, <1>2, <1>8 DEF ResumeInv, InTrap, Me
<1>11. CputsInv'
  BY <1>1, <1>2, <1>3, <1>8 DEF CputsInv, InTrap
<1> QED
  BY <1>3, <1>7, <1>9, <1>10, <1>11 DEF SysInv

\* trap_dispatch: a breakpoint, a fault, and the system calls but sys_cputs.
LEMMA DispatchInv ==
  SysInv /\ CheckInv /\ (Breakpoint \/ Unhandled \/ SysCgetc \/ SysGetenvid \/ SysEnvDestroy \/ NoSuchCall)
    => SysInv' /\ CheckInv'
<1> SUFFICES ASSUME SysInv, CheckInv,
                    Breakpoint \/ Unhandled \/ SysCgetc \/ SysGetenvid \/ SysEnvDestroy \/ NoSuchCall
             PROVE  SysInv' /\ CheckInv'
  OBVIOUS
<1>1. SysType /\ FrameInv /\ ResumeInv /\ CputsInv
  BY DEF SysInv
<1>2. {Known("0"), Known("char"), Known("-E_INVAL"), Me} \subseteq Value
  BY NamesUsed, KnownValue DEF Me
<1>3. ASSUME at = "dispatch", prog = "libmain"
      PROVE  Tf("trapno") = Known("T_SYSCALL") /\ Tf("eax") = Known("SYS_getenvid")
  BY <1>1, <1>3, DispatchFrame DEF ResumeInv, InTrap, Register, General
<1>4. CASE Breakpoint
  <2>1. at = "dispatch" /\ Tf("trapno") = Known("T_BRKPT") /\ Ends("breakpoint")
    BY <1>4 DEF Breakpoint
  <2>2. prog # "libmain"
    BY <1>3, <2>1, KnownApart
  <2> QED
    BY <2>1, <2>2, EndsInv
<1>5. CASE Unhandled
  <2>1. /\ at = "dispatch" /\ Tf("trapno") # Known("T_SYSCALL")
        /\ Ends(IF FrameFromUser THEN "destroyed" ELSE "panic")
    BY <1>5 DEF Unhandled
  <2>2. prog # "libmain"
    BY <1>3, <2>1
  <2>3. FrameFromUser <=> FromUser(before)
    BY <1>1, <2>1, DispatchSees, BuiltFromUser
  <2>4. CASE FrameFromUser
    BY <2>1, <2>2, <2>4, EndsInv
  <2>5. CASE ~FrameFromUser
    BY <2>1, <2>2, <2>3, <2>5, EndsInv
  <2> QED
    BY <2>4, <2>5
<1>6. CASE SysCgetc
  <2>1. Syscall("SYS_cgetc") /\ Returns(Known("char")) /\ at = "dispatch"
    BY <1>6 DEF SysCgetc, Syscall
  <2>2. prog # "libmain" /\ ~CallsCputs
    BY <2>1, SyscallNumber
  <2>3. FromUser(before) /\ \A r \in Register : env_tf[r] = before[r]
    BY <2>1, FromSyscall DEF Syscall
  <2> QED
    BY <1>2, <2>1, <2>2, <2>3, ReturnsInv
<1>7. CASE SysGetenvid
  <2>1. Syscall("SYS_getenvid") /\ Returns(Me) /\ at = "dispatch"
    BY <1>7 DEF SysGetenvid, Syscall
  <2>2. ~CallsCputs
    BY <2>1, SyscallNumber
  <2>3. FromUser(before) /\ \A r \in Register : env_tf[r] = before[r]
    BY <2>1, FromSyscall DEF Syscall
  <2> QED
    BY <1>2, <2>1, <2>2, <2>3, ReturnsInv
<1>8. CASE SysEnvDestroy
  <2>1. Syscall("SYS_env_destroy") /\ at = "dispatch"
    BY <1>8 DEF SysEnvDestroy, Syscall
  <2>2. prog # "libmain" /\ ~CallsCputs
    BY <2>1, SyscallNumber
  <2>3. FromUser(before) /\ \A r \in Register : env_tf[r] = before[r]
    BY <2>1, FromSyscall DEF Syscall
  <2>4. CASE Returns(Known("0"))
    BY <1>2, <2>1, <2>2, <2>3, <2>4, ReturnsInv
  <2>5. CASE Ends("destroyed")
    BY <2>1, <2>2, <2>5, EndsInv
  <2> QED
    BY <1>8, <2>4, <2>5 DEF SysEnvDestroy
<1>9. CASE NoSuchCall
  <2>1. /\ at = "dispatch" /\ Tf("trapno") = Known("T_SYSCALL") /\ Returns(Known("-E_INVAL"))
        /\ Tf("eax") # Known("SYS_cputs") /\ Tf("eax") # Known("SYS_getenvid")
    BY <1>9 DEF NoSuchCall
  <2>2. FromUser(before) /\ \A r \in Register : Tf(r) = before[r] /\ env_tf[r] = before[r]
    BY <2>1, FromSyscall
  <2>3. prog # "libmain" /\ ~CallsCputs
    BY <1>3, <2>1, <2>2 DEF CallsCputs, Register, General
  <2> QED
    BY <1>2, <2>1, <2>2, <2>3, ReturnsInv
<1> QED
  BY <1>4, <1>5, <1>6, <1>7, <1>8, <1>9

----------------------------------------------------------------------------
(* sys_cputs.                                                              *)

LEMMA SysCputsInv == SysInv /\ CheckInv /\ SysCputs => SysInv' /\ CheckInv'
<1> SUFFICES ASSUME SysInv, CheckInv, SysCputs PROVE SysInv' /\ CheckInv'
  OBVIOUS
<1>1. SysType /\ FrameInv /\ ResumeInv /\ CputsInv
  BY DEF SysInv
<1>2. /\ at = "dispatch" /\ at' = "check" /\ printed' = 0 /\ StartCheck(area[1], area[2])
      /\ cpu' = cpu /\ kstack' = kstack /\ env_tf' = env_tf /\ vector' = vector /\ before' = before
      /\ prog' = prog /\ thisenv' = thisenv /\ area' = area /\ nul' = nul /\ result' = result
      /\ Syscall("SYS_cputs")
  BY DEF SysCputs, Syscall, frameVars, progVars
<1>3. FromUser(before) /\ \A r \in Register : env_tf[r] = before[r]
  BY <1>2, FromSyscall DEF Syscall
<1>4. before["eax"] = Known("SYS_cputs") /\ prog # "libmain"
  BY <1>2, SyscallNumber
<1>5. area[1] \in Address /\ area[2] \in Address
  BY <1>1 DEF SysType
<1>6. Begun'
  BY <1>2, <1>5 DEF Begun, StartCheck, Address, RoundDown, RoundUp
<1>7. CheckInv'
  BY <1>6, BegunNext
<1>8. SysType'
  BY <1>1, <1>2 DEF SysType
<1>9. FrameInv'
  BY <1>1, <1>2, <1>3 DEF FrameInv, InTrap, FromUser
<1>10. ResumeInv'
  BY <1>1, <1>2, <1>3, <1>4 DEF ResumeInv, InTrap, Me
<1>11. CputsInv'
  BY <1>2, <1>4 DEF CputsInv, InTrap, CallsCputs
<1> QED
  BY <1>7, <1>8, <1>9, <1>10, <1>11 DEF SysInv

\* A step of user_mem_check changes nothing else, on its own or within sys_cputs.
LEMMA CheckStepInv == SysInv /\ CheckInv /\ (CheckAlone \/ CheckPage) => SysInv' /\ CheckInv'
<1> SUFFICES ASSUME SysInv, CheckInv, CheckAlone \/ CheckPage PROVE SysInv' /\ CheckInv'
  OBVIOUS
<1>1. SysType /\ FrameInv /\ ResumeInv /\ CputsInv
  BY DEF SysInv
<1>2. /\ at \in {"alone", "check"} /\ at' = at /\ Next
      /\ cpu' = cpu /\ kstack' = kstack /\ env_tf' = env_tf /\ vector' = vector /\ before' = before
      /\ prog' = prog /\ thisenv' = thisenv /\ area' = area /\ nul' = nul
      /\ result' = result /\ printed' = printed
  BY DEF CheckAlone, CheckPage, frameVars, progVars
<1>3. CheckInv'
  BY <1>2, StepCheck
<1>4. SysType'
  BY <1>1, <1>2 DEF SysType
<1>5. FrameInv'
  BY <1>1, <1>2 DEF FrameInv, InTrap, FromUser
<1>6. ResumeInv'
  BY <1>1, <1>2 DEF ResumeInv, InTrap, Me
<1>7. CputsInv'
  <2>1. at = "check" => CallsCputs /\ printed = 0
    BY <1>1 DEF CputsInv
  <2>2. CallsCputs' = CallsCputs
    BY <1>2 DEF CallsCputs
  <2> QED
    BY <1>2, <2>1, <2>2 DEF CputsInv, InTrap
<1> QED
  BY <1>3, <1>4, <1>5, <1>6, <1>7 DEF SysInv

LEMMA CheckedInv == SysInv /\ CheckInv /\ (Refused \/ Accepted) => SysInv' /\ CheckInv'
<1> SUFFICES ASSUME SysInv, CheckInv, Refused \/ Accepted PROVE SysInv' /\ CheckInv'
  OBVIOUS
<1>1. SysType /\ FrameInv /\ ResumeInv /\ CputsInv
  BY DEF SysInv
<1>2. at = "check"
  BY DEF Refused, Accepted
<1>3. prog # "libmain"
  BY <1>1, <1>2 DEF ResumeInv, InTrap
<1>4. CASE Refused
  BY <1>2, <1>3, <1>4, EndsInv DEF Refused
<1>5. CASE Accepted
  <2>1. /\ at' = "print" /\ pc = "ok" /\ UNCHANGED vars
        /\ cpu' = cpu /\ kstack' = kstack /\ env_tf' = env_tf /\ vector' = vector /\ before' = before
        /\ prog' = prog /\ thisenv' = thisenv /\ area' = area /\ nul' = nul
        /\ result' = result /\ printed' = printed
    BY <1>5 DEF Accepted, frameVars, progVars
  <2>2. /\ va' = va /\ len' = len /\ pc' = pc
        /\ ShortEnough' = ShortEnough /\ Bad' = Bad /\ CheckInv' = CheckInv
    BY <2>1, SameCheck
  <2>3. SysType'
    BY <1>1, <2>1 DEF SysType
  <2>4. FrameInv'
    BY <1>1, <1>2, <2>1 DEF FrameInv, InTrap, FromUser
  <2>5. ResumeInv'
    BY <1>1, <1>2, <2>1 DEF ResumeInv, InTrap, Me
  <2>6. len \in Nat /\ nul \in Nat
    BY <1>1, WordFacts DEF CheckInv, Arguments, Address, SysType
  <2>7. CallsCputs /\ printed = 0
    BY <1>1, <1>2 DEF CputsInv
  <2>8. CallsCputs' /\ Prints'
    BY <2>1, <2>2, <2>6, <2>7 DEF CallsCputs, Prints
  <2>9. CputsInv'
    BY <2>1, <2>2, <2>7, <2>8 DEF CputsInv, InTrap
  <2> QED
    BY <2>2, <2>3, <2>4, <2>5, <2>9 DEF SysInv
<1> QED
  BY <1>4, <1>5

\* cprintf prints a character that the program may read.
LEMMA PrintCharInv == SysInv /\ CheckInv /\ PrintChar => SysInv' /\ CheckInv'
<1> SUFFICES ASSUME SysInv, CheckInv, PrintChar PROVE SysInv' /\ CheckInv'
  OBVIOUS
<1>1. SysType /\ FrameInv /\ ResumeInv /\ CputsInv
  BY DEF SysInv
<1>2. /\ at = "print" /\ at' = at /\ printed' = printed + 1 /\ GoesOn /\ UNCHANGED vars
      /\ cpu' = cpu /\ kstack' = kstack /\ env_tf' = env_tf /\ vector' = vector /\ before' = before
      /\ prog' = prog /\ thisenv' = thisenv /\ area' = area /\ nul' = nul /\ result' = result
  BY DEF PrintChar, frameVars, progVars
<1>3. /\ va' = va /\ len' = len /\ pc' = pc
      /\ ShortEnough' = ShortEnough /\ Bad' = Bad /\ CheckInv' = CheckInv
  BY <1>2, SameCheck
<1>4. SysType'
  BY <1>1, <1>2 DEF SysType
<1>5. FrameInv'
  BY <1>1, <1>2 DEF FrameInv, InTrap, FromUser
<1>6. ResumeInv'
  BY <1>1, <1>2 DEF ResumeInv, InTrap, Me
<1>7. CallsCputs /\ pc = "ok" /\ Prints
  BY <1>1, <1>2 DEF CputsInv
<1>8. len \in Nat /\ nul \in Nat /\ printed \in Nat
  BY <1>1, WordFacts DEF CheckInv, Arguments, Address, SysType
<1>9. CallsCputs' /\ Prints'
  BY <1>2, <1>3, <1>7, <1>8 DEF CallsCputs, Prints, GoesOn
<1>10. ShortEnough => Bad = {}
  BY <1>7, AcceptedAll
<1>11. CputsInv'
  BY <1>2, <1>3, <1>7, <1>9, <1>10 DEF CputsInv, InTrap
<1> QED
  BY <1>3, <1>4, <1>5, <1>6, <1>11 DEF SysInv

LEMMA PrintEndsInv == SysInv /\ CheckInv /\ PrintEnds => SysInv' /\ CheckInv'
<1> SUFFICES ASSUME SysInv, CheckInv, PrintEnds PROVE SysInv' /\ CheckInv'
  OBVIOUS
<1>1. SysType /\ FrameInv /\ ResumeInv /\ CputsInv
  BY DEF SysInv
<1>2. at = "print" /\ ~GoesOn /\ Returns(Known("0"))
  BY DEF PrintEnds
<1>3. Prints
  BY <1>1, <1>2 DEF CputsInv
<1>4. len \in Nat /\ nul \in Nat /\ printed \in Nat
  BY <1>1, WordFacts DEF CheckInv, Arguments, Address, SysType
<1>5. printed = IF nul < len THEN nul ELSE len
  BY <1>2, <1>3, <1>4 DEF GoesOn, Prints
<1>6. FromUser(before)
  BY <1>1, <1>2 DEF FrameInv
<1>7. prog # "libmain" /\ \A r \in Register : env_tf[r] = before[r]
  BY <1>1, <1>2 DEF ResumeInv, InTrap
<1>8. Known("0") \in Value
  BY NamesUsed, KnownValue
<1> QED
  BY <1>2, <1>5, <1>6, <1>7, <1>8, ReturnsInv

\* The kernel's page fault, behind the string.
LEMMA PrintFaultsInv == SysInv /\ CheckInv /\ PrintFaults => SysInv' /\ CheckInv'
<1> SUFFICES ASSUME SysInv, CheckInv, PrintFaults PROVE SysInv' /\ CheckInv'
  OBVIOUS
<1>1. SysType /\ FrameInv /\ ResumeInv /\ CputsInv
  BY DEF SysInv
<1>2. /\ at = "print" /\ at' = "alltraps" /\ ~KernelReads(NextChar) /\ Deliver(cpu, "T_PGFLT")
      /\ UNCHANGED vars /\ prog' = prog /\ thisenv' = thisenv /\ area' = area /\ nul' = nul
      /\ result' = result /\ printed' = printed
  BY DEF PrintFaults, progVars
<1>3. /\ va' = va /\ len' = len /\ pc' = pc
      /\ ShortEnough' = ShortEnough /\ Bad' = Bad /\ CheckInv' = CheckInv
  BY <1>2, SameCheck
<1>4. "T_PGFLT" \in Gate
  BY DEF Gate
<1>5. cpu["cs"] = KernelText
  BY <1>1, <1>2 DEF FrameInv
<1>6. kstack \in Seq(Value) /\ cpu \in [Register -> Value]
  BY <1>1 DEF SysType
<1>7. /\ kstack' \in Seq(Value) /\ cpu' \in [Register -> Value]
      /\ before' = cpu /\ vector' = "T_PGFLT" /\ env_tf' = env_tf
      /\ cpu'["cs"] = KernelText /\ Delivered'
  BY <1>2, <1>4, <1>6, DeliverIs
<1>8. SysType'
  BY <1>1, <1>2, <1>6, <1>7 DEF SysType
<1>9. ~FromUser(before)'
  BY <1>5, <1>7, TextApart DEF FromUser
<1>10. FrameInv'
  BY <1>2, <1>4, <1>7 DEF FrameInv, InTrap
<1>11. ResumeInv'
  BY <1>1, <1>2 DEF ResumeInv, InTrap, Me
<1>12. CallsCputs /\ pc = "ok" /\ Prints
  BY <1>1, <1>2 DEF CputsInv
<1>13. ShortEnough => printed = len /\ NextChar = va + len
  BY <1>1, <1>2, <1>12, ReadsAllowed DEF SysType
<1>14. NextChar' = NextChar
  BY <1>2, <1>3 DEF NextChar
<1>15. ShortEnough /\ printed > 0 => Bad = {}
  BY <1>1, <1>2 DEF CputsInv
<1>16. CputsInv'
  BY <1>2, <1>3, <1>7, <1>9, <1>13, <1>14, <1>15 DEF CputsInv, InTrap
<1> QED
  BY <1>3, <1>8, <1>10, <1>11, <1>16 DEF SysInv

----------------------------------------------------------------------------
(* The way back, and the program.                                          *)

\* env_pop_tf restores the frame.
LEMMA EnvRunInv == SysInv /\ CheckInv /\ EnvRun => SysInv' /\ CheckInv'
<1> SUFFICES ASSUME SysInv, CheckInv, EnvRun PROVE SysInv' /\ CheckInv'
  OBVIOUS
<1>1. SysType /\ FrameInv /\ ResumeInv /\ CputsInv
  BY DEF SysInv
<1>2. /\ at = "run" /\ at' = "user" /\ cpu' = PopFrame(env_tf) /\ UNCHANGED vars
      /\ kstack' = kstack /\ env_tf' = env_tf /\ vector' = vector /\ before' = before
      /\ prog' = prog /\ thisenv' = thisenv /\ area' = area /\ nul' = nul
      /\ result' = result /\ printed' = printed
  BY DEF EnvRun, progVars
<1>3. /\ va' = va /\ len' = len /\ pc' = pc
      /\ ShortEnough' = ShortEnough /\ Bad' = Bad /\ CheckInv' = CheckInv
  BY <1>2, SameCheck
<1>4. before \in [Register -> Value] /\ result \in Value
  BY <1>1 DEF SysType
<1>5. cpu' = [before EXCEPT !["eax"] = result]
  <2> DEFINE b == [before EXCEPT !["eax"] = result]
  <2>1. b \in [Register -> Value]
    BY <1>4
  <2>2. \A r \in Register : env_tf[r] = b[r]
    BY <1>1, <1>2 DEF ResumeInv
  <2> HIDE DEF b
  <2>3. cpu' = [r \in Register |-> env_tf[r]]
    BY <1>2, PopFrameIs
  <2>4. cpu' = b
    BY <2>1, <2>2, <2>3
  <2> QED
    BY <2>4 DEF b
<1>6. cpu' \in [Register -> Value]
  BY <1>4, <1>5
<1>7. SysType'
  BY <1>1, <1>2, <1>6 DEF SysType
<1>8. FrameInv'
  BY <1>1, <1>2 DEF FrameInv, InTrap, FromUser
<1>9. ResumeInv'
  BY <1>1, <1>2, <1>5 DEF ResumeInv, InTrap, Me
<1>10. CallsCputs' = CallsCputs
  BY <1>2 DEF CallsCputs
<1>11. CputsInv'
  BY <1>1, <1>2, <1>3, <1>10 DEF CputsInv, InTrap
<1> QED
  BY <1>3, <1>7, <1>8, <1>9, <1>11 DEF SysInv

LEMMA UserFacts ==
  ASSUME SysInv, at = "user"
  PROVE  /\ FromUser(before) /\ FromUser(cpu) /\ cpu["eax"] = result
         /\ cpu \in [Register -> Value]
<1>1. SysType /\ FrameInv /\ ResumeInv
  BY DEF SysInv
<1>2. before \in [Register -> Value] /\ result \in Value /\ cpu \in [Register -> Value]
  BY <1>1 DEF SysType
<1>3. cpu = [before EXCEPT !["eax"] = result]
  BY <1>1 DEF ResumeInv
<1>4. FromUser(before)
  BY <1>1 DEF FrameInv
<1>5. cpu["eax"] = result /\ cpu["cs"] = before["cs"]
  BY <1>2, <1>3 DEF Register, General
<1> QED
  BY <1>2, <1>4, <1>5 DEF FromUser

\* libmain: what sys_getenvid has returned.
LEMMA SetThisenvInv == SysInv /\ CheckInv /\ SetThisenv => SysInv' /\ CheckInv'
<1> SUFFICES ASSUME SysInv, CheckInv, SetThisenv PROVE SysInv' /\ CheckInv'
  OBVIOUS
<1>1. SysType /\ FrameInv /\ ResumeInv /\ CputsInv
  BY DEF SysInv
<1>2. /\ at = "user" /\ at' = at /\ prog = "libmain" /\ prog' = "umain" /\ thisenv' = cpu["eax"]
      /\ cpu' = cpu /\ kstack' = kstack /\ env_tf' = env_tf /\ vector' = vector /\ before' = before
      /\ area' = area /\ nul' = nul /\ result' = result /\ printed' = printed /\ UNCHANGED vars
  BY DEF SetThisenv, User, frameVars
<1>3. /\ va' = va /\ len' = len /\ pc' = pc
      /\ ShortEnough' = ShortEnough /\ Bad' = Bad /\ CheckInv' = CheckInv
  BY <1>2, SameCheck
<1>4. thisenv' = Me
  BY <1>1, <1>2, UserFacts DEF ResumeInv
<1>5. SysType'
  BY <1>1, <1>2 DEF SysType
<1>6. FrameInv'
  BY <1>1, <1>2 DEF FrameInv, InTrap, FromUser
<1>7. ResumeInv'
  BY <1>1, <1>2, <1>4 DEF ResumeInv, InTrap, Me
<1>8. CallsCputs' = CallsCputs
  BY <1>2 DEF CallsCputs
<1>9. CputsInv'
  BY <1>1, <1>2, <1>3, <1>8 DEF CputsInv, InTrap
<1> QED
  BY <1>3, <1>5, <1>6, <1>7, <1>9 DEF SysInv

\* What a program does with its registers, it cannot leave user mode by it.
LEMMA LeftIs ==
  ASSUME cpu \in [Register -> Value], FromUser(cpu), NEW n \in 1..2
  PROVE  /\ Left(n) \in [Register -> Value] /\ FromUser(Left(n))
         /\ \A x : Left(n)["eax"] # Known(x)
<1>1. ASSUME NEW r \in Register PROVE <<r, n>> \in Value
  <2>1. Register \subseteq Name
    BY DEF Name
  <2>2. n \in 0..2
    OBVIOUS
  <2> QED
    BY <2>1, <2>2, NumberedValue
<1>2. Left(n) \in [Register -> Value]
  BY <1>1 DEF Left
<1>3. "cs" \in Register /\ "eax" \in Register
  BY DEF Register, General
<1>4. Left(n)["cs"] = cpu["cs"] /\ Left(n)["eax"] = <<"eax", n>>
  BY <1>3 DEF Left
<1>5. \A x : <<"eax", n>> # <<x, 0>>
  OBVIOUS
<1> QED
  BY <1>2, <1>4, <1>5 DEF FromUser, Known

LEMMA StubIs ==
  ASSUME cpu \in [Register -> Value], FromUser(cpu), NEW n \in 1..2,
         NEW num \in Name, NEW a1 \in Name, NEW a2 \in Name
  PROVE  /\ Stub(n, num, a1, a2) \in [Register -> Value] /\ FromUser(Stub(n, num, a1, a2))
         /\ Stub(n, num, a1, a2)["eax"] = Known(num)
         /\ Stub(n, num, a1, a2)["edx"] = Known(a1) /\ Stub(n, num, a1, a2)["ecx"] = Known(a2)
<1>1. Left(n) \in [Register -> Value] /\ FromUser(Left(n))
  BY LeftIs
<1>2. /\ Known(num) \in Value /\ Known(a1) \in Value /\ Known(a2) \in Value
      /\ Known("0") \in Value
  BY NamesUsed, KnownValue
<1>3. Stub(n, num, a1, a2) \in [Register -> Value]
  BY <1>1, <1>2 DEF Stub
<1>4. /\ "cs" \in Register /\ "eax" \in Register /\ "edx" \in Register /\ "ecx" \in Register
  BY DEF Register, General
<1>5. /\ Stub(n, num, a1, a2)["cs"] = Left(n)["cs"]
      /\ Stub(n, num, a1, a2)["eax"] = Known(num)
      /\ Stub(n, num, a1, a2)["edx"] = Known(a1) /\ Stub(n, num, a1, a2)["ecx"] = Known(a2)
  BY <1>4 DEF Stub
<1> QED
  BY <1>1, <1>3, <1>5 DEF FromUser

\* A program traps, with any registers; only sys_cputs is called as its stub does.
LEMMA TrapsInv ==
  ASSUME SysInv, CheckInv, at = "user", NEW regs \in [Register -> Value], FromUser(regs),
         NEW v, NEW software, Traps(regs, v, software),
         prog' \in {"libmain", "umain", "exit"}, area' \in Address \X Address, nul' \in Nat,
         prog' = "libmain" =>
           Through(v, software) = "T_SYSCALL" /\ regs["eax"] = Known("SYS_getenvid"),
         prog' \in {"umain", "exit"} => prog \in {"umain", "exit"},
         regs["eax"] = Known("SYS_cputs") =>
           /\ Through(v, software) = "T_SYSCALL"
           /\ regs["edx"] = Known("s") /\ regs["ecx"] = Known("len")
  PROVE  SysInv' /\ CheckInv'
<1>1. SysType /\ FrameInv /\ ResumeInv /\ CputsInv
  BY DEF SysInv
<1>2. /\ at' = "alltraps" /\ Deliver(regs, Through(v, software)) /\ UNCHANGED vars
      /\ thisenv' = thisenv /\ result' = result /\ printed' = printed
  BY DEF Traps
<1>3. /\ va' = va /\ len' = len /\ pc' = pc
      /\ ShortEnough' = ShortEnough /\ Bad' = Bad /\ CheckInv' = CheckInv
  BY <1>2, SameCheck
<1>4. Through(v, software) \in Gate
  BY DEF Through, Gate
<1>5. kstack \in Seq(Value)
  BY <1>1 DEF SysType
<1>6. /\ kstack' \in Seq(Value) /\ cpu' \in [Register -> Value]
      /\ before' = regs /\ vector' = Through(v, software) /\ env_tf' = env_tf
      /\ cpu'["cs"] = KernelText /\ Delivered'
  BY <1>2, <1>4, <1>5, DeliverIs
<1>7. SysType'
  BY <1>1, <1>2, <1>6 DEF SysType
<1>8. FromUser(before)'
  BY <1>6 DEF FromUser
<1>9. FrameInv'
  BY <1>2, <1>4, <1>6 DEF FrameInv, InTrap
<1>10. ResumeInv'
  BY <1>1, <1>2, <1>6, <1>8 DEF ResumeInv, InTrap, Me
<1>11. CallsCputs' => vector' = "T_SYSCALL" /\ before'["edx"] = Known("s") /\ before'["ecx"] = Known("len")
  BY <1>6 DEF CallsCputs
<1>12. ShortEnough /\ printed > 0 => Bad = {}
  BY <1>1 DEF CputsInv
<1>13. CputsInv'
  BY <1>2, <1>3, <1>8, <1>11, <1>12 DEF CputsInv, InTrap
<1> QED
  BY <1>3, <1>7, <1>9, <1>10, <1>13 DEF SysInv

LEMMA CallsInv ==
  ASSUME SysInv, CheckInv, at = "user",
         NEW num \in Name, NEW a1 \in Name, NEW a2 \in Name, Calls(num, a1, a2),
         prog' \in {"libmain", "umain", "exit"}, area' \in Address \X Address, nul' \in Nat,
         prog' = "libmain" => num = "SYS_getenvid",
         prog' \in {"umain", "exit"} => prog \in {"umain", "exit"},
         num = "SYS_cputs" => a1 = "s" /\ a2 = "len"
  PROVE  SysInv' /\ CheckInv'
<1>1. PICK n \in 1..2 : Traps(Stub(n, num, a1, a2), "T_SYSCALL", TRUE)
  BY DEF Calls
<1>2. FromUser(cpu) /\ cpu \in [Register -> Value]
  BY UserFacts
<1> DEFINE regs == Stub(n, num, a1, a2)
<1>3. /\ regs \in [Register -> Value] /\ FromUser(regs)
      /\ regs["eax"] = Known(num) /\ regs["edx"] = Known(a1) /\ regs["ecx"] = Known(a2)
  BY <1>2, StubIs
<1>4. Traps(regs, "T_SYSCALL", TRUE)
  BY <1>1
<1> HIDE DEF regs
<1>5. Through("T_SYSCALL", TRUE) = "T_SYSCALL"
  BY DEF Through, Gate, Dpl3
<1>6. regs["eax"] = Known("SYS_cputs") => regs["edx"] = Known("s") /\ regs["ecx"] = Known("len")
  BY <1>3, KnownApart
<1>7. prog' = "libmain" => regs["eax"] = Known("SYS_getenvid")
  BY <1>3
<1> QED
  BY <1>3, <1>4, <1>5, <1>6, <1>7, TrapsInv

LEMMA ProgramInv == SysInv /\ CheckInv /\ ProgramStep => SysInv' /\ CheckInv'
<1> SUFFICES ASSUME SysInv, CheckInv, ProgramStep PROVE SysInv' /\ CheckInv'
  OBVIOUS
<1>1. area \in Address \X Address /\ nul \in Nat
  BY DEF SysInv, SysType
<1>2. CASE SetThisenv
  BY <1>2, SetThisenvInv
<1>3. CASE Libmain
  <2>1. /\ at = "user" /\ prog' = "libmain" /\ Calls("SYS_getenvid", "0", "0")
        /\ area' = area /\ nul' = nul
    BY <1>3 DEF Libmain, User
  <2>2. "SYS_getenvid" \in Name /\ "0" \in Name
    BY NamesUsed
  <2> QED
    BY <1>1, <2>1, <2>2, CallsInv
<1>4. CASE Cputs
  <2>1. /\ at = "user" /\ prog = "umain" /\ prog' = prog /\ Calls("SYS_cputs", "s", "len")
        /\ area' \in Area /\ nul' \in NulAt
    BY <1>4 DEF Cputs, User
  <2>2. "SYS_cputs" \in Name /\ "s" \in Name /\ "len" \in Name
    BY NamesUsed
  <2>3. area' \in Address \X Address /\ nul' \in Nat
    BY <2>1, AreaAssumption DEF AreaAssumption
  <2> QED
    BY <2>1, <2>2, <2>3, CallsInv
<1>5. CASE OtherCall
  <2>1. /\ at = "user" /\ prog = "umain" /\ prog' = prog /\ area' = area /\ nul' = nul
        /\ Calls("SYS_cgetc", "0", "0") \/ Calls("SYS_env_destroy", "bad id", "0")
    BY <1>5 DEF OtherCall, User, progVars
  <2>2. {"SYS_cgetc", "SYS_env_destroy", "bad id", "0"} \subseteq Name
    BY NamesUsed
  <2>3. CASE Calls("SYS_cgetc", "0", "0")
    BY <1>1, <2>1, <2>2, <2>3, CallsInv
  <2>4. CASE Calls("SYS_env_destroy", "bad id", "0")
    BY <1>1, <2>1, <2>2, <2>4, CallsInv
  <2> QED
    BY <2>1, <2>3, <2>4
<1>6. CASE Other
  <2>1. /\ at = "user" /\ prog = "umain" /\ prog' = prog /\ area' = area /\ nul' = nul
    BY <1>6 DEF Other, User, progVars
  <2>2. PICK n \in 1..2 :
          \/ \E v \in Gate \cup {"T_NMI", "T_SIMDERR"} : Traps(Left(n), v, TRUE)
          \/ \E v \in Exception : Traps(Left(n), v, FALSE)
    BY <1>6 DEF Other
  <2>3. PICK v, software : Traps(Left(n), v, software)
    BY <2>2
  <2>4. FromUser(cpu) /\ cpu \in [Register -> Value]
    BY <2>1, UserFacts
  <2>5. Left(n) \in [Register -> Value] /\ FromUser(Left(n)) /\ Left(n)["eax"] # Known("SYS_cputs")
    BY <2>4, LeftIs
  <2> QED
    BY <1>1, <2>1, <2>3, <2>5, TrapsInv
<1>7. CASE Exit
  <2>1. /\ at = "user" /\ prog = "umain" /\ prog' = "exit" /\ Calls("SYS_env_destroy", "0", "0")
        /\ area' = area /\ nul' = nul
    BY <1>7 DEF Exit, User
  <2>2. "SYS_env_destroy" \in Name /\ "0" \in Name
    BY NamesUsed
  <2> QED
    BY <1>1, <2>1, <2>2, CallsInv
<1> QED
  BY <1>2, <1>3, <1>4, <1>5, <1>6, <1>7 DEF ProgramStep

LEMMA StutterInv == SysInv /\ CheckInv /\ UNCHANGED sysVars => SysInv' /\ CheckInv'
<1> SUFFICES ASSUME SysInv, CheckInv, UNCHANGED sysVars PROVE SysInv' /\ CheckInv'
  OBVIOUS
<1>1. SysType /\ FrameInv /\ ResumeInv /\ CputsInv
  BY DEF SysInv
<1>2. /\ at' = at /\ UNCHANGED vars
      /\ cpu' = cpu /\ kstack' = kstack /\ env_tf' = env_tf /\ vector' = vector /\ before' = before
      /\ prog' = prog /\ thisenv' = thisenv /\ area' = area /\ nul' = nul
      /\ result' = result /\ printed' = printed
  BY DEF sysVars, frameVars, progVars
<1>3. /\ va' = va /\ len' = len /\ pc' = pc
      /\ ShortEnough' = ShortEnough /\ Bad' = Bad /\ CheckInv' = CheckInv
  BY <1>2, SameCheck
<1>4. /\ CallsCputs' = CallsCputs /\ NextChar' = NextChar /\ Prints' = Prints
      /\ FromUser(before)' = FromUser(before)
  BY <1>2, <1>3 DEF FromUser, CallsCputs, NextChar, Prints
<1>5. FrameBuilt' = FrameBuilt /\ Delivered' = Delivered /\ \A f : Field(f)' = Field(f)
  BY <1>2 DEF FrameBuilt, Delivered, Under, Field, FromUser
<1>6. SysType'
  BY <1>1, <1>2 DEF SysType
<1>7. FrameInv'
  BY <1>1, <1>2, <1>4, <1>5 DEF FrameInv, InTrap
<1>8. ResumeInv'
  BY <1>1, <1>2, <1>4 DEF ResumeInv, InTrap, Me
<1>9. CputsInv'
  BY <1>1, <1>2, <1>3, <1>4 DEF CputsInv, InTrap
<1> QED
  BY <1>3, <1>6, <1>7, <1>8, <1>9 DEF SysInv

LEMMA SysStepInv ==
  SysInv /\ CheckInv /\ [KernelStep \/ ProgramStep \/ CheckAlone]_sysVars => SysInv' /\ CheckInv'
<1> SUFFICES ASSUME SysInv, CheckInv, [KernelStep \/ ProgramStep \/ CheckAlone]_sysVars
             PROVE  SysInv' /\ CheckInv'
  OBVIOUS
<1>1. CASE KernelStep
  BY <1>1, EnterInv, TrapInv, DispatchInv, SysCputsInv, CheckStepInv, CheckedInv, PrintCharInv,
     PrintEndsInv, PrintFaultsInv, EnvRunInv DEF KernelStep
<1>2. CASE ProgramStep
  BY <1>2, ProgramInv
<1>3. CASE CheckAlone
  BY <1>3, CheckStepInv
<1>4. CASE UNCHANGED sysVars
  BY <1>4, StutterInv
<1> QED
  BY <1>1, <1>2, <1>3, <1>4

(* The words of every frame, what every program gets back and how far the  *)
(* string of sys_cputs is printed, in every state.                         *)
THEOREM SysInvariant == SysSpec => [](SysInv /\ CheckInv)
<1> QED
  BY SysInitInv, SysStepInv, PTL DEF SysSpec

(* The frame that trap_dispatch looks at describes the interrupted code,   *)
(* program or kernel, with or without an error code of the processor       *)
(* (trapentry.S, trap_init, trap).                                         *)
THEOREM FramesRight == SysSpec => []FrameRight
<1>1. SysInv => FrameRight
  <2> SUFFICES ASSUME SysInv, at = "dispatch" PROVE FrameRight
    BY DEF FrameRight
  <2>1. FrameInv
    BY DEF SysInv
  <2>2. FrameFromUser <=> FromUser(before)
    BY <2>1, DispatchSees, BuiltFromUser
  <2> QED
    BY <2>1, <2>2, DispatchFrame DEF FrameRight
<1> QED
  BY <1>1, SysInvariant, PTL

(* A program finds its registers as it left them, the result in eax, and   *)
(* thisenv is its own environment (env_pop_tf, trap_dispatch, libmain).    *)
THEOREM ProgramsResume == SysSpec => []Resumes
<1>1. SysInv => Resumes
  BY DEF SysInv, ResumeInv, Resumes
<1> QED
  BY <1>1, SysInvariant, PTL

(* sys_cputs prints up to the first NUL or the length, only what the       *)
(* program may read, and faults at most for the byte behind the string.    *)
THEOREM CputsPrintsOwn == SysSpec => []CputsRight
<1>1. SysInv /\ CheckInv => CputsRight
  <2> SUFFICES ASSUME SysInv, CheckInv PROVE PrintsOwn /\ FaultsBehind
    BY DEF CputsRight
  <2>1. FrameInv /\ CputsInv
    BY DEF SysInv
  <2>2. PrintsOwn
    BY <2>1 DEF CputsInv, PrintsOwn, CallsCputs
  <2>3. ASSUME at \in {"dispatch", "panic"}, ~FrameFromUser
        PROVE  ~FromUser(before)
    <3>1. FrameBuilt
      BY <2>1, <2>3 DEF FrameInv
    <3> QED
      BY <2>3, <3>1, BuiltFromUser
  <2>4. FaultsBehind
    BY <2>1, <2>3 DEF CputsInv, FaultsBehind, InTrap
  <2> QED
    BY <2>2, <2>4
<1> QED
  BY <1>1, SysInvariant, PTL

(* Within sys_cputs as on its own, user_mem_check answers rightly and      *)
(* reports the first bad address.                                          *)
THEOREM CputsChecks == SysSpec => [](ExactIfFits /\ FirstBad)
<1>1. CheckInv => ExactIfFits /\ FirstBad
  BY AcceptAll, FaultFirst DEF ExactIfFits, Exact, FirstBad
<1> QED
  BY <1>1, SysInvariant, PTL

============================================================================
