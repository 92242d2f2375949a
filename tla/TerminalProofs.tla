---------------------------- MODULE TerminalProofs ----------------------------
(***************************************************************************)
(* That the display shows the line readline edits, for displays and lines  *)
(* of any size that satisfy LineAssumption, any keys and any output.       *)
(***************************************************************************)
EXTENDS Terminal, SequenceTheorems, TLAPS

\* Cells may hold anything.
IsScreen(d) ==
  /\ d.cells = [p \in Cell |-> d.cells[p]]
  /\ d.pos \in Cell

\* The cell n places before the cursor.
Behind(d, n) == d.cells[d.pos - n]

----------------------------------------------------------------------------
LEMMA Sizes ==
  /\ CRT_COLS \in Nat \ {0} /\ CRT_SIZE \in Nat /\ CRT_COLS < CRT_SIZE
<1>1. CRT_COLS \in Nat \ {0} /\ CRT_ROWS \in Nat /\ CRT_ROWS >= 2
  BY SizeAssumption DEF SizeAssumption
<1>2. CRT_ROWS * CRT_COLS \in Nat /\ CRT_ROWS * CRT_COLS >= 2 * CRT_COLS
  BY <1>1
<1> QED
  BY <1>1, <1>2 DEF CRT_SIZE

\* A cursor past the end comes back by a line, and the lines with it.
LEMMA ScrolledCells ==
  ASSUME NEW w, w = [p \in Cell |-> w[p]], NEW q \in Nat, q < CRT_SIZE + CRT_COLS,
         NEW e, e = Scrolled([cells |-> w, pos |-> q])
  PROVE  /\ IsScreen(e)
         /\ q < CRT_SIZE => e.pos = q /\ e.cells = w
         /\ ~(q < CRT_SIZE) =>
              /\ e.pos = q - CRT_COLS
              /\ \A p \in Cell : p < CRT_SIZE - CRT_COLS => e.cells[p] = w[p + CRT_COLS]
<1>1. CRT_COLS \in Nat \ {0} /\ CRT_SIZE \in Nat /\ CRT_COLS < CRT_SIZE /\ Cell = 0..CRT_SIZE-1
  BY Sizes DEF Cell
<1> DEFINE g == [cells |-> w, pos |-> q]
           v == [p \in Cell |-> IF p < CRT_SIZE - CRT_COLS THEN g.cells[p + CRT_COLS] ELSE " "]
<1>2. g.cells = w /\ g.pos = q
  OBVIOUS
<1>3. e = IF g.pos < CRT_SIZE THEN g ELSE [cells |-> v, pos |-> g.pos - CRT_COLS]
  BY DEF Scrolled
<1> HIDE DEF g
<1>4. /\ v = [p \in Cell |-> v[p]]
      /\ \A p \in Cell : p < CRT_SIZE - CRT_COLS => v[p] = w[p + CRT_COLS]
  BY <1>2
<1> HIDE DEF v
<1>5. CASE q < CRT_SIZE
  <2>1. e.cells = w /\ e.pos = q
    BY <1>2, <1>3, <1>5
  <2>2. q \in Cell
    BY <1>1, <1>5
  <2> QED
    BY <1>5, <2>1, <2>2 DEF IsScreen
<1>6. CASE ~(q < CRT_SIZE)
  <2>1. e.cells = v /\ e.pos = q - CRT_COLS
    BY <1>2, <1>3, <1>6
  <2>2. q - CRT_COLS \in Cell
    BY <1>1, <1>6
  <2> QED
    BY <1>4, <1>6, <2>1, <2>2 DEF IsScreen
<1> QED
  BY <1>5, <1>6

\* A glyph is written behind the cursor, and what was behind it moves by one.
LEMMA GlyphBehind ==
  ASSUME NEW d, IsScreen(d), NEW c
  PROVE  /\ IsScreen(Glyph(d, c))
         /\ Glyph(d, c).pos >= 1 /\ Behind(Glyph(d, c), 1) = c
         /\ \A n \in 1..d.pos :
              n < CRT_SIZE - CRT_COLS =>
                n + 1 <= Glyph(d, c).pos /\ Behind(Glyph(d, c), n + 1) = Behind(d, n)
<1> DEFINE w == [d.cells EXCEPT ![d.pos] = c]
           e == Glyph(d, c)
           x == d.pos
<1>1. /\ CRT_COLS \in Nat \ {0} /\ CRT_SIZE \in Nat /\ CRT_COLS < CRT_SIZE
      /\ x \in Nat /\ x < CRT_SIZE /\ Cell = 0..CRT_SIZE-1
  BY Sizes DEF IsScreen, Cell
<1>2. /\ w = [p \in Cell |-> w[p]] /\ w[x] = c
      /\ \A p \in Cell : p # x => w[p] = d.cells[p]
  BY DEF IsScreen
<1>3. e = Scrolled([cells |-> w, pos |-> x + 1])
  BY DEF Glyph
<1>4. \A n : Behind(d, n) = d.cells[x - n] /\ Behind(e, n) = e.cells[e.pos - n]
  BY DEF Behind
<1> HIDE DEF w, e, x
<1>5. /\ IsScreen(e)
      /\ x + 1 < CRT_SIZE => e.pos = x + 1 /\ e.cells = w
      /\ ~(x + 1 < CRT_SIZE) =>
           /\ e.pos = (x + 1) - CRT_COLS
           /\ \A p \in Cell : p < CRT_SIZE - CRT_COLS => e.cells[p] = w[p + CRT_COLS]
  <2> DEFINE q == x + 1
  <2>1. q \in Nat /\ q < CRT_SIZE + CRT_COLS
    BY <1>1
  <2>2. w = [p \in Cell |-> w[p]]
    BY <1>2
  <2>3. e = Scrolled([cells |-> w, pos |-> q])
    BY <1>3
  <2> HIDE DEF q
  <2>4. /\ IsScreen(e)
        /\ q < CRT_SIZE => e.pos = q /\ e.cells = w
        /\ ~(q < CRT_SIZE) =>
             /\ e.pos = q - CRT_COLS
             /\ \A p \in Cell : p < CRT_SIZE - CRT_COLS => e.cells[p] = w[p + CRT_COLS]
    BY <2>1, <2>2, <2>3, ScrolledCells
  <2> QED
    BY <2>4, Zenon DEF q
\* The cell n + 1 places before the new cursor holds what w has n places before the old one.
<1>6. ASSUME NEW n \in 0..x, n < CRT_SIZE - CRT_COLS
      PROVE  n + 1 <= e.pos /\ e.cells[e.pos - (n + 1)] = w[x - n]
  <2>1. CASE x + 1 < CRT_SIZE
    <3>1. n + 1 <= x + 1 /\ x + 1 - (n + 1) = x - n
      BY <1>1
    <3>2. e.pos = x + 1 /\ e.cells = w
      BY <1>5, <2>1
    <3> QED
      BY <1>1, <3>1, <3>2
  <2>2. CASE ~(x + 1 < CRT_SIZE)
    <3> DEFINE p == (x + 1) - CRT_COLS - (n + 1)
    <3>1. x + 1 = CRT_SIZE
      BY <1>1, <2>2
    <3>2. /\ p \in Cell /\ p < CRT_SIZE - CRT_COLS /\ p + CRT_COLS = x - n
          /\ n + 1 <= (x + 1) - CRT_COLS
      BY <1>1, <1>6, <3>1
    <3> HIDE DEF p
    <3>3. e.cells[p] = w[p + CRT_COLS] /\ e.pos = (x + 1) - CRT_COLS
      BY <1>5, <2>2, <3>2
    <3>4. e.cells[p] = w[x - n] /\ e.pos - (n + 1) = p
      BY <1>1, <3>2, <3>3 DEF p
    <3> QED
      BY <3>2, <3>3, <3>4
  <2> QED
    BY <2>1, <2>2
<1>7. e.pos >= 1 /\ Behind(e, 1) = c
  <2>1. 0 \in 0..x /\ 0 < CRT_SIZE - CRT_COLS /\ x - 0 = x /\ 0 + 1 = 1
    BY <1>1
  <2>2. 1 <= e.pos /\ e.cells[e.pos - 1] = w[x]
    BY <1>6, <2>1
  <2>3. e.pos \in Nat
    BY <1>1, <1>5 DEF IsScreen
  <2> QED
    BY <1>2, <1>4, <2>2, <2>3
<1>8. ASSUME NEW n \in 1..x, n < CRT_SIZE - CRT_COLS
      PROVE  n + 1 <= e.pos /\ Behind(e, n + 1) = Behind(d, n)
  <2>1. n \in 0..x /\ x - n \in Cell /\ x - n # x
    BY <1>1
  <2> QED
    BY <1>2, <1>4, <1>6, <1>8, <2>1
<1> QED
  BY <1>5, <1>7, <1>8 DEF e, x

\* Erasing brings back what was behind the erased cell.
LEMMA BackspaceBehind ==
  ASSUME NEW d, IsScreen(d)
  PROVE  /\ IsScreen(Backspace(d))
         /\ d.pos > 0 => Backspace(d).pos = d.pos - 1
         /\ \A n \in 1..d.pos-1 : Behind(Backspace(d), n) = Behind(d, n + 1)
<1>1. d.pos \in Nat /\ d.pos < CRT_SIZE /\ CRT_SIZE \in Nat /\ Cell = 0..CRT_SIZE-1
  BY Sizes DEF IsScreen, Cell
<1>2. CASE d.pos = 0
  BY <1>1, <1>2 DEF Backspace, IsScreen
<1>3. CASE d.pos # 0
  <2> DEFINE w == [d.cells EXCEPT ![d.pos - 1] = " "]
             e == Backspace(d)
  <2>0. /\ w = [p \in Cell |-> w[p]]
        /\ \A p \in Cell : p # d.pos - 1 => w[p] = d.cells[p]
    BY DEF IsScreen
  <2>1. e = [cells |-> w, pos |-> d.pos - 1]
    BY <1>3 DEF Backspace
  <2> HIDE DEF w, e
  <2>2. /\ e.cells = [p \in Cell |-> e.cells[p]]
        /\ \A p \in Cell : p # d.pos - 1 => e.cells[p] = d.cells[p]
        /\ e.pos = d.pos - 1
    BY <2>0, <2>1
  <2>3. ASSUME NEW n \in 1..d.pos-1
        PROVE  Behind(e, n) = Behind(d, n + 1)
    <3>1. e.pos - n = d.pos - (n + 1) /\ e.pos - n \in Cell /\ e.pos - n # d.pos - 1
      BY <1>1, <2>2
    <3> QED
      BY <2>2, <3>1 DEF Behind
  <2>4. IsScreen(e)
    BY <1>1, <1>3, <2>2 DEF IsScreen
  <2> QED
    BY <2>2, <2>3, <2>4 DEF e
<1> QED
  BY <1>2, <1>3

LEMMA LineStartBounds ==
  ASSUME NEW p \in Nat
  PROVE  LineStart(p) \in Nat /\ LineStart(p) <= p
<1>1. CRT_COLS \in Nat \ {0}
  BY Sizes
<1>2. p % CRT_COLS \in Nat /\ p % CRT_COLS <= p
  BY <1>1
<1> QED
  BY <1>2 DEF LineStart

LEMMA NewlineScreen ==
  ASSUME NEW d, IsScreen(d)
  PROVE  IsScreen(Newline(d))
<1> DEFINE q == LineStart(d.pos + CRT_COLS)
           e == Newline(d)
<1>1. /\ CRT_COLS \in Nat \ {0} /\ CRT_SIZE \in Nat /\ CRT_COLS < CRT_SIZE
      /\ d.pos \in Nat /\ d.pos < CRT_SIZE /\ Cell = 0..CRT_SIZE-1
  BY Sizes DEF IsScreen, Cell
<1>2. q \in Nat /\ q <= d.pos + CRT_COLS
  <2>1. d.pos + CRT_COLS \in Nat
    BY <1>1
  <2> QED
    BY <2>1, LineStartBounds
<1>3. e = Scrolled([cells |-> d.cells, pos |-> q])
  BY DEF Newline, Moved
<1> HIDE DEF q, e
<1>4. q < CRT_SIZE + CRT_COLS
  BY <1>1, <1>2
<1>5. d.cells = [p \in Cell |-> d.cells[p]]
  BY DEF IsScreen
<1>6. IsScreen(e)
  BY <1>2, <1>3, <1>4, <1>5, ScrolledCells
<1> QED
  BY <1>6 DEF e

\* Whatever is printed, the cursor stays on the display.
LEMMA PutScreen ==
  ASSUME NEW d, IsScreen(d), NEW c
  PROVE  IsScreen(Put(d, c))
<1>1. IsScreen(Return(d))
  <2>1. d.pos \in Nat /\ d.pos < CRT_SIZE /\ CRT_SIZE \in Nat
    BY Sizes DEF IsScreen, Cell
  <2>2. LineStart(d.pos) \in Cell
    BY <2>1, LineStartBounds DEF Cell
  <2>3. Return(d).cells = d.cells /\ Return(d).pos = LineStart(d.pos)
    BY DEF Return, Moved
  <2> QED
    BY <2>2, <2>3 DEF IsScreen
<1>2. IsScreen(Tab(d))
  <2>1. \A e : IsScreen(e) => IsScreen(Space(e))
    BY GlyphBehind DEF Space
  <2> HIDE DEF IsScreen
  <2> QED
    BY <2>1 DEF Tab
<1>3. IsScreen(Newline(d)) /\ IsScreen(Backspace(d)) /\ IsScreen(Glyph(d, c))
  BY NewlineScreen, BackspaceBehind, GlyphBehind
<1> QED
  BY <1>1, <1>2, <1>3 DEF Put

----------------------------------------------------------------------------
(* The inductive invariant.                                                *)

\* The line is a sequence and leaves room for the 0 at its end.
Line == Len(buf) \in Nat /\ (\E S : buf \in Seq(S)) /\ Len(buf) < BUFLEN

\* Character j of the line is as far behind the cursor as it is from the end of the line.
Visible ==
  /\ Len(buf) + 1 <= screen.pos
  /\ Behind(screen, Len(buf) + 1) = Prompt
  /\ \A n \in 1..Len(buf) : Behind(screen, n) = buf[Len(buf) - n + 1]

TermInv == IsScreen(screen) /\ Line /\ (where = "line" => Visible)

LEMMA Limits ==
  /\ BUFLEN \in Nat \ {0} /\ BUFLEN <= CRT_SIZE - CRT_COLS
  /\ CRT_SIZE \in Nat /\ CRT_COLS \in Nat \ {0}
BY Sizes, LineAssumption DEF LineAssumption

LEMMA EmptyLine == Len(<<>>) = 0 /\ \E S : <<>> \in Seq(S)
OBVIOUS

\* The invariant holds before the first prompt.
THEOREM InitTerm == Init => TermInv
<1> SUFFICES ASSUME Init PROVE TermInv
  OBVIOUS
<1>1. PICK p \in Cell : screen = Blank(p)
  BY DEF Init
<1>2. IsScreen(screen)
  BY <1>1 DEF Blank, IsScreen
<1>3. Line
  BY EmptyLine, Limits DEF Init, Line
<1> QED
  BY <1>2, <1>3 DEF TermInv, Init

\* The prompt is shown and the line is empty.
LEMMA AskInv ==
  ASSUME TermInv, Ask
  PROVE  TermInv'
<1>1. screen' = Glyph(screen, Prompt)
  BY LineAssumption DEF Ask, Put, LineAssumption, Printable, Control
<1>2. /\ IsScreen(screen') /\ screen'.pos >= 1 /\ Behind(screen', 1) = Prompt
      /\ screen'.pos \in Nat
  BY <1>1, GlyphBehind, Sizes DEF TermInv, IsScreen, Cell
<1>3. buf' = <<>> /\ Len(buf') = 0
  BY DEF Ask
<1>4. Line'
  BY <1>3, EmptyLine, Limits DEF Line
<1>5. Visible'
  BY <1>2, <1>3 DEF Visible, Behind
<1> QED
  BY <1>2, <1>4, <1>5 DEF TermInv, IsScreen

LEMMA StoreInv ==
  ASSUME TermInv, Store
  PROVE  TermInv'
<1> DEFINE n == Len(buf)
<1>1. /\ IsScreen(screen) /\ Line /\ Visible
      /\ screen' = Glyph(screen, Typed) /\ buf' = Append(buf, Typed)
      /\ n < BUFLEN - 1
  BY DEF TermInv, Store, Gets, Fits, Put, Printable, Control
<1>2. PICK S : buf \in Seq(S)
  BY <1>1 DEF Line
<1>3. /\ buf \in Seq(S \cup {Typed}) /\ n \in Nat
  BY <1>2
<1>4. /\ Len(buf') = n + 1 /\ buf' \in Seq(S \cup {Typed})
      /\ buf'[n + 1] = Typed
      /\ \A j \in 1..n : buf'[j] = buf[j]
  BY <1>1, <1>3
<1> HIDE DEF n
<1>5. Line'
  BY <1>1, <1>3, <1>4, Limits DEF Line
<1>6. /\ IsScreen(screen') /\ screen'.pos >= 1 /\ Behind(screen', 1) = Typed
      /\ \A m \in 1..screen.pos :
           m < CRT_SIZE - CRT_COLS =>
             m + 1 <= screen'.pos /\ Behind(screen', m + 1) = Behind(screen, m)
  BY <1>1, GlyphBehind
<1>7. screen.pos \in Nat
  BY <1>1, Sizes DEF IsScreen, Cell
<1>8. ASSUME NEW m \in 1..n+1
      PROVE  m + 1 <= screen'.pos /\ Behind(screen', m + 1) = Behind(screen, m)
  BY <1>1, <1>3, <1>6, <1>7, <1>8, Limits DEF Visible, n
<1>9. Visible'
  <2>1. Behind(screen', n + 2) = Prompt /\ n + 2 <= screen'.pos
    <3>1. n + 1 \in 1..n+1 /\ n + 1 + 1 = n + 2
      BY <1>3
    <3>2. Behind(screen, n + 1) = Prompt
      BY <1>1 DEF Visible, n
    <3> QED
      BY <1>8, <3>1, <3>2
  <2>2. ASSUME NEW m \in 1..n+1
        PROVE  Behind(screen', m) = buf'[(n + 1) - m + 1]
    <3>1. CASE m = 1
      BY <1>3, <1>4, <1>6, <3>1
    <3>2. CASE m # 1
      <4>1. m - 1 \in 1..n /\ (m - 1) + 1 = m /\ n - (m - 1) + 1 = (n + 1) - m + 1
            /\ (n + 1) - m + 1 \in 1..n /\ m - 1 \in 1..n+1
        BY <1>3, <3>2
      <4>2. Behind(screen', m) = Behind(screen, m - 1)
        BY <1>8, <4>1
      <4>3. Behind(screen, m - 1) = buf[n - (m - 1) + 1]
        BY <1>1, <4>1 DEF Visible, n
      <4> QED
        BY <1>4, <4>1, <4>2, <4>3
    <3> QED
      BY <3>1, <3>2
  <2>3. Len(buf') = n + 1 /\ n + 1 + 1 = n + 2
    BY <1>3, <1>4
  <2>4. Len(buf') + 1 <= screen'.pos /\ Behind(screen', Len(buf') + 1) = Prompt
    BY <2>1, <2>3
  <2>5. \A m \in 1..Len(buf') : Behind(screen', m) = buf'[Len(buf') - m + 1]
    BY <2>2, <2>3
  <2> QED
    BY <2>4, <2>5 DEF Visible, Behind
<1> QED
  BY <1>5, <1>6, <1>9 DEF TermInv, IsScreen

LEMMA EraseInv ==
  ASSUME TermInv, Erase
  PROVE  TermInv'
<1> DEFINE n == Len(buf)
<1>1. /\ IsScreen(screen) /\ Line /\ Visible
      /\ screen' = Backspace(screen) /\ buf' = Front(buf) /\ buf # <<>>
  BY DEF TermInv, Erase, Gets, ErasesLast, Put
<1>2. PICK S : buf \in Seq(S)
  BY <1>1 DEF Line
<1>3. n \in Nat /\ n # 0 /\ n < BUFLEN
  BY <1>1, <1>2 DEF Line
<1>4. buf' = SubSeq(buf, 1, n - 1)
  BY <1>1 DEF Front
<1>5. /\ Len(buf') = n - 1 /\ buf' \in Seq(S)
      /\ \A j \in 1..n-1 : buf'[j] = buf[j]
  <2>1. \A j \in 1..n-1 : buf[j] \in S
    BY <1>2, <1>3
  <2>2. n - 1 \in Int /\ 1 \in Int /\ (1 <= n - 1 => n - 1 - 1 + 1 = n - 1)
        /\ (~(1 <= n - 1) => n - 1 = 0) /\ 1..n-1-1+1 = 1..n-1
    BY <1>3
  <2> HIDE DEF n
  <2>3. /\ buf' \in Seq(S)
        /\ Len(buf') = IF 1 <= n - 1 THEN n - 1 - 1 + 1 ELSE 0
        /\ \A j \in 1..n-1-1+1 : buf'[j] = buf[1 + j - 1]
    BY <1>4, <2>1, <2>2, SubSeqProperties
  <2> QED
    BY <2>2, <2>3
<1> HIDE DEF n
<1>6. Line'
  BY <1>3, <1>5, Limits DEF Line
<1>7. screen.pos \in Nat /\ n + 1 <= screen.pos
  BY <1>1, Sizes DEF IsScreen, Cell, Visible, n
<1>8. /\ IsScreen(screen') /\ screen'.pos = screen.pos - 1
      /\ \A m \in 1..screen.pos-1 : Behind(screen', m) = Behind(screen, m + 1)
  BY <1>1, <1>3, <1>7, BackspaceBehind
<1>9. Visible'
  <2>1. Behind(screen', n) = Prompt /\ n <= screen'.pos
    <3>1. n \in 1..screen.pos-1
      BY <1>3, <1>7
    <3>2. Behind(screen, n + 1) = Prompt
      BY <1>1 DEF Visible, n
    <3> QED
      BY <1>3, <1>7, <1>8, <3>1, <3>2
  <2>2. ASSUME NEW m \in 1..n-1
        PROVE  Behind(screen', m) = buf'[n - 1 - m + 1]
    <3>1. m \in 1..screen.pos-1 /\ m + 1 \in 1..n /\ n - (m + 1) + 1 = n - 1 - m + 1
          /\ n - 1 - m + 1 \in 1..n-1
      BY <1>3, <1>7
    <3>2. Behind(screen, m + 1) = buf[n - (m + 1) + 1]
      BY <1>1, <3>1 DEF Visible, n
    <3> QED
      BY <1>5, <1>8, <3>1, <3>2
  <2>3. Len(buf') + 1 = n
    BY <1>3, <1>5
  <2> QED
    BY <1>5, <2>1, <2>2, <2>3 DEF Visible, Behind
<1> QED
  BY <1>6, <1>8, <1>9 DEF TermInv, IsScreen

\* Steps of the keyboard leave the line alone and print only before a reset.
LEMMA ReadsInv ==
  ASSUME TermInv, NEW first, NEW second, Reads(first, second), UNCHANGED buf
  PROVE  TermInv'
<1>1. \/ UNCHANGED <<where, screen>>
      \/ where' = "reset" /\ screen' = Put(Put(screen, "R"), "\n")
  BY DEF Reads
<1>2. CASE UNCHANGED <<where, screen>>
  BY <1>2 DEF TermInv, IsScreen, Line, Visible, Behind
<1>3. CASE where' = "reset" /\ screen' = Put(Put(screen, "R"), "\n")
  <2>1. IsScreen(screen)
    BY DEF TermInv
  <2>2. IsScreen(Put(screen, "R"))
    BY <2>1, PutScreen
  <2>3. IsScreen(screen')
    BY <1>3, <2>2, PutScreen
  <2> QED
    BY <1>3, <2>3 DEF TermInv, IsScreen, Line
<1> QED
  BY <1>1, <1>2, <1>3

\* Keys, readline and whatever is printed preserve it.
THEOREM StepTerm == TermInv /\ [Next]_vars => TermInv'
<1> SUFFICES ASSUME TermInv, [Next]_vars PROVE TermInv'
  OBVIOUS
<1>0. IsScreen(screen) /\ Line
  BY DEF TermInv
<1>1. ASSUME NEW key \in Key, Press(key) PROVE TermInv'
  <2>1. PICK f \in Fakes(key) : Reads(f[1], Code(key))
    BY <1>1 DEF Press
  <2> QED
    BY <1>1, <2>1, ReadsInv DEF Press
<1>2. ASSUME NEW key \in Key, Lift(key) PROVE TermInv'
  <2>1. PICK f \in Fakes(key) : Reads(Break(key), f[2])
    BY <1>2 DEF Lift
  <2> QED
    BY <1>2, <2>1, ReadsInv DEF Lift
<1>3. ASSUME NEW c \in SerialChar, SerialReceives(c) PROVE TermInv'
  BY <1>3 DEF SerialReceives, TermInv, IsScreen, Line, Visible, Behind
<1>4. CASE Ask
  BY <1>4, AskInv
<1>5. CASE Erase
  BY <1>5, EraseInv
<1>6. CASE Store
  BY <1>6, StoreInv
<1>7. CASE Enter
  <2>1. IsScreen(screen')
    BY <1>0, <1>7, PutScreen DEF Enter
  <2>2. Line'
    BY <1>7, EmptyLine, Limits DEF Enter, Line
  <2> QED
    BY <1>7, <2>1, <2>2 DEF Enter, TermInv, IsScreen
<1>8. CASE Ignore
  BY <1>8 DEF Ignore, TermInv, IsScreen, Line, Visible, Behind
<1>9. ASSUME NEW c \in Output, Prints(c) PROVE TermInv'
  <2>1. IsScreen(screen')
    BY <1>0, <1>9, PutScreen DEF Prints
  <2> QED
    BY <1>0, <1>9, <2>1 DEF Prints, TermInv, IsScreen, Line
<1>10. CASE Rebooted \/ UNCHANGED vars
  BY <1>10 DEF Rebooted, vars, TermInv, IsScreen, Line, Visible, Behind
<1> QED
  BY <1>1, <1>2, <1>3, <1>4, <1>5, <1>6, <1>7, <1>8, <1>9, <1>10 DEF Next

LEMMA TermAlways == Spec => []TermInv
<1> QED
  BY InitTerm, StepTerm, PTL DEF Spec

----------------------------------------------------------------------------
(* readline's line is on the display, up to the cursor, however it wraps   *)
(* and scrolls, if it fits into all lines but one.                         *)
THEOREM LineIsShown == Spec => []LineShown
<1>1. TermInv => LineShown
  <2> SUFFICES ASSUME TermInv, where = "line" PROVE LineShown
    BY DEF LineShown
  <2> DEFINE n == Len(buf)
             line == <<Prompt>> \o buf
  <2>1. IsScreen(screen) /\ Line /\ Visible
    BY DEF TermInv
  <2>2. PICK S : buf \in Seq(S)
    BY <2>1 DEF Line
  <2>3. buf \in Seq(S \cup {Prompt}) /\ <<Prompt>> \in Seq(S \cup {Prompt}) /\ n \in Nat
    BY <2>2
  <2>4. /\ Len(line) = n + 1 /\ DOMAIN line = 1..n+1
        /\ line[1] = Prompt
        /\ \A j \in 2..n+1 : line[j] = buf[j - 1]
    BY <2>3
  <2> HIDE DEF n, line
  <2>5. screen.pos \in Nat
    BY <2>1, Sizes DEF IsScreen, Cell
  <2>6. ASSUME NEW j \in 1..n+1
        PROVE  screen.cells[screen.pos - (n + 1) + j - 1] = line[j]
    <3>1. screen.pos - (n + 1) + j - 1 = screen.pos - (n + 2 - j)
      BY <2>3, <2>5
    <3>2. CASE j = 1
      <4>1. n + 2 - j = n + 1
        BY <2>3, <3>2
      <4> QED
        BY <2>1, <2>4, <3>1, <3>2, <4>1 DEF Visible, Behind, n
    <3>3. CASE j # 1
      <4>1. n + 2 - j \in 1..n /\ n - (n + 2 - j) + 1 = j - 1 /\ j \in 2..n+1
        BY <2>3, <3>3
      <4>2. Behind(screen, n + 2 - j) = buf[j - 1]
        BY <2>1, <4>1 DEF Visible, n
      <4> QED
        BY <2>4, <3>1, <4>1, <4>2 DEF Behind
    <3> QED
      BY <3>2, <3>3
  <2>7. n + 1 <= screen.pos
    BY <2>1 DEF Visible, n
  <2> QED
    BY <2>4, <2>6, <2>7 DEF LineShown, line
<1> QED
  BY <1>1, TermAlways, PTL

\* The cursor never leaves the display, whatever is printed.
THEOREM CursorStays == Spec => []CursorOnDisplay
<1>1. TermInv => CursorOnDisplay
  BY DEF TermInv, IsScreen, CursorOnDisplay
<1> QED
  BY <1>1, TermAlways, PTL

----------------------------------------------------------------------------
(* The shift state.                                                        *)

LEMMA ModsAreModifiers ==
  ASSUME NEW key
  PROVE  /\ Mods(key) \subseteq Modifier
         /\ "E0ESC" \notin Mods(key)
<1> DEFINE data == Make[key] + (IF key \in Extended THEN 128 ELSE 0)
<1>1. Mods(key) = IF data \in DOMAIN shiftcode THEN shiftcode[data] ELSE {}
  BY DEF Mods, Entry
<1> HIDE DEF data
<1> QED
  BY <1>1 DEF shiftcode, Modifier

LEMMA TakeFields ==
  ASSUME NEW s, NEW byte
  PROVE  /\ Take(s, byte).shift = Proc(s.shift, byte).shift
         /\ Take(s, byte).reset <=>
              s.reset \/ Reboots(Proc(s.shift, byte).shift, Proc(s.shift, byte).c)
BY DEF Take

LEMMA TakeEscape ==
  ASSUME NEW s
  PROVE  /\ Take(s, 224).shift = s.shift \cup {"E0ESC"}
         /\ Take(s, 224).reset => s.reset
<1>1. Proc(s.shift, 224) = [shift |-> s.shift \cup {"E0ESC"}, c |-> NO]
  BY DEF Proc, E0
<1>2. ~Reboots(Proc(s.shift, 224).shift, Proc(s.shift, 224).c)
  BY <1>1 DEF Reboots, NO
<1> QED
  BY <1>1, <1>2, TakeFields

\* A release takes the escape back and the bits of the key.
LEMMA TakeReleased ==
  ASSUME NEW s, NEW byte \in 128..255, byte # 224
  PROVE  /\ Take(s, byte).shift = Released(s.shift, byte)
         /\ Take(s, byte).reset => s.reset
<1>1. Proc(s.shift, byte) = [shift |-> Released(s.shift, byte), c |-> NO]
  BY DEF Proc, E0
<1>2. ~Reboots(Proc(s.shift, byte).shift, Proc(s.shift, byte).c)
  BY <1>1 DEF Reboots, NO
<1> QED
  BY <1>1, <1>2, TakeFields

\* Only the code 211 means delete.
LEMMA DeleteCode ==
  ASSUME NEW t, NEW data \in Int, Char(t, data) = "KEY_DEL"
  PROVE  data = 211
<1> DEFINE c == Entry(charcode(t), data, NO)
<1>1. c = "KEY_DEL"
  BY DEF Char, Swapped
<1>2. charcode(t) \in {ctlmap, shiftmap, normalmap}
  BY DEF charcode
<1>3. CASE charcode(t) = ctlmap
  BY <1>1, <1>3 DEF Entry, ctlmap, NO
<1>4. CASE charcode(t) = shiftmap
  BY <1>1, <1>4 DEF Entry, shiftmap, plain, NO
<1>5. CASE charcode(t) = normalmap
  BY <1>1, <1>5 DEF Entry, normalmap, plain, NO
<1> QED
  BY <1>2, <1>3, <1>4, <1>5

\* A press takes the escape back, too; it adds the bits of the key.
Adds(s, u, bits, data) ==
  /\ "E0ESC" \notin u.shift
  /\ \A m \in Modifier : m \in u.shift <=> m \in s.shift \/ m \in bits
  /\ u.reset => \/ s.reset
                \/ {"CTL", "ALT"} \subseteq u.shift /\ data = 211

LEMMA TakePressed ==
  ASSUME NEW s, NEW byte \in 0..127,
         NEW data, data = IF "E0ESC" \in s.shift THEN byte + 128 ELSE byte,
         NEW bits, bits = Entry(shiftcode, data, {}), "E0ESC" \notin bits,
         NEW u, u = Take(s, byte)
  PROVE  Adds(s, u, bits, data)
<1> DEFINE t == Pressed(s.shift, data)
<1>1. Proc(s.shift, byte) = [shift |-> t, c |-> Char(t, data)]
  BY DEF Proc, E0
<1>2. Entry(togglecode, data, {}) \in {{}, {"CAPSLOCK"}}
  BY DEF Entry, togglecode
<1>3. /\ "E0ESC" \notin t
      /\ \A m \in Modifier : m \in t <=> m \in s.shift \/ m \in bits
  BY <1>2 DEF Pressed, SymmetricDifference, Modifier
<1>4. u.shift = t
  BY <1>1, TakeFields
<1>5. u.reset => s.reset \/ Reboots(t, Char(t, data))
  BY <1>1, TakeFields
<1>6. data \in Int
  OBVIOUS
<1> HIDE DEF t
<1> QED
  BY <1>3, <1>4, <1>5, <1>6, DeleteCode DEF Reboots, Adds

\* What a pretended shift key sends changes nothing.
LEMMA FakeTaken ==
  ASSUME NEW s, "E0ESC" \notin s.shift, NEW f \in {<<>>, FakeUp, FakeDown}
  PROVE  /\ Takes(s, f).shift = s.shift
         /\ Takes(s, f).reset => s.reset
<1> DEFINE e == Take(s, 224)
<1>1. e.shift = s.shift \cup {"E0ESC"} /\ (e.reset => s.reset)
  BY TakeEscape
<1>2. CASE f = <<>>
  BY <1>2 DEF Takes
<1>3. CASE f = FakeUp
  <2>1. Takes(s, f) = Take(e, 170)
    BY <1>3 DEF Takes, FakeUp, E0
  <2> HIDE DEF e
  <2>2. Released(e.shift, 170) = s.shift
    BY <1>1 DEF Released, Entry, shiftcode
  <2>3. 170 \in 128..255 /\ 170 # 224
    OBVIOUS
  <2>4. /\ Take(e, 170).shift = Released(e.shift, 170)
        /\ Take(e, 170).reset => e.reset
    BY <2>3, TakeReleased
  <2> QED
    BY <1>1, <2>1, <2>2, <2>4
<1>4. CASE f = FakeDown
  <2>1. Takes(s, f) = Take(e, 42)
    BY <1>4 DEF Takes, FakeDown, E0
  <2> HIDE DEF e
  <2>2. Proc(e.shift, 42) = [shift |-> Pressed(e.shift, 170), c |-> Char(Pressed(e.shift, 170), 170)]
    BY <1>1 DEF Proc, E0
  <2>3. Pressed(e.shift, 170) = s.shift
    BY <1>1 DEF Pressed, Entry, shiftcode, togglecode, SymmetricDifference
  <2>4. ~Reboots(Pressed(e.shift, 170), Char(Pressed(e.shift, 170), 170))
    BY DeleteCode DEF Reboots
  <2>5. /\ Take(e, 42).shift = Pressed(e.shift, 170)
        /\ Take(e, 42).reset => e.reset
    BY <2>2, <2>4, TakeFields
  <2> QED
    BY <1>1, <2>1, <2>3, <2>5
<1> QED
  BY <1>2, <1>3, <1>4

\* A key that goes down sets its modifier.
LEMMA CodeTaken ==
  ASSUME NEW s, "E0ESC" \notin s.shift, NEW key \in Key,
         NEW t, t = Takes(s, Code(key))
  PROVE  /\ "E0ESC" \notin t.shift
         /\ \A m \in Modifier : m \in t.shift <=> m \in s.shift \/ m \in Mods(key)
         /\ t.reset => \/ s.reset
                       \/ /\ {"CTL", "ALT"} \subseteq t.shift
                          /\ key \in Extended /\ Make[key] = 83
<1> DEFINE b == Make[key]
           e == Take(s, 224)
<1>1. b \in 1..127 \ {96} /\ b \in 0..127
  BY KeyAssumption DEF KeyAssumption
<1>2. "E0ESC" \notin Mods(key)
  BY ModsAreModifiers
<1>3. e.shift = s.shift \cup {"E0ESC"} /\ (e.reset => s.reset)
  BY TakeEscape
<1>4. CASE key \in Extended
  <2>1. t = Take(e, b)
    BY <1>4 DEF Takes, Code, E0
  <2>2. Mods(key) = Entry(shiftcode, b + 128, {})
    BY <1>4 DEF Mods
  <2>3. b + 128 = 211 => b = 83
    BY <1>1
  <2> DEFINE data == b + 128
  <2>4. data = IF "E0ESC" \in e.shift THEN b + 128 ELSE b
    BY <1>3
  <2> HIDE DEF e, data
  <2>5. Adds(e, t, Mods(key), data)
    <3>1. Mods(key) = Entry(shiftcode, data, {})
      BY <2>2 DEF data
    <3>2. b \in 0..127
      BY <1>1
    <3> HIDE DEF b
    <3> QED
      BY <1>2, <2>1, <2>4, <3>1, <3>2, TakePressed
  <2>6. \A m \in Modifier : m # "E0ESC"
    BY DEF Modifier
  <2> QED
    BY <1>3, <1>4, <2>3, <2>5, <2>6 DEF data, Adds
<1>5. CASE key \notin Extended
  <2>1. t = Take(s, b)
    BY <1>5 DEF Takes, Code
  <2>2. Mods(key) = Entry(shiftcode, b, {})
    <3>1. b + 0 = b
      BY <1>1
    <3> QED
      BY <1>5, <3>1 DEF Mods
  <2>3. b = IF "E0ESC" \in s.shift THEN b + 128 ELSE b
    OBVIOUS
  <2>4. b # 211
    BY <1>1
  <2>5. b \in 0..127
    BY <1>1
  <2> HIDE DEF b
  <2>6. Adds(s, t, Mods(key), b)
    BY <1>2, <2>1, <2>2, <2>3, <2>5, TakePressed
  <2> QED
    BY <2>4, <2>6 DEF Adds
<1> QED
  BY <1>4, <1>5

\* A key that is released clears its modifier.
LEMMA BreakTaken ==
  ASSUME NEW s, "E0ESC" \notin s.shift, NEW key \in Key,
         NEW t, t = Takes(s, Break(key))
  PROVE  /\ t.shift = s.shift \ Mods(key)
         /\ t.reset => s.reset
<1> DEFINE b == Make[key]
           r == b + 128
           e == Take(s, 224)
<1>1. b \in 1..127 \ {96} /\ r \in 128..255 /\ r # 224 /\ r - 128 = b /\ b + 0 = b
  BY KeyAssumption DEF KeyAssumption
<1>3. e.shift = s.shift \cup {"E0ESC"} /\ (e.reset => s.reset)
  BY TakeEscape
<1>4. CASE key \in Extended
  <2>1. t = Take(e, r)
    BY <1>4 DEF Takes, Break, E0
  <2>2. Mods(key) = Entry(shiftcode, r, {})
    BY <1>4 DEF Mods
  <2> HIDE DEF e, r
  <2>3. Released(e.shift, r) = e.shift \ (Mods(key) \cup {"E0ESC"})
    BY <1>3, <2>2 DEF Released
  <2>4. /\ Take(e, r).shift = Released(e.shift, r)
        /\ Take(e, r).reset => e.reset
    BY <1>1, TakeReleased
  <2>5. Released(e.shift, r) = s.shift \ Mods(key)
    BY <1>3, <2>3
  <2> QED
    BY <1>3, <2>1, <2>4, <2>5
<1>5. CASE key \notin Extended
  <2>1. t = Take(s, r)
    BY <1>5 DEF Takes, Break
  <2>2. Mods(key) = Entry(shiftcode, b, {})
    BY <1>1, <1>5 DEF Mods
  <2> HIDE DEF r, b
  <2>3. Released(s.shift, r) = s.shift \ (Mods(key) \cup {"E0ESC"})
    BY <1>1, <2>2 DEF Released
  <2>4. /\ Take(s, r).shift = Released(s.shift, r)
        /\ Take(s, r).reset => s.reset
    BY <1>1, TakeReleased
  <2>5. Released(s.shift, r) = s.shift \ Mods(key)
    BY <2>3
  <2> QED
    BY <2>1, <2>4, <2>5
<1> QED
  BY <1>4, <1>5

LEMMA FakesKnown ==
  ASSUME NEW key, NEW f \in Fakes(key)
  PROVE  f[1] \in {<<>>, FakeUp, FakeDown} /\ f[2] \in {<<>>, FakeUp, FakeDown}
BY DEF Fakes

\* The keyboard before the bytes of a step.
Before == [shift |-> shift, chars |-> <<>>, reset |-> FALSE]

LEMMA ReadsFields ==
  ASSUME NEW first, NEW second, Reads(first, second)
  PROVE  /\ shift' = Takes(Takes(Before, first), second).shift
         /\ ~Takes(Takes(Before, first), second).reset => where' = where
BY DEF Reads, Before

\* What pressing a key does to the shift state.
LEMMA PressReads ==
  ASSUME "E0ESC" \notin shift, NEW key \in Key, NEW f \in Fakes(key), Reads(f[1], Code(key))
  PROVE  /\ "E0ESC" \notin shift'
         /\ \A m \in Modifier : m \in shift' <=> m \in shift \/ m \in Mods(key)
         /\ \/ where' = where
            \/ {"CTL", "ALT"} \subseteq shift' /\ key \in Extended /\ Make[key] = 83
<1> DEFINE s == Takes(Before, f[1])
           t == Takes(s, Code(key))
<1>1. Before.shift = shift /\ ~Before.reset
  BY DEF Before
<1>2. s.shift = shift /\ ~s.reset
  BY <1>1, FakesKnown, FakeTaken
<1>3. shift' = t.shift /\ (~t.reset => where' = where)
  BY ReadsFields
<1> HIDE DEF s
<1>4. /\ "E0ESC" \notin t.shift
      /\ \A m \in Modifier : m \in t.shift <=> m \in s.shift \/ m \in Mods(key)
      /\ t.reset => \/ s.reset
                    \/ /\ {"CTL", "ALT"} \subseteq t.shift
                       /\ key \in Extended /\ Make[key] = 83
  BY <1>2, CodeTaken
<1> HIDE DEF t
<1> QED
  BY <1>2, <1>3, <1>4

\* What releasing one does: never a reset.
LEMMA LiftReads ==
  ASSUME "E0ESC" \notin shift, NEW key \in Key, NEW f \in Fakes(key), Reads(Break(key), f[2])
  PROVE  shift' = shift \ Mods(key) /\ where' = where
<1> DEFINE s == Takes(Before, Break(key))
           t == Takes(s, f[2])
<1>1. Before.shift = shift /\ ~Before.reset
  BY DEF Before
<1>2. s.shift = shift \ Mods(key) /\ ~s.reset
  BY <1>1, BreakTaken
<1>3. shift' = t.shift /\ (~t.reset => where' = where)
  BY ReadsFields
<1> HIDE DEF s
<1>4. t.shift = s.shift /\ (t.reset => s.reset)
  BY <1>2, FakesKnown, FakeTaken
<1> HIDE DEF t
<1> QED
  BY <1>2, <1>3, <1>4

LEMMA HeldMods ==
  ASSUME NEW keys, NEW m
  PROVE  m \in ModsHeld(keys) <=> \E key \in keys : m \in Mods(key)
BY DEF ModsHeld

\* The keyboard's invariant holds before a key is pressed.
THEOREM InitKey == Init => KeyInv
BY HeldMods DEF Init, KeyInv, SpoiltHeld, ModifiersHeld, RebootMeant

LEMMA PressKey ==
  ASSUME KeyInv, NEW key \in Key, Press(key)
  PROVE  KeyInv'
<1>1. /\ held \subseteq Key /\ SpoiltHeld /\ ModifiersHeld /\ where # "reset"
      /\ held' = held \cup {key}
      /\ spoilt' = spoilt \cup {m \in Mods(key) : m \in ModsHeld(held \ {key})}
  BY DEF KeyInv, Press
<1>2. /\ "E0ESC" \notin shift'
      /\ \A m \in Modifier : m \in shift' <=> m \in shift \/ m \in Mods(key)
      /\ \/ where' = where
         \/ {"CTL", "ALT"} \subseteq shift' /\ key \in Extended /\ Make[key] = 83
  <2>1. PICK f \in Fakes(key) : Reads(f[1], Code(key))
    BY DEF Press
  <2> QED
    BY <1>1, <2>1, PressReads DEF ModifiersHeld
<1>3. \A m : m \in ModsHeld(held') <=> m \in ModsHeld(held) \/ m \in Mods(key)
  BY <1>1, HeldMods
<1>4. SpoiltHeld'
  <2>1. spoilt' \subseteq ModsHeld(held')
    BY <1>1, <1>3 DEF SpoiltHeld
  <2>2. ASSUME NEW k \in held', NEW l \in held', k # l, NEW m \in Mods(k) \cap Mods(l)
        PROVE  m \in spoilt'
    <3>1. CASE k \in held /\ l \in held
      BY <1>1, <2>2, <3>1 DEF SpoiltHeld
    <3>2. CASE k = key
      <4>1. l \in held \ {key}
        BY <1>1, <2>2, <3>2
      <4> QED
        BY <1>1, <2>2, <3>2, <4>1, HeldMods
    <3>3. CASE l = key
      <4>1. k \in held \ {key}
        BY <1>1, <2>2, <3>3
      <4> QED
        BY <1>1, <2>2, <3>3, <4>1, HeldMods
    <3> QED
      BY <1>1, <3>1, <3>2, <3>3
  <2>3. \A k, l \in held' : k # l => Mods(k) \cap Mods(l) \subseteq spoilt'
    BY <2>2
  <2>4. (ModsHeld(held))' = ModsHeld(held')
    BY DEF ModsHeld, Mods
  <2>5. \A k : Mods(k)' = Mods(k)
    BY DEF Mods
  <2> QED
    BY <2>1, <2>3, <2>4, <2>5 DEF SpoiltHeld
<1>5. ASSUME NEW m \in Modifier, m \notin spoilt'
      PROVE  m \in shift' <=> m \in ModsHeld(held')
  <2>1. m \in shift <=> m \in ModsHeld(held)
    BY <1>1, <1>5 DEF ModifiersHeld
  <2> QED
    BY <1>2, <1>3, <2>1
<1>6. ModifiersHeld'
  BY <1>2, <1>5 DEF ModifiersHeld, ModsHeld, Mods
<1>7. RebootMeant'
  <2> SUFFICES ASSUME where' = "reset", spoilt' = {}
               PROVE  /\ {"CTL", "ALT"} \subseteq ModsHeld(held')
                      /\ \E k \in held' \cap Extended : Make[k] = 83
    BY DEF RebootMeant, ModsHeld, Mods
  <2>1. {"CTL", "ALT"} \subseteq shift' /\ key \in Extended /\ Make[key] = 83
    BY <1>1, <1>2
  <2>2. {"CTL", "ALT"} \subseteq Modifier
    BY DEF Modifier
  <2> QED
    BY <1>1, <1>5, <2>1, <2>2
<1> QED
  BY <1>1, <1>4, <1>6, <1>7 DEF KeyInv

LEMMA LiftKey ==
  ASSUME KeyInv, NEW key \in Key, Lift(key)
  PROVE  KeyInv'
<1>1. /\ held \subseteq Key /\ SpoiltHeld /\ ModifiersHeld /\ where # "reset"
      /\ key \in held /\ held' = held \ {key}
      /\ spoilt' = spoilt \cap ModsHeld(held')
  BY DEF KeyInv, Lift
<1>2. shift' = shift \ Mods(key) /\ where' = where
  <2>1. PICK f \in Fakes(key) : Reads(Break(key), f[2])
    BY DEF Lift
  <2> QED
    BY <1>1, <2>1, LiftReads DEF ModifiersHeld
<1>3. \A m : m \in ModsHeld(held) <=> m \in ModsHeld(held') \/ m \in Mods(key)
  BY <1>1, HeldMods
<1>4. SpoiltHeld'
  <2>1. ASSUME NEW k \in held', NEW l \in held', k # l, NEW m \in Mods(k) \cap Mods(l)
        PROVE  m \in spoilt'
    BY <1>1, <2>1, HeldMods DEF SpoiltHeld
  <2>2. \A k, l \in held' : k # l => Mods(k) \cap Mods(l) \subseteq spoilt'
    BY <2>1
  <2> QED
    BY <1>1, <2>2 DEF SpoiltHeld, ModsHeld, Mods
<1>5. ASSUME NEW m \in Modifier, m \notin spoilt'
      PROVE  m \in shift' <=> m \in ModsHeld(held')
  <2>1. CASE m \in spoilt
    <3>1. m \in ModsHeld(held) /\ m \notin ModsHeld(held')
      BY <1>1, <1>5, <2>1 DEF SpoiltHeld
    <3> QED
      BY <1>2, <1>3, <3>1
  <2>2. CASE m \notin spoilt
    <3>1. m \in shift <=> m \in ModsHeld(held)
      BY <1>1, <2>2 DEF ModifiersHeld
    <3>2. m \in ModsHeld(held') => m \notin Mods(key)
      <4> SUFFICES ASSUME m \in ModsHeld(held'), m \in Mods(key) PROVE FALSE
        OBVIOUS
      <4>1. PICK k \in held' : m \in Mods(k)
        BY HeldMods
      <4> QED
        BY <1>1, <2>2, <4>1 DEF SpoiltHeld
    <3> QED
      BY <1>2, <1>3, <3>1, <3>2
  <2> QED
    BY <2>1, <2>2
<1>6. ModifiersHeld'
  BY <1>1, <1>2, <1>5 DEF ModifiersHeld, ModsHeld, Mods
<1>7. RebootMeant'
  BY <1>1, <1>2 DEF RebootMeant
<1> QED
  BY <1>1, <1>4, <1>6, <1>7 DEF KeyInv

\* No other step touches the keyboard, and none but a press resets.
LEMMA QuietKey ==
  ASSUME KeyInv, UNCHANGED kbd, where' = "reset" => where = "reset"
  PROVE  KeyInv'
BY DEF KeyInv, SpoiltHeld, ModifiersHeld, RebootMeant, ModsHeld, Mods, kbd

\* Keys preserve it, and nothing else touches the keyboard.
THEOREM StepKey == KeyInv /\ [Next]_vars => KeyInv'
<1> SUFFICES ASSUME KeyInv, [Next]_vars PROVE KeyInv'
  OBVIOUS
<1>1. ASSUME NEW key \in Key, Press(key) \/ Lift(key) PROVE KeyInv'
  BY <1>1, PressKey, LiftKey
<1>2. CASE \/ \E c \in SerialChar : SerialReceives(c)
           \/ Ask \/ Erase \/ Store \/ Enter \/ Ignore
           \/ \E c \in Output : Prints(c)
           \/ Rebooted \/ UNCHANGED vars
  <2>1. UNCHANGED kbd /\ (where' = "reset" => where = "reset")
    BY <1>2 DEF SerialReceives, Ask, Erase, Store, Enter, Ignore, Prints, Rebooted, vars, kbd
  <2> QED
    BY <2>1, QuietKey
<1> QED
  BY <1>1, <1>2 DEF Next

(* Whatever keys are pressed, repeated and released, in any order and with *)
(* any pretended shift keys, kbd_proc_data's shift agrees with the keys    *)
(* that are down.                                                          *)
THEOREM ShiftAgrees == Spec => []ModifiersHeld
<1>1. KeyInv => ModifiersHeld
  BY DEF KeyInv
<1> QED
  BY <1>1, InitKey, StepKey, PTL DEF Spec

\* Ctrl, Alt and the Delete key are down when the machine is reset.
THEOREM ResetIsMeant == Spec => []RebootMeant
<1>1. KeyInv => RebootMeant
  BY DEF KeyInv
<1> QED
  BY <1>1, InitKey, StepKey, PTL DEF Spec

============================================================================
