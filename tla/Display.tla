------------------------------- MODULE Display -------------------------------
(***************************************************************************)
(* The text display (cga_putc of console.c): a screen is its cells and the *)
(* position of the cursor; every operator is from screens to screens.      *)
(***************************************************************************)
EXTENDS Integers

CONSTANTS CRT_ROWS, CRT_COLS

ASSUME SizeAssumption == CRT_ROWS \in Nat \ {0, 1} /\ CRT_COLS \in Nat \ {0}

CRT_SIZE == CRT_ROWS * CRT_COLS
Cell == 0..CRT_SIZE-1

\* cga_init takes the cursor from where the firmware left it.
Blank(p) == [cells |-> [q \in Cell |-> " "], pos |-> p]

\* The last line scrolls in.
Scrolled(d) ==
  IF d.pos < CRT_SIZE THEN d
  ELSE [cells |-> [p \in Cell |-> IF p < CRT_SIZE - CRT_COLS THEN d.cells[p + CRT_COLS] ELSE " "],
        pos |-> d.pos - CRT_COLS]

Glyph(d, c) == Scrolled([cells |-> [d.cells EXCEPT ![d.pos] = c], pos |-> d.pos + 1])

\* The cursor does not go back to the line above.
WrongBackspace(d) ==
  IF d.pos % CRT_COLS = 0 THEN d
  ELSE [cells |-> [d.cells EXCEPT ![d.pos - 1] = " "], pos |-> d.pos - 1]

Backspace(d) ==
  IF d.pos = 0 THEN d
  ELSE [cells |-> [d.cells EXCEPT ![d.pos - 1] = " "], pos |-> d.pos - 1]

LineStart(p) == p - (p % CRT_COLS)

Moved(d, p) == [cells |-> d.cells, pos |-> p]

Return(d) == Moved(d, LineStart(d.pos))

\* The last line does not scroll.
WrongNewline(d) == Moved(d, LineStart(d.pos + CRT_COLS))

Newline(d) == Scrolled(Moved(d, LineStart(d.pos + CRT_COLS)))

Space(d) == Glyph(d, " ")
Tab(d) == Space(Space(Space(Space(Space(d)))))

Put(d, c) ==
  CASE c = "BS" -> Backspace(d)
    [] c = "\n" -> Newline(d)
    [] c = "\r" -> Return(d)
    [] c = "\t" -> Tab(d)
    [] OTHER -> Glyph(d, c)
=============================================================================
