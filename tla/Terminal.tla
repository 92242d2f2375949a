------------------------------- MODULE Terminal -------------------------------
(***************************************************************************)
(* Someone at the keyboard and the monitor's prompt: scan codes become     *)
(* characters (Keyboard), readline (lib/readline.c) edits a line and       *)
(* echoes it, the display shows it (Display).  Between the two lies the    *)
(* queue that Console implements.                                          *)
(***************************************************************************)
EXTENDS Keyboard, Display, FiniteSets

CONSTANTS
  Key,         \* the keys in use
  Make,        \* the scan code of each, without the escape
  Extended,    \* those whose codes are escaped
  SerialChar,  \* what may arrive on the serial line
  Output,      \* the characters a command may print
  Prompt,      \* the last character of the prompt
  BUFLEN,
  MaxHeld, MaxWaiting   \* bounds: keys held together, characters typed ahead

\* Characters that move the cursor or are not shown; all others are at least ' '.
Control == {"BS", "\t", "\n", "\r", "C-a"}
Printable(c) == c \notin Control

\* The lines of the monitor: 1023 characters and the prompt fit into 24 rows.
ASSUME LineAssumption ==
  /\ BUFLEN \in Nat \ {0} /\ BUFLEN <= CRT_SIZE - CRT_COLS
  /\ Printable(Prompt)

\* Code 96 with the bit of a release would be the escape.
ASSUME KeyAssumption == \A key \in Key : Make[key] \in 1..127 \ {96}

VARIABLES
  held,     \* the keys that are down
  spoilt,   \* history: modifiers of which two keys were down, and one of them still is
  shift,    \* of kbd_proc_data
  waiting,  \* characters nobody has read yet
  buf,      \* of readline: buf[0..i-1]
  screen,   \* crt_buf and crt_pos
  where     \* "line" (in readline), "run" (printing: a command, a message, the prompt), "reset"

vars == <<held, spoilt, shift, waiting, buf, screen, where>>
kbd == <<held, spoilt, shift>>

Modifier == {"SHIFT", "CTL", "ALT"}
Mods(key) ==
  Entry(shiftcode, Make[key] + (IF key \in Extended THEN 128 ELSE 0), {})
ModsHeld(keys) == UNION {Mods(key) : key \in keys}

Init ==
  /\ held = {} /\ spoilt = {} /\ shift = {}
  /\ waiting = <<>> /\ buf = <<>>
  /\ screen \in {Blank(p) : p \in Cell}
  /\ where = "run"

----------------------------------------------------------------------------
(* The keyboard.                                                           *)

Code(key) == IF key \in Extended THEN <<E0, Make[key]>> ELSE <<Make[key]>>
Break(key) == IF key \in Extended THEN <<E0, Make[key] + 128>> ELSE <<Make[key] + 128>>

(* Around the codes of a key of the extended block that is no modifier a   *)
(* keyboard pretends that the left shift key is up, or, with its number    *)
(* lock on, that it is down.                                               *)
FakeUp == <<E0, 170>>
FakeDown == <<E0, 42>>
Fakes(key) ==
  IF key \in Extended /\ Mods(key) = {}
  THEN {<<<<>>, <<>>>>, <<FakeUp, FakeDown>>, <<FakeDown, FakeUp>>}
  ELSE {<<<<>>, <<>>>>}

(* The keyboard's bytes, read one after the other by cons_getc.  Decoding  *)
(* does not depend on when that is, but for the reset: the three keys go   *)
(* down while readline waits.                                              *)
Take(s, byte) ==
  LET p == Proc(s.shift, byte)
  IN  [shift |-> p.shift,
       chars |-> IF p.c = NO THEN s.chars ELSE Append(s.chars, p.c),
       reset |-> s.reset \/ Reboots(p.shift, p.c)]

\* A code has an escape and a byte, or a byte; the fake ones may be missing.
Takes(s, code) ==
  CASE Len(code) = 0 -> s
    [] Len(code) = 1 -> Take(s, code[1])
    [] Len(code) = 2 -> Take(Take(s, code[1]), code[2])

Reads(first, second) ==
  LET s == Takes(Takes([shift |-> shift, chars |-> <<>>, reset |-> FALSE], first), second)
  IN  /\ Len(waiting) + Len(s.chars) <= MaxWaiting
      /\ s.reset => where = "line"
      /\ shift' = s.shift
      /\ waiting' = waiting \o s.chars
      /\ IF s.reset
         THEN where' = "reset" /\ screen' = Put(Put(screen, "R"), "\n")
         ELSE UNCHANGED <<where, screen>>

\* A key goes down, or repeats.
Press(key) ==
  /\ where # "reset" /\ Cardinality(held \cup {key}) <= MaxHeld
  /\ \E f \in Fakes(key) : Reads(f[1], Code(key))
  /\ held' = held \cup {key}
  /\ spoilt' = spoilt \cup {m \in Mods(key) : m \in ModsHeld(held \ {key})}
  /\ UNCHANGED buf

Lift(key) ==
  /\ where # "reset" /\ key \in held
  /\ \E f \in Fakes(key) : Reads(Break(key), f[2])
  /\ held' = held \ {key}
  /\ spoilt' = spoilt \cap ModsHeld(held \ {key})
  /\ UNCHANGED buf

SerialReceives(c) ==
  /\ where # "reset" /\ Len(waiting) < MaxWaiting
  /\ waiting' = Append(waiting, c)
  /\ UNCHANGED <<kbd, buf, screen, where>>

----------------------------------------------------------------------------
(* readline, called by the monitor again and again.                        *)

\* cprintf of the prompt: what comes before its last character is output like any other.
Ask ==
  /\ where = "run"
  /\ screen' = Put(screen, Prompt)
  /\ buf' = <<>> /\ where' = "line"
  /\ UNCHANGED <<kbd, waiting>>

Typed == Head(waiting)
Gets == where = "line" /\ waiting # <<>> /\ waiting' = Tail(waiting)

ErasesLast == Typed \in {"BS", "DEL"} /\ buf # <<>>
Fits == Printable(Typed) /\ Len(buf) < BUFLEN - 1
Ends == Typed \in {"\n", "\r"}

Erase ==
  /\ Gets /\ ErasesLast
  /\ screen' = Put(screen, "BS")
  /\ buf' = Front(buf)
  /\ UNCHANGED <<kbd, where>>

Store ==
  /\ Gets /\ ~ErasesLast /\ Fits
  /\ screen' = Put(screen, Typed)
  /\ buf' = Append(buf, Typed)
  /\ UNCHANGED <<kbd, where>>

Enter ==
  /\ Gets /\ Ends
  /\ screen' = Put(screen, "\n")
  /\ buf' = <<>> /\ where' = "run"
  /\ UNCHANGED kbd

Ignore ==
  /\ Gets /\ ~ErasesLast /\ ~Fits /\ ~Ends
  /\ UNCHANGED <<kbd, buf, screen, where>>

\* The command prints something.
Prints(c) ==
  /\ where = "run"
  /\ screen' = Put(screen, c)
  /\ UNCHANGED <<kbd, waiting, buf, where>>

Rebooted == where = "reset" /\ UNCHANGED vars

----------------------------------------------------------------------------
Next ==
  \/ \E key \in Key : Press(key) \/ Lift(key)
  \/ \E c \in SerialChar : SerialReceives(c)
  \/ Ask \/ Erase \/ Store \/ Enter \/ Ignore
  \/ \E c \in Output : Prints(c)
  \/ Rebooted

Spec == Init /\ [][Next]_vars

----------------------------------------------------------------------------
(* While a line is edited the display shows, up to the cursor, the prompt  *)
(* and after it what readline will return, whatever lines it wraps or      *)
(* scrolls over (readline, cga_putc).                                      *)
LineShown ==
  where = "line" =>
    LET line == <<Prompt>> \o buf
    IN  /\ Len(line) <= screen.pos
        /\ \A j \in DOMAIN line : screen.cells[screen.pos - Len(line) + j - 1] = line[j]

(* Between two keys shift says which modifiers are held, as long as no two *)
(* keys of the same one were held together, and no escape is left over     *)
(* (kbd_proc_data).                                                        *)
ModifiersHeld ==
  /\ "E0ESC" \notin shift
  /\ \A m \in Modifier \ spoilt : m \in shift <=> m \in ModsHeld(held)

\* Only Ctrl-Alt-Del reboots, not the digit key that shares a scan code (kbd_proc_data).
RebootMeant ==
  where = "reset" /\ spoilt = {} =>
    /\ {"CTL", "ALT"} \subseteq ModsHeld(held)
    /\ \E key \in held \cap Extended : Make[key] = 83

\* The cursor stays on the display (cga_putc).
CursorOnDisplay == screen.pos \in Cell
(* The inductive invariant of the keyboard.                                *)

\* A modifier of which two keys are down is spoilt, and of a spoilt one a key is down.
SpoiltHeld ==
  /\ spoilt \subseteq ModsHeld(held)
  /\ \A k, l \in held : k # l => Mods(k) \cap Mods(l) \subseteq spoilt

KeyInv == held \subseteq Key /\ SpoiltHeld /\ ModifiersHeld /\ RebootMeant
=============================================================================
