------------------------------- MODULE Keyboard -------------------------------
(***************************************************************************)
(* Scan codes to characters (kbd_proc_data of console.c).  A state of the  *)
(* function is its variable shift, as the set of its bits; NO is the       *)
(* character 0.  The tables hold the keys that matter to the shift state,  *)
(* one letter, and the keys readline or the function itself looks for.     *)
(***************************************************************************)
EXTENDS Integers, Sequences, SequencesExt

NO == "NO"

shiftcode ==
  [data \in {29, 42, 54, 56, 157, 184} |->
    CASE data \in {29, 157} -> {"CTL"} [] data \in {42, 54} -> {"SHIFT"} [] OTHER -> {"ALT"}]
togglecode == [data \in {58} |-> {"CAPSLOCK"}]

\* Alike in normalmap and shiftmap.
plain == [data \in {28, 14, 83, 211} |->
  CASE data = 28 -> "\n" [] data = 14 -> "BS" [] data = 83 -> "." [] OTHER -> "KEY_DEL"]

normalmap == [data \in {30} \cup DOMAIN plain |-> IF data = 30 THEN "a" ELSE plain[data]]
shiftmap == [data \in {30} \cup DOMAIN plain |-> IF data = 30 THEN "A" ELSE plain[data]]
ctlmap == [data \in {30, 28, 211} |->
  CASE data = 30 -> "C-a" [] data = 28 -> "\r" [] OTHER -> "KEY_DEL"]

Entry(table, data, default) == IF data \in DOMAIN table THEN table[data] ELSE default

charcode(shift) ==
  IF "CTL" \in shift THEN ctlmap ELSE IF "SHIFT" \in shift THEN shiftmap ELSE normalmap

Swapped(c) == CASE c = "a" -> "A" [] c = "A" -> "a" [] OTHER -> c

SymmetricDifference(S, T) == (S \ T) \cup (T \ S)

\* The bytes: 224 announces a key of the extended block; 128 is added when a key is released.
E0 == 224

\* The escape is remembered when a key is released.
WrongReleased(shift, data) ==
  LET key == IF "E0ESC" \in shift THEN data ELSE data - 128
  IN  shift \ Entry(shiftcode, key, {})

Released(shift, data) ==
  LET key == IF "E0ESC" \in shift THEN data ELSE data - 128
  IN  shift \ (Entry(shiftcode, key, {}) \cup {"E0ESC"})

Pressed(shift, data) ==
  SymmetricDifference((shift \ {"E0ESC"}) \cup Entry(shiftcode, data, {}),
                      Entry(togglecode, data, {}))

Char(shift, data) ==
  LET c == Entry(charcode(shift), data, NO)
  IN  IF "CAPSLOCK" \in shift THEN Swapped(c) ELSE c

\* One of the two keys is enough.
WrongReboots(shift, c) == {"CTL", "ALT"} \cap shift # {} /\ c = "KEY_DEL"

\* Ctrl-Alt-Del.
Reboots(shift, c) == {"CTL", "ALT"} \subseteq shift /\ c = "KEY_DEL"

\* kbd_proc_data: the new shift state and the character.
Proc(shift, byte) ==
  IF byte = E0 THEN [shift |-> shift \cup {"E0ESC"}, c |-> NO]
  ELSE IF byte >= 128 THEN [shift |-> Released(shift, byte), c |-> NO]
  ELSE LET data == IF "E0ESC" \in shift THEN byte + 128 ELSE byte
           new == Pressed(shift, data)
       IN  [shift |-> new, c |-> Char(new, data)]
=============================================================================
