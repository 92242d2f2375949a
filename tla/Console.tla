------------------------------- MODULE Console -------------------------------
(***************************************************************************)
(* Console input (console.c): the circular buffer cons, filled from the    *)
(* serial port and the keyboard by cons_intr and emptied by cons_getc.     *)
(*                                                                         *)
(* The kernel runs with interrupts off and polls: cons_getc first reads    *)
(* both devices dry, one byte at a time, while they go on receiving.       *)
(***************************************************************************)
EXTENDS Naturals, Sequences

CONSTANTS
  N,             \* CONSBUFSIZE
  Char,          \* the characters typed
  Nul,           \* 0: no character
  SerialExists,  \* serial_exists, set once by serial_init
  Fifo,          \* bytes a device holds until they are read
  Limit          \* bytes that may wait altogether (bounds the input)

ASSUME SizeAssumption == N \in Nat \ {0, 1}
ASSUME NulAssumption == Nul \notin Char
ASSUME SerialAssumption == SerialExists \in BOOLEAN
ASSUME LimitAssumption == Limit \in Nat /\ Fifo \in Nat

VARIABLES
  serial, kbd,      \* what the devices hold; Nul is a key that gives no character
  buf, rpos, wpos,  \* the fields of cons
  pc,               \* where the kernel is in cons_getc, or "idle"
  mode,             \* its caller: getchar repeats the call, sys_cgetc does not
  ret,              \* what that caller got
  due               \* history: the characters read from a device and not returned

dev == <<serial, kbd>>
cons == <<buf, rpos, wpos>>
vars == <<serial, kbd, buf, rpos, wpos, pc, mode, ret, due>>

Byte == Char \cup {Nul}

TypeOK ==
  /\ serial \in Seq(Byte) /\ kbd \in Seq(Byte)
  /\ buf \in [0..N-1 -> Byte] /\ rpos \in 0..N-1 /\ wpos \in 0..N-1
  /\ pc \in {"idle", "serial", "kbd", "take"}
  /\ mode \in {"getchar", "cgetc"}
  /\ ret \in Byte
  /\ due \in Seq(Char)

Init ==
  /\ serial = <<>> /\ kbd = <<>>
  /\ buf = [i \in 0..N-1 |-> Nul] /\ rpos = 0 /\ wpos = 0
  /\ pc = "idle" /\ mode = "cgetc"
  /\ ret = Nul /\ due = <<>>

----------------------------------------------------------------------------
(* The devices.                                                            *)

Room == Len(due) + Len(serial) + Len(kbd) < Limit

SerialReceives(b) ==
  /\ Room /\ Len(serial) < Fifo
  /\ serial' = Append(serial, b)
  /\ UNCHANGED <<kbd, cons, pc, mode, ret, due>>

KbdReceives(b) ==
  /\ Room /\ Len(kbd) < Fifo
  /\ kbd' = Append(kbd, b)
  /\ UNCHANGED <<serial, cons, pc, mode, ret, due>>

----------------------------------------------------------------------------
(* The kernel.  Operators named Wrong... are what the code must not do.    *)

Call(m) ==
  /\ pc = "idle"
  /\ pc' = "serial" /\ mode' = m
  /\ UNCHANGED <<dev, cons, ret, due>>

Incremented(pos) == IF pos + 1 = N THEN 0 ELSE pos + 1

\* A zero is stored like a character.
WrongStore(b) ==
  /\ buf' = [buf EXCEPT ![wpos] = b]
  /\ wpos' = Incremented(wpos)
  /\ due' = IF b = Nul THEN due ELSE Append(due, b)
  /\ UNCHANGED rpos

\* The body of the loop of cons_intr; it does not look at rpos.
Store(b) ==
  IF b = Nul
  THEN UNCHANGED <<cons, due>>
  ELSE /\ buf' = [buf EXCEPT ![wpos] = b]
       /\ wpos' = Incremented(wpos)
       /\ due' = Append(due, b)
       /\ UNCHANGED rpos

\* cons_intr(serial_proc_data), if there is a serial port.
SerialByte ==
  /\ pc = "serial" /\ SerialExists /\ serial # <<>>
  /\ Store(Head(serial))
  /\ serial' = Tail(serial)
  /\ UNCHANGED <<kbd, pc, mode, ret>>

SerialDone ==
  /\ pc = "serial" /\ (SerialExists => serial = <<>>)
  /\ pc' = "kbd"
  /\ UNCHANGED <<dev, cons, mode, ret, due>>

\* cons_intr(kbd_proc_data).
KbdByte ==
  /\ pc = "kbd" /\ kbd # <<>>
  /\ Store(Head(kbd))
  /\ kbd' = Tail(kbd)
  /\ UNCHANGED <<serial, pc, mode, ret>>

KbdDone ==
  /\ pc = "kbd" /\ kbd = <<>>
  /\ pc' = "take"
  /\ UNCHANGED <<dev, cons, mode, ret, due>>

\* The positions are compared as if they never wrapped.
WrongEmpty == rpos >= wpos

Empty == rpos = wpos

TakeChar ==
  /\ pc = "take" /\ ~Empty
  /\ ret' = buf[rpos]
  /\ rpos' = Incremented(rpos)
  /\ due' = SubSeq(due, 2, Len(due))
  /\ pc' = "idle"
  /\ UNCHANGED <<dev, buf, wpos, mode>>

\* cons_getc returns 0: sys_cgetc passes it on, getchar calls again.
TakeNone ==
  /\ pc = "take" /\ Empty
  /\ \/ mode = "cgetc" /\ ret' = Nul /\ pc' = "idle"
     \/ mode = "getchar" /\ pc' = "serial" /\ UNCHANGED ret
  /\ UNCHANGED <<dev, cons, mode, due>>

Devices == \E b \in Byte : SerialReceives(b) \/ KbdReceives(b)
Kernel == SerialByte \/ SerialDone \/ KbdByte \/ KbdDone \/ TakeChar \/ TakeNone

Next == Devices \/ (\E m \in {"getchar", "cgetc"} : Call(m)) \/ Kernel

Spec == Init /\ [][Next]_vars

(* The processor keeps running, and it outruns the lines (serial_init sets *)
(* 9600 baud): a device that goes on receiving is found empty now and then.*)
FairSpec ==
  /\ Spec
  /\ WF_vars(Kernel)
  /\ SF_vars(SerialDone)
  /\ SF_vars(KbdDone)

----------------------------------------------------------------------------
(* The buffer holds the characters read and not yet returned, in order,    *)
(* through any number of turns of rpos and wpos (cons_intr, cons_getc).    *)
(* True while fewer than CONSBUFSIZE wait: cons_intr has no test for that. *)
Slot(pos, i) == IF pos + i < N THEN pos + i ELSE pos + i - N

RingSound ==
  /\ Len(due) < N
  /\ wpos = Slot(rpos, Len(due))
  /\ \A i \in 1..Len(due) : buf[Slot(rpos, i - 1)] = due[i]

(* getchar returns when there is a character for it, whatever zeros the    *)
(* devices deliver besides (getchar, cons_getc, cons_intr).                *)
Typed ==
  \/ due # <<>>
  \/ \E i \in DOMAIN kbd : kbd[i] # Nul
  \/ SerialExists /\ \E i \in DOMAIN serial : serial[i] # Nul

GetcharReturns == (pc # "idle" /\ mode = "getchar" /\ Typed) ~> pc = "idle"

Reader == IF pc = "idle" THEN "none" ELSE mode

Abs == INSTANCE CharQueue WITH queue <- due, reader <- Reader

(* Console input is a queue: no character is lost, repeated or overtaken,  *)
(* and a reader is told that there is none only when there is none.        *)
AbsSpec == Abs!Spec
=============================================================================
