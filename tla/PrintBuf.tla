------------------------------- MODULE PrintBuf -------------------------------
(***************************************************************************)
(* Where formatted characters go, one putch after the other: straight to   *)
(* the console (printf.c), through the buffer of a program's cprintf and   *)
(* sys_cputs (lib/printf.c), or into a string (snprintf, lib/printfmt.c).  *)
(***************************************************************************)
EXTENDS Integers, Sequences

CONSTANTS
  NUL,      \* among the characters
  BUFSIZE   \* of struct printbuf, 256 in the code

ASSUME BufferAssumption == BUFSIZE \in Nat \ {0, 1}

VARIABLES
  sink,      \* "console", "buffer", "string", or "null": a string at NULL
  n,         \* the size given to snprintf
  buf,       \* printbuf.buf[0..idx-1], or the string up to sprintbuf.buf
  cnt,       \* what will be returned
  console,   \* what has been printed
  sent,      \* history: the characters given to putch
  closed     \* the call has returned

sinkVars == <<sink, n, buf, cnt, console, sent, closed>>

E_INVAL == 3

Sinks == {"console", "buffer", "string", "null"}

\* vsnprintf returns at once when there is no string, or no room even for the NUL.
NoRoom(s, size) == s = "null" \/ (s = "string" /\ size < 1)

Open(s, size) ==
  /\ sink = s /\ n = size
  /\ buf = <<>> /\ console = <<>> /\ sent = <<>>
  /\ closed = NoRoom(s, size)
  /\ cnt = IF NoRoom(s, size) THEN -E_INVAL ELSE 0

\* sys_cputs prints with "%.*s": as far as the first NUL.
Printed(s) ==
  LET Nuls == {i \in DOMAIN s : s[i] = NUL}
  IN  IF Nuls = {} THEN s ELSE SubSeq(s, 1, (CHOOSE i \in Nuls : \A j \in Nuls : i <= j) - 1)

\* The count of the kernel's putch is never incremented: *cnt++ moves the pointer.
ConsolePut(c) ==
  /\ sink = "console"
  /\ console' = Append(console, c)
  /\ UNCHANGED <<buf, cnt>>

\* The character that fills the buffer is lost.
WrongBufferPut(c) ==
  /\ sink = "buffer"
  /\ IF Len(buf) + 1 = BUFSIZE - 1
     THEN console' = console \o Printed(buf) /\ buf' = <<>>
     ELSE buf' = Append(buf, c) /\ UNCHANGED console
  /\ cnt' = cnt + 1

BufferPut(c) ==
  /\ sink = "buffer"
  /\ IF Len(buf) + 1 = BUFSIZE - 1
     THEN console' = console \o Printed(Append(buf, c)) /\ buf' = <<>>
     ELSE buf' = Append(buf, c) /\ UNCHANGED console
  /\ cnt' = cnt + 1

\* No room is kept for the terminating NUL.
WrongStringPut(c) ==
  /\ sink = "string"
  /\ buf' = IF Len(buf) < n THEN Append(buf, c) ELSE buf
  /\ cnt' = cnt + 1 /\ UNCHANGED console

StringPut(c) ==
  /\ sink = "string"
  /\ buf' = IF Len(buf) < n - 1 THEN Append(buf, c) ELSE buf
  /\ cnt' = cnt + 1 /\ UNCHANGED console

Putch(c) ==
  /\ ~closed
  /\ ConsolePut(c) \/ BufferPut(c) \/ StringPut(c)
  /\ sent' = Append(sent, c)
  /\ UNCHANGED <<sink, n, closed>>

\* What vcprintf and vsnprintf do when vprintfmt has returned.
Close ==
  /\ ~closed /\ closed' = TRUE
  /\ CASE sink = "console" -> UNCHANGED <<buf, console>>
       [] sink = "buffer" -> console' = console \o Printed(buf) /\ buf' = <<>>
       [] OTHER -> buf' = Append(buf, NUL) /\ UNCHANGED console
  /\ UNCHANGED <<sink, n, cnt, sent>>

----------------------------------------------------------------------------
(* What the sinks may be given: any characters, one after the other.      *)

SinkInit == \E s \in Sinks, size \in Int : Open(s, size)
SinkSpec == SinkInit /\ [][(\E c : Putch(c)) \/ Close]_sinkVars

----------------------------------------------------------------------------
NoNul == \A i \in DOMAIN sent : sent[i] # NUL

(* What a cprintf was given has been printed up to what still waits in the *)
(* buffer, in order and nothing twice, the buffer never overflows, and at  *)
(* the end all of it has been printed, as long as no NUL is among it; a    *)
(* program's cprintf returns how much that was (putch, vcprintf).          *)
Delivered ==
  sink \in {"console", "buffer"} =>
    /\ NoNul => console \o buf = sent
    /\ closed => buf = <<>>
    /\ Len(buf) < BUFSIZE - 1
    /\ cnt = IF sink = "buffer" THEN Len(sent) ELSE 0

(* snprintf keeps the longest beginning that fits with its NUL, never      *)
(* writes past the size given, and returns the full length; without room   *)
(* or at NULL it writes nothing and fails (sprintputch, vsnprintf).        *)
Truncated ==
  sink \in {"string", "null"} =>
    IF sink = "null" \/ n < 1 THEN buf = <<>> /\ cnt = -E_INVAL ELSE
    LET kept == SubSeq(sent, 1, IF Len(sent) < n THEN Len(sent) ELSE n - 1)
    IN  /\ buf = IF closed THEN Append(kept, NUL) ELSE kept
        /\ Len(buf) <= n /\ cnt = Len(sent)
=============================================================================
