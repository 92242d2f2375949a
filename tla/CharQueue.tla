------------------------------ MODULE CharQueue ------------------------------
(***************************************************************************)
(* What console input promises to its readers: the characters typed are    *)
(* returned once each and in order; cons_getc returns "the next input      *)
(* character from the console, or 0 if none waiting" (console.c:405), and  *)
(* getchar waits until there is one.                                       *)
(***************************************************************************)
EXTENDS Sequences

CONSTANTS Char, Nul

VARIABLES
  queue,   \* the characters that wait, oldest first
  reader,  \* the call in progress: "cgetc", "getchar" or "none"
  ret      \* what the last call returned

vars == <<queue, reader, ret>>

Init == queue = <<>> /\ reader = "none" /\ ret = Nul

Put(c) == queue' = Append(queue, c) /\ UNCHANGED <<reader, ret>>

Call(m) == reader = "none" /\ reader' = m /\ UNCHANGED <<queue, ret>>

Get ==
  /\ reader # "none" /\ queue # <<>>
  /\ ret' = Head(queue) /\ queue' = Tail(queue) /\ reader' = "none"

None ==
  /\ reader = "cgetc" /\ queue = <<>>
  /\ ret' = Nul /\ reader' = "none" /\ UNCHANGED queue

Next ==
  \/ \E c \in Char : Put(c)
  \/ \E m \in {"cgetc", "getchar"} : Call(m)
  \/ Get
  \/ None

Spec == Init /\ [][Next]_vars
=============================================================================
