------------------------------ MODULE MCConsole ------------------------------
(* Small instances of Console for TLC.                                     *)
EXTENDS Console

CONSTANTS a, b

TwoChars == {a, b}
=============================================================================
