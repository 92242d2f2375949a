------------------------------ MODULE MCTerminal ------------------------------
(* Small instances of Terminal for TLC.                                    *)
EXTENDS Terminal

Keys == {"lshift", "lctl", "rctl", "lalt", "caps", "a", "del"}
MakeCodes ==
  ("lshift" :> 42) @@ ("lctl" :> 29) @@ ("rctl" :> 29) @@ ("lalt" :> 56)
    @@ ("caps" :> 58) @@ ("a" :> 30) @@ ("del" :> 83)
ExtendedKeys == {"rctl", "del"}
SerialChars == {"DEL", "\n"}
Outputs == {"\t"}
=============================================================================
