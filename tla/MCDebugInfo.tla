----------------------------- MODULE MCDebugInfo -----------------------------
(* Tables of seven entries for DebugInfo: unrestricted ones, of two types, *)
(* for the search by itself, and what gcc and ld write.                    *)
EXTENDS DebugInfo, TLC

Types == {"header", "SO", "SOL", "FUN", "SLINE", "PSYM", "RSYM"}
Addresses == 0..3
AllNamed == {0..6, 2..6}
Sought == {"FUN"}

E(t, v) == [type |-> t, value |-> v]
Entries ==
  {E("SO", 1), E("SO", 3), E("FUN", 1), E("FUN", 3), E("SLINE", 0), E("SLINE", 1), E("SLINE", 2),
   E("SOL", 1), E("PSYM", 0), E("RSYM", 0)}

\* Tables that are well-formed but for what WellFormed tests.
Programs ==
  {(0 :> E("header", 0)) @@ (1 :> E("SO", 1)) @@ [i \in 2..6 |-> t[i]] : t \in [2..6 -> Entries]}

SearchEntry == {E("FUN", v) : v \in 0..3} \cup {E("SLINE", 0)}
Searched == {t @@ (4 :> E("PSYM", 0)) @@ (5 :> E("PSYM", 0)) @@ (6 :> E("PSYM", 0)) : t \in [0..3 -> SearchEntry]}
OneTable ==
  (0 :> E("header", 0)) @@ (1 :> E("SO", 1)) @@ (2 :> E("FUN", 1)) @@ (3 :> E("PSYM", 0))
    @@ (4 :> E("SLINE", 0)) @@ (5 :> E("SOL", 1)) @@ (6 :> E("SLINE", 2))
=============================================================================
