------------------------------- MODULE MCLibrary -------------------------------
(* Small instances for Library: escape sequences put together from their   *)
(* parts, with arguments of the types they take; small memories and calls; *)
(* short command lines.                                                    *)
EXTENDS Library

Part(f, a) == [f |-> f, a |-> a]
Join(x, y) == Part(x.f \o y.f, x.a \o y.a)
Escape == Part(<<"%">>, <<>>)
None == Part(<<>>, <<>>)

Flags == {None, Part(<<"-">>, <<>>), Part(<<"0">>, <<>>), Part(<<"#">>, <<>>)}
Widths == {None, Part(<<"3">>, <<>>), Part(<<"1", "2">>, <<>>), Part(<<"*">>, <<2>>)}
Precisions == {None, Part(<<".", "2">>, <<>>), Part(<<".", "*">>, <<0>>), Part(<<".", "0">>, <<>>)}

Integrals ==
  {Part(<<"d">>, <<v>>) : v \in {-16, -1, 0, 15}}
    \cup {Part(<<c>>, <<v>>) : c \in {"u", "o", "x", "p"}, v \in {0, 10, 31, -1}}
LongIntegrals ==
  {Part(<<"l", "l", "d">>, <<v>>) : v \in {-64, -10, 63}}
    \cup {Part(<<"l", "l", c>>, <<v>>) : c \in {"u", "o", "x"}, v \in {100, -1}}
    \cup {Part(<<"l", "u">>, <<17>>)}

Strings == {Part(<<"s">>, <<s>>) : s \in {<<>>, <<NUL>>, <<"a", NUL>>, <<"a", "\t", "b", NUL>>}}
\* No NUL before the precision.
Areas == {Part(<<".", "2", "s">>, <<<<"a", "b", "c">>>>), Part(<<".", "*", "s">>, <<0, <<"a">>>>)}

Others ==
  {Part(<<"e">>, <<v>>) : v \in {-16, -7, -6, 0, 1, 6, 8}}
    \cup {Part(<<"c">>, <<c>>) : c \in {"a", NUL}}
    \cup {Part(<<"%">>, <<>>), Part(<<"q">>, <<>>), None}

Formats ==
  {Join(Join(Join(Escape, fl), w), c) : fl \in Flags, w \in Widths, c \in Integrals \cup LongIntegrals \cup Areas}
    \cup {Join(Join(Join(Join(Escape, fl), w), pr), s) :
             fl \in Flags, w \in Widths, pr \in Precisions, s \in Strings}
    \cup {Join(Join(Escape, w), o) : w \in Widths, o \in Others}

\* Two sequences with text between and after them, for the sinks.
Short == {Join(Escape, x) : x \in {Part(<<"d">>, <<10>>), Part(<<"o">>, <<9>>), Part(<<"c">>, <<NUL>>),
                                   Part(<<"s">>, <<<<"a", "b", NUL>>>>), Part(<<"q">>, <<>>), None}}
Long == {Join(Join(x, Part(<<"a", "b">>, <<>>)), y) : x \in Short, y \in Short}

Outputs ==
  {[sink |-> "console", n |-> 0, fmt |-> x.f, args |-> x.a] : x \in Formats}
    \cup {[sink |-> "buffer", n |-> 0, fmt |-> x.f, args |-> x.a] : x \in Long}
    \cup {[sink |-> "string", n |-> m, fmt |-> x.f, args |-> x.a] : x \in Long, m \in {-1, 0, 1, 3, 6, 9}}
    \cup {[sink |-> "null", n |-> m, fmt |-> x.f, args |-> x.a] : x \in Long, m \in {0, 6}}

Texts == <<"unspecified error", "bad environment", "invalid parameter", "out of memory",
           "out of environments", "segmentation fault">>

----------------------------------------------------------------------------
CallOf(fn, dst, src, n1, c) ==
  [fn |-> fn, dst |-> dst, src |-> src, n |-> n1, c |-> c, numeral |-> NULL]

\* Every byte is different: what is copied shows where it came from.
Marked == [a \in 0..8 |-> a + 1]
BlockCalls ==
  {CallOf(fn, dst, src, n1, 0) : fn \in {"memmove", "memcpy"}, dst \in 0..8, src \in 0..8, n1 \in 0..5}
    \cup {CallOf("memset", dst, 0, n1, 1027) : dst \in 0..8, n1 \in 0..5}
InBounds(c) == c.dst + c.n <= 9 /\ c.src + c.n <= 9
Blocks0 == {[call |-> c, mem |-> Marked] : c \in {b \in BlockCalls : InBounds(b)}}

\* Two strings, of up to two and three characters, and bytes after each.
Words == UNION {[1..k -> {1, 2}] : k \in 0..3}
Laid(x, y) ==
  [a \in 0..9 |-> IF a < Len(x) THEN x[a + 1] ELSE IF a < 5 THEN IF a = Len(x) THEN 0 ELSE 3
                  ELSE IF a - 5 < Len(y) THEN y[a - 4] ELSE IF a - 5 = Len(y) THEN 0 ELSE 3]
StringCalls(x, y) ==
  {CallOf(fn, 0, 5, 0, 0) : fn \in {"strcpy", "strcmp", "strlen"}}
    \cup {CallOf(fn, 0, 5, n1, 0) : fn \in {"strncpy", "strlcpy", "strncmp", "memcmp", "strnlen"}, n1 \in 0..4}
    \cup {CallOf(fn, 0, 5, n1, c) : fn \in {"strchr", "strfind", "memfind"}, n1 \in {3}, c \in {0, 2, 258}}
    \cup (IF Len(x) + Len(y) < 5 THEN {CallOf("strcat", 0, 5, 0, 0)} ELSE {})
Strings0 == UNION {{[call |-> c, mem |-> Laid(x, y)] : c \in StringCalls(x, y)} : x \in {w \in Words : Len(w) < 3}, y \in Words}

\* Numerals: spaces, a sign, a prefix, digits, and what ends them.
Prefix(base, shown) ==
  CASE base = 16 /\ shown -> <<48, 120>> [] base = 8 /\ shown -> <<48>> [] OTHER -> <<>>
Code(v) == IF v < 10 THEN 48 + v ELSE 87 + v
Numeral(v, base) ==
  IF v < base THEN <<Code(v)>>
  ELSE IF v < base * base THEN <<Code(v \div base), Code(v % base)>>
  ELSE <<Code(v \div (base * base)), Code((v \div base) % base), Code(v % base)>>
Signs == {<<>>, <<43>>, <<45>>}
Tails == {<<0>>, <<32, 49, 0>>, <<122, 0>>}
Power(base, k) == IF k = 0 THEN 1 ELSE IF k = 1 THEN base ELSE IF k = 2 THEN base * base ELSE base * base * base
\* The zero that shows that a number is decimal is read as the prefix of an octal one.
Written(sp, sg, base, shown, v, tail) ==
  LET octal == shown /\ base = 10 /\ v = 0
      head == sp \o sg \o (IF octal THEN <<48>> ELSE Prefix(base, shown))
      digits == IF octal THEN <<>> ELSE Numeral(v, base)
      line == head \o digits \o tail
  IN  [call |-> [fn |-> "strtol", dst |-> 0, src |-> 0, n |-> 0, c |-> IF shown THEN 0 ELSE base,
                 numeral |-> [at |-> Len(sp), neg |-> sg = <<45>>, base |-> IF octal THEN 8 ELSE base,
                              first |-> Len(head), end |-> Len(head \o digits),
                              value |-> [i \in 0..Len(digits) |-> v \div Power(base, Len(digits) - i)]]],
       mem |-> [a \in 0..Len(line)-1 |-> line[a + 1]]]
Numerals0 ==
  {Written(sp, sg, base, shown, v, tail) :
     sp \in {<<>>, <<32, 9>>}, sg \in Signs, base \in {8, 10, 16}, shown \in BOOLEAN,
     v \in {0, 7, 10, 65, 127}, tail \in Tails}

\* Lines of up to five characters: two letters, a space and a tab.
Lines == UNION {[1..k -> {98, 99, 32, 9}] : k \in 0..5}
Lines0 ==
  {[call |-> CallOf("runcmd", 0, 1, 0, 0),
    mem |-> [a \in 0..7 |-> IF a \in 1..Len(line) THEN line[a] ELSE IF a = Len(line) + 1 THEN 0 ELSE 98]] :
     line \in Lines}
Names == <<<<98>>, <<98, 99>>>>

Starts == Lines0 \cup Blocks0 \cup Strings0 \cup Numerals0
=============================================================================
