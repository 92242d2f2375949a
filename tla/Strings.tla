-------------------------------- MODULE Strings --------------------------------
(***************************************************************************)
(* The functions of lib/string.c on a small memory: one step for each turn *)
(* of a loop, or of a string instruction, whose unit is a word or a byte.  *)
(***************************************************************************)
EXTENDS Integers, Sequences, FiniteSetsExt

CONSTANTS
  Start,     \* the calls and the memories they find: [call, mem]
  WORD,      \* bytes of a word, 4 in the code
  BYTE,      \* 256
  LONG,      \* 2^31: a long is less
  NULL

(***************************************************************************)
(* What the functions take for granted of their arguments: the bytes are   *)
(* there, strings end, and a copy in ascending order does not overtake its *)
(* source.                                                                 *)
(***************************************************************************)
IsString(m, a) == a \in Nat /\ \E e \in DOMAIN m : a <= e /\ m[e] = 0 /\ \A b \in a..e-1 : m[b] # 0
LengthIn(m, a) == Min({b \in DOMAIN m : b >= a /\ m[b] = 0}) - a
Fits(m, a, k) == a \in Nat /\ a..a+k-1 \subseteq DOMAIN m
Behind(a, b, k) == a <= b \/ b + k < a

\* The digits of strtol.
Space == 32
Tab == 9
Digit(c) == IF c \in 48..57 THEN c - 48 ELSE IF c \in 97..122 THEN c - 87 ELSE c - 55
InBase(c, base) == c \in (48..57) \cup (97..122) \cup (65..90) /\ Digit(c) < base

\* A numeral stands at a, after the spaces: its first i digits are worth value[i].
IsNumeral(m, c, w) ==
  LET t == IF m[w.at] \in {43, 45} THEN w.at + 1 ELSE w.at
  IN  /\ w.at \in Nat /\ w.at >= c.src /\ m[w.at] \notin {Space, Tab}
      /\ \A a \in c.src..w.at-1 : m[a] \in {Space, Tab}
      /\ w.neg = (m[w.at] = 45)
      /\ \/ c.c \in {0, 16} /\ m[t] = 48 /\ m[t + 1] = 120 /\ w.base = 16 /\ w.first = t + 2
         \/ c.c = 0 /\ m[t] = 48 /\ m[t + 1] # 120 /\ w.base = 8 /\ w.first = t + 1
         \/ c.c = 0 /\ m[t] # 48 /\ w.base = 10 /\ w.first = t
         \/ c.c # 0 /\ ~(c.c = 16 /\ m[t] = 48 /\ m[t + 1] = 120) /\ w.base = c.c /\ w.first = t
      /\ w.base \in Nat /\ w.end \in Nat /\ w.end >= w.first /\ ~InBase(m[w.end], w.base)
      /\ w.value \in [0..w.end-w.first -> 0..LONG-1] /\ w.value[0] = 0
      /\ \A i \in 0..w.end-w.first-1 :
           /\ InBase(m[w.first + i], w.base)
           /\ w.value[i + 1] = w.value[i] * w.base + Digit(m[w.first + i])

Proper(c, m) ==
  /\ \E k \in DOMAIN m : m \in [0..k -> 0..BYTE-1]
  /\ c.n \in Nat /\ c.c \in Int /\ c.dst \in Nat /\ c.src \in Nat
  /\ c.fn \in {"memmove", "memcpy", "memcmp", "memset", "strncpy", "strlcpy"} => Fits(m, c.dst, c.n)
  /\ c.fn \in {"memmove", "memcpy", "memcmp", "memfind"} => Fits(m, c.src, c.n)
  /\ c.fn \in {"strcpy", "strcat", "strncpy", "strlcpy", "strcmp", "strncmp",
               "strlen", "strnlen", "strchr", "strfind", "runcmd"} => IsString(m, c.src)
  /\ c.fn \in {"strcat", "strcmp", "strncmp"} => IsString(m, c.dst)
  /\ c.fn \in {"strcpy", "strncpy", "strlcpy"} => Behind(c.dst, c.src, LengthIn(m, c.src))
  /\ c.fn = "strtol" => IsNumeral(m, c, c.numeral)
  /\ c.fn = "strcpy" => Fits(m, c.dst, LengthIn(m, c.src) + 1)
  /\ c.fn = "strcat" => /\ Behind(c.dst + LengthIn(m, c.dst), c.src, LengthIn(m, c.src))
                        /\ Fits(m, c.dst + LengthIn(m, c.dst), LengthIn(m, c.src) + 1)

ASSUME StartAssumption ==
  /\ WORD \in Nat \ {0} /\ BYTE \in Nat \ {0} /\ LONG \in Nat \ {0}
  /\ \A st \in Start : Proper(st.call, st.mem)

VARIABLES
  call,      \* [fn, dst, src, n, c, numeral]; the pointers are dst and src also where they are compared
  mem,
  mem0,      \* history: the memory before the call
  from, to, count,   \* the pointers and n, as far as they have moved
  step,      \* memmove, memset: the unit, negative with the direction flag set
  val,       \* strtol: [neg, base, val]
  ret, stage

callVars == <<call, mem, mem0, from, to, count, step, val, ret, stage>>

Bytes == DOMAIN mem
NoVal == [neg |-> FALSE, base |-> 0, val |-> 0]

CallInit ==
  \E st \in Start :
    /\ call = st.call /\ mem = st.mem /\ mem0 = st.mem
    /\ from = call.src /\ to = call.dst /\ count = call.n
    /\ step = 0 /\ val = NoVal /\ ret = NULL /\ stage = "start"

Calls(fns) == stage = "start" /\ call.fn \in fns
Loops(fns) == stage = "loop" /\ call.fn \in fns

Enter == stage' = "loop" /\ UNCHANGED <<call, mem0, val, ret>>
Again == UNCHANGED <<call, mem0, step, val, ret, stage>>
Returns(r) ==
  /\ ret' = r /\ stage' = "done"
  /\ UNCHANGED <<call, mem0, from, to, count, step, val>>

----------------------------------------------------------------------------
(* memmove, memcpy, memset: which instruction, then its repetitions.       *)

Unit(addresses) == IF \A a \in addresses : a % WORD = 0 THEN WORD ELSE 1

\* The comparison the wrong way round.
WrongBackward == to < from /\ to + count > from

\* The end of the source would be overwritten first.
Backward == from < to /\ from + count > to

StartMove ==
  /\ Calls({"memmove", "memcpy"})
  /\ LET unit == IF Backward THEN Unit({from + count, to + count, count}) ELSE Unit({from, to, count})
     IN  /\ count' = count \div unit
         /\ step' = IF Backward THEN -unit ELSE unit
         /\ from' = IF Backward THEN from + count - unit ELSE from
         /\ to' = IF Backward THEN to + count - unit ELSE to
  /\ Enter /\ UNCHANGED mem

Span(a) == a..a + (IF step < 0 THEN -step ELSE step) - 1

Move ==
  /\ Loops({"memmove", "memcpy"}) /\ count > 0
  /\ mem' = [a \in Bytes |-> IF a \in Span(to) THEN mem[from + a - to] ELSE mem[a]]
  /\ from' = from + step /\ to' = to + step /\ count' = count - 1
  /\ Again

StartSet ==
  /\ Calls({"memset"}) /\ count > 0
  /\ LET unit == Unit({to, count}) IN count' = count \div unit /\ step' = unit
  /\ Enter /\ UNCHANGED <<mem, from, to>>

SetNothing == Calls({"memset"}) /\ count = 0 /\ Returns(to) /\ UNCHANGED mem

Set ==
  /\ Loops({"memset"}) /\ count > 0
  /\ mem' = [a \in Bytes |-> IF a \in Span(to) THEN call.c % BYTE ELSE mem[a]]
  /\ to' = to + step /\ count' = count - 1
  /\ Again /\ UNCHANGED from

BlockDone ==
  /\ Loops({"memmove", "memcpy", "memset"}) /\ count = 0
  /\ Returns(call.dst) /\ UNCHANGED mem

----------------------------------------------------------------------------
(* strcpy, strcat, strncpy, strlcpy.                                       *)

\* The functions whose loop starts with the arguments as they are.
Begin ==
  /\ Calls({"strcpy", "strncpy", "strcmp", "strncmp", "memcmp",
            "strlen", "strnlen", "strchr", "strfind", "memfind"})
  /\ Enter /\ UNCHANGED <<mem, from, to, count, step>>

\* strlen(dst), then strcpy.
AppendAt ==
  /\ Calls({"strcat"})
  /\ to' = CHOOSE a \in Bytes : a >= to /\ mem[a] = 0 /\ \A b \in to..a-1 : mem[b] # 0
  /\ Enter /\ UNCHANGED <<mem, from, count, step>>

Store(c) == mem' = [mem EXCEPT ![to] = c]

CopyChar ==
  /\ Loops({"strcpy", "strcat"})
  /\ Store(mem[from])
  /\ IF mem[from] # 0 THEN from' = from + 1 /\ to' = to + 1 /\ Again /\ UNCHANGED count
     ELSE Returns(call.dst)

PadChar ==
  /\ Loops({"strncpy"}) /\ count > 0
  /\ Store(mem[from])
  /\ from' = (IF mem[from] # 0 THEN from + 1 ELSE from)
  /\ to' = to + 1 /\ count' = count - 1
  /\ Again

PadDone == Loops({"strncpy"}) /\ count = 0 /\ Returns(call.dst) /\ UNCHANGED mem

CopyNothing == Calls({"strlcpy"}) /\ count = 0 /\ Returns(0) /\ UNCHANGED mem

BeginLimited ==
  /\ Calls({"strlcpy"}) /\ count > 0
  /\ count' = count - 1
  /\ Enter /\ UNCHANGED <<mem, from, to, step>>

CopyLimited ==
  /\ Loops({"strlcpy"})
  /\ IF count > 0 /\ mem[from] # 0
     THEN Store(mem[from]) /\ from' = from + 1 /\ to' = to + 1 /\ count' = count - 1 /\ Again
     ELSE Store(0) /\ Returns(to - call.dst)

----------------------------------------------------------------------------
(* Comparing, and finding.                                                 *)

\* Two pointers go on while the loop's condition holds.
Same ==
  /\ call.fn \in {"strncmp", "memcmp"} => count > 0
  /\ mem[to] = mem[from]
  /\ call.fn \in {"strcmp", "strncmp"} => mem[to] # 0

CompareChar ==
  /\ Loops({"strcmp", "strncmp", "memcmp"})
  /\ IF Same
     THEN /\ from' = from + 1 /\ to' = to + 1
          /\ count' = (IF call.fn = "strcmp" THEN count ELSE count - 1) /\ Again
     ELSE Returns(IF call.fn # "strcmp" /\ count = 0 THEN 0 ELSE mem[to] - mem[from])
  /\ UNCHANGED mem

\* The pointer goes on.
GoesOn ==
  CASE call.fn = "strlen" -> mem[from] # 0
    [] call.fn = "strnlen" -> count > 0 /\ mem[from] # 0
    [] call.fn \in {"strchr", "strfind"} -> mem[from] # 0 /\ mem[from] # call.c % BYTE
    [] OTHER -> count > 0 /\ mem[from] # call.c % BYTE

Result ==
  CASE call.fn \in {"strlen", "strnlen"} -> from - call.src
    [] call.fn = "strchr" -> IF mem[from] = 0 THEN NULL ELSE from
    [] OTHER -> from

Find ==
  /\ Loops({"strlen", "strnlen", "strchr", "strfind", "memfind"})
  /\ IF GoesOn THEN from' = from + 1 /\ count' = count - 1 /\ Again /\ UNCHANGED to
     ELSE Returns(Result)
  /\ UNCHANGED mem

----------------------------------------------------------------------------
(* strtol; the base is call.c, the end is where the pointer stops.            *)

SkipSpace ==
  /\ Calls({"strtol"}) /\ mem[from] \in {Space, Tab}
  /\ from' = from + 1
  /\ UNCHANGED <<call, mem, mem0, to, count, step, val, ret, stage>>

\* The sign, and the prefix of the base.
SignAndBase ==
  /\ Calls({"strtol"}) /\ mem[from] \notin {Space, Tab}
  /\ LET t == IF mem[from] \in {43, 45} THEN from + 1 ELSE from
         hex == call.c \in {0, 16} /\ mem[t] = 48 /\ mem[t + 1] = 120
         octal == call.c = 0 /\ mem[t] = 48 /\ ~hex
     IN  /\ from' = t + (IF hex THEN 2 ELSE IF octal THEN 1 ELSE 0)
         /\ val' = [neg |-> mem[from] = 45, val |-> 0,
                    base |-> IF hex THEN 16 ELSE IF octal THEN 8 ELSE IF call.c = 0 THEN 10 ELSE call.c]
  /\ stage' = "loop" /\ UNCHANGED <<call, mem, mem0, to, count, step, ret>>

IsDigit(c) == InBase(c, val.base)

\* Overflow wraps around.
AsLong(v) == ((v + LONG) % (2 * LONG)) - LONG

TakeDigit ==
  /\ Loops({"strtol"}) /\ IsDigit(mem[from])
  /\ val' = [val EXCEPT !.val = AsLong(val.val * val.base + Digit(mem[from]))]
  /\ from' = from + 1
  /\ UNCHANGED <<call, mem, mem0, to, count, step, ret, stage>>

DigitsDone ==
  /\ Loops({"strtol"}) /\ ~IsDigit(mem[from])
  /\ Returns(IF val.neg THEN AsLong(-val.val) ELSE val.val) /\ UNCHANGED mem

Done == stage = "done" /\ UNCHANGED callVars

----------------------------------------------------------------------------
Blocks == StartMove \/ Move \/ StartSet \/ SetNothing \/ Set \/ BlockDone
Copies ==
  \/ AppendAt \/ CopyChar \/ PadChar \/ PadDone \/ CopyNothing \/ BeginLimited \/ CopyLimited
Searches == Begin \/ CompareChar \/ Find
Numbers == SkipSpace \/ SignAndBase \/ TakeDigit \/ DigitsDone

CallNext == Blocks \/ Copies \/ Searches \/ Numbers \/ Done

CallSpec == CallInit /\ [][CallNext]_callVars

----------------------------------------------------------------------------
(* The string at a, without its NUL, as the call found it.                 *)
Length(a) == LengthIn(mem0, a)

\* m with the bytes of values written from a on.
Over(m, a, values) ==
  [b \in DOMAIN m |-> IF b - a \in DOMAIN values THEN values[b - a] ELSE m[b]]

After(fns) == stage = "done" /\ call.fn \in fns

(* memmove leaves at the destination what was at the source before the     *)
(* call, however the two overlap, memset the byte, and nothing else        *)
(* changes (memmove, memset).                                              *)
BlockRight ==
  /\ After({"memmove", "memcpy"}) =>
       mem = Over(mem0, call.dst, [i \in 0..call.n-1 |-> mem0[call.src + i]]) /\ ret = call.dst
  /\ After({"memset"}) =>
       mem = Over(mem0, call.dst, [i \in 0..call.n-1 |-> call.c % BYTE]) /\ ret = call.dst

(* The copy ends in the NUL of the source or where the size says, and not  *)
(* a byte after it is written (strcpy, strcat, strncpy, strlcpy).          *)
CopyRight ==
  LET length == Length(call.src)
      Padded(k) == [i \in 0..k-1 |-> IF i < length THEN mem0[call.src + i] ELSE 0]
      fits == IF length < call.n THEN length ELSE call.n - 1
  IN  /\ After({"strcpy"}) => mem = Over(mem0, call.dst, Padded(length + 1))
      /\ After({"strcat"}) =>
           mem = Over(mem0, call.dst + Length(call.dst), Padded(length + 1))
      /\ After({"strncpy"}) => mem = Over(mem0, call.dst, Padded(call.n))
      /\ After({"strlcpy"}) =>
           IF call.n = 0 THEN mem = mem0 /\ ret = 0
           ELSE /\ mem = Over(mem0, call.dst, [Padded(fits + 1) EXCEPT ![fits] = 0])
                /\ ret = fits

(* Comparisons find the first difference within the length, and order by   *)
(* it; searches find the first place (strcmp to memcmp, strlen to memfind).*)
AnswerRight ==
  LET fn == call.fn
      string == fn \notin {"memcmp", "memfind"}
      limit == IF fn \in {"strncmp", "memcmp", "strnlen", "memfind"} THEN {call.n} ELSE {}
      last == IF string THEN {Length(call.src)} ELSE {}
      Differs == {i \in 0..Max(Bytes) : {call.dst + i, call.src + i} \subseteq Bytes
                                            /\ mem0[call.dst + i] # mem0[call.src + i]}
      at == Min(Differs \cup last \cup limit)
      Place == {i \in 0..Max(Bytes) : call.src + i \in Bytes
                                          /\ mem0[call.src + i] = call.c % BYTE}
      found == Min((IF fn \in {"strlen", "strnlen"} THEN {} ELSE Place) \cup last \cup limit)
  IN  /\ After({"strcmp", "strncmp", "memcmp"}) =>
           ret = IF at \in limit THEN 0 ELSE mem0[call.dst + at] - mem0[call.src + at]
      /\ After({"strlen", "strnlen"}) => ret = found
      /\ After({"strfind", "memfind"}) => ret = call.src + found
      /\ After({"strchr"}) => ret = IF found \in last THEN NULL ELSE call.src + found

(* A numeral is read as the number it was written for, and up to its end,  *)
(* for every base and the prefixes that choose it (strtol).                *)
NumeralRead ==
  LET w == call.numeral
      number == w.value[w.end - w.first]
  IN  After({"strtol"}) => ret = (IF w.neg THEN -number ELSE number) /\ from = w.end

\* Each function leaves in memory and returns what it promises, and nothing else.
ResultRight == BlockRight /\ CopyRight /\ AnswerRight /\ NumeralRead
=============================================================================
