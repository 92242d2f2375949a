-------------------------------- MODULE Printf --------------------------------
(***************************************************************************)
(* vprintfmt (lib/printfmt.c): the format is read character by character;  *)
(* an escape sequence collects flags, width and precision and then         *)
(* converts an argument.  The characters go to a sink of PrintBuf.         *)
(***************************************************************************)
EXTENDS PrintBuf, SequencesExt

CONSTANTS
  Call,       \* the calls: [sink, n, fmt, args]
  IntBits, LongBits,   \* bits of int and of long long
  Text        \* error_string, without the entries that are NULL

ASSUME CallAssumption ==
  \A call \in Call : call.sink \in Sinks /\ call.n \in Int

VARIABLES
  fmt, p,     \* the format, and the position of the next character in it
  args,       \* of the va_list, those not taken
  esc,        \* padc, width, precision, lflag, altflag
  todo,       \* characters that the conversion has determined but not output
  str,        \* of %s: what is left of the string, the width and the precision
  remarks,   \* of %o: where in console its remarks were printed
  conv,       \* history: the conversion, its argument, and where its output begins in sent
  mode        \* "text", "switch", "emit", "string", "done", or "idle" (no call)

fmtVars == <<fmt, p, args, esc, todo, str, remarks, conv, mode>>
printfVars == <<sinkVars, fmtVars>>

NoEsc == [padc |-> " ", width |-> -1, precision |-> -1, lflag |-> 0, altflag |-> FALSE]
NoStr == [left |-> <<>>, width |-> 0, precision |-> 0]
NoConv == [c |-> NUL, arg |-> 0, from |-> 0, at |-> 0]

PrintfInit ==
  \E call \in Call :
    /\ Open(call.sink, call.n)
    /\ fmt = call.fmt /\ args = call.args
    /\ p = 1 /\ esc = NoEsc /\ todo = <<>> /\ str = NoStr /\ conv = NoConv
    /\ remarks = <<>>
    /\ mode = IF closed THEN "done" ELSE "text"

----------------------------------------------------------------------------
(* Characters and numbers.                                                 *)

FmtAt(i) == IF i <= Len(fmt) THEN fmt[i] ELSE NUL
Decimals == <<"0", "1", "2", "3", "4", "5", "6", "7", "8", "9">>
Hexadecimals == Decimals \o <<"a", "b", "c", "d", "e", "f">>
DigitValue(c) == (CHOOSE i \in DOMAIN Hexadecimals : Hexadecimals[i] = c) - 1

Repeat(c, times) == [i \in 1..times |-> c]

\* The width counts for the last digit only.
WrongPrintnum(num, base, width, padc) ==
  LET print[m \in Nat] ==
        (IF m >= base THEN print[m \div base] ELSE Repeat(padc, width - 1))
          \o <<Hexadecimals[(m % base) + 1]>>
  IN  print[num]

printnum(num, base, width, padc) ==
  LET print[m \in Nat, w \in Int] ==
        (IF m >= base THEN print[m \div base, w - 1] ELSE Repeat(padc, w - 1))
          \o <<Hexadecimals[(m % base) + 1]>>
  IN  print[num, width]

\* getuint and getint: an argument is a pattern of bits.
Bits(lflag) == IF lflag >= 2 THEN LongBits ELSE IntBits
getuint(arg, lflag) == arg % 2^Bits(lflag)
getint(arg, lflag) ==
  LET u == getuint(arg, lflag) IN IF u >= 2^(Bits(lflag) - 1) THEN u - 2^Bits(lflag) ELSE u

Signed(value, width, padc) ==
  IF value < 0 THEN <<"-">> \o printnum(-value, 10, width, padc)
  ELSE printnum(value, 10, width, padc)

\* printfmt of the text, or of "error %d"; the smallest integer has no negative.
error_string(arg) ==
  LET value == getint(arg, 0)
      err == IF value < 0 /\ value # -(2^(IntBits - 1)) THEN -value ELSE value
  IN  IF err \in DOMAIN Text THEN <<Text[err]>> ELSE <<"error ">> \o Signed(err, -1, " ")

\* strnlen with a size_t.
Strnlen(s, size) ==
  LET length == SelectInSeq(s, LAMBDA c : c = NUL) - 1
  IN  IF size >= 0 /\ (size < length \/ length < 0) THEN size ELSE length

----------------------------------------------------------------------------
(* Outside of escape sequences.                                            *)

Literal ==
  /\ mode = "text" /\ FmtAt(p) \notin {"%", NUL}
  /\ Putch(FmtAt(p))
  /\ p' = p + 1
  /\ UNCHANGED <<remarks, fmt, args, esc, todo, str, conv, mode>>

Return ==
  /\ mode = "text" /\ FmtAt(p) = NUL
  /\ Close
  /\ mode' = "done" /\ UNCHANGED <<remarks, fmt, p, args, esc, todo, str, conv>>

Percent ==
  /\ mode = "text" /\ FmtAt(p) = "%"
  /\ esc' = NoEsc
  /\ conv' = [NoConv EXCEPT !.from = Len(sent), !.at = p]
  /\ p' = p + 1
  /\ mode' = "switch" /\ UNCHANGED <<sinkVars, remarks, fmt, args, todo, str>>

----------------------------------------------------------------------------
(* Flags, width and precision.                                             *)

Switch(chars) == mode = "switch" /\ FmtAt(p) \in chars

Flag ==
  /\ Switch({"-", "0", ".", "#", "l"})
  /\ esc' =
       CASE FmtAt(p) \in {"-", "0"} -> [esc EXCEPT !.padc = FmtAt(p)]
         [] FmtAt(p) = "." -> [esc EXCEPT !.width = IF @ < 0 THEN 0 ELSE @]
         [] FmtAt(p) = "#" -> [esc EXCEPT !.altflag = TRUE]
         [] OTHER -> [esc EXCEPT !.lflag = @ + 1]
  /\ p' = p + 1
  /\ UNCHANGED <<sinkVars, remarks, fmt, args, todo, str, conv, mode>>

\* process_precision
Given(e, number) ==
  IF e.width < 0 THEN [e EXCEPT !.width = number, !.precision = -1]
  ELSE [e EXCEPT !.precision = number]

DigitsAt(i) ==
  CHOOSE k \in i..Len(fmt) + 1 :
    FmtAt(k) \notin Range(Decimals) /\ \A j \in i..k-1 : FmtAt(j) \in Range(Decimals)

ValueAt(i, k) ==
  FoldLeft(LAMBDA v, c : v * 10 + DigitValue(c), 0, SubSeq(fmt, i, k - 1))

Number ==
  /\ Switch(Range(Decimals) \ {"0"})
  /\ esc' = Given(esc, ValueAt(p, DigitsAt(p)))
  /\ p' = DigitsAt(p)
  /\ UNCHANGED <<sinkVars, remarks, fmt, args, todo, str, conv, mode>>

Star ==
  /\ Switch({"*"})
  /\ esc' = Given(esc, getint(Head(args), 0))
  /\ p' = p + 1 /\ args' = Tail(args)
  /\ UNCHANGED <<sinkVars, remarks, fmt, todo, str, conv, mode>>

----------------------------------------------------------------------------
(* Conversions.                                                            *)

Takes == args' = Tail(args) /\ conv' = [conv EXCEPT !.c = FmtAt(p), !.arg = Head(args)]

Converts(chars) ==
  /\ todo' = chars
  /\ p' = p + 1
  /\ mode' = "emit" /\ UNCHANGED <<sinkVars, remarks, fmt, esc, str>>

CharEscape == Switch({"c"}) /\ Takes /\ Converts(<<Head(args)>>)

ErrorEscape == Switch({"e"}) /\ Takes /\ Converts(error_string(Head(args)))

Decimal ==
  /\ Switch({"d"}) /\ Takes
  /\ Converts(Signed(getint(Head(args), esc.lflag), esc.width, esc.padc))

Unsigned ==
  /\ Switch({"u", "x"}) /\ Takes
  /\ LET base == IF FmtAt(p) = "u" THEN 10 ELSE 16
     IN  Converts(printnum(getuint(Head(args), esc.lflag), base, esc.width, esc.padc))

Pointer ==
  /\ Switch({"p"}) /\ Takes
  /\ Converts(<<"0", "x">> \o printnum(getuint(Head(args), 0), 16, esc.width, esc.padc))

\* Another cprintf, left over from an exercise, prints a remark at once.
Octal ==
  /\ Switch({"o"}) /\ Takes
  /\ remarks' = Append(remarks, Len(console))
  /\ todo' = printnum(getuint(Head(args), esc.lflag), 8, esc.width, esc.padc)
  /\ p' = p + 1
  /\ mode' = "emit" /\ UNCHANGED <<sinkVars, fmt, esc, str>>

PercentEscape ==
  /\ Switch({"%"})
  /\ conv' = [conv EXCEPT !.c = "%"]
  /\ Converts(<<"%">>) /\ UNCHANGED args

Known == {"-", "0", ".", "#", "l", "*", "c", "e", "d", "u", "x", "p", "o", "s", "%"} \cup Range(Decimals)

\* Backs up to what follows the '%'.
UnknownEscape ==
  /\ mode = "switch" /\ FmtAt(p) \notin Known
  /\ conv' = [conv EXCEPT !.c = "?"]
  /\ todo' = <<"%">>
  /\ p' = CHOOSE i \in 2..p : FmtAt(i - 1) = "%" /\ \A j \in i..p-1 : FmtAt(j) # "%"
  /\ mode' = "emit" /\ UNCHANGED <<sinkVars, remarks, fmt, args, esc, str>>

\* A string argument is what lies at the address, at least as far as it may be read.
StringOf(arg) == IF arg = <<>> THEN <<"(", "n", "u", "l", "l", ")", NUL>> ELSE arg

StringEscape ==
  /\ Switch({"s"}) /\ Takes
  /\ LET s == StringOf(Head(args))
         pads == esc.width > 0 /\ esc.padc # "-"
         left == esc.width - Strnlen(s, esc.precision)
     IN  /\ todo' = IF pads THEN Repeat(esc.padc, left) ELSE <<>>
         /\ str' = [left |-> s, precision |-> esc.precision,
                    width |-> IF ~pads THEN esc.width ELSE IF left > 0 THEN 0 ELSE left]
  /\ p' = p + 1
  /\ mode' = "string" /\ UNCHANGED <<sinkVars, remarks, fmt, esc>>

Goes(s) == Head(s.left) # NUL /\ (s.precision < 0 \/ s.precision > 0)

\* Of the characters in the strings only the tab is outside ' '..'~'.
Shown(c) == IF esc.altflag /\ c = "\t" THEN "?" ELSE c

StringChar ==
  /\ mode = "string" /\ todo = <<>> /\ Goes(str)
  /\ Putch(Shown(Head(str.left)))
  /\ str' = [left |-> Tail(str.left), width |-> str.width - 1,
             precision |-> IF str.precision < 0 THEN -1 ELSE str.precision - 1]
  /\ UNCHANGED <<remarks, fmt, p, args, esc, todo, conv, mode>>

StringEnd ==
  /\ mode = "string" /\ todo = <<>> /\ ~Goes(str)
  /\ todo' = Repeat(" ", str.width)
  /\ mode' = "emit" /\ UNCHANGED <<sinkVars, remarks, fmt, p, args, esc, str, conv>>

----------------------------------------------------------------------------
Emit ==
  /\ mode \in {"emit", "string"} /\ todo # <<>>
  /\ Putch(Head(todo))
  /\ todo' = Tail(todo)
  /\ UNCHANGED <<remarks, fmt, p, args, esc, str, conv, mode>>

Converted == mode = "emit" /\ todo = <<>>

EscapeDone ==
  /\ Converted
  /\ mode' = "text" /\ UNCHANGED <<sinkVars, remarks, fmt, p, args, esc, todo, str, conv>>

Returned == mode = "done" /\ UNCHANGED printfVars

----------------------------------------------------------------------------
Collect == Percent \/ Flag \/ Number \/ Star
Convert ==
  \/ CharEscape \/ ErrorEscape \/ Decimal \/ Unsigned \/ Pointer \/ Octal
  \/ PercentEscape \/ UnknownEscape \/ StringEscape

PrintfNext ==
  \/ Literal \/ Return \/ Collect \/ Convert
  \/ StringChar \/ StringEnd \/ Emit \/ EscapeDone
  \/ Returned

PrintfSpec == PrintfInit /\ [][PrintfNext]_printfVars
----------------------------------------------------------------------------
Output == SubSeq(sent, conv.from + 1, Len(sent))

ValueOf(digits, base) == FoldLeft(LAMBDA v, c : v * base + DigitValue(c), 0, digits)

(* Every numeric conversion prints its argument: read back, the digits,    *)
(* without leading zeros, give its value in the type that the conversion   *)
(* takes; as many pads precede them as the width asks for, after a sign    *)
(* that the width does not count (printnum, getuint, getint).              *)
NumberRight ==
  Converted /\ conv.c \in {"d", "u", "o", "x", "p"} =>
    LET base == CASE conv.c \in {"d", "u"} -> 10 [] conv.c = "o" -> 8 [] OTHER -> 16
        modulus == 2^Bits(IF conv.c = "p" THEN 0 ELSE esc.lflag)
        negative == conv.c = "d" /\ Head(Output) = "-" /\ conv.arg < 0
        prefix == IF conv.c = "p" THEN <<"0", "x">> ELSE IF negative THEN <<"-">> ELSE <<>>
    IN  \E k \in 1..Len(Output) - Len(prefix) :
          LET digits == SubSeq(Output, Len(Output) - k + 1, Len(Output))
              pads == Len(Output) - Len(prefix) - k
              value == IF negative THEN -ValueOf(digits, base) ELSE ValueOf(digits, base)
          IN  /\ Output = prefix \o Repeat(esc.padc, pads) \o digits
              /\ pads = IF esc.width > k THEN esc.width - k ELSE 0
              /\ ToSet(digits) \subseteq ToSet(Hexadecimals) /\ (k > 1 => Head(digits) # "0")
              /\ (value - conv.arg) % modulus = 0
              /\ conv.c = "d" => -(modulus \div 2) <= value /\ value < modulus \div 2
              /\ conv.c # "d" => value < modulus

\* The string up to its NUL or the precision, whatever comes first.
StringShown ==
  LET s == StringOf(conv.arg)
      Stop == {i \in 0..Len(s) : i = esc.precision \/ (i < Len(s) /\ s[i + 1] = NUL)}
      stop == CHOOSE i \in Stop : \A j \in Stop : i <= j
  IN  [i \in 1..stop |-> Shown(s[i])]

(* %s prints the string as far as its NUL or the precision, and never what *)
(* lies beyond.  A width that is not reached is filled: in front with the  *)
(* pad character, zeros as well as spaces, or under the flag - behind the  *)
(* string with spaces (vprintfmt, strnlen).  The comment above vprintfmt   *)
(* has widths for the numeric formats only (lib/printfmt.c:12-13).         *)
StringRight ==
  Converted /\ conv.c = "s" =>
    LET pads == IF esc.width > Len(StringShown) THEN esc.width - Len(StringShown) ELSE 0
    IN  Output = IF esc.padc = "-" THEN StringShown \o Repeat(" ", pads)
                 ELSE Repeat(esc.padc, pads) \o StringShown

(* An error is named, whatever the sign of its code; a sequence that is    *)
(* not known, be it cut off by the end of the format, is printed as it     *)
(* stands; %% and %c print one character (vprintfmt, error_string).        *)
EscapeRight ==
  Converted =>
    /\ conv.c = "e" =>
         \/ \E err \in DOMAIN Text : conv.arg \in {err, -err} /\ Output = <<Text[err]>>
         \/ {conv.arg, -conv.arg} \cap DOMAIN Text = {} /\ Head(Output) = "error "
    /\ conv.c = "?" => p = conv.at + 1 /\ Output = <<"%">>
    /\ conv.c = "%" => Output = <<"%">>
    /\ conv.c = "c" => Output = <<conv.arg>>

\* Every escape sequence prints what it asks for.
ConversionRight == NumberRight /\ StringRight /\ EscapeRight
=============================================================================
