------------------------------ MODULE DebugInfo ------------------------------
(***************************************************************************)
(* debuginfo_eip (kdebug.c): where an instruction is in the source.  Three *)
(* searches of StabSearch, each in the region that the one before it left, *)
(* then two loops over what was found.  Entry i stands for its name and    *)
(* its line number as well.                                                *)
(***************************************************************************)
EXTENDS StabSearch, FiniteSetsExt

CONSTANTS
  SearchTables, \* tables for stab_binsearch by itself
  Tables,       \* tables for debuginfo_eip
  Sample,       \* the one of these that is tried with every obstacle
  Named,        \* the sets of entries whose names may lie in the string table
  SearchType    \* the types searched for when stab_binsearch is called by itself

ASSUME TypeAssumption == {"SO", "SOL", "FUN", "SLINE", "PSYM", "RSYM"} \subseteq Type
ASSUME TablesAssumption == Tables \subseteq Table

VARIABLES
  at,        \* "alone" (one search only), "check", "file", "function", "line", "rest", "end"
  eip,
  obstacle,  \* what stands in the way, or "none"
  named,     \* the entries whose n_strx lies inside the string table
  lfile, rfile, lfun, rfun,
  info,      \* file, line, fn, addr, narg
  result     \* "none", "found" (0), "failed" (-1), "fault" (the kernel reads what is not mapped)

places == <<lfile, rfile, lfun, rfun>>
given == <<eip, obstacle, named>>
search == <<type, goal, lo, hi, left, right, l, r, addr, any_matches, pc>>
dvars == <<vars, at, given, places, info, result>>

Unknown == -1

\* user_mem_check fails for one of the first three, which happens for a program's
\* table only; the fourth: some of that table but its first entry is not mapped; the
\* last: the string table is empty or does not end with NUL.
Obstacles == {"none", "usd", "stabs", "stabstr", "rest", "strings"}
Refused == {"usd", "stabs", "stabstr", "strings"}

(* What gcc and ld write, as in the kernel's own table (the file stab): a  *)
(* header; files in the order of their addresses, of which neighbours may  *)
(* have the same; in each its functions in order, the first where the file *)
(* starts; in a function its parameters, on the stack (PSYM) or in         *)
(* registers (RSYM), before all else, and its lines in the order of their  *)
(* offsets, from 0.  A file without functions is an assembly file: its     *)
(* lines have addresses, no offsets.                                       *)
Files == {i \in 0..Size-1 : stabs[i].type = "SO"}
Functions == {i \in 0..Size-1 : stabs[i].type = "FUN"}
Lines == {i \in 0..Size-1 : stabs[i].type = "SLINE"}
Ordered(S) == \A i, j \in S : i < j => stabs[i].value <= stabs[j].value
FileEnd(f) == Min({i \in Files : i > f} \cup {Size}) - 1
FunctionEnd(f) == Min({i \in Files \cup Functions : i > f} \cup {Size}) - 1
InRange(S, first, last) == {i \in S : first < i /\ i <= last}

IsFirst(i, S) == i \in S /\ \A j \in S : i <= j

FileFormed(f) ==
  LET own == InRange(Functions, f, FileEnd(f))
      lines == InRange(Lines, f, FileEnd(f))
  IN  /\ Ordered(own)
      /\ own # {} => \E i \in own : IsFirst(i, own) /\ stabs[i].value = stabs[f].value
      /\ \A i \in own, g \in Files : g > f => stabs[i].value <= stabs[g].value
      /\ own = {} => Ordered(lines) /\ \A i \in lines : stabs[i].value >= stabs[f].value

FunctionFormed(f) ==
  LET own == InRange(Lines, f, FunctionEnd(f))
  IN  /\ Ordered(own) /\ \E i \in own : IsFirst(i, own) /\ stabs[i].value = 0
      /\ \A i \in f+1..FunctionEnd(f) : stabs[i].type = "PSYM" =>
           \A j \in f+1..i : stabs[j].type \in {"PSYM", "RSYM"}

WellFormed ==
  /\ stabs[0].type = "header" /\ \A i \in 1..Size-1 : stabs[i].type # "header"
  /\ Files # {} => 1 \in Files
  /\ Ordered(Files) /\ (\A i \in Files : stabs[i].value > 0)
  /\ \A f \in Files : FileFormed(f)
  /\ \A f \in Functions : FunctionFormed(f)

\* The caller of stab_binsearch.
Search(type1, from, to, a) ==
  /\ type' = type1 /\ goal' = a
  /\ lo' = from /\ hi' = to
  /\ left' = from /\ right' = to
  /\ l' = from /\ r' = to
  /\ addr' = a /\ any_matches' = FALSE
  /\ pc' = "search"

DebugInit ==
  /\ \/ at = "alone" /\ stabs \in SearchTables /\ type \in SearchType /\ Init
        /\ eip = 0 /\ obstacle = "none" /\ named = {}
     \/ /\ at = "check" /\ stabs \in Tables /\ WellFormed
        /\ eip \in Address /\ named \in Named
        /\ obstacle \in (IF stabs = Sample THEN Obstacles ELSE {"none"})
        /\ type = "SO" /\ goal = 0 /\ lo = 0 /\ hi = 0 /\ left = 0 /\ right = -1
        /\ l = 0 /\ r = 0 /\ addr = 0 /\ any_matches = FALSE /\ pc = "done"
  /\ lfile = 0 /\ rfile = 0 /\ lfun = 0 /\ rfun = 0
  /\ info = [file |-> Unknown, line |-> 0, fn |-> Unknown, addr |-> eip, narg |-> 0]
  /\ result = "none"

----------------------------------------------------------------------------
(* The searches take the steps of StabSearch.                              *)

SearchStep == (NoCandidate \/ Compare \/ Finish) /\ UNCHANGED <<at, given, places, info, result>>

At(where) == at = where /\ pc = "done"
Gives(answer) == result' = answer /\ at' = "end" /\ UNCHANGED <<stabs, search, given, places, info>>

Refuse == At("check") /\ obstacle \in Refused /\ Gives("failed")

\* user_mem_check was asked for one entry of the table only.
ReadRest == At("check") /\ obstacle = "rest" /\ Gives("fault")

FindFile ==
  /\ At("check") /\ obstacle = "none"
  /\ Search("SO", 0, Size - 1, eip)
  /\ at' = "file" /\ UNCHANGED <<stabs, given, places, info, result>>

NoFile == At("file") /\ left = 0 /\ Gives("failed")

FindFunction ==
  /\ At("file") /\ left # 0
  /\ lfile' = left /\ rfile' = right
  /\ Search("FUN", left, right, eip)
  /\ at' = "function" /\ UNCHANGED <<stabs, given, lfun, rfun, info, result>>

Name(i) == IF i \in named THEN i ELSE Unknown

FindLine ==
  /\ At("function") /\ left <= right
  /\ lfun' = left /\ rfun' = right
  /\ info' = [info EXCEPT !.fn = Name(left), !.addr = stabs[left].value]
  /\ Search("SLINE", left, right, eip - stabs[left].value)
  /\ at' = "line" /\ UNCHANGED <<stabs, given, lfile, rfile, result>>

\* An assembly file: the whole of it is searched for a file name below.
NoFunction ==
  /\ At("function") /\ left > right
  /\ lfun' = left /\ rfun' = right
  /\ info' = [info EXCEPT !.addr = eip]
  /\ left' = lfile
  /\ at' = "rest"
  /\ UNCHANGED <<stabs, given, lfile, rfile, result, type, goal, lo, hi, right, l, r, addr, any_matches, pc>>

LineFound ==
  /\ At("line")
  /\ info' = [info EXCEPT !.line = left]
  /\ at' = "rest" /\ UNCHANGED <<stabs, search, given, places, result>>

\* Backwards from the line to the entry that names its file.
SourceName ==
  LET S == {i \in lfile..left : \/ stabs[i].type = "SOL"
                                \/ stabs[i].type = "SO" /\ stabs[i].value # 0}
  IN  IF S = {} THEN Unknown ELSE Name(Max(S))

\* The function itself is counted.
WrongArguments ==
  IF lfun >= rfun THEN 0
  ELSE Min({i \in lfun+1..rfun : i = rfun \/ stabs[i].type # "PSYM"}) - lfun

Arguments ==
  IF lfun >= rfun THEN 0
  ELSE Min({i \in lfun+1..rfun : i = rfun \/ stabs[i].type # "PSYM"}) - (lfun + 1)

Rest ==
  /\ At("rest")
  /\ info' = [info EXCEPT !.file = SourceName, !.narg = Arguments]
  /\ result' = "found"
  /\ at' = "end" /\ UNCHANGED <<stabs, search, given, places>>

Finished == (At("end") \/ At("alone")) /\ UNCHANGED dvars

----------------------------------------------------------------------------
DebugNext ==
  \/ SearchStep
  \/ Refuse \/ ReadRest \/ FindFile \/ NoFile \/ FindFunction \/ FindLine \/ NoFunction
  \/ LineFound \/ Rest
  \/ Finished

DebugSpec == DebugInit /\ [][DebugNext]_dvars

----------------------------------------------------------------------------
(* No entry of the type starts one byte after one that matches exactly.    *)
NoneNext(S, a) == \A i, j \in S : stabs[i].value = a => stabs[j].value # a + 1

Covers(S, a) == {i \in S : stabs[i].value <= a}
File == Max(Covers(Files, eip))
InFile == InRange(Functions, File, FileEnd(File))
Function == Max(Covers(InFile, eip))
Parameters == {i \in Function+1..FunctionEnd(Function) : stabs[i].type = "PSYM"}
InFunction == InRange(Lines, Function, FunctionEnd(Function))
Offset == eip - stabs[Function].value

\* None of them is preceded by a parameter in a register.
ParametersFirst ==
  \E first \in Function+1..FunctionEnd(Function) :
    \A i \in Function+1..FunctionEnd(Function) : stabs[i].type = "PSYM" <=> i < first

(* The file and the function that contain the instruction are found, with  *)
(* the function's start and the number of its parameters when these come   *)
(* first; an address before every file is not found; one in a file without *)
(* functions gets this file's name and neither function nor line           *)
(* (debuginfo_eip).  A parameter in a register ends the counting, although *)
(* "the number of arguments taken" is meant (kdebug.c:233).                *)
Located ==
  at = "end" /\ obstacle = "none" /\ NoneNext(Files, eip) =>
    IF Covers(Files, eip) = {} THEN result = "failed"
    ELSE IF InFile = {} THEN
      /\ result = "found"
      /\ info.fn = Unknown /\ info.addr = eip
      /\ info.file = Name(File) /\ info.line = 0
    ELSE NoneNext(InFile, eip) =>
      /\ result = "found"
      /\ info.fn = Name(Function) /\ info.addr = stabs[Function].value
      /\ ParametersFirst => info.narg = Cardinality(Parameters)

(* The line is that of the last line entry at or before the instruction,   *)
(* in its function, and the file named is the one this line was included   *)
(* from (debuginfo_eip).                                                   *)
LineRight ==
  at = "end" /\ result = "found" /\ NoneNext(Files, eip) /\ InFile # {} /\ NoneNext(InFile, eip)
    /\ NoneNext(InFunction, Offset) =>
    LET line == Max(Covers(InFunction, Offset))
        names == {i \in File..line : stabs[i].type \in {"SO", "SOL"}}
    IN  info.line = line /\ info.file = Name(Max(names))

\* What debuginfo_eip says of an instruction is true.
InfoRight == Located /\ LineRight

----------------------------------------------------------------------------
(* In an assembly file, which has no functions, the line is found in the   *)
(* whole file: "Couldn't find function stab!  Maybe we're in an assembly   *)
(* file.  Search the whole file for the line number." (kdebug.c:199-200).  *)
(* The code sets the ends of this search and makes none.                   *)
AssemblyLine ==
  at = "end" /\ result = "found" /\ NoneNext(Files, eip) /\ InFile = {} =>
    LET lines == InRange(Lines, File, FileEnd(File))
    IN  Covers(lines, eip) # {} => info.line = Max(Covers(lines, eip))
=============================================================================
