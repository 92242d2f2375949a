-------------------------------- MODULE RunCmd --------------------------------
(***************************************************************************)
(* The monitor takes a line apart (runcmd of monitor.c): in place, white   *)
(* space becomes NUL, argv points to the words.  strchr and strcmp are     *)
(* what Strings shows them to be.                                          *)
(***************************************************************************)
EXTENDS Strings

CONSTANTS
  commands,   \* their names, as sequences of bytes
  MAXARGS

WHITESPACE == {9, 10, 13, 32}

ASSUME CommandAssumption ==
  /\ MAXARGS \in Nat \ {0}
  /\ commands \in Seq(Seq(Nat \ (WHITESPACE \cup {0})) \ {<<>>})

VARIABLES
  argv,       \* argv[0..argc-1]
  outcome     \* <<"none">>, <<"empty">>, <<"too many">>, <<"unknown">>, <<"run", command>>

cmdVars == <<callVars, argv, outcome>>

CmdInit == CallInit /\ argv = <<>> /\ outcome = <<"none">>

AtStage(where) == call.fn = "runcmd" /\ stage = where
Moves(where) == stage' = where /\ UNCHANGED <<call, mem0, to, count, val, ret>>
Parsing == UNCHANGED <<step, argv, outcome>>

\* Without the NUL the word before does not end.
WrongGobble ==
  /\ AtStage("start") /\ mem[from] \in WHITESPACE
  /\ from' = from + 1
  /\ Moves("start") /\ UNCHANGED mem /\ Parsing

Gobble ==
  /\ AtStage("start") /\ mem[from] \in WHITESPACE
  /\ mem' = [mem EXCEPT ![from] = 0] /\ from' = from + 1
  /\ Moves("start") /\ Parsing

TooMany ==
  /\ AtStage("start") /\ mem[from] \notin WHITESPACE \cup {0} /\ Len(argv) = MAXARGS - 1
  /\ outcome' = <<"too many">>
  /\ Moves("done") /\ UNCHANGED <<mem, from, step, argv>>

SaveArg ==
  /\ AtStage("start") /\ mem[from] \notin WHITESPACE \cup {0} /\ Len(argv) # MAXARGS - 1
  /\ argv' = Append(argv, from)
  /\ Moves("word") /\ UNCHANGED <<mem, from, step, outcome>>

ScanArg ==
  /\ AtStage("word") /\ mem[from] \notin WHITESPACE \cup {0}
  /\ from' = from + 1
  /\ Moves("word") /\ UNCHANGED mem /\ Parsing

ArgEnds ==
  /\ AtStage("word") /\ mem[from] \in WHITESPACE \cup {0}
  /\ Moves("start") /\ UNCHANGED <<mem, from>> /\ Parsing

LineEnds ==
  /\ AtStage("start") /\ mem[from] = 0
  /\ IF argv = <<>>
     THEN outcome' = <<"empty">> /\ Moves("done") /\ UNCHANGED step
     ELSE step' = 1 /\ Moves("lookup") /\ UNCHANGED outcome
  /\ UNCHANGED <<mem, from, argv>>

\* strcmp(argv[0], name) = 0
NameIs(name) ==
  /\ \A i \in DOMAIN name : argv[1] + i - 1 \in Bytes /\ mem[argv[1] + i - 1] = name[i]
  /\ mem[argv[1] + Len(name)] = 0

NextCommand ==
  /\ AtStage("lookup") /\ step <= Len(commands) /\ ~NameIs(commands[step])
  /\ step' = step + 1
  /\ Moves("lookup") /\ UNCHANGED <<mem, from, argv, outcome>>

Invoke ==
  /\ AtStage("lookup") /\ step <= Len(commands) /\ NameIs(commands[step])
  /\ outcome' = <<"run", step>>
  /\ Moves("done") /\ UNCHANGED <<mem, from, step, argv>>

NoCommand ==
  /\ AtStage("lookup") /\ step > Len(commands)
  /\ outcome' = <<"unknown">>
  /\ Moves("done") /\ UNCHANGED <<mem, from, step, argv>>

runcmd ==
  \/ Gobble \/ TooMany \/ SaveArg \/ ScanArg \/ ArgEnds
  \/ LineEnds \/ NextCommand \/ Invoke \/ NoCommand

\* The other calls, one at a time.
CmdNext == runcmd \/ (CallNext /\ UNCHANGED <<argv, outcome>>)

CmdSpec == CmdInit /\ [][CmdNext]_cmdVars

----------------------------------------------------------------------------
\* Where the words of the line begin, and the line between two addresses.
InLine == {a \in Bytes : a >= call.src /\ a < call.src + Length(call.src)}
InWord(a) == a \in InLine /\ mem0[a] \notin WHITESPACE
Begins == {a \in InLine : InWord(a) /\ ~InWord(a - 1)}
WordEnd(a) == Min({b \in Bytes : b > a /\ ~InWord(b)})
Word(a) == [i \in 1..WordEnd(a)-a |-> mem0[a + i - 1]]

(* The arguments are the words of the line, in order: each ends with its   *)
(* NUL in place, nothing is written but NULs over white space of the line, *)
(* and the command is the first that the first word names in full; a line  *)
(* of MAXARGS words or more runs nothing (runcmd).                         *)
WordsRight ==
  call.fn = "runcmd" /\ stage = "done" =>
    /\ Len(argv) < MAXARGS
    /\ Len(argv) = IF outcome = <<"too many">> THEN MAXARGS - 1 ELSE Cardinality(Begins)
    /\ outcome = <<"too many">> <=> Cardinality(Begins) >= MAXARGS
    /\ \A i \in DOMAIN argv :
         /\ argv[i] \in Begins /\ Cardinality({a \in Begins : a < argv[i]}) = i - 1
         /\ \A j \in 0..WordEnd(argv[i]) - argv[i] :
              mem[argv[i] + j] = IF j < WordEnd(argv[i]) - argv[i] THEN mem0[argv[i] + j] ELSE 0
    /\ \A a \in Bytes :
         mem[a] # mem0[a] => a \in InLine /\ mem0[a] \in WHITESPACE /\ mem[a] = 0
    /\ Head(outcome) = "run" => /\ commands[outcome[2]] = Word(argv[1])
                               /\ \A i \in 1..outcome[2]-1 : commands[i] # Word(argv[1])
    /\ outcome = <<"unknown">> => \A i \in DOMAIN commands : commands[i] # Word(argv[1])
=============================================================================
