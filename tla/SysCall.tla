------------------------------- MODULE SysCall -------------------------------
(***************************************************************************)
(* A program from its first instruction to its end: lib/entry.S, libmain,  *)
(* the stubs of lib/syscall.c, exit, and on the other side of TrapFrame    *)
(* trap_dispatch and syscall, with sys_cputs in full: user_mem_assert      *)
(* (module UserMem) page by page, then cprintf("%.*s") byte by byte.       *)
(***************************************************************************)
EXTENDS UserMem, TrapFrame

CONSTANTS
  Space,   \* the page tables in question
  Area,    \* what programs print: <<s, len>>, len below 2^31
  NulAt    \* where the first NUL may be, counted from s

\* The lengths that are negative as an int, and the precision of cprintf, are left out.
ASSUME AreaAssumption == Area \subseteq Address \X Address /\ NulAt \subseteq Nat

VARIABLES
  at,       \* "alone" (user_mem_check only), "run", "user", "alltraps", "trap", "dispatch",
            \* "check", "print", "destroyed", "breakpoint", "panic": the last three are the monitor
  prog,     \* "_start", "libmain", "umain", "exit"
  thisenv,
  result,   \* what syscall returned last
  area, nul,  \* <<s, len>> of the last sys_cputs; s[nul] is NUL, s[0..nul-1] is not
  printed   \* characters of the string printed

checkVars == <<va, len, perm, mem_start, mem_end, user_mem_check_addr, pc>>
progVars == <<prog, thisenv, area, nul>>
sysVars == <<vars, frameVars, progVars, at, result, printed>>

Me == Known("envid")

SysInit ==
  /\ \/ Init /\ at = "alone"
     \/ /\ at = "run" /\ pte \in Space
        /\ va = 0 /\ len = 0 /\ perm = {"U"} /\ mem_start = 0 /\ mem_end = 0
        /\ user_mem_check_addr = 0 /\ pc = "ok"
  /\ env_tf = FreshFrame /\ cpu = [r \in Register |-> Known("kernel")]
  /\ kstack = <<>> /\ vector = "none" /\ before = PopFrame(FreshFrame)
  /\ prog = "_start" /\ thisenv = Known("0") /\ result = Known("0")
  /\ area = <<0, 0>> /\ nul = 0 /\ printed = 0

CheckAlone == at = "alone" /\ Next /\ UNCHANGED <<frameVars, progVars, at, result, printed>>

----------------------------------------------------------------------------
(* The program.                                                            *)

User(where) == at = "user" /\ prog = where

\* The registers as the program has left them; it cannot change its privilege.
Left(n) == [r \in Register |-> IF r \in {"cs", "ss"} THEN cpu[r] ELSE <<r, n>>]

Traps(regs, v, software) ==
  /\ Deliver(regs, Through(v, software))
  /\ at' = "alltraps"
  /\ UNCHANGED <<vars, thisenv, result, printed>>

\* int $T_SYSCALL with the registers that the constraints of the stub name.
Stub(n, num, a1, a2) ==
  [r \in Register |->
    CASE r = "eax" -> Known(num)
      [] r = "edx" -> Known(a1)
      [] r = "ecx" -> Known(a2)
      [] r \in {"ebx", "edi", "esi"} -> Known("0")
      [] OTHER -> Left(n)[r]]

Calls(num, a1, a2) == \E n \in 1..2 : Traps(Stub(n, num, a1, a2), "T_SYSCALL", TRUE)

\* _start finds no arguments on the stack and calls libmain.
Libmain ==
  /\ User("_start") /\ prog' = "libmain"
  /\ Calls("SYS_getenvid", "0", "0")
  /\ UNCHANGED <<area, nul>>

SetThisenv ==
  /\ User("libmain") /\ prog' = "umain"
  /\ thisenv' = cpu["eax"]
  /\ UNCHANGED <<vars, frameVars, at, result, area, nul, printed>>

Cputs ==
  /\ User("umain") /\ area' \in Area /\ nul' \in NulAt
  /\ Calls("SYS_cputs", "s", "len")
  /\ UNCHANGED prog

\* sys_cgetc, sys_env_destroy of an id that is not in use.
OtherCall ==
  /\ User("umain")
  /\ Calls("SYS_cgetc", "0", "0") \/ Calls("SYS_env_destroy", "bad id", "0")
  /\ UNCHANGED progVars

\* An int instruction, an exception, _panic's int3.
Other ==
  /\ User("umain")
  /\ \E n \in 1..2 :
       \/ \E v \in Gate \cup {"T_NMI", "T_SIMDERR"} : Traps(Left(n), v, TRUE)
       \/ \E v \in Exception : Traps(Left(n), v, FALSE)
  /\ UNCHANGED progVars

\* umain returns to libmain, which calls exit.
Exit ==
  /\ User("umain") /\ prog' = "exit"
  /\ Calls("SYS_env_destroy", "0", "0")
  /\ UNCHANGED <<area, nul>>

----------------------------------------------------------------------------
(* The kernel.                                                             *)

Enter ==
  /\ at = "alltraps" /\ AllTraps
  /\ at' = "trap" /\ UNCHANGED <<vars, progVars, result, printed>>

\* trap: the frame of a program is copied to curenv->env_tf.
Trap ==
  /\ at = "trap"
  /\ IF FrameFromUser THEN CopyFrame ELSE UNCHANGED env_tf
  /\ at' = "dispatch"
  /\ UNCHANGED <<vars, progVars, cpu, kstack, vector, before, result, printed>>

Tf(f) == IF FrameFromUser THEN env_tf[f] ELSE Field(f)

\* The monitor takes over and does not give back (module Kernel).
Ends(why) == at' = why /\ UNCHANGED <<vars, frameVars, progVars, result, printed>>

Breakpoint == at = "dispatch" /\ Tf("trapno") = Known("T_BRKPT") /\ Ends("breakpoint")

\* page_fault_handler and the default of trap_dispatch.
Unhandled ==
  /\ at = "dispatch" /\ Tf("trapno") \notin {Known("T_BRKPT"), Known("T_SYSCALL")}
  /\ Ends(IF FrameFromUser THEN "destroyed" ELSE "panic")

Syscall(num) ==
  at = "dispatch" /\ Tf("trapno") = Known("T_SYSCALL") /\ Tf("eax") = Known(num)

\* trap_dispatch stores the result; trap ends in env_run.
Returns(r) ==
  /\ result' = r /\ env_tf' = [env_tf EXCEPT !["eax"] = r]
  /\ at' = "run"
  /\ UNCHANGED <<vars, progVars, cpu, kstack, vector, before, printed>>

StartCheck(s, n) ==
  /\ va' = s /\ len' = n /\ perm' = {"U"}
  /\ mem_start' = RoundDown(s) /\ mem_end' = RoundUp((s + n) % Word)
  /\ user_mem_check_addr' = 0 /\ pc' = "loop"

SysCputs ==
  /\ Syscall("SYS_cputs") /\ Tf("edx") = Known("s") /\ Tf("ecx") = Known("len")
  /\ StartCheck(area[1], area[2])
  /\ at' = "check" /\ printed' = 0
  /\ UNCHANGED <<pte, frameVars, progVars, result>>

SysCgetc == Syscall("SYS_cgetc") /\ Returns(Known("char"))
SysGetenvid == Syscall("SYS_getenvid") /\ Returns(Me)

SysEnvDestroy ==
  /\ Syscall("SYS_env_destroy")
  /\ IF Tf("edx") = Known("bad id") THEN Returns(Known("0")) ELSE Ends("destroyed")

NoSuchCall ==
  /\ at = "dispatch" /\ Tf("trapno") = Known("T_SYSCALL")
  /\ Tf("eax") \notin {Known(num) : num \in {"SYS_cputs", "SYS_cgetc", "SYS_getenvid", "SYS_env_destroy"}}
  /\ Returns(Known("-E_INVAL"))

\* user_mem_assert.
CheckPage == at = "check" /\ Next /\ UNCHANGED <<frameVars, progVars, at, result, printed>>
Refused == at = "check" /\ pc = "fault" /\ Ends("destroyed")

Accepted ==
  /\ at = "check" /\ pc = "ok"
  /\ at' = "print"
  /\ UNCHANGED <<vars, frameVars, progVars, result, printed>>

\* Also the kernel's own pages: cr0 and the program's directory let it read them.
KernelReads(a) == "P" \in pte[PageOf(a)]
NextChar == (va + printed) % Word

\* The precision is tested after it was counted down.
WrongGoesOn == printed <= len /\ printed # nul

\* The character is read before the precision is looked at.
GoesOn == printed < len /\ printed # nul

PrintChar ==
  /\ at = "print" /\ KernelReads(NextChar) /\ GoesOn
  /\ printed' = printed + 1
  /\ UNCHANGED <<vars, frameVars, progVars, at, result>>

PrintEnds == at = "print" /\ KernelReads(NextChar) /\ ~GoesOn /\ Returns(Known("0"))

PrintFaults ==
  /\ at = "print" /\ ~KernelReads(NextChar)
  /\ Deliver(cpu, "T_PGFLT") /\ at' = "alltraps"
  /\ UNCHANGED <<vars, progVars, result, printed>>

EnvRun ==
  /\ at = "run"
  /\ cpu' = PopFrame(env_tf) /\ at' = "user"
  /\ UNCHANGED <<vars, kstack, env_tf, vector, before, progVars, result, printed>>

----------------------------------------------------------------------------
KernelStep ==
  \/ Enter \/ Trap \/ Breakpoint \/ Unhandled
  \/ SysCputs \/ SysCgetc \/ SysGetenvid \/ SysEnvDestroy \/ NoSuchCall
  \/ CheckPage \/ Refused \/ Accepted \/ PrintChar \/ PrintEnds \/ PrintFaults
  \/ EnvRun

ProgramStep == Libmain \/ SetThisenv \/ Cputs \/ OtherCall \/ Other \/ Exit

SysSpec == SysInit /\ [][KernelStep \/ ProgramStep \/ CheckAlone]_sysVars

----------------------------------------------------------------------------
(* The frame that trap_dispatch looks at describes the interrupted code,   *)
(* whatever stack the processor was on and whether or not it pushed an     *)
(* error code; the kernel runs with its own data segments (trapentry.S,    *)
(* trap_init, trap).                                                       *)
FrameRight ==
  at = "dispatch" =>
    /\ \A r \in Register : (r \in {"esp", "ss"} => FrameFromUser) => Tf(r) = before[r]
    /\ Tf("trapno") = Known(vector)
    /\ Tf("err") = IF vector \in HasErrorCode THEN Known("error code") ELSE Known("0")
    /\ cpu["ds"] = KernelData /\ cpu["es"] = KernelData

(* A program starts with the registers of env_alloc and load_icode, and    *)
(* after a system call it finds every register as it left it but for eax,  *)
(* which holds the result; so thisenv is its own environment (env_pop_tf,  *)
(* trap_dispatch, libmain).                                                *)
Resumes ==
  at = "user" =>
    /\ cpu = [before EXCEPT !["eax"] = result]
    /\ prog \in {"umain", "exit"} => thisenv = Me

ShortEnough == len = 0 \/ Fits

(* sys_cputs prints the string up to its first NUL or its length, and only *)
(* if the program may read all of that length (sys_cputs).                 *)
PrintsOwn ==
  /\ at \in {"print", "run"} /\ ShortEnough /\ printed > 0 => Bad = {}
  /\ at = "user" /\ before["eax"] = Known("SYS_cputs") =>
       printed = IF nul < len THEN nul ELSE len

(* The kernel faults in sys_cputs, and panics, at most for the byte that   *)
(* follows the string, which vprintfmt reads and does not use.             *)
FaultsBehind ==
  at \in {"dispatch", "panic"} /\ ~FrameFromUser /\ ShortEnough =>
    vector = "T_PGFLT" /\ printed = len /\ NextChar = va + len

\* sys_cputs prints what it may and no more, and what it reads besides is one byte.
CputsRight == PrintsOwn /\ FaultsBehind

----------------------------------------------------------------------------
(* The inductive invariant, in parts.                                      *)

\* What the words are made of.
Name ==
  Register \cup Gate \cup
  {"0", "GD_UT|3", "GD_UD|3", "GD_KT", "GD_KD", "USTACKTOP", "KSTACKTOP", "e_entry",
   "kernel", "kstack", "error code", "envid", "char", "-E_INVAL", "s", "len", "bad id",
   "SYS_cputs", "SYS_cgetc", "SYS_getenvid", "SYS_env_destroy"}

Value == Name \X (0..2)
FrameField == {Layout[i] : i \in DOMAIN Layout}

SysType ==
  /\ at \in {"alone", "run", "user", "alltraps", "trap", "dispatch", "check", "print",
             "destroyed", "breakpoint", "panic"}
  /\ prog \in {"_start", "libmain", "umain", "exit"}
  /\ cpu \in [Register -> Value] /\ before \in [Register -> Value]
  /\ env_tf \in [FrameField -> Value] /\ kstack \in Seq(Value)
  /\ result \in Value /\ area \in Address \X Address /\ nul \in Nat /\ printed \in Nat

InTrap == at \in {"alltraps", "trap", "dispatch"}

\* The word on the kernel stack that lies i words under the last one.
Under(i) == kstack[Len(kstack) - i]

(* What the processor has pushed: the error code, if there is one, above   *)
(* eip, cs and eflags, and from user mode esp and ss.                      *)
Delivered ==
  LET c == IF vector \in HasErrorCode THEN 1 ELSE 0
  IN  /\ Len(kstack) >= c + IF FromUser(before) THEN 5 ELSE 3
      /\ c = 1 => Under(0) = Known("error code")
      /\ Under(c) = before["eip"] /\ Under(c + 1) = before["cs"] /\ Under(c + 2) = before["eflags"]
      /\ FromUser(before) => Under(c + 3) = before["esp"] /\ Under(c + 4) = before["ss"]
      /\ \A r \in General \cup {"ds", "es"} : cpu[r] = before[r]

\* The frame on the stack when alltraps is done.
FrameBuilt ==
  /\ \A r \in Register : (r \in {"esp", "ss"} => FromUser(before)) => Field(r) = before[r]
  /\ Field("trapno") = Known(vector)
  /\ Field("err") = IF vector \in HasErrorCode THEN Known("error code") ELSE Known("0")
  /\ FromUser(before) => Len(kstack) >= Len(Layout)
  /\ cpu["ds"] = KernelData /\ cpu["es"] = KernelData

FrameInv ==
  /\ at = "alltraps" => Delivered
  /\ at \in {"trap", "dispatch", "panic"} => FrameBuilt
  /\ at = "dispatch" /\ FromUser(before) => \A f \in FrameField : env_tf[f] = Field(f)
  /\ InTrap => vector \in Gate
  /\ InTrap \/ at \in {"check", "print"} => cpu["cs"] = KernelText
  /\ at \in {"check", "print", "run", "user"} => FromUser(before)

\* What env_pop_tf restores, and where the program is.
ResumeInv ==
  /\ at \in {"check", "print"} => \A r \in Register : env_tf[r] = before[r]
  /\ at = "run" => \A r \in Register : env_tf[r] = [before EXCEPT !["eax"] = result][r]
  /\ at = "user" => cpu = [before EXCEPT !["eax"] = result]
  /\ prog = "libmain" =>
       /\ InTrap \/ at \in {"run", "user"}
       /\ InTrap => FromUser(before) /\ vector = "T_SYSCALL" /\ before["eax"] = Known("SYS_getenvid")
       /\ at \in {"run", "user"} => result = Me
  /\ prog \in {"umain", "exit"} => thisenv = Me

CallsCputs == before["eax"] = Known("SYS_cputs")
Prints == printed <= len /\ printed <= nul

CputsInv ==
  /\ InTrap /\ FromUser(before) /\ CallsCputs =>
       vector = "T_SYSCALL" /\ before["edx"] = Known("s") /\ before["ecx"] = Known("len")
  /\ at = "check" => CallsCputs /\ printed = 0
  /\ at = "print" => CallsCputs /\ pc = "ok" /\ Prints
  /\ at \in {"run", "user"} /\ CallsCputs => printed = IF nul < len THEN nul ELSE len
  /\ at # "alone" /\ ShortEnough /\ printed > 0 => Bad = {}
  /\ (InTrap \/ at = "panic") /\ ~FromUser(before) =>
         vector = "T_PGFLT" /\ (ShortEnough => printed = len /\ NextChar = va + len)

SysInv == SysType /\ FrameInv /\ ResumeInv /\ CputsInv
=============================================================================
