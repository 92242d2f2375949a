------------------------------ MODULE TrapFrame ------------------------------
(***************************************************************************)
(* The way into the kernel and back: what the processor pushes, the entry  *)
(* points (trapentry.S) with their gates (trap_init), the frame that       *)
(* trap() copies into env_tf, and env_pop_tf (env.c).  A word is           *)
(* <<name, n>>: register name as the program left it the n-th time.        *)
(***************************************************************************)
EXTENDS Integers, Sequences

VARIABLES
  cpu,      \* the registers
  kstack,   \* the kernel stack from KSTACKTOP, the last word pushed last
  env_tf,   \* curenv->env_tf
  vector,   \* the gate that the processor went through last
  before    \* history: the registers at that moment

frameVars == <<cpu, kstack, env_tf, vector, before>>

General == {"eax", "ecx", "edx", "ebx", "ebp", "esi", "edi"}
Register == General \cup {"esp", "ds", "es", "cs", "ss", "eip", "eflags"}

Known(x) == <<x, 0>>
UserText == Known("GD_UT|3")
UserData == Known("GD_UD|3")
KernelText == Known("GD_KT")
KernelData == Known("GD_KD")
FromUser(regs) == regs["cs"] = UserText

----------------------------------------------------------------------------
(* The processor.                                                          *)

HasErrorCode ==
  {"T_DBLFLT", "T_TSS", "T_SEGNP", "T_STACK", "T_GPFLT", "T_PGFLT", "T_ALIGN"}

\* The exceptions that a program or the kernel can cause.
Exception ==
  {"T_DIVIDE", "T_DEBUG", "T_BOUND", "T_ILLOP", "T_DEVICE", "T_SEGNP", "T_STACK", "T_GPFLT",
   "T_PGFLT", "T_FPERR", "T_ALIGN", "T_SIMDERR"}

\* Entry points that push a zero for the error code: one of them is a TRAPHANDLER.
WrongNoErrorCode ==
  {"T_DIVIDE", "T_DEBUG", "T_BRKPT", "T_OFLOW", "T_BOUND", "T_ILLOP", "T_DEVICE", "T_COPROC",
   "T_SYSCALL"}

\* Entry points made by TRAPHANDLER_NOEC.
NoErrorCode ==
  {"T_DIVIDE", "T_DEBUG", "T_BRKPT", "T_OFLOW", "T_BOUND", "T_ILLOP", "T_DEVICE", "T_COPROC",
   "T_FPERR", "T_SYSCALL"}

Gate ==
  {"T_DIVIDE", "T_DEBUG", "T_BRKPT", "T_OFLOW", "T_BOUND", "T_ILLOP", "T_DEVICE", "T_DBLFLT",
   "T_COPROC", "T_TSS", "T_SEGNP", "T_STACK", "T_GPFLT", "T_PGFLT", "T_FPERR", "T_SYSCALL"}

\* The gates that a program may name in an int instruction.
Dpl3 == {"T_BRKPT", "T_SYSCALL"}

\* An int instruction through another gate, or an empty entry of idt, is a general protection fault.
Through(v, software) ==
  IF v \notin Gate \/ (software /\ v \notin Dpl3) THEN "T_GPFLT" ELSE v

\* From user mode the stack is ts_esp0; only then ss and esp are pushed.
Deliver(regs, v) ==
  LET top == IF FromUser(regs) THEN <<Known("KSTACKTOP"), regs["ss"], regs["esp"]>> ELSE kstack
      code == IF v \in HasErrorCode THEN <<Known("error code")>> ELSE <<>>
  IN  /\ kstack' = top \o <<regs["eflags"], regs["cs"], regs["eip"]>> \o code
      /\ cpu' = [r \in Register |-> CASE r = "cs" -> KernelText
                                      [] r = "ss" -> KernelData
                                      [] r = "esp" -> Known("kstack")
                                      [] r = "eip" -> Known(v)
                                      [] OTHER -> regs[r]]
      /\ vector' = v /\ before' = regs
      /\ UNCHANGED env_tf

----------------------------------------------------------------------------
(* trapentry.S.                                                            *)

Pushed(v) == (IF v \in NoErrorCode THEN <<Known("0")>> ELSE <<>>) \o <<Known(v)>>

Pushal(regs) ==
  <<regs["eax"], regs["ecx"], regs["edx"], regs["ebx"], regs["esp"], regs["ebp"], regs["esi"],
    regs["edi"]>>

\* C code runs with the kernel's data segment and uses the general registers.
AllTraps ==
  /\ kstack' = kstack \o Pushed(vector) \o <<cpu["ds"], cpu["es"]>> \o Pushal(cpu)
  /\ cpu' = [r \in Register |-> IF r \in {"ds", "es"} THEN KernelData
                                ELSE IF r \in General THEN Known("kernel") ELSE cpu[r]]
  /\ UNCHANGED <<env_tf, vector, before>>

\* struct Trapframe; reg_oesp is "oesp".
Layout ==
  <<"edi", "esi", "ebp", "oesp", "ebx", "edx", "ecx", "eax", "es", "ds", "trapno", "err",
    "eip", "cs", "eflags", "esp", "ss">>

\* A frame from kernel mode ends before esp.
Field(f) ==
  LET i == CHOOSE i \in DOMAIN Layout : Layout[i] = f IN kstack[Len(kstack) + 1 - i]
StackFrame == [f \in {Layout[i] : i \in DOMAIN Layout} |-> Field(f)]
FrameFromUser == Field("cs") = UserText

CopyFrame == env_tf' = StackFrame

----------------------------------------------------------------------------
(* env_alloc, load_icode and env_pop_tf.                                   *)

FreshFrame ==
  [f \in {Layout[i] : i \in DOMAIN Layout} |->
    CASE f \in {"ds", "es", "ss"} -> UserData
      [] f = "cs" -> UserText
      [] f = "esp" -> Known("USTACKTOP")
      [] f = "eip" -> Known("e_entry")
      [] OTHER -> Known("0")]

\* The segment registers the other way round.
WrongPopped ==
  <<"edi", "esi", "ebp", "skip", "ebx", "edx", "ecx", "eax", "ds", "es", "skip", "skip",
    "eip", "cs", "eflags", "esp", "ss">>

\* popal, which skips esp; popl; two words skipped; iret.
Popped ==
  <<"edi", "esi", "ebp", "skip", "ebx", "edx", "ecx", "eax", "es", "ds", "skip", "skip",
    "eip", "cs", "eflags", "esp", "ss">>

PopFrame(tf) ==
  [r \in Register |-> tf[Layout[CHOOSE i \in DOMAIN Popped : Popped[i] = r]]]
=============================================================================
