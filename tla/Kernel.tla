-------------------------------- MODULE Kernel --------------------------------
(***************************************************************************)
(* The kernel from i386_init on: it creates one environment and runs it;   *)
(* each trap is handled with the environment's own page tables (trap.c,    *)
(* syscall.c); a trap ends in the environment again, or in the monitor,    *)
(* which no command leaves (init.c, monitor.c).                            *)
(*                                                                         *)
(* The steps on envs and on memory are those of Env.                       *)
(***************************************************************************)
EXTENDS Env

CONSTANTS
  Slot0,     \* &envs[0]
  Area,      \* what sys_cputs may be asked to print: sets of pages <<PDX, PTX>>
  MaxDepth   \* page faults of the kernel that interrupt each other, at most

ASSUME Slot0Assumption == Slot0 \in Slot /\ Slot0 = Head(SlotOrder)
ASSUME AreaAssumption == Area \subseteq SUBSET (Idx \X Idx)

VARIABLES
  where,  \* what the processor executes
  tf,     \* the last trap: its number, whether from user mode, the system call
  eax,    \* reg_eax in curenv->env_tf, as far as the kernel has set it
  cause,  \* history: why the kernel panicked last
  depth   \* history: kernel faults since the last trap from user mode

ctl == <<where, tf, eax, cause, depth>>
kvars == <<vars, ctl>>

NullId == <<0, NoEnv>>
Ids == {NullId} \cup ((1..GenMax) \X Slot)

TrapFrame(no, user) == [no |-> no, user |-> user, call |-> "none", arg |-> NullId, area |-> {}]
SyscallFrame(call, arg, area) ==
  [no |-> "syscall", user |-> TRUE, call |-> call, arg |-> arg, area |-> area]

UserFrames ==
  {TrapFrame(no, TRUE) : no \in {"pgflt", "brkpt", "other"}}
    \cup {SyscallFrame(call, NullId, {}) : call \in {"cgetc", "getenvid", "unknown"}}
    \cup {SyscallFrame("env_destroy", id, {}) : id \in Ids}
    \cup {SyscallFrame("cputs", NullId, area) : area \in Area}

KernelInit ==
  /\ Init
  /\ where = "boot" /\ tf = TrapFrame("none", FALSE) /\ eax = "zero"
  /\ cause = "none" /\ depth = 0

----------------------------------------------------------------------------
(* i386_init, after mem_init, env_init and trap_init.                      *)

Create(b) ==
  /\ where = "boot" /\ EnvAlloc(b)
  /\ where' = "load"
  /\ UNCHANGED <<tf, eax, cause, depth>>

Load ==
  /\ where = "load"
  /\ Header \/ RegionPage \/ RegionDone \/ Copy \/ Stack
  /\ UNCHANGED ctl

LoadPanics ==
  /\ where = "load" /\ op \in Panics
  /\ where' = "panic" /\ cause' = "load"
  /\ UNCHANGED <<vars, tf, eax, depth>>

\* env_run(&envs[0]), whichever environment was created.
FirstRun ==
  /\ where = "load" /\ op = "idle"
  /\ Run(Slot0)
  /\ where' = "user"
  /\ UNCHANGED <<tf, eax, cause, depth>>

----------------------------------------------------------------------------
(* Traps.                                                                  *)

Panicking(why) == where' = "panic" /\ cause' = why

\* The program does something that traps; ts_esp0 gives it an empty kernel stack.
UserTraps ==
  /\ where = "user"
  /\ tf' \in UserFrames
  /\ where' = "trap" /\ depth' = 0
  /\ UNCHANGED <<vars, eax, cause>>

Trap ==
  /\ where = "trap"
  /\ IF tf.user /\ curenv = NoEnv
     THEN Panicking("assert")
     ELSE where' = "dispatch" /\ UNCHANGED cause
  /\ UNCHANGED <<vars, tf, eax, depth>>

Handles(no) == where = "dispatch" /\ tf.no = no

\* env_destroy(e): env_free, then the monitor for ever.
Destroy(e) == EnvFree(e) /\ where' = "destroy" /\ UNCHANGED <<tf, eax, cause, depth>>

UserFault == (Handles("pgflt") \/ Handles("other")) /\ tf.user /\ Destroy(curenv)

KernelFault ==
  /\ Handles("pgflt") /\ ~tf.user
  /\ Panicking("fault")
  /\ UNCHANGED <<vars, tf, eax, depth>>

Breakpoint ==
  /\ Handles("brkpt")
  /\ where' = "monitor"
  /\ UNCHANGED <<vars, tf, eax, cause, depth>>

----------------------------------------------------------------------------
(* System calls.                                                           *)

SysCall(c) == Handles("syscall") /\ tf.call = c

Returning(r) == where' = "return" /\ eax' = r /\ UNCHANGED <<vars, tf, cause, depth>>

Readable(va) == PageLookup(k, DirOf(curenv), va) # NoPte

\* user_mem_check of an area that does not wrap around (UserMem); user entries have PTE_U.
Accessible(area) == \A va \in area : Readable(va)

\* user_mem_assert; what it lets pass is printed.
Cputs ==
  /\ SysCall("cputs")
  /\ IF Accessible(tf.area) THEN Returning("zero") ELSE Destroy(curenv)

\* cprintf reads the byte behind the string too, which may be in a page that is not there (SysCall).
CputsFaults ==
  /\ SysCall("cputs") /\ Accessible(tf.area)
  /\ \E va \in VA : va \notin tf.area /\ ~Readable(va)
  /\ where' = "trap" /\ tf' = TrapFrame("pgflt", FALSE) /\ depth' = depth + 1
  /\ UNCHANGED <<vars, eax, cause>>

\* Waits for a character, which may never be typed.
WrongCgetc ==
  /\ SysCall("cgetc")
  /\ \/ Returning("char")
     \/ where' = "wait" /\ UNCHANGED <<vars, tf, eax, cause, depth>>

Cgetc == SysCall("cgetc") /\ \E r \in {"char", "zero"} : Returning(r)

Getenvid == SysCall("getenvid") /\ Returning("envid")

\* Its result is lost: syscall returns 0.
EnvDestroy ==
  /\ SysCall("env_destroy")
  /\ LET e == IF tf.arg = NullId THEN curenv ELSE Envid2Env(tf.arg, TRUE)
     IN  IF e = NoEnv THEN Returning("zero") ELSE Destroy(e)

UnknownCall == SysCall("unknown") /\ Returning("inval")

\* trap returns to the environment.
Return ==
  /\ where = "return"
  /\ IF curenv # NoEnv /\ envs[curenv].status = "running"
     THEN Run(curenv) /\ where' = "user" /\ UNCHANGED <<tf, eax, cause, depth>>
     ELSE Panicking("assert") /\ UNCHANGED <<vars, tf, eax, depth>>

----------------------------------------------------------------------------
(* env_destroy, panic and the monitor.                                     *)

Free ==
  /\ where = "destroy"
  /\ (\E va \in VA : FreeMapping(va)) \/ (\E x \in UIdx : FreeTable(x)) \/ FreeDir
  /\ UNCHANGED ctl

\* env_destroy returns to its caller.
WrongDestroyed ==
  /\ where = "destroy" /\ op = "idle"
  /\ where' = "return"
  /\ UNCHANGED <<vars, tf, eax, cause, depth>>

Destroyed ==
  /\ where = "destroy" /\ op = "idle"
  /\ where' = "monitor"
  /\ UNCHANGED <<vars, tf, eax, cause, depth>>

Panic ==
  /\ where = "panic"
  /\ where' = "monitor"
  /\ UNCHANGED <<vars, tf, eax, cause, depth>>

(* mon_backtrace follows the frame pointers on the kernel stack.  Under    *)
(* the frame of a trap from user mode lies whatever the program had in its *)
(* frame pointer; the memory it leads to need not be mapped (any more).    *)
Backtrace ==
  /\ where = "monitor" /\ curenv # NoEnv /\ depth < MaxDepth
  /\ where' = "trap" /\ tf' = TrapFrame("pgflt", FALSE) /\ depth' = depth + 1
  /\ UNCHANGED <<vars, eax, cause>>

\* Every command returns 0, so monitor goes on.
Command == where = "monitor" /\ UNCHANGED kvars

----------------------------------------------------------------------------
SysCalls == Cputs \/ CputsFaults \/ Cgetc \/ Getenvid \/ EnvDestroy \/ UnknownCall
Handling ==
  Trap \/ UserFault \/ KernelFault \/ Breakpoint \/ SysCalls \/ Return \/ Free \/ Destroyed \/ Panic

KernelNext ==
  \/ \E b \in Binary : Create(b)
  \/ Load \/ LoadPanics \/ FirstRun
  \/ UserTraps
  \/ Handling
  \/ Backtrace \/ Command

KernelSpec == KernelInit /\ [][KernelNext]_kvars

\* The processor goes on executing the kernel until it is back in user mode or at a prompt.
FairKernel == KernelSpec /\ WF_kvars(Handling)

----------------------------------------------------------------------------
(* The assertions in trap hold: a trap from user mode finds a current      *)
(* environment, and the one it returns to is running (trap, env_run).      *)
TrapAsserts == cause # "assert"

(* User mode runs on the tables of a live environment, and only on those:  *)
(* never on a directory that was freed (i386_init, env_run, env_free).     *)
RunsLive ==
  where = "user" =>
    /\ curenv \in Live /\ envs[curenv].status = "running" /\ cr3 = DirOf(curenv)

(* Once the environment is gone the kernel stays with the monitor, whatever *)
(* faults happen there, although curenv still points to it (env_destroy).  *)
NoReturn == past # {} => where \in {"monitor", "trap", "dispatch", "panic", "destroy"}

\* The trap of a program is dealt with, the loops of env_free included (trap, env_destroy).
TrapHandled == (where = "trap" /\ tf.user) ~> (where = "user" \/ where = "monitor")

----------------------------------------------------------------------------
(* The inductive invariant: an environment that can be resumed, wherever   *)
(* trap may get to its end.                                                *)

InProgram ==
  \/ where \in {"user", "return"}
  \/ where \in {"trap", "dispatch"} /\ tf.user

Resumable ==
  /\ curenv \in Live /\ envs[curenv].status = "running" /\ cr3 = DirOf(curenv)
  /\ op = "idle" /\ past = {}

KernelInv ==
  /\ where \in {"boot", "load", "user", "trap", "dispatch", "return", "destroy", "panic", "monitor"}
  /\ where = "boot" => op = "idle" /\ envFree = SlotOrder /\ past = {}
  /\ where = "load" => past = {} /\ op # "free" /\ (op = "panic_setup" \/ Slot0 \in Live)
  /\ where \in {"trap", "dispatch"} /\ ~tf.user => tf.no = "pgflt"
  /\ InProgram => Resumable
  /\ TrapAsserts
=============================================================================
