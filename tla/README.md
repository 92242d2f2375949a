# A TLA+ model of the JOS kernel

JOS is a small teaching kernel for the 32-bit x86 (MIT 6.828; the repository
holds the state after the third lab).  This directory holds TLA+ specifications
of it, TLC configurations that check them on small instances, and proofs that
TLAPS checks for every value of the constants.

The sources that count are the C files at the top level of the repository (the
newest kernel), `boot/`, `lib/` and `inc/`.  The files in `kern/` are older
copies of the same files and are superseded.  `inc/env.h`, `inc/trap.h`,
`inc/lib.h`, `inc/syscall.h` and the definition of `struct PageInfo` are not in
the repository; what the code does with them (an `env_id` is a generation and an
index, `pp_ref` is a counter of some width) is taken from their uses.

## Inventory

The kernel runs on one processor with interrupts off: in the kernel nothing
preempts anything.  What makes it hard is that its operations are loops that can
stop half-way (a panic, memory exhausted), that the processor keeps copies of
page table entries, that user programs run between kernel operations and write
any page they have mapped, and that devices work at their own speed: they go on
receiving while they are read, and lose what is written while they are busy.

| Component | State | Operations | What makes it correct |
|---|---|---|---|
| Physical pages and page tables (`pmap.c`) | `page_free_list`, `pp_ref` of each page, the page tables, the TLB | `page_alloc`, `page_free`, `page_decref`, `pgdir_walk`, `page_lookup`, `page_insert`, `page_remove`, `tlb_invalidate` | counts equal references; the free list is exactly what is unused; tables belong to one directory; no stale translation |
| Boot-time memory map (`pmap.c`) | `nextfree`, `kern_pgdir` | `boot_alloc`, `mem_init`, `page_init`, `boot_map_region` | pages in use are never on the free list; the kernel half maps what `inc/memlayout.h` draws |
| Access checks (`pmap.c`) | `user_mem_check_addr` | `user_mem_check`, `user_mem_assert` | accepts exactly the ranges the program may access; reports the first bad address |
| Environments (`env.c`) | `envs`, `env_free_list`, `curenv`, each address space | `envid2env`, `env_init`, `env_alloc`, `env_setup_vm`, `region_alloc`, `load_icode`, `env_create`, `env_free`, `env_destroy`, `env_run` | memory accounted for through creation and destruction; address spaces apart; ids never stale; the loaded directory never freed |
| Traps and system calls (`trap.c`, `trapentry.S`, `syscall.c`, `lib/syscall.c`, `lib/libmain.c`) | `idt`, the kernel stack, `env_tf` | the entry points, `trap`, `trap_dispatch`, `page_fault_handler`, `syscall`, `env_pop_tf` | the trap frame describes the interrupted code; registers come back; control returns to the running environment or to the monitor; results reach the caller |
| Start, panic, monitor (`init.c`, `monitor.c`) | `panicstr` | `i386_init`, `_panic`, `monitor`, `runcmd` | a panic ends in the monitor whatever happens on the way |
| Console input (`console.c`) | the circular buffer `cons`, `serial_exists` | `cons_intr`, `cons_getc`, `getchar` | characters come out once each, in order; `getchar` returns when there is one |
| Keyboard (`console.c`) | `shift` | `kbd_proc_data` | modifiers follow the keys held |
| Console output (`console.c`, `printf.c`) | cursor position, the display | `cga_putc`, `serial_putc`, `lpt_putc` | the cursor stays on the display |
| Line input (`lib/readline.c`) | `buf` | `readline` | the line is what was typed minus what was erased, and fits |
| Formatted output (`lib/printfmt.c`, `lib/printf.c`) | the user's `printbuf` | `printnum`, `vprintfmt`, `snprintf`, `putch` | digits are right; buffers are not overrun; all output appears in order |
| Strings (`lib/string.c`, `runcmd` of `monitor.c`) | none | `memmove`, `strlcpy`, `strncpy`, `strtol`, ... | results as in their C definitions |
| Debugging information (`kdebug.c`) | none | `stab_binsearch`, `debuginfo_eip` | the entry found is the one that contains the address |
| Boot loader (`boot/boot.S`, `boot/main.c`, `entry.S`) | memory, address line 20, paging | `start`, `bootmain`, `readseg`, `readsect`, `entry` | what is executed is there to be executed; memory holds the segments afterwards and nothing else |

How they interact: `env.c` calls `pmap.c` for every page it uses, and both loops
work on the same free list; the user's programs, through the MMU, read the tables
that `pmap.c` writes; `trap` calls `syscall` and the page fault handler, which call
`env_destroy`, which never returns; `getchar` and `sys_cgetc` share one input
buffer; every failure ends in `_panic` and the monitor, which reads lines from
that buffer.

The hazards, each with the line where it bites and the properties that cover it,
are listed in `PROJECT.json`.

## Plan

In this order; all are done.

1. **Pages** - `PageOps` (operators), `PageInv` (what must hold), `Pmap` (calls,
   TLB, programs), `PageMap` (what is promised), `PageInvProofs`, `PmapProofs`.
2. **Environments** - `Env`, on the operators of `PageOps` and the invariant of
   `PageInv`.
3. **Console input** - `CharQueue` (what is promised), `Console`, `ConsoleProofs`.
4. **Kernel** - start, traps, system calls, panic and monitor over the environments
   of `Env`.
5. **Memory set-up** - `MemInit`.
6. **The user's side of the console** - `Keyboard` (scan codes), `Display` (cells and
   cursor), `Terminal` (both, with `readline` between them), `TerminalProofs`.
7. **Traps byte by byte** - `UserMem`; `TrapFrame` (registers, gates, frame); `SysCall`
   (a program and the kernel's answers, on top of both), `SysCallProofs`.
8. **Booting** - `Boot`, `BootProofs`.
9. **Output and strings** - `PrintBuf` (where characters go), `Printf` (on top of it),
   `LibraryProofs`; `Strings`, `RunCmd` (on top of it); `Library`, one call of either.
10. **Debugging information** - `StabSearch`, `LibraryProofs`; `DebugInfo` (on top).
11. **Proofs of the kernel** - that `Pmap` implements `PageMap`; the environments and
    the kernel (`KernelProofs`); traps and `sys_cputs` (`SysCallProofs`); the shift state
    (`TerminalProofs`).
12. **Proofs of booting and printing** - what is executed and what is loaded
    (`BootProofs`); that `Printf` implements the sinks of `PrintBuf`, and what
    `debuginfo_eip` answers (`LibraryProofs`).
13. **Proofs of memory set-up** - the free list, the directory and the checks of
    `mem_init`, through the loops of `page_init`, `check_page_free_list` and
    `boot_map_region` (`PmapProofs`).
14. **Proofs of the string functions** - the loops of `Strings` and `runcmd`
    (`LibraryProofs`).

## Modules

### PageOps, PageInv, Pmap, PageMap

`PageOps` writes each function of `pmap.c` as an operator from a memory state to a
memory state: `k.free` is `page_free_list` as a sequence, `k.ref` is `pp_ref`,
`k.mem` the content of every page read as a table of entries.  Addresses are pairs
`<<PDX, PTX>>`; only user addresses (below `UTOP`) are counted by the code, and
only they occur.  `pgdir_walk` is `Walk` (create = 1) and `PageLookup`
(create = 0).  A reference count that passes `RefMax` or 0 wraps.  Operators named
`Wrong...`, here and elsewhere, are plausible mistakes; none is part of a
specification: they serve to see that a property notices them.

`PageInv` says what is right of a memory state given the directories in use and
the pages that callers hold: `FreeSound`, `RefExact`, `TablesSound`, `HeldSound`,
together `Good`.

`Pmap` is the state machine: a call is one step (nothing preempts it).  Callers keep
to the conventions of the code: a page that is freed with `page_free` is one that
was allocated and never mapped; one that is inserted was allocated or is mapped
already.  Between calls programs and the kernel leave anything in pages they have
(`Scribble`) and the processor caches translations (`Touch`).  `DropTable` is how
`env_free` frees a page table.  Loading `cr3` flushes the TLB.

`PageMap` has no free list and no counts: address spaces are functions, and a page
is available when nothing uses it.  `Pmap`'s `AbsSpec` reads the functions off the
page tables.

### Env, KernelProofs

One step per iteration of the loops of `env_create` (`EnvAlloc`, `Header`,
`RegionPage`, `RegionDone`, `Copy`, `Stack`) and of `env_free` (`EnvFree`,
`FreeMapping`, `FreeTable`, `FreeDir`), so that every property is checked in the middle
of them too, and at every point where they panic.  `envs` keeps `env_status`, the
generation of `env_id`, `env_parent_id` and `env_pgdir`.  A binary is its magic number
and its program headers: loadable or not, `p_filesz <= p_memsz` or not, and the pages
it covers.

The kernel's `main` creates one environment and never comes back from destroying it;
`Env` is the interface of `env.c` used in any order that interface allows, so that
slots and pages are reused.  `env_init` does not set `env_status` and `boot_alloc`
does not clear memory: initially it is arbitrary.  After a panic the monitor runs
forever (`Monitor`); after `env_create` ignored that no environment was free, nothing
is claimed about what an uninitialised pointer does (`"wild"`).

The order in which `env_free` visits the entries is left open; it makes no difference
to what is kept.

### CharQueue, Console

`Console` has one step per byte read: `serial_intr` (`SerialByte`, `SerialDone`), then
`kbd_intr` (`KbdByte`, `KbdDone`), then the answer (`TakeChar`, `TakeNone`).  The
devices receive at any moment.  Both loops of `cons_intr` stop only when their device
has nothing.  A key that gives no character delivers 0, which is not stored.
`due` is a history variable: what was read from a device and not returned.

`CharQueue` promises a queue with a blocking reader (`getchar`) and one that does not
block (`sys_cgetc`).

### Keyboard, Display, Terminal, TerminalProofs

`Keyboard` is `kbd_proc_data` as an operator from the variable `shift` and a byte to
the next `shift` and a character (`Proc`).  The tables hold the modifiers, caps lock,
one letter, and the keys that the code itself looks for.  `Display` is `cga_putc` as an
operator from a screen, its cells and its cursor, to a screen (`Put`).

`Terminal` puts someone at the keyboard.  `Press` and `Lift` send the codes of a key,
escaped for the grey keys, with the shift codes a keyboard makes up around those that
are no modifiers (`Fakes`); `SerialReceives` is the serial line.  What has been decoded
waits until `readline` gets it; that this queue is one, whatever the buffer does, is
what `Console` shows.  `Ask` is the prompt, `Erase`, `Store`, `Enter` and `Ignore` the
branches of `readline` for one character, `Prints` everything that is output between
two lines.  Which keys are down (`held`) is not known to the kernel; `spoilt` is a
history variable with the modifiers of which two keys were down together.

`LineShown` relates three components: what `readline` would return is what stands before
the cursor, however the line wraps and scrolls.  It also holds because `readline` echoes
nothing but what it stores.

### Kernel, KernelProofs

`Kernel` extends `Env`: `where` says what the processor executes and every step on
`envs` or memory is one of `Env`.  `i386_init` creates one environment (`Create`,
`Load`, `LoadPanics`) and runs `&envs[0]`, whichever was created (`FirstRun`).  A
trap from user mode (`UserTraps`) may be a page fault, a breakpoint, any other
exception or any system call with any argument.  `Trap` asserts that there is a
current environment; then comes the branch of `trap_dispatch` for its number,
`Cputs` to `UnknownCall` for the system calls, and `Return`, which asserts that the
environment is running.  `Destroy` starts `env_free`, whose loops (`Free`) end in the
monitor for ever (`Destroyed`).  `_panic` leads to the monitor, where every command
returns; `Backtrace` is the one command that can fault, because the frame pointer
below a trap from user mode is the program's.  `depth` counts such faults.

`Cputs` may also fault in the kernel (`CputsFaults`): why is in `SysCall`.  Of the
registers only `eax` occurs here; all of them are in `TrapFrame`.

### MemInit

`mem_init` with pages as numbers, scaled: base memory below page `IoPage`, the hole
up to `ExtPage`, the kernel, then what `boot_alloc` hands out.  Steps: the directory,
the two arrays, one step per iteration of `page_init`, of `boot_map_region` and of the
loop in `check_page_free_list(1)` that puts low pages first (`SortPage`), and one per
check function - `check_page_free_list` (`CheckLow` after the sort, `CheckAll` at the
end; both write 128 bytes to pages on the list), `check_page_alloc`, `check_page`,
`check_kern_pgdir`, `check_page_installed_pgdir`.  A check leaves the memory as the code leaves it, and
an assertion that fails is a panic.  `CheckPage` makes the calls of `check_page` one
after the other with the operators of `PageOps`, so the kernel's own tests are
statements about the model as well.  The initial states are all machines of the set
`Machines`, with two kinds of earlier content of memory: zeros, and entries that would map
something everywhere.

`phys` is the memory state of `PageOps`, `pos` how far the loop under way is, `halves` the
two lists of the sort, `region` the call of `boot_map_region`, `loaded` what `cr3` holds.
`LayoutAssumption` is `inc/memlayout.h` in order, and that the arrays, the page tables and
the memory fit where the code puts them without looking: with the code's numbers the
kernel, its arrays for 256 MB and 67 page tables take some 500 of the 1024 pages
that `entry_pgdir` maps.

### UserMem

`user_mem_check` with sums modulo `Word`: one step per page (`Pass`), and the two
ways out (`Fault`, `Accept`).  Its arguments and the page table are arbitrary.
`Range` is the set of addresses asked for, which goes on at 0 after the last address;
`Bad` those of them that may not be accessed.  `Exact` is what the comment promises.

### TrapFrame, SysCall, SysCallProofs

`TrapFrame` follows a word from a register of the program to `env_tf` and back.  A word
is a name and a number: the n-th value that the program left in that register, so that a
word in the wrong place shows.  `Deliver` is the processor: which stack, what is pushed,
through which gate (`Gate`, `Dpl3`, from `trap_init`); `AllTraps` is `trapentry.S`, with
the two kinds of entry points (`NoErrorCode`); `Layout` is `struct Trapframe`, by which C
code reads what was pushed; `Popped` is the order in which `env_pop_tf` takes it back.

`SysCall` extends it and `UserMem`: a program from `_start` through `libmain` to `exit`,
which in `umain` makes any call, names any gate in an `int`, or causes any exception.
Its calls go through the stubs of `lib/syscall.c` (`Stub`).  The kernel's steps are those
of `trap`, `trap_dispatch` and `syscall`; `sys_cputs` checks the string page by page with
the steps of `UserMem` and prints it byte by byte, as `cprintf("%.*s")` does: the byte is
read, then the precision is looked at (`lib/printfmt.c:181`).  A byte that is not mapped is
a page fault in the kernel, through the same entry point (`PrintFaults`), and a panic.
The arithmetic is that of `UserMem`: lengths of 2^31 and more, which are negative as a
precision, are not among the calls.  `Init` of `UserMem` is a second kind of initial
state (`at = "alone"`), so that one run checks `user_mem_check` on every range too.

`Kernel` has the same traps with the page tables of `Env`; it does not have the words.

### Boot, BootProofs

From the firmware's jump to the boot sector to the end of `i386_init`'s first statement.
Memory is cells, each holding the number of the disk cell that was copied there, so that
`Code` can say which instruction is meant to be executed and `Executes` that it is what
is fetched: through address line 20, which drops a bit while it is low (`Line20`), and
through `entry_pgdir` once paging is on (`Perms`, `Translated`).  `Seta20_1` and
`Seta20_2` are the two writes to the keyboard controller, which handles a byte in its
own time (`KbcDone`) and loses what it gets meanwhile (`Out`).  `boot.S` waits before each
write but not after the last: that the controller is done before the disk has turned to
the first sector (`DiskReady`) is an assumption.  `Command` and `Insl` are the two halves
of `readsect`, `NextSegment` the loop of `bootmain`.  `Linked` is what the linker script
and the linker see to; the images are all those that fit the memory.

### PrintBuf, Printf, LibraryProofs

`PrintBuf` is the three functions that `vprintfmt` is given to put a character: the
kernel's (`ConsolePut`), the one with the buffer of a program's `cprintf` (`BufferPut`)
and that of `snprintf` (`StringPut`), which without room or at NULL puts nothing
(`NoRoom`); `Close` is what their callers do at the end.
`sent` is a history variable, the characters given to them.

`Printf` is `vprintfmt`: one step per character of text, per flag, per conversion and
per character put out.  Integers are patterns of `IntBits` or `LongBits` bits.  `printnum`
is a recursive function that returns the characters.  `conv` is a history variable: which
conversion with which argument began where.  Every step that changes the variables of
`PrintBuf` is one `Putch` or the `Close` (theorem `PrintfPuts`).

### Strings, RunCmd, LibraryProofs

`Strings` has one step for each turn of a loop of `lib/string.c`, or each repetition of a
string instruction: memory is a function from addresses to bytes, pointers move over it.
The assembly versions of `memset` and `memmove` are those that are compiled; the words of
a word-wise move are copied as one.  `mem0` is a history variable: the memory that the
call found.  The properties are the definitions of the functions in terms of it.

`Proper` is what the functions take for granted of their arguments: the bytes are there,
strings end, a copy in ascending order does not overtake the string it reads, and what
`strtol` is given begins with a numeral that a `long` can hold (`IsNumeral`; the digits may
be none).  `call.numeral` says how the numeral is made up: where it stands, its sign and
base, and what its first digits are worth.

`RunCmd` adds `runcmd` of the monitor, which writes NULs into the line it reads: one step
for each character it passes (`Gobble`, `ScanArg`), for the beginning and the end of a
word, and for each command of the table it compares with the first word (`NextCommand`,
`Invoke`).

`Library` puts `Printf` and `RunCmd` side by side for one run, `library`: a behaviour is one
call of either, and the other one is idle and has no step to take.

### StabSearch, LibraryProofs, DebugInfo

`stab_binsearch`: one step per iteration of the outer loop.  Only the entries of the type
looked for are sorted.  `Found` is what the comment promises; `FoundIfApart` and
`NotFoundIfFirst` are what holds.

`DebugInfo` is `debuginfo_eip`: three searches with the steps of `StabSearch`, each in the
region that the last one left (`FindFile`, `FindFunction`, `FindLine`), then the two
loops over what was found (`SourceName`, `Arguments`).  An entry stands for its name and
its line number; `obstacle` is what may be wrong with the memory or the string table of a
program.

`WellFormed` is what gcc and ld write.  It was taken from, and holds of, the kernel's own
table of 1236 entries (`src/stab`): files that begin at one address (entries 14, 67 and 68),
lines of one function at one offset (199 and 201), an assembly file without functions whose
lines have addresses (`entry.S`, 2 to 13), parameters in registers (N_RSYM, as in
`stab_binsearch`) before those on the stack (N_PSYM).  It asks that the values of a type are
in order, that a file's first function starts where the file does, that a function has a
line at 0, and that nothing but parameters comes before a parameter.  `ParametersFirst` and
`NoneNext` are conditions of `InfoRight`, not of the table: where they do not hold the code is
not right (see below).  In that table one pair of lines is one byte apart (offsets 0x26 and
0x27 of `kbd_proc_data`), and two functions have parameters in registers.

## Runs

| Run | Question | Bounds |
|---|---|---|
| `pmap_calls` | Are the free list, the counts, the tables and the processor's translations exact after any sequence of calls; does each call change the address spaces as promised and nothing else? | two directories, three pages, two tables of two entries, at most three mappings of a page, pages full of entries that would map something |
| `env_life` | Is memory exact, are address spaces apart, is the loaded directory in use, are ids current at every step of creating, running and freeing? | two slots, seven pages, six binaries (two segments on one page; headers of other types; malformed ones), two environments freed |
| `kernel` | Do `trap`'s assertions hold, does user mode run only on a live environment's tables, does nothing run after the environment is gone, is every trap dealt with? | the same memory and binaries; five areas for `sys_cputs`; two faults of the monitor within each other |
| `user_mem` | Is the answer of `user_mem_check` exact, and the address it reports the first bad one? Does the trap frame describe the interrupted code, do registers come back, does `sys_cputs` print what it may? | sixteen addresses, four pages, any entries, every range; for the program two pages, six areas, NULs in and behind them, two values of each register |
| `mem_init` | Are the free list, the permissions and the kernel's checks right on every machine? | machines of 9 to 18 pages, base memory of 1 to 4; nine entries to a table; `entry_pgdir` maps 14 pages |
| `boot` | Is everything that is executed there, do the segments arrive, is nothing else written, does the kernel start? | sectors of two cells, 16 cells of memory, line 20 at 8, every linked image of two segments that fits |
| `console` | Is the buffer a queue, does `getchar` return when something was typed? | four positions, at most three characters waiting, two characters, two devices of one byte |
| `terminal` | Does the display show the line that is edited, do the modifiers follow the keys, does only Ctrl-Alt-Del reset? | a display of three rows of two columns, a buffer of three, seven keys, three held at once, one character typed ahead |
| `library` | Are numbers, strings, errors and unknown sequences printed right; does everything arrive, in order and within its bounds; do the functions of `lib/string.c` and `runcmd` do what they should? | every flag with four widths, four precisions and every conversion; two sequences with text for the buffer (four characters) and for strings of six sizes and at NULL; int of 5 bits, long long of 7; nine bytes for moves of every distance and length to 5, words of two bytes; strings to three characters; numerals in three bases; all lines of five characters of two letters, space and tab |
| `debuginfo` | Are file, function, line and parameters of every address found? | tables of seven entries, addresses 0 to 3, for the search by itself four entries in any order |
| `debug_assembly` | Is the line of an address in an assembly file found (kdebug.c:199)? No, it is not looked for. | as `debuginfo` |
| `user_mem_wrap` | Does `user_mem_check` return 0 only if the range can be accessed (pmap.c:549)? Not when the end of the range, rounded up, is 2^32 or more. | as `user_mem` |

The last two are expected to be violated: there the code does something else than its
comment says, and the property is the comment.

Some properties are conjunctions of parts that the modules state one by one:
`KernelRuns`, `CputsRight`, `DirectoryRight`, `MemoryRight`, `ConversionRight`,
`ResultRight` and `InfoRight`.

Why these bounds are enough. *Page tables*: a mistake in counting needs a page, a
second mapping of it, a table, and a page that is used again; sharing needs two
directories. *Environments*: seven pages let two environments exist at once or one
with all kinds of segments, and run out at every point of loading; freeing two and
creating again reuses every page and slot. *Kernel*: only one environment is ever
created, so one is freed at most (`MaxPast`). *UserMem*: ranges start and end inside
pages, at their edges and past the last address; `ULIM` lies below the last page.
*SysCall*: a program has one or two pages and the kernel's is mapped behind them or
not; strings end inside a page, at its edge, at `ULIM` and past the last address; two
values of each register tell an old one from the current. *MemInit*: the smallest
machine has no page after the arrays, the largest more than the kernel's page tables
take, on both sides of what `entry_pgdir` maps. *Boot*: segments start and end inside
sectors and share them, the header takes two sectors, and low memory has room for what
would be loaded with line 20 low. *DebugInfo*: two files, also at one address, two
functions, an assembly file, an included file, parameters of both kinds and lines fit in
seven entries; four entries give every shape of a
middle that must be looked for to the left. *Printf*: the buffer is filled, flushed
and begun again in the middle of numbers and strings; the integers include the
smallest. *Strings*: two words and an odd byte make all cases of alignment. *Console*:
three characters in four positions let `rpos` and `wpos` wrap at all distances.
*Terminal*: a line of two characters and the prompt wraps and, begun in the last row,
scrolls; the tab moves everything to any column; the seven keys include both control
keys, the grey delete key and a modifier of each kind, and the reset needs three of
them. The bounds `RefMax`, `GenMax`, `MaxPast`, `MaxDepth`, `Limit`, `Fifo`, `MaxHeld`
and `MaxWaiting` are in the guards; `Limit < N` is the condition under which the
console is right: when as many characters wait as there are positions, `cons_getc`
takes the buffer for empty.

Fairness. `FairKernel` assumes that the processor goes on executing the kernel while a
trap is handled (weak fairness of `Handling`; interrupts are off and nothing else
runs), not that programs trap, nor that anyone types a command. `boot` assumes that
the processor runs and that the keyboard controller and the disk finish what they were
told. `console` assumes that the kernel keeps running (weak fairness of `Kernel`) and
that each of the two loops of `cons_intr` now and then finds its device empty (strong
fairness of `SerialDone` and `KbdDone`): the serial line runs at 9600 baud with its
FIFO off (`serial_init`, hence `Fifo = 1`) and a keyboard is slower still, while the
loop takes microseconds. Without this `cons_intr` need not return.

### Other differences between the code and its comments

Met while modelling; the model does what the code does.

- `env_setup_vm` and `env_alloc` promise `-E_NO_MEM` (env.c:158, 189); when
  `page_alloc` fails `env_setup_vm` panics (env.c:170).
- An id is meant to stay invalid once its environment is gone (env.c:85-87); the
  generations repeat after they overflow (env.c:208).
- `sys_env_destroy` returns `-E_BAD_ENV` (syscall.c:54-55); `syscall` drops it and
  returns 0 (syscall.c:94).
- A backtrace should stop at the 0 that `entry.S:72-74` puts in `%ebp`; across a trap
  from user mode it goes on with the program's `%ebp`, which `_alltraps` leaves as it
  is (monitor.c:68, 85; trapentry.S:71-79).
- `boot_alloc` "should panic" when memory is exhausted (pmap.c:76); it never looks.
- When no entry of the type contains the address `*region_left` should be greater than
  `*region_right` (kdebug.c:40-41).  When only greater values were compared, the code
  leaves `*region_left` at the start of the region and `*region_right` before the
  first entry of the type: not empty unless that entry is the first (kdebug.c:93-102).
- `stab_binsearch` "finds the single stab entry of type 'type' that contains that
  address" (kdebug.c:29-30).  After an exact match it looks for `addr + 1`
  (kdebug.c:89), and an entry that starts one byte after the address is then answered;
  hence `Apart` in `FoundIfApart`.
- A shift, control or alt key is released while the other of its kind is held: the bit
  is cleared (console.c:334), and the key that is still down does nothing until it
  repeats.  `ModifiersHeld` leaves such a modifier out until both keys are up.
- The DEL character (0x7f) erases (readline.c:22), but on an empty line it is at least
  `' '` and is stored and shown (readline.c:26).
- `cons_intr` has no test for a full buffer: when `CONSBUFSIZE` characters wait,
  `cons_getc` returns 0, which is to mean that none waits (console.c:399, 405).
- `region_alloc` should panic "if any allocation attempt fails" (env.c:253); the result
  of `page_insert` is not looked at, and the page stays allocated and unmapped
  (env.c:262).
- `sys_cputs` prints a string that "is exactly 'len' characters long" (syscall.c:18): it
  stops at a NUL, and it reads one byte behind the string, also of an empty one, which
  when the page behind is not mapped panics the kernel instead of destroying the
  environment (lib/printfmt.c:181).
- `debuginfo_eip` makes sure "the STABS and string table memory is valid"
  (kdebug.c:153) but looks at the first entry of a program's table only; it should
  return -1 when no line is found (kdebug.c:211) and never does; a parameter that is the
  last entry of its region is not counted (kdebug.c:237).
- In an assembly file "search the whole file for the line number" (kdebug.c:199-200): the
  ends of the search are set and nothing is searched.  The line stays 0, and the name is
  that of the file's own entry, for `entry.S` "{standard input}" (run `debug_assembly`;
  `Located` says what is answered instead).
- `eip_fn_narg` is to be "the number of arguments taken by the function" (kdebug.c:233).
  Only entries N_PSYM count, and only up to the first other one, so a function whose first
  parameter is in a register has 0: `stab_binsearch` and `printnum` in `src/stab`
  (`ParametersFirst` is the condition under which the count is right).
- "Space or zero padding and a field width are supported for the numeric formats only"
  (lib/printfmt.c:12-13).  `%s` is padded as well: in front with spaces or zeros, behind
  with spaces under the flag `-` (lib/printfmt.c:178-187).
  `StringRight` says what the code does.
- "Too many arguments (max 16)" (monitor.c:118): the line may have `MAXARGS - 1` words, the
  command among them, since `argv` ends with a null pointer (monitor.c:117).
- `readseg` rounds down and "it doesn't matter" (boot/main.c:84-86): it does unless
  segments that share a sector are as far apart on disk as in memory, which is so for
  what the linker writes.
- The flag `-` is to pad on the right (lib/printfmt.c:107); numbers it pads on the left,
  with `-`.  `%.0s` takes the 0 for the flag.  `%o` also prints a remark left over from an
  exercise, by another `cprintf`.  The kernel's `cprintf` returns 0: `*cnt++` moves the
  pointer (printf.c:13).  `E_NO_SYS` has no text though `inc/error.h:7` asks for it.
- All gates are trap gates (trap.c:85-100), which leave interrupts as they are; they stay
  off because `env_alloc` clears `eflags` and programs cannot change the flag.
- `strtol` takes the prefix `0x` also when no digit follows; `strlcpy` returns how much
  it copied.
- `user_mem_check` with `len` 0 tests a page all the same when `va` is not the start
  of one.

## Proofs

`PageInvProofs` proves that each operator of `PageOps` preserves `Good`, for any
finite set of pages and indices.  The central facts are about counting: `pp_ref` is
the cardinality of the set of entries that refer to the page (`RefSlots`), and each
operator adds or removes exactly one entry of it.  `Good` is needed as a whole:
counts are exact only because a page table has no other reference (otherwise writing
one entry would change several address spaces), and that holds only because what is
handed out is not in use, which rests on the counts.  That a fresh table is cleared
is where `ALLOC_ZERO` enters.

`PmapProofs` concludes, for any number of pages, directories, indices and
permissions:

- `Invariance`: `IInv` (`TypeOK`, `Good`, `TLBCoherent`) always holds;
- `FreeListCorrect`, `RefCountCorrect`, `TablesCorrect`, `TLBCorrect`: its parts;
- `Implementation`: `Pmap` implements `PageMap`.  Each call of an operator is a step on
  the address spaces or changes none; that a call through one directory leaves the
  others alone rests on `TablesSound` again.

The assumptions of these are those named in `PageOps` and `Pmap`: finitely many pages and
indices, `UIdx` a part of `Idx`, `RefMax` positive.

About `mem_init` it concludes, for every layout that `LayoutAssumption` of `MemInit` allows
(any size of the tables, the kernel, the arrays, the hole and what `entry_pgdir` maps) and
every machine with its base memory and room for the kernel:

- `FreeListExact`: between the steps the free list holds exactly the pages that are memory
  and not in use, each once and without references, and each page table has one;
- `LowMemoryFirst`: nothing that `entry_pgdir` does not map is written before `kern_pgdir`
  is loaded;
- `SetupChecksPass`: with three base pages and one page more than the page tables take, no
  check panics - all assertions of `check_page`, `check_page_alloc`,
  `check_page_free_list`, `check_kern_pgdir` and `check_page_installed_pgdir` hold;
- `DirectoryGrants`: the user may write nothing at any moment, read nothing above `ULIM`,
  and `env_setup_vm` gets all memory at `KERNBASE` and no user address.

The inductive invariant is `SetupInv` (`SetupCorrect`).  `DirHas` says of the directory and of
every page table what each entry is when so many pages of each region are mapped (`Done`),
and that no two tables are one page: otherwise mapping one page would change what is
mapped elsewhere.  `ListHas` says that the list is the usable pages without the tables.
That is what `pgdir_walk` needs for a fresh table, but not enough for `OnlyLow`: the tables
are written before `kern_pgdir` is loaded, so the list must *begin* with low pages, as many
as there are tables to come (`ForTables`), which rests on the sort (`InSort`,
`SortedFirst`), on what `page_init` left (`FreedList`), and on every check putting back
the pages it took in a way that keeps those at the head (`Reordered`).  For
`ChecksPass` one page above the kernel must be left when all tables are made: `Spare`, the last
page of memory or, when `entry_pgdir` maps all there is, the first page after the arrays, which
of the pages above the hole is the last on the list.  What `check_page` sees of its three pages and of the table it
makes is carried from call to call by `Shows`, `Seen` and `PageChain`; nothing else of
memory changes, so the kernel's own entries stay as they are.

`KernelProofs` concludes, for any number of slots, pages and indices and any binaries:

- `MemoryAccounted`: counts, free list and page tables are exact at every step of
  `env_create` and `env_free`, where a panic may stop them too;
- `KernelAlwaysRuns`, `AddressSpacesApart`, `IdsFindTheirs`: the rest of what `env_life`
  checks;
- `KernelUsesEnv`: `KernelSpec` implies the specification of `Env`, so all of this holds
  of the kernel;
- `AssertionsHold`, `UserModeLive`, `DestroyIsFinal`: the safety properties of `kernel`.

`EnvInv` strengthens `EnvMemory`, which is `Good` of `PageInv` with the directories of
the live environments and the kernel's in use.  Exact counts need `DirsSound`: a
directory is counted once and belongs to one environment, or freeing it would leave
another without.  `MappedOnce` says of addresses what `Isolated` says of counts; it is
what is preserved, because `region_alloc` maps only pages that it took from the free
list.  `LoadedSound` says which directory is in `cr3` by what the kernel is doing: that
`env_free` has left the directory it frees is true only from its first step on.
`SlotsSound` determines `past` by the generations; without it nothing tells that the id a
slot is given next is new.  `KernelInv` adds that wherever `trap` may still get to its end
the environment is running and loaded, and that a trap from the kernel is a page fault,
so that no assertion is reached with an environment that is gone.

Assumed of the constants, besides what `PageOps` assumes: `EnvAssumption` (the kernel's
two pages differ, `UVPT` is above `UTOP`), `BinaryAssumption` (what a program header is),
`OrderAssumption` (the two free lists hold everything once at the start),
`Slot0Assumption` (`&envs[0]` is the first on its list, as `env_init` makes it) and
`PastAssumption` (fewer environments are gone than there are generations: after 2^19 of
them in one slot ids do repeat, env.c:208).

`ConsoleProofs` concludes, for any `CONSBUFSIZE` of at least 2, any characters and any
capacity of the devices, from the one assumption `Limit < N` (fewer than `CONSBUFSIZE`
characters wait):

- `RingCorrect`: the buffer is the queue `due`;
- `Refinement`: `Console` implements `CharQueue`.

`SysCallProofs` concludes, for any page size, any `ULIM` that is the start of a page
and any page table:

- `CheckExact`: the answer is right for every range that `Fits` (it is not empty and
  its end, rounded up, is below 2^32);
- `CheckFirst`: the address reported is then the first bad one;

and for any areas a program may name, with any position of the first NUL:

- `FramesRight`: what `trap_dispatch` reads from the frame is the interrupted code's,
  register by register, through every gate, with and without an error code, from user mode
  and from the kernel;
- `ProgramsResume`: a program finds every register as it left it but `eax`, and `thisenv`
  is its own;
- `CputsPrintsOwn`, `CputsChecks`: `sys_cputs` prints the string up to its first NUL or its
  length, and only memory that the program may read; the kernel faults, if at all, on
  the one byte behind it.

The invariant `CheckInv` says that the loop stands at the start of a page, that what
lies behind may be accessed, and that the end is less than a page past the range; a
page is allowed as a whole because `ULIM` does not cut one (`AllowsPage`).  `SysInv`
follows a trap: `Delivered` says what the processor left on which stack, `FrameBuilt`
what `alltraps` made of it, `ResumeInv` what `env_tf` will restore, from `trap_dispatch`
to `env_pop_tf`.
`CputsInv` carries the arguments from the registers to the loop that prints, and that
nothing is printed before the check was passed.  Lengths are those of `UserMem`: below
2^31.  The one assumption added is `AreaAssumption`, the type of the areas.

`LibraryProofs` concludes about `StabSearch` and `DebugInfo`, for tables of any length:

- `SearchFinds`: the entry and its region are found if no entry starts one byte after
  an exact match (`Apart`);
- `SearchFindsNone`: the region is empty if nothing contains the address and either
  the first entry of the region has the type or none after it has;
- `InfoIsRight`: file, function, line and parameters are those of the address, for every
  table as gcc and ld write them (`WellFormed`, which the kernel's own table is), wherever
  the entries searched are `NoneNext` for the address; the parameters if they are
  `ParametersFirst`; an address in an assembly file gets that file's name, and neither
  function nor line.

The invariant of a search: left of `l` everything is at or below the address and `left` is the
last entry passed, right of `r` everything is above it and `r` stops just before an
entry; after an exact match `addr` is one greater than the address, and `Apart` says
no entry is there.  `DebugInv` carries it through the three searches: each is called on a
region in which the entries of its type are in order (`FunctionsInOrder`, `LinesInOrder`),
and what it leaves there is the file, the function or the line (`FileSpan`, `FunctionSpan`,
`LineAt`).  These name the entries by what lies before and after them; that `Max` and `Min`
of `InfoRight` are these entries follows (`FileKnown` and the like), without the induction
that the existence of a maximum would take.  It is assumed that `Tables` are tables; that
they are well-formed is a condition of `DebugInit`.

`TerminalProofs` concludes, for displays of at least two rows and any number of columns,
any keys, codes and output, from the assumption that the buffer is no longer than the
display without one row (1024 and 1920 in the code):

- `LineIsShown`: the display shows the line being edited;
- `CursorStays`: the cursor is always on the display;

and, from the assumption that scan codes are below 128 and none is 96 (with the bit of a
release that would be the escape, 224; no keyboard has it):

- `ShiftAgrees`: `shift` says which modifiers are held, unless two keys of one were down
  together, and no escape is left over;
- `ResetIsMeant`: the reset happens only with Ctrl, Alt and the grey Delete key down.

The invariant `TermInv` counts backwards from the cursor (`Behind`), because that is
what scrolling leaves alone: `GlyphBehind` and `BackspaceBehind` say that a character
moves everything behind the cursor by one place, whether or not a row scrolls away.  The
assumption is needed exactly there: what scrolls away is further back than the prompt.

`KeyInv` adds to `ModifiersHeld` that a modifier of which two keys are down is spoilt and
that a key of a spoilt one is down (`SpoiltHeld`): releasing a key clears its bit, which is
right only if no other key of it is held.  A press, a release and a pretended shift key are
each one lemma on the bytes they send (`CodeTaken`, `BreakTaken`, `FakeTaken`).

And about `Printf`, for buffers of at least two characters, strings of any size, any format
and any arguments:

- `PrintfPuts`: `Printf` implements the sinks of `PrintBuf`, that is, `vprintfmt` only puts
  characters one after the other, and its callers end with one `Close` (`SinkSpec`);
- `NothingLost`: console and buffer together are what was given, in order, as long as no
  NUL is among it, and at the end the buffer is empty;
- `StringFits`: the string is the longest beginning that fits with its NUL.

`SinkInv` adds that what `snprintf` keeps only ever grows at its end (`KeptAppend`), and
that the count keeps up with it.

About `Strings` and `RunCmd`, for memories of any size, words of any number of bytes and any
arguments that are `Proper` (`StartAssumption`), and for any commands whose names are not
empty and have no white space (`CommandAssumption`):

- `CallsRight`: every function of `lib/string.c` leaves in memory what it promises and
  nothing else changes, and it returns what it promises (`ResultRight`);
- `LineRead`: `runcmd` finds the words of a line of any length, each with its NUL in place,
  writes nothing but NULs over white space, and runs the first command that the first word
  names; a line of `MAXARGS` words or more runs nothing (`WordsRight`).

`ResultInv` has one part for each loop, which says what is done after so many turns
(`MoveInv`, `SetInv`, `CopyInv`, `ComparisonInv`, `FindInv`, `NumeralInv`).  For `memmove` it is
that the bytes still to be read are as the call found them: upward because the destination
is not above the source or only after its end, downward because it is above (`MoveGoesOn`);
and that units of a word add up to the length, because all three numbers are multiples of
it (`UnitDivides`).  For `strtol` it is that the value so far is the worth of the digits
read, which is less than `LONG`, so that nothing wraps (`NoOverflow`).  `RunInv` counts
the words that begin before the pointer: `argv` has as many, in order (`ArgsAre`), and
memory is what the call found with NULs over the white space that has been passed
(`NulsTo`).

`BootProofs` concludes, for images of any number of segments and any pace of the keyboard
controller and the disk:

- `ExecutesLinked`: every instruction of the loader and of `entry.S` is fetched from memory
  that is mapped and holds it; headers, page directory and stack are there when needed;
- `KernelLoaded`: every segment arrives where its header says, and nothing but the
  sectors asked for and the warm boot flag is written.

`BootInv` follows `readseg`: `ReadInv` ties the sector it is at to the address it is at;
`PartLoaded` says that what has been read is in place, also of earlier segments.  The sector in
which one segment ends and the next starts is read twice, and the second reading must
bring the same cells: that is `Apart`, from what `Linked` says of distances on disk and in
memory.  `LineInv` is why nothing lands a megabyte too low: the first sector comes after
the last byte to the keyboard controller took effect.  `OnlySectors` is inductive by itself,
because `readseg` never passes the sector in which a segment ends (`UpIs`).

Assumed are `LayoutAssumption`, how flag, boot sector, header and 1 MB lie (0x472, 0x7c00,
0x10000, 0x100000), that header and 1 MB start sectors, that a page table
maps all the memory there is in the model, and that `KERNBASE` is where a table's part of
the addresses starts; and of an image what `Linked` says.

Every inductive invariant was checked by TLC before it was proved, on the instance of the
run that checks the property it serves.

Only model-checked: what `Printf` converts (`ConversionRight`), and liveness (`TrapHandled`,
`Starts` and the like).  What a recursive function such as `printnum` computes needs an
induction that the installed provers cannot use.  Liveness under fairness is beyond the proof system.

## Not modelled

The GDT and the segment registers while booting (they map every address to itself), what
the serial and parallel ports put out, what the pages of a program contain after loading
(`Env` has which pages it gets), reading the size of memory from the NVRAM, the exact
text of messages, timing.  `panicstr` (init.c:66) is not a variable: it decides only
whether the message of a panic is printed, and a first panic and a second both end in the
loop around the monitor, which is what `Kernel` has.  The assertion that interrupts are off
(trap.c:219) is taken for granted, not claimed: no code sets the flag, `env_alloc` clears
`eflags`, and a program at privilege 3 cannot set it.  That the cursor is on the display when
the kernel starts (console.c:150-157) is an assumption on the firmware: `Terminal` begins at
any place of the display.  A `page_insert` that fails is one step that changes nothing
(`PageInsertFails`), because `pgdir_walk` returns before anything is written
(pmap.c:387-389, 457-458).  `test_backtrace` is called by nothing, `user/sendpage.c` uses
calls this kernel does not have.  Build files, grading scripts and notes are not part of
the running system; `kern/` is superseded.
