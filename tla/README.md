# A TLA+ verification project for the CS 61 problem sets

The repository holds the problem sets of an operating-systems course. Most of
its own logic is in four programs: a small operating system (`pset3`, WeensyOS),
a set of memory allocators (`pset1b`), a shell with a test harness that runs it
on a pseudo-terminal (`pset4`), and a buffered I/O library with the programs over
it and their test harness (`pset5`). This project models all four: the kernel,
with its page table iterators, console, keyboard, C library and loaders; the
allocators; the shell and its harness; the I/O library, programs and harness.

## Inventory

### WeensyOS (`src/pset3`)

| Part | State it keeps | Operations | Interacts with |
|---|---|---|---|
| Kernel (`kernel.cc`, `k-exception.S`) | `ptable[]` (state, registers), `current`, `physpages[].refcount`, `ticks`, the static locals of `memshow()` | `kernel_start`, `process_setup`, `kalloc`, `exception`, `syscall`, `syscall_page_alloc`, `schedule`, `run`, `memshow` | enters from processes by trap or timer; calls the memory viewer and the keyboard in every entry |
| Hardware support (`k-hardware.cc`, `k-apic.hh`) | APIC in-service bit, descriptor tables | `check_keyboard` (soft reboot, power off), `init_timer`, `ack`, `allocatable_physical_address`, `panic`, `assert_fail` | resets the kernel's data segment on a soft reboot |
| Keyboard (`k-hardware.cc`) | modifiers held, escape byte seen; the controller's queue | `keyboard_readc`, `check_keyboard` | called in every entry to the kernel |
| Backtrace and symbols (`k-hardware.cc`) | frame being looked at | `backtracer::check`, `check_leaf`, `step`; `lookup_symbol` | walks the stack of a kernel or process that failed |
| Loaders (`boot.cc`, `program_image`) | memory being filled | `boot_readseg`, iteration over segments | `process_setup` |
| Guards of statics (`k-hardware.cc`) | a byte per variable | `__cxa_guard_acquire`, `__cxa_guard_release` | called by compiled code |
| Memory viewer (`k-memviewer.cc`) | a page it gets from `kalloc()` on first use | `refresh`, `symbol_at`, drawing | competes with processes for pages |
| Processes (`p-allocator.cc`, `p-fork.cc`, `p-exit.cc`, `u-lib.*`) | `heap_top`, `stack_bottom`, the result of `sys_getpid()` | system calls, writes to heap pages | share one identity mapping with each other and the kernel |
| Page table iterators (`k-vmiter.*`) | a position in a four-level table, with the level and permissions found on the way | `vmiter`: `find`, `next`, `next_range`, `try_map`, `range_perm`; `ptiter`: `next` | used by the kernel and the viewer; `try_map` calls `kalloc()` |
| Console (`lib.cc`) | the screen, its cursor; an escape buffer and a colour per printer | `console_puts`, `console_printf`, `error_printf`, `scroll`, `move_cursor` | written by the kernel and by every process at once |
| C library (`lib.cc`, `lib.hh`) | - | memory and strings, `strtol`, `from_chars`, `to_chars`, `snprintf`, `rand(min, max)`, rounding | called everywhere |

Hard behaviour: the timer may interrupt a process between any two instructions
and the system calls of others come in between; a soft reboot may happen in any
handler, in the scheduler's spin or after a panic, and keeps memory but not the
data segment; the memory viewer allocates a page at a moment nobody chooses;
interrupts are off in the kernel, so what depends on `ticks` may stand still. A
`vmiter` keeps its place between calls while the table changes under it, a
mapping may fail half-way for lack of pages, and a `ptiter` walks a table whose
pages are freed behind it.
Correct means: reference counts equal use, no page has two users, a process
finds its own bytes in its pages, no assertion fails, faulted processes stay
frozen, every runnable process runs; an iterator agrees with what the processor
finds, and a walk frees each page once, after the pages below it; the memory map
is true; text printed in turn appears in order and error messages push out blank
lines first; a key gives the character its modifiers ask for, however its bytes
are spread over calls; a backtrace of a broken stack ends and faults on nothing;
a program is loaded whole.

### Memory allocators (`src/pset1b`)

Each of `m61-once.cc`, `m61-section.cc`, `m61-lastalloc.cc`, `m61-reuseempty.cc`,
`m61-staff.cc` and `m61-derp.cc` implements `m61_malloc`, `m61_free` and
`m61_get_statistics` over an 8 MiB buffer. State: the end of what has been
handed out, the latest allocation, a table of active allocations or of all
blocks, and the statistics. They are sequential; what is hard is the order of
calls (any sequence of sizes and frees, wrong frees included) and the edges
(size 0, an exact fit, a full buffer). Correct means: live allocations are
disjoint and stay, space that can be reused is, statistics are right, wrong
frees are detected and right ones are not.

### Shell test harness (`src/pset4/shtest.cc`)

Three processes (and the shell's jobs). The *tester* (`run`, `check_exit`,
`interrupt`, `after`, `fail`, the destructor) forks a *governor*
(`run_governor`, `kill_all`), which owns a pseudo-terminal, forks the *shell*
under test and reports its exit through a pipe. They share the terminal's
foreground process group and the run directory, and signal each other. Hard: any
of them may exit or be killed at any point, process IDs are reused once waited
for, signals that arrive just before `poll()` do not wake it, processes fork
while they are being killed. Correct means: `run()` returns with the truth, no
foreign process is signalled, every test and every governor ends, nothing is
left running.

### I/O library and programs (`src/pset5`)

`io61.cc` (the same as `slow-io61.cc`), `syscall-io61.cc` and `stdio-io61.cc`
implement `io61_read`, `io61_readc`, `io61_write`, `io61_writec`, `io61_flush`,
`io61_seek` and `io61_close` with one system call per byte, one per call, or over
stdio. State: the file descriptor, its offset in the kernel, and stdio's buffers.
Nine programs (`cat61`, `read61`, `write61`, `blockcat61`, `varblockcat61`,
`stridecat61`, `reverse61`, `reverseread61`, `reversewrite61`) copy a file with
them in some order, from and to files or pipes. Hard: system calls block, return
less than was asked for, fail or are interrupted; pipes fill up, run dry and
break; a seek meets bytes in a buffer. Correct means: each byte arrives once and
in its place, success means a complete output, a copy in a pipeline ends.

### I/O test harness (`src/pset5/iotest.cc`)

Each test program has an `io61_tester`: setup functions generate input files into
a cache that all tests share and link or copy them into a run directory; `run()`
executes a command in its own process group under a time limit, several times
when it is timed. Hard: testers fill the cache at the same time, a tester dies
while it writes, the command hangs, forks, or writes to the input it shares with
the cache, the alarm comes just before the wait. Correct means: nobody reads a
wrong cached file, every test ends, nothing runs on, the run directory goes.

### Shell (`src/pset4/sh61.cc`, `helpers.cc`)

A loop reads lines into a fixed buffer, prompts, and runs them; a tokenizer and
nested parsers divide a line into conditionals, pipelines and commands. In this
repository `command::run()` is a stub. Hard: lines and buffer ends fall together,
reads are interrupted, quotes and escapes hide operators. Correct means: every
character is read once, one prompt per line, every token is visited once.

### The rest

`pset1a`: the first allocator again. `pset0`, `pset2`, `asmfun`, `containers`,
`docker`: build scripts, exercises and benchmarks. `PROJECT.json` lists every
part with its status.

## Modules

| Module | Models | Kind |
|---|---|---|
| `WeensyKernel` | kernel, timer, keyboard, viewer's allocation, `p-allocator`, and `p-fork`/`p-exit` up to their first `sys_fork()` | component |
| `PageOwnership` | what page management promises | abstract specification |
| `WeensyKernelProofs` | of `WeensyKernel` and `MemViewer`, and of `Keyboard`, `Guard` and `Backtrace` | proofs |
| `MemViewer` | what the memory viewer draws of `WeensyKernel`'s state | component, over `WeensyKernel` |
| `MCWeensyKernel` | | instance |
| `M61Bump` | the five allocators that hand out the buffer from its start (`variant` says which) | component |
| `M61Derp` | `m61-derp.cc` | component |
| `Malloc61` | what `m61_malloc`/`m61_free` promise; both allocator modules implement it | abstract specification |
| `HeldBytes` | the bytes that live allocations hold, as pairs of a slot and an offset: their number is what `active_size` should be | definitions |
| `M61BumpProofs`, `M61DerpProofs` | | proofs |
| `ShTester` | tester, governor, shell and jobs, composed in one module because they share nearly all their state | component |
| `MCShTester`, `ShTesterProofs` | | instance, proofs |
| `Io61` | the versions of the I/O library, the programs over them, and the pipeline around them | components, composed |
| `Copier` | what a copy program promises | abstract specification |
| `Io61Proofs` | | proofs |
| `VmIter` | `vmiter` and `ptiter`, and a kernel that moves, maps and frees with them | component |
| `VmIterProofs` | | proofs |
| `IoTest` | several testers of `iotest.cc`, their commands, and the cache they share | components, composed |
| `IoTestProofs` | | proofs |
| `Generator` | the contents of generated input files | algorithm |
| `Shell`, `MCShell` | `sh61.cc` and the parsers of `helpers.cc` | component, instance |
| `ShellProofs` | | proofs |
| `Console` | `console_printer`, `error_printer`, `log_printer`, `panic`, with several processes that print | component |
| `Keyboard` | `keyboard_readc`, `check_keyboard`, and the controller's queue | component |
| `Backtrace` | the backtracer on an arbitrary stack; `lookup_symbol` | component |
| `Args` | `io61_args`: options, sizes, files, the restart under `strace` | component |
| `CLib`, `Printf` | `lib.cc` and the arithmetic of `lib.hh` | algorithms |
| `Image` | `boot_readseg`, `program_image`, the loading in `process_setup` | algorithm |
| `Guard` | the guard of a static variable | component |
| `MCLibrary` | a choice of one of the parts above from `Generator` (without `Shell`) to `Guard` | instance |

### WeensyKernel

`mode` is where the machine is. `"user"` means that process `current` runs with
interrupts on; its own steps (`UserSyscall`, `UserInit`, `UserTouch`,
`UserFault`) then interleave with `TimerInterrupt`. Everything else is kernel
code with interrupts off, cut where the code polls the keyboard, since there a
soft reboot or a power-off may happen: `Entry` (save registers, `memshow`),
`NoKey`/`SoftReboot`/`Poweroff` (`check_keyboard`), one handler per trap
(`HandleTimer`, `HandlePageFault`, `HandlePanic`, `SysGetpid`, `SysYield`,
`SysPageAlloc`), and `Schedule`/`ScheduleShow`, one turn of `schedule()`'s loop.
`Boot` is `kernel_start()` with every `process_setup()`.

Data is abstracted as follows. An address is a page number. A page holds one
content: junk, the fill of `kalloc()`, zero, a boot page table, or the pid whose
image or byte is there. Of the registers only `%rax` is kept, as the result of
`sys_getpid()` and `sys_page_alloc()`; `upc` stands for `%rip`. `ticks` appears
only as `ticks - last_ticks`, saturating at the value where nothing changes any
more. The random choices of `p-allocator` are nondeterministic.

### M61Bump and M61Derp

Pointers are offsets into the buffer. The program under the allocator keeps at
most one allocation in each of `Slots`, allocates and frees them in any order,
and (where the allocator checks) may free any other pointer, which `misused`
remembers. `m61_free(nullptr)` changes nothing in any allocator and is left out.
`M61Derp` computes block sizes modulo `WORD`, as `size_t` does.

### ShTester

`tpc` and `gpc` say where the tester and the governor are; `proc` is the state
of the shell (`"pre"` is between `fork()` and `execvp()`) and its jobs. Signals
take effect as POSIX says for the handler installed at that point (`Sigterm`).
`woken` says that a signal interrupted a `poll()` that was already waiting; one
that came before is not noticed by it. Control-C (`ControlC`) goes to the group in
the foreground of the terminal, whichever that is: typed before the shell has the
terminal, or when there is no shell because `fork()` failed, it kills the governor,
for which SIGINT has its default action. The run directory then stays, so
`RunDirRemoved` starts where the governor has given the terminal away. The kernel's part (process IDs, reaping
by init, end of file on the pipe) is modelled from how the harness uses it and is
marked external in the map; the output of `ps` is taken to be a snapshot, and that a
number in it may belong to another process by the time `kill_all()` uses it is not
modelled: `SignalsRight` is about the tester's own `kill()`. Times are
multiples of one unit; only their order counts.

### Io61

A byte of the input is its offset there, so that a lost, repeated or reordered
byte shows. `run` is the command line with the libraries behind the input and the
output (`read61` and `write61`, for instance, use stdio on one side) and what the
files are. `pc` goes round the programs' common loop: `"top"`, `"read"`,
(`"seek"`), `"write"`, `"after"`, with `"flush"` in between when a stdio buffer
has to be written; the loops differ in what they ask for (`CatLoop`, `BlockLoop`,
`VarblockLoop`, `ReverseLoop`, `ReversewriteLoop`, `StrideLoop`) and in what a
result of 0 means (`Returned`). A step is one system call, one piece of a call
that blocks on a pipe, or one call answered from a buffer. System calls, stdio's
buffering and the neighbours in the pipeline are external.

Three restrictions are the code's own. With `-a` an alarm interrupts a read,
`io61_readc()` returns EOF for that, and `cat61` ends early; and no program looks
at the result of `io61_close()`, so a flush that fails there passes for success.
`ImplementsCopier` does not call these two a success. `io61_read()` of
`syscall-io61.cc` returns what a pipe has, which its comment does not allow for,
and is left out of `ShortReadIsEnd`. Programs that exit before they copy anything are not
among `CommandLines`: those whose files cannot be seeked, and `reversewrite61` reading
from a pipe without `-s`, which cannot tell the size.

### VmIter

The widths of addresses and indices are constants. A page table page is a number,
an entry a set of flags and the page or frame it leads to, and `pep` a page and
an index. One `vmiter` is moved and maps pages by any sequence of calls, on an
empty table or one with a large page in it; `try_map()` is cut where it calls
`kalloc()`, which may fail. At the end the kernel walks the table with a `ptiter`
and frees each page it stops at; `down()` is one step per turn of its loop. What
an iterator says is compared with `Translation`, the walk of the processor from
the root. An iterator that is done is not looked at: it has address 0, and
`find(0)` leaves it so, because `find()` acts only on a new address.

### IoTest and Generator

One generated file and one input file per tester stand for all: contents are
`"full"`, `"short"` (a wrong size), `"junk"` (right size, wrong bytes) or the
test's own. Inodes are explicit, since a hard link lets a command write into the
cache. `tpc` follows `generate_file()` from `stat()` to `link()`, and `execute()`
through `fork`, `setpgid` on both sides, the timer, `wait4` and the clean-up.
`RunDirRemoved` is about a test that has set up: where `library_dir()` or a setup
function calls `exit(1)`, no destructor runs and the run directory stays.
`Generator` computes contents from an abstract random engine (the seed's numbers)
with a buffer of `BUFFER` bytes instead of 64 KiB.

### Shell

Characters are strings of length one, and a line is a sequence of them. The
tokenizer and the parsers are functions of a line; `Regions` is a parser's loop.
`fgets()` may fail at any place of a line, because a signal interrupts it or for
another reason. It then returns null even if it has put characters into the buffer,
and `buf[bufpos] = 0` in `main()` drops those. `given` is the input without what was
dropped so; the shell runs exactly that, and it is the whole script if no read failed.
Scripts have no NUL in them: `main()` finds the end of what it has read with `strlen()`.
A line whose command ends in a blank that is escaped or inside an open quote is
left out of `ParsersSeeAll`: `first_delimited()` trims that blank off, which is in the
middle of a word. In `"a"\ ;b`, for instance, the token `"a"\` remains, whose last
character escapes nothing that is in it: `str()` steps over the next one too, misses
the end of the token (it tests `pos != _len`) and reads on past it. `str` models this
as `Overrun`.

### Console, Keyboard, Backtrace, Args

`Console` puts one character a step, so that processes interleave; a kernel
message is one step, as interrupts are off. `transcript` is a history variable:
what was printed, on an endless paper. `Keyboard` has keys of every kind of entry
in the keymap; `want` is what a key should give, told from the keys held when it
was pressed. `confused` marks the cases no driver with one bit per modifier can
get right (both shifts down, modifiers held through a reboot). The controller is
taken to hold back a key its queue has no room for. `Backtrace` chooses a word of the stack when it is read, so the stack is
arbitrary. `Args` divides text into digits, point and suffix; `strtoul()` and
`strtod()` are external. A number with a point or a suffix goes through a double:
`Double` is the nearest one with `DBL_BITS` bits, ties to even. `SizeRight` claims what
is true of that: digits alone are read exactly; with a point or a suffix whole sizes up
to 2^53 are, and larger ones within the error of a double, which is also how close to
`SIZE_MAX` a size is refused. (`9007199254740993.` is read as 9007199254740992.)

### CLib, Printf, Image, Guard

`CLib` has memory as a function from addresses to bytes and integers of
`LONG_BITS` bits. Every property compares a function with a definition that does
not follow its code (what C says the function returns), and names the arguments for
which the code differs from it. The template of `rand(min, max)` is modelled for
unsigned and for int, where `max - min + 1` may overflow. `Image` names a byte of
a file by its offset. `Guard` has one step per access to the guard; this kernel
runs on one processor, but the code is written for several.

## Runs

| Run | Checks | Instance | Expected |
|---|---|---|---|
| `kernel` | type, page accounting, isolation, a true memory map, assertions, frozen faulted processes, refinement of `PageOwnership`; every runnable process runs, every process is shown | two allocators, or fork, or exit; process 1 may fault | pass |
| `m61_bump` | type, space comes back, statistics, aborts, refinement of `Malloc61` | sizes 1-3, buffer of 6, 5 counted calls | pass |
| `m61_last_zero` | active allocations do not overlap (`m61-lastalloc.cc`) | sizes 0, 1 | violation |
| `m61_derp` | type, statistics, misuse detected, splits fit, refinement of `Malloc61` | sizes 1-4, buffer of 8, alignment 2, 6 allocations | pass |
| `m61_derp_exact` | a "double free" abort is one | size 2 | violation |
| `shtest` | type, no stray signal, `run()` returns right, nothing left, the shell starts in the foreground, one report; every test and every governor ends, the run directory goes | two jobs, functions at 1 and 3, limit 2, 3 rounds; set-up and `ps` may fail | pass |
| `shtest_orphan` | the governor ends if the tester dies at once | one job | violation |
| `io61` | type, no byte lost on the way, assertions, short reads only at the end, refinement of `Copier`, every program ends | all programs, libraries and kinds of files | pass |
| `vmiter` | type, iterator agrees with the processor, `range_perm`, `next` skips nothing, `try_map` changes one mapping, no use after free, all pages visited | seven addresses, five page table pages, with and without a large page | pass |
| `iotest` | type, the cache is right, inputs are complete, nothing left, run directory removed, results only of a command that succeeded; every test ends | two testers, one running a command, failing calls and a kill | pass |
| `shell` | type, no character lost, one prompt per line, tokens cover the line, parsers visit all, arguments right; the loop ends | every line of 3 characters of 13 kinds, of 5 of some kinds, scripts of up to 9 | pass |
| `library` | console, keyboard, backtrace, programs' arguments and files, C library and formatting, loaders, guard: one invariant each | see *Bounds* | pass |

A property of a run that has several sides is a conjunction of named parts, and
each part that is not a type invariant has a mutant of its own.

The violations are disagreements between a comment, test or assertion and the
code; each is quoted under `findings` in `PROJECT.json`:

* `m61_malloc(0)` does not move `buffer`, and in `m61-lastalloc.cc` freeing the empty allocation takes back the next one, which
  is live. (For positive sizes the contract is proved.)
* `m61-derp.cc` overwrites its neighbour's entry after an exact fit: the first
  free of the neighbour aborts as a double free. (`m61_derp` asks for positive
  sizes only: `SplitFits` does not hold for `m61_malloc(0)` on the empty block
  that an exact fit leaves at the end of the buffer.)
* In `shtest.cc` the governor may take init for its tester.

Smaller disagreements are stated by the properties themselves, so that the runs that
pass, and the theorems, say what the code does:

* `sh61.cc:151` means to "ignore EINTR errors", but an interruption within a line drops
  what had been read of it (`NothingLost`).
* `lib.hh:181` says of `round_up(x, m)` that it gives the smallest multiple of `m` that is
  at least `x`. Where `x + m - 1` wraps around it gives 0, even if there is such a
  multiple; for powers of two there is none then (`RoundingRight`).
* `lib.hh:51` allows `max - min` to be `RAND_MAX` in `rand(min, max)`. The version for
  ints then overflows in `max - min + 1`. If the build wraps around, no draw is
  taken and the loop does not end; if it computes in a wider register the result is
  right (`UniformRight` has both).
* `shtest.cc:279` leaves SIGINT its default action in the governor, so Control-C kills it while the shell
  does not have the terminal yet; the run directory stays (`RunDirRemoved`).

Other things met on the way, which no text of the repository contradicts:

* `strtoul("-99999999999999999999")` is 1: `ULONG_MAX` is negated after the
  overflow. In base 16 `from_chars()` takes the characters `:` to `?` for digits
  10 to 15. `NumbersRead` leaves both out.
* A broken escape sequence in an error message is logged twice, because flushing
  the screen's buffer calls the virtual `putc()` that logs.
* The backtrace's warning of a stack overflow can only appear for a leaf function:
  otherwise `check()` has failed before and both registers are 0. And the bytes
  `f3 0f 1e f1` compared there are not those of `endbr64`, which ends in `fa`.
* `lookup_symbol()` can miss an address if two symbols have the same value.
* A LOAD segment of no bytes takes the page or sector it starts in, unless it
  starts at its beginning.
* Processes that print at the same time overwrite each other's text.

### Bounds, and why they are enough

* Kernel: two processes with one image, one heap and one stack page each are the
  least with which a process can be interrupted inside an allocation by another
  one that allocates; the low memory has the two pages of the boot page table
  (one becomes the viewer's) and reserved pages on both sides. `HZ = 4` gives a
  half second of two ticks, so that a tick may pass without a switch of the
  memory viewer. The theorems lift every safety property, the
  viewer's included, to any number and layout.
* Bump allocators: three live allocations and a buffer that two large or six
  small ones fill; `MAX_COUNT` bounds the counting allocators only. The theorems
  lift the contract and the statistics to any size.
* `M61Derp`: a buffer of four aligned blocks holds two live neighbours and a hole
  on each side, so that exact fits, splits and reuse of a larger block all happen;
  `MAX_COUNT = 6` allocations fill, free and fill again. `WORD` only has to be
  larger than the buffer. The theorems lift all to any size and alignment.
* `ShTester`: one `after` function before the time limit and one behind it; two
  jobs, so that a job can fork another while it is killed; three rounds of
  `kill_all()` (200 in the code), so that it can end by itself or give up.
* `Io61`: files of 0, 1 and 7 bytes, blocks of 1 to 3, a stdio buffer of 3 and a
  pipe of 2, so that blocks straddle buffers, buffers straddle pipes, and the last
  of each is partial; strides of 3, 4 and 9 (several columns, a partial last row,
  one row only), multiples of the block as `stridecat61` needs; limits of 0 and 4
  and a disk of 5 bytes that end in the middle. Programs that seek are asked for no
  more than the file has, since they assert that it is there.
* `VmIter`: pages of 2 bytes and page tables of 4 entries keep four levels and the
  non-canonical hole; the addresses are the first and last page of the lower half
  and the last of all, two that leave the first page's table one and two levels
  up, one that is not aligned and one in the hole; five pages suffice for two
  branches, and not for a third.

* `MemViewer`: page 0, a kernel page and the console's page are unallocatable, of
  each kind one.
* `IoTest`: two testers are the least that meet in the cache; a limit of 1 instant,
  one trial and one setup call each let the alarm race every step.
* `Shell`: a buffer of 8 holds a line of 5 and not two of them; one interrupted
  read can fall anywhere, before a line or after any of its characters.
* `library`. Console: four rows of two columns, so that the blank block can be
  above, below or used up; an escape buffer of 6 that one text fills; three calls.
  Keyboard: four presses and releases through a queue of three bytes, which
  fills up. Backtrace: pages of 32 with words of 4, two user and two kernel pages
  present or not, 21 values on the stack. Numbers of 8 bits with digits around 255
  and 128, all 256 for writing and rounding, every range of `rand()` up to 32, all
  flags of `printf` with each of three widths and precisions, memories of five
  bytes, size texts of four characters with doubles of 6 bits and a `SIZE_MAX` above
  them, symbol tables of six symbols, files of up
  to 12 bytes over a buffer of 4, two segments over sectors of 4 and pages of 8,
  three threads at a guard.

`CHECK_DEADLOCK FALSE` is set for the allocators and `library` only: a program may
stop calling them, an abort is an end, and calls and walks end.

### Fairness

* `kernel`: weak fairness of the kernel's steps, because a handler runs with
  interrupts off until it is done, and strong fairness of the timer, which is
  programmed to be periodic and fires whenever interrupts are enabled and the
  last one has been acknowledged. A process is not assumed to do anything.
* `shtest`: weak fairness of time, of the tester, of the governor and of a
  shell that has yet to call `execvp()`: the system schedules every process. A
  shell that runs, and its jobs, may do nothing for ever.
* `io61`: weak fairness of the program, of the one that feeds it and of the one
  that reads from it: the system schedules all three. The reader may quit at any
  time, and need not.
* `vmiter`: weak fairness of the `ptiter` loop, which is sequential code.
* `iotest`: weak fairness of each tester, of its clock and of its timer while it is
  set. A command may do nothing for ever.
* `shell`: weak fairness of the loop.

## Proofs

All proofs are checked by TLAPS (SMT, Zenon, and LS4 for temporal steps), for
every value of the constants that satisfies the named assumptions.

### WeensyKernelProofs

From `SizeAssumption` (sizes, at least one process, a half second of at least
two ticks), `LayoutAssumption` (kernel and reserved pages lie below the
processes) and `ProgramAssumption`:

| Theorem | States |
|---|---|
| `TypeCorrect` | `Spec => []TypeOK` |
| `PagesAccounted` | `Spec => []PageAccounting` |
| `MemoryIsolated` | `Spec => []Isolation` |
| `NoAssertionFails` | `Spec => []AssertionsHold` |
| `FaultedStayFrozen` | `Spec => FaultedFrozen` |
| `OwnershipRefinement` | `Spec => ImplementsOwnership` |
| `ViewerIsRight` | `Spec => []ViewerRight` |

None of these is inductive. `Isolation`, for instance, needs `PageAccounting`
(else `kalloc()` could pick a process's page), which needs to know where each
process is in its program (`HeapInv`: a process in `"fresh"` has a page it has
not counted), what the call being handled was made with (`CallInv`: `arg` is
still the caller's `heap_top`), that `kalloc()`'s first page is below every
process (`ViewerInv`), and that the pid a process is about to write is its own
(`PidInv`: `sys_getpid()`'s result is in `%rax`, or in the saved registers of a
process that has been switched away). `ProcInv` ties the process table to the
boot command and says that the data segment is clear while booting. `IInv` is
the conjunction; there is one lemma per action, and `NextInv` combines them.
`OwnershipRefinement` maps a page to the process or viewer that uses it: a step
only hands out free pages, except a soft reboot, which frees all.
`ViewerIsRight` needs no invariant of its own: from `IInv` the viewer's marks of a
page are those of its owners (`MarkedInRegion`, `MarkedBelow`), so `symbol_at()`
finds one owner where there is one. `ReservedAssumption` says
which pages are reserved, and `MarkAssumption` that the viewer has a bit of its own
for each process (it has 29, and `MAXNPROC` is 16).

### WeensyKernelProofs: keyboard, guard and backtrace

From `KeyboardAssumption`, `BacktraceAssumption` and `PowerAssumption` (2 to the width of
a `long` is a positive number, which the provers do not know):

| Theorem | States |
|---|---|
| `KeyboardIsRight` | `KeySpec => []KeyboardRight` |
| `GuardCorrect` | `GuardSpec => []GuardRight` |
| `BacktraceIsSafe` | `BtSpec => []BacktraceSafe` |

*Keyboard*, for a queue and a number of events of any length. The driver lags
behind the user by the bytes in the queue, so neither `KeysRight` nor
`ModifiersRight` says anything about the bytes still to be read. `PathInv` does:
there is a sequence of modifiers, one for each place of the queue, from the driver's
at its head to the user's behind its last byte, in which each byte takes the
modifiers on as `keyboard_readc()` would, and gives the character that is wanted. A
key pressed or released makes the path longer by one byte or two (`PathGrows`), a
call makes it shorter by one (`PathShrinks`). A path, being a witness, avoids a
recursive definition over the queue. The keymap's facts are proved key by key
(`CodeFacts`, `MeaningFacts`).

*Guard*, for any set of threads. That a locked guard has a thread to unlock it is
not inductive: an exchange of 1 for 2 locks a guard that was open, so `GuardInv` also
says that the variable is initialized whenever the guard is 2 or a thread is past
it, and that a thread which initializes is the only one past the guard.

*Backtrace*, for every size of pages and words and every content of the stack. The
bound on the frames is not inductive, since it says nothing about where the walk is.
`BtInv` counts the frames printed so far against the part of the page already
climbed: below `rsp` on the first stack's page (`OnFirst`), then, after the step to
the user's stack, a whole page and the part below the frame on the second
(`OnSecond`). `BacktraceAssumption` has the user's addresses end a page or more below
the kernel's, as `VA_LOWMAX` and `VA_HIGHMIN` do: if they met, the walk could go from
one stack to the other and back for ever.

### M61BumpProofs

From `SlotsAssumption`, `SizeAssumption` and the hypothesis `Positive` (no
request is for 0 bytes; with one the contract is false, see `m61_last_zero`):

| Theorem | States |
|---|---|
| `AllocationContract` | `Spec => ImplementsMalloc61` |
| `StaffAbortsRight` | `Spec => []AbortsOnMisuse` |
| `SpaceReturns` | `Spec => []SpaceComesBack` |
| `StatisticsAreRight` | `Spec => []BooksRight` |

That a new allocation meets no live one follows from `LiveInv` (what is live
ends before `Buffer`), which a free may disturb only by moving `Buffer` back:
`LastInv` says that nothing live lies behind what `m61-lastalloc.cc` takes back,
where `Apart` and positive sizes exclude a second allocation at the same address;
`CountInv` says that `m61-reuseempty.cc`'s counter is 0 only when nothing is
live; `TableInv` says that `m61-staff.cc`'s table is what is live.

A sum over the live allocations would need induction over their set. `HeldBytes`
says the same with a cardinality: the bytes held are a set of pairs, to which an
allocation adds, and from which a free takes, an interval of the size's cardinality
(`HeldChange`). The cardinality theorems of the library do the rest.

### M61DerpProofs

From `DerpAssumption` (a buffer and a `WORD` that are multiples of the alignment, the
buffer smaller by more than one `ALIGN`, finitely many slots) and `Positive`, as above:

| Theorem | States |
|---|---|
| `AllocationContract` | `Spec => ImplementsMalloc61` |
| `StatisticsAreRight` | `Spec => []BooksRight` (statistics, and wrong frees abort) |
| `SplitsFit` | `Spec => SplitFits` |

The table of blocks does not tile the buffer: after an exact fit the entry behind
the block is overwritten by an empty free one, and the neighbour, still live, is in
no entry. So the invariant is not that blocks are allocations. It is that blocks do
not overlap (`BlockInv`), that an allocated block has a live owner of its address
and size (`OwnerInv`), and that a free block that is not empty is apart from every
live allocation, in the table or not (`FreeInv`). First fit takes only such a block,
so the new allocation meets nothing. Positive sizes are needed since a request of 0
bytes could take an empty block. `SplitFits` rests on `Multiples`: rounding up to
the alignment does not pass the end of a block that is a multiple of it.

### ShTesterProofs

From `TimeAssumption` and `JobsAssumption` (the names of jobs are not those of the
shell and the governor):

| Theorem | States |
|---|---|
| `SignalsAreRight` | `Spec => []SignalsRight` |
| `RunReturnsTheTruth` | `Spec => []RunReturnsRight` |
| `KillAllLeavesNothing` | `Spec => []NothingLeft` |
| `ShellReportedOnce` | `Spec => ReportedOnce` (part of `EveryTestEnds`) |

What `run()` returns is right because of a chain through three processes: no shell
before the governor's fork and no report before its loop (`StageInv`); a report,
in the pipe or read, is the status of a shell that has been waited for
(`ReportInv`); the tester takes the shell to be running until it has read one, and
goes on only after the report of an exit (`BeliefInv`). `KillInv` says that once `ps`
has listed nothing there is nothing left that could fork, so that the state in which
`kill_all()` ends cannot be spoilt afterwards.

### IoTestProofs

From `IoTestAssumption` (finitely many testers, at least one trial and one setup
call each, and the names `"kept"` and `"before"` are no tester's):

| Theorem | States |
|---|---|
| `FilesAreRight` | `Spec => []FilesRight` |
| `CommandsLeaveNothing` | `Spec => []NothingLeft` |
| `ResultsAreRight` | `Spec => ResultsRight` (part of `EveryTestEnds`) |
| `RunDirIsRemoved` | `Spec => RunDirRemoved` (part of `EveryTestEnds`) |

That a file is complete where it is used depends on who may still write to it. A
generated file has one writer until it is renamed (`GenInv`); what is in the cache is
read-only and complete (`CacheInv`); what a command can reach is read-only or a file
of its own run directory (`InputInv`), which only testers that have ended share
(`KeepInv`); and no command runs while its test sets up (`CommandInv`). `WantInv`
carries this from the end of the set-up to the start of the command.

### Io61Proofs

From `SizeAssumption` alone (the sizes are natural numbers, blocks, strides, pipes and
buffers are not empty, and no size reaches `SIZE_MAX`), for every program, library and
combination of options of `CommandLines` (a program that seeks is asked for no more bytes
than its file has: `Asked`):

| Theorem | States |
|---|---|
| `BytesAreRight` | `Spec => []BytesRight` |
| `ShortReadsAreEnds` | `Spec => ShortReadIsEnd` |
| `ProgramsImplementCopier` | `Spec => ImplementsCopier` |

The bytes between the input and the output are followed by their numbers.
`InputInv` counts on from the place in the input of the first byte the program has
not taken (`Taken`): the stdio buffer, the pipe and the rest of the file follow one
another from there. `StreamInv` counts back from the block the program holds to the
output: output file, pipe, stdio buffer and block hold the wanted bytes from place 0
on without a gap. The two meet in the block, by `ReadInv` (where the block being read
comes from, and where it will go) and `CountInv` (the program's own counters say
both). For a copy in order, joining the pieces gives the input (`InFlight`), which is
`NothingLostInFlight`.

The other programs differ only in which byte is wanted at a place. `reverse61` counts
down with `left`. `reversewrite61` writes backwards, so `BackInv` stands in for
`StreamInv`: the output is complete from the byte after the one being written on, and
a buffer holds at most that one byte, since every seek flushes it. For
`stridecat61` the wanted output is defined by an order of the bytes (column, row,
byte), and what `pos` and `written` say about it is not obvious: `Rank` gives the
place in the output of a byte in closed form, with the last row cut off anywhere, and
`WantedRank` shows that this is the number of bytes before it in the order. `StrideRead`
then shows that the block the loop reads at `pos` is what is wanted next, and
`StrideNext` that `pos`, moved by the stride and wrapped at the end of the file, is
the block that comes next in the order, or that everything has been written.
`EndInv` says that a program that closes its files without an alarm has passed on
everything; with it, a normal exit with empty buffers means a complete output, which
is the step of `Copier` that could fail.

### VmIterProofs

From `WidthAssumption` (a page table page has at least four entries and a page two
bytes, a word has more bits than four levels and an offset need; addresses, lengths and
frames that calls name are addresses, frames are aligned) and `PowerAssumption`, which
lists what the proofs use about powers of two, since the provers do not know `^`. They
are for every width of index, offset and word, every number of page table pages, and
every table that any sequence of mappings makes of them:

| Theorem | States |
|---|---|
| `VmiterAgrees` | `Spec => []IteratorAgrees` |
| `PtiterNoUseAfterFree` | `Spec => []NoUseAfterFree` |
| `TryMapMapsOnlyItsPage` | `Spec => MapsOnlyItsPage` |

`Translation(va)` is a walk of the table from its root; a `vmiter` keeps where such a
walk has got to, and `find_impl()` starts again only from the level at which the old
and the new address part. `IterInv` says that this is where a walk from the root would
be: at the last entry of the walk (`Place`), in the hole between the halves of the
address space (`Hole`), or past its end. `Reached` is the page a walk is in at each
depth, and two addresses in one `Block` of a depth reach the same page (`Same`). `next()`
and `next_range()` then skip an entry's whole block, in which every address has the same
translation.

While `try_map()` links new pages into the table the walks of all other addresses must
stay the same. They do because the table is a tree (`Tree`): each page is met at one
depth and for one prefix of an address only, so that writing an entry changes the walks
of one block (`Written`), and a new page is met by none (`Numbered`). A page table that is
shared by two entries would break this, and `kalloc()` makes none.

`range_perm()` is recursive, over the rest of the range. What it gives is proved by
the least range for which it would be wrong: each round either ends (`Ended`,
`Refused`) or goes on with a range and permissions that leave the answer the same
(`Narrowed`, `Going`).

`PtInv` is about the loop that frees a table as it walks it. The `ptiter` is at an
entry on the way down from the root, and every page freed so far is `Past` it: it is for
a block of addresses before the one the `ptiter` is in, or for the same one but further
down than the `ptiter` will go again. A page on its way or still to come is therefore
not freed, and the page it stops at has not been freed before.

### ShellProofs

From `ShellAssumption` (a script is a sequence of characters other than NUL; the buffer
has room for one character and its NUL):

| Theorem | States |
|---|---|
| `ShellLoopRight` | `Spec => []LoopRight` |
| `ShellLinesParsed` | `Spec => []LinesParsed` |

`NothingLost` joins all lines that have been run, with `FlattenSeq`, which the community
modules define by a recursive function. `Flattens` says which function that is, and
`FlattenAppend` how it grows with a line; both by the least place where they would fail
(`LeastOne`), since the induction theorems of the library cannot be used. `FgetsFacts`
says the same way what `fgets()` takes. `LoopInv` adds what the loop relies on from one
read to the next: what is in the buffer has no newline and leaves room (`BufferInv`), the
end of the file means that nothing is left to read, and what was run, is in the buffer or
is left to read is all that was given (`InputInv`; `FailedRead` shows that a failing read
keeps this), and there have been as
many prompts as lines and one for the line being read, before or after an interruption
(`PromptInv`).

`LinesParsed` is about functions of a line, and the invariant it needs of the loop is
short (`LinesInv`): what is read, in the buffer or run is text, and the shell does not go
on after a line without a token. The work is in the lemmas about these functions, which
hold for every line of text:

* The loops over a word, over the tokens of a region, over a parser's regions and over
  the characters in `str()` are recursive functions. `Recursion` shows that such a
  definition has the function it describes if a rank falls with each call
  (`ScanDef`, `TokensDef`, `FindDef`, `RegionsDef`, `StrDef`); `RankInduction` then shows
  what it computes from what it computes for the arguments of lesser rank.
* `CoverFacts`: a token begins after blanks or a comment and is not empty, so the tokens
  are a chain from the first character to the last (`Chained`), and a word is marked as
  quoted iff its loop passed a quote or an escape (`ScanFacts`).
* `ArgsWords`: the tokenizer's loop over a word, `str()`'s loop over the same characters
  and the reader of `WordsOf` go on side by side (`Follows`): what `str()` has still to
  write is what the reader has not yet read (`FollowStep`, `ArgsStep`).
* `ParserFacts`: a parser cuts a region before its delimiter and trims blanks, and
  tokenizes the region again. If no token ends in a blank the tokens in it are the same
  ones (`TokenLocal`, `DelimitsSome`), so a region, the operator after it and what
  follows are the tokens from its first one on (`RegionFacts`). Each loop therefore ends,
  and shows all of the part it is given (`RegionsRight`), as do the three loops one
  inside the other (`LoopsAll`).

### Model-checked only

Liveness (`EveryoneRuns`, `EveryoneShown`, `TestEnds`, `GovernorEnds`,
`ProgramEnds`, `AllPagesVisited`, `ShellEnds`), which TLAPS does not handle;
`Printf` and `Generator`, which are `RECURSIVE` operators; `CLib`, `Args`, `Image` and
`lookup_symbol()`, whose functions are recursive over their input and are compared with
reference definitions on bounded inputs only (an argument by rank, as for the shell, has
not been made for them); `Console`, whose reference definitions (what a
text shows, on an endless paper) are recursive too.

## Not modelled

* Page tables in the kernel: the handout kernel gives every process the same
  identity mapping, so nothing `WeensyKernel` does depends on them. `VmIter` leaves
  out the no-execute bit, the TLB and the check for uninitialized tables.
* What the options `-p`, `-D` and `-A` of the copy programs do, and `read()` of
  `/proc` for their reports.
* `sys_fork` and `sys_exit`: the handout kernel panics on them, and so does the
  model.
* Descriptor tables, the parallel port, PCI, `stash_kernel_data()` (the soft reboot
  of `WeensyKernel` has its effect), the disk's registers: set-up code and device
  access.
* `crc32c()`, and the type traits and `printfmt` templates of `lib.hh`.
* Colours and layout of the memory viewer, and its marks for separate page tables,
  which no process of this kernel has.
* The option `-d` of shell tests, what tests read from files, `collect_traces()`
  and the text of `iotest.cc`'s reports.
* `command::run()` of the shell: a stub in the repository.
* Build tools, exercises, benchmarks, Docker scripts.
* Memory ordering and the instruction level: the kernel runs on one processor.

## Plan

1. Done: `WeensyKernel` with `PageOwnership` and its proofs; `M61Bump` with
   `Malloc61` and its proofs; `M61Derp`; `ShTester`; `Io61` with `Copier`; `VmIter`.
2. Done: `IoTest`, `Shell`, and the parts of `library`; `Guard` with its proof.
3. Done: proofs for `MemViewer`, `M61Derp`, `ShTester`, `IoTest`, `Io61`, `Keyboard`,
   `Backtrace` and the statistics of `M61Bump`.
4. Done: proofs for `VmIter` and for `Shell`, its loop and its parsers.
