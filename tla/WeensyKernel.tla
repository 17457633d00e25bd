---------------------------- MODULE WeensyKernel ----------------------------
(***************************************************************************)
(* The WeensyOS kernel of pset3 (kernel.cc, with the parts of              *)
(* k-exception.S, k-hardware.cc and k-memviewer.cc it runs) and the user   *)
(* programs it loads (p-allocator.cc, p-fork.cc, p-exit.cc).               *)
(*                                                                         *)
(* The kernel runs with interrupts disabled, so nothing interleaves with   *)
(* it; mode says how far it has got, and a process's own steps interleave  *)
(* with the timer.  Addresses are page numbers.  The identity mapping of   *)
(* kernel_pagetable is shared by every process, so a physical page and the *)
(* virtual page at the same address are one thing here.                    *)
(***************************************************************************)
EXTENDS Integers

CONSTANTS
  MAXNPROC,     \* size of the process table; slot 0 is never used
  NPAGES,       \* number of physical pages
  PROC_START,   \* first application page (PROC_START_ADDR / PAGESIZE)
  PROC_SIZE,    \* pages given to each process (PROC_SIZE / PAGESIZE)
  IMAGE_SIZE,   \* pages of code and data in a program image
  NALLOC,       \* how many allocator processes kernel_start sets up
  Unallocatable,\* pages that are reserved or hold kernel code, data or stack
  HZ,           \* timer interrupts per second
  SPIN_PERIOD,  \* schedule() calls memshow() once in so many spins
  Commands,     \* boot commands the runs use
  FaultyPids    \* processes that may page-fault, trap or call sys_panic

Pids  == 0 .. MAXNPROC - 1
Pages == 0 .. NPAGES - 1
NoPage == -1

ASSUME SizeAssumption ==
  /\ MAXNPROC \in Nat /\ NALLOC \in Nat /\ 1 <= NALLOC /\ NALLOC < MAXNPROC
  /\ PROC_SIZE \in Nat /\ IMAGE_SIZE \in Nat
  /\ 1 <= IMAGE_SIZE /\ IMAGE_SIZE < PROC_SIZE
  /\ PROC_START \in Nat /\ NPAGES \in Nat
  /\ PROC_START + PROC_SIZE * NALLOC <= NPAGES
  /\ HZ \in Nat /\ HZ >= 4
  /\ SPIN_PERIOD \in Nat \ {0}

\* Reserved and kernel pages lie below the processes, page 0 is one of them,
\* and the two pages after it (the boot page table's) can be allocated.
ASSUME LayoutAssumption ==
  /\ Unallocatable \subseteq 0 .. PROC_START - 1
  /\ 0 \in Unallocatable
  /\ PROC_START > 2
  /\ 1 \notin Unallocatable /\ 2 \notin Unallocatable

ASSUME ProgramAssumption ==
  /\ Commands \subseteq {"allocators", "fork", "exit"}
  /\ FaultyPids \subseteq 1 .. NALLOC

VARIABLES
  mode,      \* where the machine is: see Modes
  command,   \* the program kernel_start() was asked for
  pstate,    \* ptable[pid].state
  regs,      \* ptable[pid].regs: the saved %rax
  current,   \* the running process's pid, 0 for nullptr
  refcount,  \* physpages[pn].refcount
  mem,       \* what a physical page holds: see Contents
  since,     \* ticks - last_ticks in memshow(), saturating; -1: last_ticks == 0
  showing,   \* memshow()'s static `showing`
  viewer,    \* the page memusage::v_ points to, NoPage for nullptr
  spid,      \* schedule()'s local `pid`
  spins,     \* schedule()'s `spins`, modulo SPIN_PERIOD
  trap,      \* the interrupt, fault or system call being handled
  arg,       \* %rdi of that system call, as a page number
  isr,       \* 1 while a timer interrupt is in service, not acknowledged
  cpu,       \* the processor's %rax
  upc,       \* what each process does next (its %rip)
  heap_top,  \* p-allocator's heap_top, 0 before process_main sets it
  upid       \* p-allocator's `p`: what sys_getpid() told the process

kvars == <<pstate, regs, current, refcount, since, showing, viewer>>
uvars == <<upc, heap_top, upid>>
vars  == <<mode, command, pstate, regs, current, refcount, mem, since, showing,
           viewer, spid, spins, trap, arg, isr, cpu, upc, heap_top, upid>>

Modes == {"boot", "user", "entry", "keyboard", "dispatch", "sched", "schedkey",
          "schedshow", "panic", "assert", "off"}
Calls == {"getpid", "yield", "page_alloc", "panic", "fork"}
Traps == {"none", "timer", "pf", "exc"} \cup Calls
UserPCs == {"start", "init", "loop", "fresh", "yield", "forking",
            "done", "failed"}
States == {"FREE", "RUNNABLE", "FAULTED"}

\* What a page holds.  A positive content is the pid of the process whose
\* image was loaded there or whose byte was written there.
JUNK == -1          \* never written since power-on
CC   == -2          \* kalloc()'s fill; then the memory viewer's table
BOOT == -3          \* check_keyboard()'s temporary page table
ZERO == 0           \* cleared by memset
Contents == -3 .. MAXNPROC - 1

-----------------------------------------------------------------------------
(* Memory layout.                                                          *)

\* Whether kalloc() may hand out page pn (allocatable_physical_address).
Allocatable(pn) == pn \in Pages \ Unallocatable

ProcBase(p)   == PROC_START + PROC_SIZE * (p - 1)
StackPage(p)  == PROC_START + PROC_SIZE * p - 1
HeapBottom(p) == ProcBase(p) + IMAGE_SIZE
ImagePages(p) == ProcBase(p) .. HeapBottom(p) - 1

\* The processes kernel_start(c) sets up.
Loaded(c) == IF c = "allocators" THEN 1 .. NALLOC ELSE {1}

\* The pages process_setup() claims for process p.
SetupPages(p) == ImagePages(p) \cup {StackPage(p)}

\* Mutant of BootPages: the stack page is not counted.
BootPagesNoStack(c) == UNION {ImagePages(p) : p \in Loaded(c)}
BootPages(c) == UNION {SetupPages(p) : p \in Loaded(c)}

-----------------------------------------------------------------------------
(* kernel_start() and process_setup().                                     *)

\* The kernel's data segment before kernel_start() runs.
NoRefs == [pn \in Pages |-> 0]

NoProcs == [p \in Pids |-> "FREE"]
NoRegs == [p \in Pids |-> 0]

Init ==
  /\ mode = "boot"
  /\ command \in Commands
  /\ pstate = NoProcs /\ regs = NoRegs /\ current = 0
  /\ refcount = NoRefs
  /\ since = -1 /\ showing = 0 /\ viewer = NoPage
  /\ mem = [pn \in Pages |-> JUNK]
  /\ spid = 0 /\ spins = 0
  /\ trap = "none" /\ arg = 0
  /\ isr = 0
  /\ cpu = 0
  /\ upc = [p \in Pids |-> "start"]
  /\ heap_top = [p \in Pids |-> 0]
  /\ upid = [p \in Pids |-> 0]

\* lapicstate::ack(): the timer may interrupt again.
\* Mutant of AckTimer: the acknowledgement is forgotten.
NoAckTimer == UNCHANGED isr
AckTimer == isr' = 0

\* kernel_start(): acknowledge interrupts, set up the processes, run the first.
\* process_setup() asserts that every page it claims is free.
Boot ==
  /\ mode = "boot"
  /\ AckTimer
  /\ IF \A pn \in BootPages(command) : refcount[pn] = 0
     THEN /\ pstate' = [p \in Pids |->
                          IF p \in Loaded(command) THEN "RUNNABLE" ELSE "FREE"]
          /\ regs' = NoRegs
          /\ refcount' = [pn \in Pages |->
                            IF pn \in BootPages(command)
                            THEN refcount[pn] + 1 ELSE refcount[pn]]
          /\ mem' = [pn \in Pages |->
                       IF \E p \in Loaded(command) : pn \in ImagePages(p)
                       THEN CHOOSE p \in Loaded(command) : pn \in ImagePages(p)
                       ELSE mem[pn]]
          /\ current' = 1
          /\ cpu' = 0
          /\ mode' = "user"
          /\ upc' = [p \in Pids |-> "start"]
          /\ heap_top' = [p \in Pids |-> 0]
          /\ upid' = [p \in Pids |-> 0]
     ELSE /\ mode' = "assert"
          /\ UNCHANGED <<pstate, regs, refcount, mem, current, cpu, uvars>>
  /\ UNCHANGED <<command, since, showing, viewer, spid, spins, trap, arg>>

-----------------------------------------------------------------------------
(* User processes.  Any step of the running process, and any interrupt.    *)

\* Enter the kernel for reason t with argument a.
Trap(t, a) ==
  /\ mode' = "entry"
  /\ trap' = t
  /\ arg' = a
  /\ UNCHANGED <<command, kvars, mem, spid, spins, cpu, uvars>>

\* The timer goes off.  It cannot while the previous one is unacknowledged.
TimerInterrupt ==
  /\ mode = "user"
  /\ isr = 0
  /\ isr' = 1
  /\ Trap("timer", 0)

\* The system calls process p's program makes at its current point.
CallsOf(p) ==
  CASE upc[p] = "start" /\ command = "exit" -> {"yield", "fork"}
    [] upc[p] = "start" /\ command # "exit" -> {"getpid"}
    [] upc[p] = "forking" -> {"fork"}
    [] upc[p] = "loop" /\ heap_top[p] # StackPage(p) -> {"page_alloc", "yield"}
    [] upc[p] = "loop" /\ heap_top[p] = StackPage(p) -> {"yield"}
    [] upc[p] \in {"yield", "done"} -> {"yield"}
    [] upc[p] = "failed" -> {"panic"}
    [] OTHER -> {}

UserSyscall ==
  /\ mode = "user"
  /\ \E t \in CallsOf(current) : Trap(t, heap_top[current])
  /\ UNCHANGED isr

\* A faulty program page-faults, raises another exception or panics.
UserFault ==
  /\ mode = "user"
  /\ current \in FaultyPids
  /\ \E t \in {"pf", "exc", "panic"} : Trap(t, 0)
  /\ UNCHANGED isr

\* process_main() between sys_getpid() and its main loop.
UserInit ==
  /\ mode = "user"
  /\ upc[current] = "init"
  /\ upid' = [upid EXCEPT ![current] = cpu]
  /\ IF command = "allocators"
     THEN /\ heap_top' = [heap_top EXCEPT ![current] = HeapBottom(current)]
          /\ upc' = [upc EXCEPT ![current] = "loop"]
     ELSE /\ upc' = [upc EXCEPT ![current] = "forking"]
          /\ UNCHANGED heap_top
  /\ UNCHANGED <<mode, command, kvars, mem, spid, spins, trap, arg, isr, cpu>>

\* heap_top += PAGESIZE
GrownHeap == [heap_top EXCEPT ![current] = @ + 1]

\* process_main() after sys_page_alloc(): check the result, grow the heap,
\* check that the new page is zero, write to it.
UserTouch ==
  /\ mode = "user"
  /\ upc[current] = "fresh"
  /\ LET new_page == heap_top[current] IN
     IF cpu < 0
     THEN /\ upc' = [upc EXCEPT ![current] = "done"]
          /\ UNCHANGED <<heap_top, mem>>
     ELSE /\ heap_top' = GrownHeap
          /\ mem' = [mem EXCEPT ![new_page] = IF @ = ZERO THEN upid[current] ELSE @]
          /\ upc' = [upc EXCEPT ![current] =
                       IF mem[new_page] = ZERO THEN "yield" ELSE "failed"]
  /\ UNCHANGED <<mode, command, kvars, spid, spins, trap, arg, isr, cpu, upid>>

-----------------------------------------------------------------------------
(* The kernel proper.                                                      *)

\* kalloc(): the first page, from page 0 up, that may be allocated and is free.
FreePages == {pn \in Pages : Allocatable(pn) /\ refcount[pn] = 0}
\* Mutant of KallocPicks: any free page, as kalloc()'s comment suggests.
KallocPicksAny(pn) == pn \in FreePages
KallocPicks(pn) == pn \in FreePages /\ \A q \in FreePages : pn <= q

\* memusage::refresh(): the memory viewer allocates its table the first time.
\* ok is where the kernel goes next unless the assertion that kalloc()
\* succeeded fails.
RefreshViewer(ok) ==
  IF viewer # NoPage \/ FreePages = {}
  THEN /\ mode' = IF viewer # NoPage THEN ok ELSE "assert"
       /\ UNCHANGED <<viewer, refcount, mem>>
  ELSE \E pn \in Pages :
         /\ KallocPicks(pn)
         /\ mode' = ok
         /\ viewer' = pn
         /\ refcount' = [refcount EXCEPT ![pn] = @ + 1]
         /\ mem' = [mem EXCEPT ![pn] = CC]

\* memshow(): perhaps switch to the next process, skip free slots, draw.
Memshow(ok) ==
  LET switch == since = -1 \/ since >= HZ \div 2
      first  == IF switch THEN (showing + 1) % MAXNPROC ELSE showing
  IN /\ since' = IF switch THEN 0 ELSE since
     /\ \E d \in 0 .. MAXNPROC :
          /\ \A e \in 0 .. d - 1 : pstate[(first + e) % MAXNPROC] = "FREE"
          /\ d = MAXNPROC \/ pstate[(first + d) % MAXNPROC] # "FREE"
          /\ showing' = (first + d) % MAXNPROC
     /\ RefreshViewer(ok)

\* current->regs = *regs
\* Mutant of SaveRegs: the registers are not saved.
DropRegs == UNCHANGED regs
SaveRegs == regs' = [regs EXCEPT ![current] = cpu]

\* exception() and syscall() up to check_keyboard(): save the registers and
\* show memory.
Entry ==
  /\ mode = "entry"
  /\ SaveRegs
  /\ Memshow("keyboard")
  /\ cpu' = 0
  /\ UNCHANGED <<command, pstate, current, spid, spins, trap, arg, isr, uvars>>

\* Where each caller of check_keyboard() goes on when no control key was typed.
AfterKeyboard == [keyboard  |-> "dispatch", schedkey |-> "schedshow",
                  panic |-> "panic", assert |-> "assert"]

\* No key, or one that check_keyboard() ignores.
NoKey ==
  /\ mode \in DOMAIN AfterKeyboard
  /\ mode' = AfterKeyboard[mode]
  /\ UNCHANGED <<command, kvars, mem, spid, spins, trap, arg, isr, cpu, uvars>>

\* 'a', 'f' or 'e': build a temporary page table, restore the data segment and
\* enter the kernel again with another command.
SoftReboot ==
  /\ mode \in DOMAIN AfterKeyboard
  /\ mode' = "boot"
  /\ command' \in Commands
  /\ mem' = [mem EXCEPT ![1] = BOOT, ![2] = BOOT]
  /\ pstate' = NoProcs /\ regs' = NoRegs /\ current' = 0
  /\ refcount' = NoRefs
  /\ since' = -1 /\ showing' = 0 /\ viewer' = NoPage
  /\ spid' = 0 /\ spins' = 0
  /\ trap' = "none" /\ arg' = 0 /\ cpu' = 0
  /\ UNCHANGED <<isr, uvars>>

\* 'q' or Control-C.
Poweroff ==
  /\ mode \in DOMAIN AfterKeyboard
  /\ mode' = "off"
  /\ UNCHANGED <<command, kvars, mem, spid, spins, trap, arg, isr, cpu, uvars>>

\* poweroff() never returns.
Halted == mode = "off" /\ UNCHANGED vars

\* schedule() starts after the current process.
\* Mutant of StartSchedule: off by one.
StartScheduleNext ==
  /\ mode' = "sched"
  /\ spid' = current + 1
  /\ spins' = 1 % SPIN_PERIOD
  /\ trap' = "none" /\ arg' = 0
StartSchedule ==
  /\ mode' = "sched"
  /\ spid' = current
  /\ spins' = 1 % SPIN_PERIOD
  /\ trap' = "none" /\ arg' = 0

\* ++ticks
\* Mutant of Tick: time stands still.
NoTick == UNCHANGED since
Tick == since' = IF since = -1 \/ since = HZ \div 2 THEN since ELSE since + 1

\* exception() on a timer interrupt.
HandleTimer ==
  /\ mode = "dispatch" /\ trap = "timer"
  /\ Tick
  /\ AckTimer
  /\ StartSchedule
  /\ UNCHANGED <<command, pstate, regs, current, refcount, mem, showing, viewer,
                 cpu, uvars>>

\* exception() on a user page fault.
\* Mutant of HandlePageFault: the process is freed, its pages with it.
HandlePageFaultFrees ==
  /\ mode = "dispatch" /\ trap = "pf"
  /\ pstate' = [pstate EXCEPT ![current] = "FREE"]
  /\ refcount' = [pn \in Pages |->
                    IF ProcBase(current) <= pn /\ pn <= StackPage(current)
                    THEN 0 ELSE refcount[pn]]
  /\ StartSchedule
  /\ UNCHANGED <<command, regs, current, mem, since, showing, viewer,
                 isr, cpu, uvars>>
HandlePageFault ==
  /\ mode = "dispatch" /\ trap = "pf"
  /\ pstate' = [pstate EXCEPT ![current] = "FAULTED"]
  /\ StartSchedule
  /\ UNCHANGED <<command, regs, current, refcount, mem, since, showing, viewer,
                 isr, cpu, uvars>>

\* exception() and syscall() on what they do not handle, and sys_panic().
HandlePanic ==
  /\ mode = "dispatch" /\ trap \in {"exc", "fork", "panic"}
  /\ mode' = "panic"
  /\ UNCHANGED <<command, kvars, mem, spid, spins, trap, arg, isr, cpu, uvars>>

\* syscall() returns v to the current process, which goes on at pc.
Return(v, pc) ==
  /\ mode' = "user"
  /\ cpu' = v
  /\ upc' = [upc EXCEPT ![current] = pc]
  /\ trap' = "none" /\ arg' = 0

SysGetpid ==
  /\ mode = "dispatch" /\ trap = "getpid"
  /\ Return(current, "init")
  /\ UNCHANGED <<command, kvars, mem, spid, spins, isr, heap_top, upid>>

SysYield ==
  /\ mode = "dispatch" /\ trap = "yield"
  /\ regs' = [regs EXCEPT ![current] = 0]
  /\ upc' = [upc EXCEPT ![current] = IF @ = "yield" THEN "loop" ELSE @]
  /\ StartSchedule
  /\ UNCHANGED <<command, pstate, current, refcount, mem, since, showing, viewer,
                 isr, cpu, heap_top, upid>>

\* syscall_page_alloc(addr)
SysPageAlloc ==
  /\ mode = "dispatch" /\ trap = "page_alloc"
  /\ IF refcount[arg] = 0
     THEN /\ refcount' = [refcount EXCEPT ![arg] = @ + 1]
          /\ mem' = [mem EXCEPT ![arg] = ZERO]
          /\ Return(0, "fresh")
     ELSE /\ mode' = "assert"
          /\ UNCHANGED <<refcount, mem, cpu, upc, trap, arg>>
  /\ UNCHANGED <<command, pstate, regs, current, since, showing, viewer,
                 spid, spins, isr, heap_top, upid>>

\* What schedule() looks for.
\* Mutant of Schedulable: any slot in use.
SchedulableUsed(p) == pstate[p] # "FREE"
Schedulable(p) == pstate[p] = "RUNNABLE"

\* One iteration of schedule() up to check_keyboard(): run the next slot's
\* process if it is runnable.
Schedule ==
  /\ mode = "sched"
  /\ LET pid == (spid + 1) % MAXNPROC IN
     IF Schedulable(pid)
     THEN /\ mode' = "user" /\ current' = pid /\ cpu' = regs[pid]
          /\ spid' = 0 /\ spins' = 0
     ELSE /\ mode' = "schedkey" /\ spid' = pid
          /\ UNCHANGED <<current, cpu, spins>>
  /\ UNCHANGED <<command, pstate, regs, refcount, mem, since, showing, viewer,
                 trap, arg, isr, uvars>>

\* The rest of the iteration: show memory once in SPIN_PERIOD spins.
ScheduleShow ==
  /\ mode = "schedshow"
  /\ spins' = (spins + 1) % SPIN_PERIOD
  /\ IF spins = 0
     THEN Memshow("sched")
     ELSE mode' = "sched" /\ UNCHANGED <<since, showing, viewer, refcount, mem>>
  /\ UNCHANGED <<command, pstate, regs, current, spid, trap, arg, isr, cpu, uvars>>

-----------------------------------------------------------------------------
UserStep   == UserSyscall \/ UserInit \/ UserTouch
KernelStep == \/ Boot \/ Entry \/ NoKey
              \/ HandleTimer \/ HandlePageFault \/ HandlePanic
              \/ SysGetpid \/ SysYield \/ SysPageAlloc
              \/ Schedule \/ ScheduleShow

Next == \/ TimerInterrupt \/ UserStep \/ UserFault
        \/ KernelStep \/ SoftReboot \/ Poweroff \/ Halted

Spec == Init /\ [][Next]_vars

\* The kernel never stops in the middle of a handler, and the periodic timer
\* raises its interrupt again and again while interrupts are enabled.
Fairness == WF_vars(KernelStep) /\ SF_vars(TimerInterrupt)
FairSpec == Spec /\ Fairness

-----------------------------------------------------------------------------
(* Properties.                                                             *)

TypeOK ==
  /\ mode \in Modes
  /\ command \in Commands
  /\ pstate \in [Pids -> States]
  /\ regs \in [Pids -> Pids]
  /\ current \in Pids
  /\ refcount \in [Pages -> Nat]
  /\ mem \in [Pages -> Contents]
  /\ since \in -1 .. HZ \div 2
  /\ showing \in Pids
  /\ viewer \in Pages \cup {NoPage}
  /\ spid \in Pids
  /\ spins \in 0 .. SPIN_PERIOD - 1
  /\ trap \in Traps
  /\ arg \in Pages
  /\ isr \in {0, 1}
  /\ cpu \in Pids
  /\ upc \in [Pids -> UserPCs]
  /\ heap_top \in [Pids -> Pages]
  /\ upid \in [Pids -> Pids]

\* The processes kernel_start() has set up since the last (re)boot.
Live == IF mode = "boot" THEN {} ELSE {p \in Pids : pstate[p] # "FREE"}

\* The heap pages process p has been given: those below heap_top, and the one
\* sys_page_alloc() has just returned, which p has not counted yet.
HeapPages(p) == {pn \in Pages : /\ HeapBottom(p) <= pn
                                /\ \/ pn < heap_top[p]
                                   \/ pn = heap_top[p] /\ upc[p] = "fresh"}

\* Who uses page pn: processes by pid, the memory viewer as 0.
Uses(p, pn) == pn \in SetupPages(p) \/ pn \in HeapPages(p)
Owners(pn) == {p \in Live : Uses(p, pn)} \cup {v \in {0} : pn = viewer}

\* The kernel's page accounting agrees with what processes and the memory
\* viewer actually use, whatever the timer interrupts: a page has a reference
\* exactly when somebody uses it, never two users (kernel.hh: "allocated pages
\* have refcount == 1"), and a soft reboot leaves nothing accounted for twice.
PageAccounting ==
  \A pn \in Pages :
    /\ refcount[pn] = (IF Owners(pn) = {} THEN 0 ELSE 1)
    /\ \A p, q \in Owners(pn) : p = q

\* Memory isolation by convention: although every process can write all memory,
\* each process's image and the heap pages it has marked hold its own bytes
\* and a page fresh from sys_page_alloc() is still zero when the process looks
\* at it.  Fails if kalloc() ever picks a process's page, or if a context
\* switch hands sys_getpid()'s result to another process.
Isolation ==
  \A p \in Live :
    /\ \A pn \in ImagePages(p) : mem[pn] = p
    /\ \A pn \in HeapPages(p) :
         mem[pn] = IF pn = heap_top[p] THEN ZERO ELSE p

\* No assertion fails, in the kernel (process_setup, memusage::refresh,
\* syscall_page_alloc) or in the allocators (assert(*l == 0)), whatever
\* interrupts, faults and soft reboots happen.
AssertionsHold == mode # "assert" /\ \A p \in Pids : upc[p] # "failed"

\* A process that page-faulted is never run again and nothing changes its
\* saved registers or its memory, until a soft reboot.
FaultedFrozen ==
  [][\A p \in Pids :
       pstate[p] = "FAULTED" /\ mode' # "boot" =>
         /\ pstate'[p] = "FAULTED"
         /\ regs'[p] = regs[p]
         /\ ~(mode' = "user" /\ current' = p)
         /\ \A pn \in ImagePages(p) \cup HeapPages(p) : mem'[pn] = mem[pn]]_vars

\* The kernel implements PageOwnership: what physpages, ptable and the heaps
\* say together is an assignment of pages to owners in which handlers only ever
\* hand out free pages (nobody's page is taken over, none is leaked back), and
\* only a soft reboot frees pages, all at once.
OwnerOf(pn) == IF refcount[pn] = 0 \/ Owners(pn) = {} THEN NoPage
               ELSE CHOOSE p \in Pids : p \in Owners(pn)
Ownership == INSTANCE PageOwnership
  WITH Page <- Pages, Owner <- Pids, Nobody <- NoPage,
       owner <- [pn \in Pages |-> OwnerOf(pn)]
ImplementsOwnership == Ownership!Spec

\* The machine has stopped running processes, or starts over.
Stopped == mode \in {"panic", "assert", "off", "boot"}

\* schedule() and the timer are fair: a runnable process gets the processor
\* unless the kernel panics, is switched off or rebooted, even if every other
\* process computes forever without a system call.
EveryoneRuns ==
  \A p \in Pids :
    pstate[p] = "RUNNABLE" ~>
      (mode = "user" /\ current = p) \/ pstate[p] = "FAULTED" \/ Stopped

\* memshow() comes back to every process again and again, as long as some
\* process can run.
EveryoneShown ==
  \A p \in Pids :
    []<>(showing = p \/ p \notin Live \/ Stopped
         \/ \A q \in Pids : pstate[q] # "RUNNABLE")

=============================================================================
