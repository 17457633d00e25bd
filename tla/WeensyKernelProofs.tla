------------------------- MODULE WeensyKernelProofs -------------------------
(***************************************************************************)
(* Proofs about WeensyKernel, and about what MemViewer draws of it, for    *)
(* every process table, memory layout, set of boot commands and set of     *)
(* faulty processes; and about the parts of WeensyOS that work alone: the  *)
(* keyboard, the guard of a static variable and the backtrace.             *)
(*                                                                         *)
(* The keyboard's driver lags behind the user by the bytes in the queue.   *)
(* A Path is what links them: the modifiers at every place of the queue,   *)
(* from the driver's at its head to the user's behind its last byte.       *)
(*                                                                         *)
(* The backtrace ends because every frame is above the one before, on a    *)
(* page of the kernel's stack and then on one of the user's (OnFirst,      *)
(* OnSecond).                                                              *)
(***************************************************************************)
EXTENDS MemViewer, Keyboard, Guard, Backtrace, FiniteSetTheorems,
        SequenceTheorems, TLAPS

-----------------------------------------------------------------------------
(* The inductive invariant.                                                *)

\* Before kernel_start() runs, the data segment is as the boot loader left it;
\* afterwards the used slots of the process table are the ones it set up, and
\* the process on the processor is one of them and is runnable.
ProcInv ==
  /\ mode = "boot" => /\ pstate = NoProcs /\ regs = NoRegs /\ current = 0
                      /\ refcount = NoRefs /\ viewer = NoPage
  /\ mode # "boot" =>
       /\ \A p \in Pids : pstate[p] = "FREE" <=> p \notin Loaded(command)
       /\ current \in Loaded(command)
  /\ mode \in {"user", "entry", "keyboard", "dispatch"} =>
       pstate[current] = "RUNNABLE"

\* A process's heap lies between its image and its stack, and a process that
\* has just been given a page has room for it.
HeapInv ==
  mode # "boot" =>
    \A p \in Loaded(command) :
      /\ upc[p] \notin {"failed", "done"}
      /\ upc[p] \in {"start", "init", "forking"} => heap_top[p] = 0
      /\ upc[p] \in {"loop", "fresh", "yield"} =>
           HeapBottom(p) <= heap_top[p] /\ heap_top[p] <= StackPage(p)
      /\ upc[p] = "fresh" => heap_top[p] # StackPage(p)

\* While a system call is being handled, its caller is where it made it.
CallInv ==
  mode \in {"entry", "keyboard", "dispatch"} =>
    /\ trap = "getpid" => upc[current] = "start"
    /\ trap = "yield" => upc[current] # "init"
    /\ trap = "page_alloc" => /\ upc[current] = "loop"
                              /\ arg = heap_top[current]
                              /\ heap_top[current] # StackPage(current)

\* The memory viewer's page is always page 1, because kalloc() takes the first
\* free page and no process uses the pages below PROC_START.
ViewerInv == viewer \in {NoPage, 1}

\* A page has one reference if somebody uses it and none otherwise.
RefInv ==
  \A pn \in Pages :
    refcount[pn] =
      IF pn = viewer \/ \E p \in Live : Uses(p, pn) THEN 1 ELSE 0

\* sys_getpid()'s result survives context switches until its caller stores it.
PidInv ==
  mode # "boot" =>
    \A p \in Loaded(command) :
      /\ upc[p] = "init" =>
           IF current = p /\ mode \in {"user", "entry"}
           THEN cpu = p ELSE pstate[p] = "RUNNABLE" => regs[p] = p
      /\ upc[p] \in {"loop", "fresh", "yield"} => upid[p] = p

IInv == /\ TypeOK /\ mode # "assert"
        /\ ProcInv /\ HeapInv /\ CallInv /\ ViewerInv /\ RefInv
        /\ PidInv /\ Isolation

-----------------------------------------------------------------------------
(* Facts about constants.                                                  *)

\* (a + b) % n stays a valid index; used for every wrap-around.
LEMMA ModRange ==
  ASSUME NEW a \in Nat, NEW n \in Nat \ {0}
  PROVE  a % n \in 0 .. n - 1
  OBVIOUS

\* Process p's region: image, heap and stack in order, inside memory and above
\* the kernel.
LEMMA RegionFacts ==
  ASSUME NEW p \in 1 .. NALLOC
  PROVE  /\ ProcBase(p) \in Nat /\ HeapBottom(p) \in Nat /\ StackPage(p) \in Nat
         /\ PROC_START <= ProcBase(p)
         /\ ProcBase(p) < HeapBottom(p)
         /\ HeapBottom(p) <= StackPage(p)
         /\ StackPage(p) < NPAGES
  <1>1. PROC_SIZE * (p - 1) \in Nat /\ PROC_SIZE * (NALLOC - p) \in Nat
    BY SizeAssumption
  <1>2. /\ PROC_SIZE * p = PROC_SIZE * (p - 1) + PROC_SIZE
        /\ PROC_SIZE * NALLOC = PROC_SIZE * p + PROC_SIZE * (NALLOC - p)
    BY SizeAssumption
  <1> QED
    BY <1>1, <1>2, SizeAssumption DEF ProcBase, HeapBottom, StackPage

\* Regions of different processes do not meet.
LEMMA RegionsDisjoint ==
  ASSUME NEW p \in 1 .. NALLOC, NEW q \in 1 .. NALLOC, p < q
  PROVE  StackPage(p) < ProcBase(q)
  <1>1. PROC_SIZE * (q - 1 - p) \in Nat
    BY SizeAssumption
  <1>2. PROC_SIZE * (q - 1) = PROC_SIZE * p + PROC_SIZE * (q - 1 - p)
    BY SizeAssumption
  <1>3. PROC_SIZE * p \in Nat /\ PROC_SIZE * (q - 1) \in Nat
    BY SizeAssumption
  <1> QED
    BY <1>1, <1>2, <1>3, SizeAssumption DEF ProcBase, StackPage

\* The processes kernel_start() sets up are processes of the table.
LEMMA LoadedFacts ==
  ASSUME NEW c
  PROVE  Loaded(c) \subseteq 1 .. NALLOC /\ 1 \in Loaded(c) /\ Loaded(c) \subseteq Pids
  BY SizeAssumption DEF Loaded, Pids

\* Pages 0, 1 and 2 exist and belong to no process.
LEMMA LowPages ==
  /\ {0, 1, 2} \subseteq Pages
  /\ 1 \in Pages \ Unallocatable
  BY SizeAssumption, LayoutAssumption, RegionFacts DEF Pages

\* Consequences of the assumptions on the constants.
LEMMA Constants ==
  /\ MAXNPROC \in Nat /\ MAXNPROC > 1 /\ 0 \in Pids /\ 1 \in Pids
  /\ HZ \div 2 \in Nat /\ HZ \div 2 >= 2
  /\ SPIN_PERIOD \in Nat \ {0}
  BY SizeAssumption DEF Pids

\* The wrap-around of schedule() and memshow() stays within the table.
LEMMA NextPid ==
  ASSUME NEW a \in Nat
  PROVE  a % MAXNPROC \in Pids
  BY Constants, ModRange DEF Pids

\* A step that leaves the process table, memory and the programs alone keeps
\* what the invariant says about pages.
LEMMA FramePages ==
  ASSUME IInv, mode # "boot", mode' # "boot",
         UNCHANGED <<command, pstate, refcount, mem, viewer, upc, heap_top>>
  PROVE  RefInv' /\ Isolation' /\ ViewerInv' /\ HeapInv'
  BY DEF IInv, RefInv, Isolation, ViewerInv, HeapInv, Live, Uses, HeapPages

-----------------------------------------------------------------------------
\* IInv holds at the start.
LEMMA InitInv == Init => IInv
  <1> SUFFICES ASSUME Init PROVE IInv
    OBVIOUS
  <1>1. TypeOK
    BY Constants, LowPages, SizeAssumption DEF Init, TypeOK, Modes, NoProcs, NoRegs, NoRefs, States,
       Contents, JUNK, NoPage, Traps, UserPCs
  <1>2. mode # "assert" /\ ProcInv /\ HeapInv /\ CallInv /\ ViewerInv /\ PidInv
    BY DEF Init, ProcInv, HeapInv, CallInv, ViewerInv, PidInv
  <1>3. RefInv
    BY DEF Init, RefInv, Live, NoRefs, NoPage, Pages
  <1>4. Isolation
    BY DEF Init, Isolation, Live
  <1> QED
    BY <1>1, <1>2, <1>3, <1>4 DEF IInv

\* The steps in which only the processor and the kernel's place change.
LEMMA TrapInv ==
  ASSUME IInv, TimerInterrupt \/ UserSyscall \/ UserFault
  PROVE  IInv'
  <1>1. /\ mode = "user" /\ mode' = "entry"
        /\ UNCHANGED <<command, kvars, mem, spid, spins, cpu, uvars>>
    BY DEF TimerInterrupt, UserSyscall, UserFault, Trap
  <1>2. trap' \in Traps /\ arg' \in Pages /\ isr' \in {0, 1}
    BY LowPages DEF TimerInterrupt, UserSyscall, UserFault, Trap, CallsOf, Traps, Calls, IInv, TypeOK
  <1>3. TypeOK' /\ ProcInv'
    BY <1>1, <1>2 DEF IInv, TypeOK, ProcInv, kvars, uvars, Modes
  <1>4. CallInv'
    <2>1. CASE UserSyscall
      BY <2>1, <1>1 DEF UserSyscall, Trap, CallsOf, CallInv, uvars, kvars
    <2>2. CASE TimerInterrupt \/ UserFault
      BY <2>2, <1>1 DEF TimerInterrupt, UserFault, Trap, CallInv
    <2> QED BY <2>1, <2>2
  <1>5. RefInv' /\ Isolation' /\ ViewerInv' /\ HeapInv'
    BY <1>1, FramePages DEF kvars, uvars
  <1>6. PidInv'
    BY <1>1 DEF IInv, PidInv, kvars, uvars
  <1> QED
    BY <1>1, <1>3, <1>4, <1>5, <1>6 DEF IInv

\* The allocator's first steps: sys_getpid()'s result is its own.
LEMMA UserInitInv ==
  ASSUME IInv, UserInit
  PROVE  IInv'
  <1>1. /\ mode = "user" /\ mode' = "user" /\ upc[current] = "init"
        /\ current \in Loaded(command) /\ current \in Pids
        /\ heap_top[current] = 0
    BY DEF UserInit, IInv, TypeOK, ProcInv, HeapInv
  <1>2. /\ HeapBottom(current) \in Pages /\ HeapBottom(current) <= StackPage(current)
        /\ HeapBottom(current) > 0
    BY <1>1, LoadedFacts, RegionFacts, LayoutAssumption, SizeAssumption DEF Pages
  <1>3. TypeOK' /\ ProcInv' /\ CallInv' /\ ViewerInv'
    BY <1>1, <1>2 DEF UserInit, IInv, TypeOK, ProcInv, CallInv, ViewerInv, kvars, UserPCs
  <1>4. HeapInv'
    <2>1. Loaded(command) \subseteq 1 .. NALLOC /\ Loaded(command) \subseteq Pids
          /\ UNCHANGED <<command, current>>
      BY LoadedFacts DEF UserInit, kvars
    <2> SUFFICES ASSUME NEW p \in Loaded(command)
                 PROVE  /\ upc'[p] \notin {"failed", "done"}
                        /\ upc'[p] \in {"start", "init", "forking"} => heap_top'[p] = 0
                        /\ upc'[p] \in {"loop", "fresh", "yield"} =>
                             HeapBottom(p) <= heap_top'[p] /\ heap_top'[p] <= StackPage(p)
                        /\ upc'[p] = "fresh" => heap_top'[p] # StackPage(p)
      BY <2>1 DEF HeapInv
    <2>2. CASE p = current
      <3>1. \/ upc'[p] = "loop" /\ heap_top'[p] = HeapBottom(p)
            \/ upc'[p] = "forking" /\ heap_top'[p] = 0
        BY <2>2, <1>1 DEF UserInit, IInv, TypeOK
      <3>2. HeapBottom(p) \in Int /\ HeapBottom(p) <= HeapBottom(p)
        BY <2>2, <1>2 DEF Pages
      <3> QED BY <3>1, <3>2, <2>2, <1>2
    <2>3. CASE p # current
      <3>1. upc'[p] = upc[p] /\ heap_top'[p] = heap_top[p]
        BY <2>1, <2>3 DEF UserInit, IInv, TypeOK
      <3> QED BY <3>1, <1>1 DEF IInv, HeapInv
    <2> QED BY <2>2, <2>3
  <1>5. Live' = Live /\ \A p \in Live : HeapPages(p)' = HeapPages(p)
    <2>1. Live' = Live /\ Live \subseteq Pids /\ current' = current
      BY <1>1 DEF UserInit, Live, kvars
    <2>2. HeapPages(current) = {} /\ HeapPages(current)' = {}
      <3>1. HeapPages(current) = {}
        BY <1>1, <1>2 DEF HeapPages, Pages
      <3>2. \/ upc'[current] = "loop" /\ heap_top'[current] = HeapBottom(current)
            \/ upc'[current] = "forking" /\ heap_top'[current] = 0
        BY <1>1 DEF UserInit, IInv, TypeOK
      <3>3. HeapPages(current)' = {pn \in Pages :
              /\ HeapBottom(current) <= pn
              /\ \/ pn < heap_top'[current]
                 \/ pn = heap_top'[current] /\ upc'[current] = "fresh"}
        BY <2>1 DEF HeapPages
      <3>4. ASSUME NEW pn \in Pages, HeapBottom(current) <= pn PROVE ~(pn < heap_top'[current])
        BY <3>2, <3>4, <1>2 DEF Pages
      <3> QED BY <3>1, <3>2, <3>3, <3>4
    <2>3. ASSUME NEW p \in Live, p # current PROVE HeapPages(p)' = HeapPages(p)
      BY <2>1, <2>3, <1>1 DEF UserInit, IInv, TypeOK, HeapPages
    <2> QED BY <2>1, <2>2, <2>3
  <1>6. RefInv'
    BY <1>1, <1>5 DEF UserInit, IInv, RefInv, Uses, kvars
  <1>7. PidInv'
    BY <1>1, LoadedFacts DEF UserInit, IInv, TypeOK, PidInv, kvars
  <1>8. Isolation'
    <2>1. HeapPages(current) = {} /\ Live \subseteq Pids
      BY <1>1, <1>2 DEF IInv, TypeOK, HeapPages, Pages, Live
    <2>2. \A p \in Live : p # current => heap_top'[p] = heap_top[p]
      BY <2>1 DEF UserInit, IInv, TypeOK
    <2> QED
      BY <1>1, <1>5, <2>1, <2>2 DEF UserInit, IInv, Isolation
  <1> QED
    BY <1>1, <1>3, <1>4, <1>6, <1>7, <1>8 DEF IInv

\* The allocator writes to its new heap page and grows its heap.
LEMMA UserTouchInv ==
  ASSUME IInv, UserTouch
  PROVE  IInv'
  <1> DEFINE np == heap_top[current]
  <1>1. /\ mode = "user" /\ mode' = "user" /\ upc[current] = "fresh"
        /\ current \in Loaded(command) /\ current \in Pids
        /\ current \in Live
        /\ np \in Pages /\ np < StackPage(current) /\ HeapBottom(current) <= np
    <2>1. current \in 1 .. NALLOC
      BY LoadedFacts DEF UserTouch, IInv, ProcInv
    <2> QED
      BY <2>1, RegionFacts DEF UserTouch, IInv, TypeOK, ProcInv, HeapInv, Live, Pages
  <1>2. mem[np] = ZERO
    BY <1>1 DEF IInv, Isolation, HeapPages
  <1>3. /\ ~(cpu < 0) /\ upid[current] = current
    BY <1>1 DEF IInv, TypeOK, PidInv, Pids
  <1>4. /\ heap_top' = [heap_top EXCEPT ![current] = np + 1]
        /\ mem' = [mem EXCEPT ![np] = current]
        /\ upc' = [upc EXCEPT ![current] = "yield"]
        /\ UNCHANGED <<mode, command, kvars, spid, spins, trap, arg, isr, cpu, upid>>
    BY <1>1, <1>2, <1>3 DEF UserTouch, GrownHeap, IInv, TypeOK
  <1>5. np + 1 \in Pages /\ np + 1 <= StackPage(current)
    BY <1>1, LoadedFacts, RegionFacts, SizeAssumption DEF Pages
  <1>6. TypeOK' /\ ProcInv' /\ CallInv' /\ ViewerInv' /\ HeapInv' /\ PidInv'
    <2>1. TypeOK'
      <3>1. current \in Contents
        BY <1>1, Constants DEF Contents, Pids
      <3> QED BY <3>1, <1>1, <1>4, <1>5 DEF IInv, TypeOK, kvars, UserPCs
    <2>2. ProcInv' /\ CallInv' /\ ViewerInv'
      BY <1>1, <1>4 DEF IInv, ProcInv, CallInv, ViewerInv, kvars
    <2> DEFINE L == Loaded(command)
    <2>3. L \subseteq Pids /\ UNCHANGED <<command, current, mode, pstate, regs, cpu, upid>>
          /\ Loaded(command)' = L
      BY <1>4, LoadedFacts DEF kvars
    <2>4. \A p \in L : p # current => upc'[p] = upc[p] /\ heap_top'[p] = heap_top[p]
      BY <1>4, <2>3 DEF IInv, TypeOK
    <2>5. upc'[current] = "yield" /\ heap_top'[current] = np + 1
      BY <1>1, <1>4 DEF IInv, TypeOK
    <2> HIDE DEF L
    <2>6. PidInv'
      <3>1. ASSUME NEW p \in L
            PROVE /\ upc'[p] = "init" =>
                       IF current = p /\ mode \in {"user", "entry"}
                       THEN cpu = p ELSE pstate[p] = "RUNNABLE" => regs[p] = p
                  /\ upc'[p] \in {"loop", "fresh", "yield"} => upid[p] = p
        BY <1>1, <1>3, <2>3, <2>4, <2>5, <3>1 DEF IInv, PidInv, L
      <3> QED BY <2>3, <3>1 DEF PidInv
    <2>7. HeapInv'
      <3>1. ASSUME NEW p \in L
            PROVE  /\ upc'[p] \notin {"failed", "done"}
                   /\ upc'[p] \in {"start", "init", "forking"} => heap_top'[p] = 0
                   /\ upc'[p] \in {"loop", "fresh", "yield"} =>
                        HeapBottom(p) <= heap_top'[p] /\ heap_top'[p] <= StackPage(p)
                   /\ upc'[p] = "fresh" => heap_top'[p] # StackPage(p)
        <4>1. CASE p = current
          <5>1. current \in 1 .. NALLOC
            BY <1>1, LoadedFacts
          <5> QED BY <4>1, <5>1, <1>1, <1>5, <2>5, RegionFacts DEF Pages
        <4>2. CASE p # current
          BY <4>2, <1>1, <2>4 DEF IInv, HeapInv, L
        <4> QED BY <4>1, <4>2
      <3> QED BY <2>3, <3>1 DEF HeapInv
    <2> QED BY <2>1, <2>2, <2>6, <2>7
  <1>7. Live' = Live /\ \A p \in Live : HeapPages(p)' = HeapPages(p)
    <2>1. Live' = Live /\ Live \subseteq Pids
      BY <1>4 DEF Live, kvars
    <2>2. ASSUME NEW p \in Live
          PROVE  HeapPages(p)' = {pn \in Pages :
                   /\ HeapBottom(p) <= pn
                   /\ \/ pn < heap_top'[p]
                      \/ pn = heap_top'[p] /\ upc'[p] = "fresh"}
      BY DEF HeapPages
    <2>3. ASSUME NEW p \in Live, p # current PROVE HeapPages(p)' = HeapPages(p)
      <3>1. heap_top'[p] = heap_top[p] /\ upc'[p] = upc[p]
        BY <2>1, <2>3, <1>4 DEF IInv, TypeOK
      <3> QED BY <2>2, <3>1 DEF HeapPages
    <2>4. HeapPages(current)' = HeapPages(current)
      <3>1. heap_top'[current] = np + 1 /\ upc'[current] = "yield"
        BY <1>1, <1>4 DEF IInv, TypeOK
      <3>2. np \in Int /\ current' = current
        BY <1>1, <1>4 DEF Pages, kvars
      <3>3. ASSUME NEW pn \in Pages PROVE (pn < np + 1) <=> (pn < np \/ pn = np)
        <4>1. pn \in Int
          BY DEF Pages
        <4> HIDE DEF np
        <4> QED BY <3>2, <4>1
      <3>4. HeapPages(current)' = {pn \in Pages : HeapBottom(current) <= pn /\ pn < np + 1}
        BY <1>1, <2>2, <3>1, <3>2
      <3>5. HeapPages(current)
              = {pn \in Pages : HeapBottom(current) <= pn /\ (pn < np \/ pn = np)}
        BY <1>1 DEF HeapPages
      <3> QED BY <3>3, <3>4, <3>5
    <2>5. current' = current
      BY <1>4 DEF kvars
    <2> QED BY <2>1, <2>3, <2>4, <2>5
  <1>8. RefInv'
    BY <1>1, <1>4, <1>7 DEF IInv, RefInv, Uses, kvars
  <1>9. Isolation'
    <2> SUFFICES ASSUME NEW p \in Live
                 PROVE  /\ \A pn \in ImagePages(p) : mem'[pn] = p
                        /\ \A pn \in HeapPages(p) :
                             mem'[pn] = IF pn = heap_top'[p] THEN ZERO ELSE p
      BY <1>7 DEF Isolation
    <2>1. p \in 1 .. NALLOC /\ p \in Pids /\ p \in Loaded(command) /\ current \in 1 .. NALLOC
      BY <1>1, LoadedFacts DEF Live, IInv, ProcInv
    <2>2. np \notin ImagePages(p)
      BY <1>1, <2>1, RegionFacts, RegionsDisjoint DEF ImagePages, Pages
    <2>3. \A pn \in ImagePages(p) : pn \in Pages
      BY <2>1, RegionFacts, SizeAssumption DEF ImagePages, Pages
    <2>4. \A pn \in ImagePages(p) : mem'[pn] = p
      BY <2>2, <2>3, <1>4 DEF IInv, Isolation, TypeOK
    <2>5. CASE p = current
      <3>1. heap_top'[p] = np + 1 /\ upc'[p] = "yield"
        BY <2>5, <1>1, <1>4 DEF IInv, TypeOK
      <3>2. ASSUME NEW pn \in Pages, pn # np PROVE mem'[pn] = mem[pn]
        BY <3>2, <1>4 DEF IInv, TypeOK
      <3>3. mem'[np] = current
        BY <1>1, <1>4 DEF IInv, TypeOK
      <3> QED BY <2>5, <1>1, <1>4, <2>4, <3>1, <3>2, <3>3 DEF IInv, Isolation, HeapPages, Pages
    <2>6. CASE p # current
      <3>1. np \notin HeapPages(p)
        <4>1. heap_top[p] <= StackPage(p) /\ heap_top[p] \in Pages
              /\ (upc[p] = "fresh" => heap_top[p] # StackPage(p))
          <5>1. upc[p] \in UserPCs /\ heap_top[p] \in Pages
            BY <2>1 DEF IInv, TypeOK
          <5> QED
            BY <5>1, <1>1, <2>1, RegionFacts DEF IInv, HeapInv, UserPCs, Pages
        <4>2. \/ StackPage(p) < ProcBase(current)
              \/ StackPage(current) < ProcBase(p)
          BY <2>1, <2>6, RegionsDisjoint
        <4> QED
          BY <4>1, <4>2, <1>1, <2>1, RegionFacts DEF HeapPages, Pages
      <3> QED
        BY <2>6, <1>1, <1>4, <2>4, <3>1 DEF IInv, Isolation, TypeOK, HeapPages
    <2> QED BY <2>5, <2>6
  <1> QED
    BY <1>1, <1>6, <1>8, <1>9 DEF IInv

-----------------------------------------------------------------------------
(* memshow() and its callers.                                              *)

\* While the viewer has no page, page 1 is free, and kalloc() finds it first.
LEMMA FirstFree ==
  ASSUME IInv, viewer = NoPage
  PROVE  1 \in FreePages /\ \A pn \in Pages : KallocPicks(pn) <=> pn = 1
  <1>1. \A p \in Live : p \in 1 .. NALLOC
    BY LoadedFacts DEF IInv, ProcInv, Live
  <1>2. \A p \in Live : ~Uses(p, 1)
    <2> SUFFICES ASSUME NEW p \in Live PROVE ~Uses(p, 1)
      OBVIOUS
    <2>1. p \in 1 .. NALLOC
      BY <1>1
    <2>2. PROC_START \in Nat /\ PROC_START > 2
      BY SizeAssumption, LayoutAssumption
    <2> QED
      BY <2>1, <2>2, RegionFacts DEF Uses, SetupPages, ImagePages, HeapPages
  <1>3. refcount[1] = 0
    BY <1>2, LowPages DEF IInv, RefInv, NoPage
  <1>4. 1 \in FreePages /\ 0 \notin FreePages
    BY <1>3, LowPages, LayoutAssumption DEF FreePages, Allocatable
  <1>5. \A pn \in FreePages : pn \in Pages
    BY DEF FreePages
  <1> QED
    BY <1>4, <1>5 DEF KallocPicks, Pages

\* memshow() never fails its assertion; it may take page 1 for the viewer and
\* changes no other page.
LEMMA MemshowFacts ==
  ASSUME IInv, mode # "boot", NEW ok \in {"keyboard", "sched"}, Memshow(ok),
         UNCHANGED <<command, pstate, upc, heap_top>>
  PROVE  /\ mode' = ok
         /\ viewer' \in {NoPage, 1}
         /\ since' \in -1 .. HZ \div 2 /\ showing' \in Pids
         /\ refcount' \in [Pages -> Nat] /\ mem' \in [Pages -> Contents]
         /\ RefInv' /\ Isolation'
  <1>1. since' \in -1 .. HZ \div 2 /\ showing' \in Pids
    <2>1. since' \in -1 .. HZ \div 2
      BY Constants DEF Memshow, IInv, TypeOK
    <2>2. PICK f \in Pids, d \in 0 .. MAXNPROC : showing' = (f + d) % MAXNPROC
      <3>1. (showing + 1) % MAXNPROC \in Pids /\ showing \in Pids
        <4>1. showing \in Pids /\ showing + 1 \in Nat
          BY DEF IInv, TypeOK, Pids
        <4> QED BY <4>1, NextPid
      <3> QED BY <3>1 DEF Memshow
    <2>3. f + d \in Nat
      BY DEF Pids
    <2> QED BY <2>1, <2>2, <2>3, NextPid
  <1>2. RefreshViewer(ok)
    BY DEF Memshow
  <1>3. CASE viewer # NoPage
    <2>1. mode' = ok /\ UNCHANGED <<viewer, refcount, mem>>
      BY <1>2, <1>3 DEF RefreshViewer
    <2>2. RefInv' /\ Isolation' /\ ViewerInv'
      BY <2>1, FramePages
    <2> QED
      BY <1>1, <2>1, <2>2 DEF IInv, TypeOK, ViewerInv
  <1>4. CASE viewer = NoPage
    <2>1. 1 \in FreePages /\ \A pn \in Pages : KallocPicks(pn) <=> pn = 1
      BY <1>4, FirstFree
    <2>2. /\ mode' = ok /\ viewer' = 1
          /\ refcount' = [refcount EXCEPT ![1] = @ + 1]
          /\ mem' = [mem EXCEPT ![1] = CC]
      BY <2>1, <1>2, <1>4 DEF RefreshViewer
    <2>3. refcount[1] = 0 /\ 1 \in Pages
      BY <2>1 DEF FreePages
    <2>4. refcount' \in [Pages -> Nat] /\ mem' \in [Pages -> Contents]
      <3>1. CC \in Contents
        BY Constants DEF CC, Contents
      <3> QED BY <3>1, <2>2, <2>3 DEF IInv, TypeOK
    <2>5. Live' = Live /\ \A p, pn : Uses(p, pn)' <=> Uses(p, pn)
      BY <2>2 DEF Live, Uses, HeapPages
    <2>6. \A p \in Live : ~Uses(p, 1)
      BY <2>3, <1>4 DEF IInv, RefInv, NoPage
    <2>7. RefInv'
      <3>1. ASSUME NEW pn \in Pages
            PROVE  refcount'[pn] = IF pn = viewer' \/ \E p \in Live : Uses(p, pn)
                                   THEN 1 ELSE 0
        <4>1. CASE pn = 1
          BY <4>1, <2>2, <2>3 DEF IInv, TypeOK
        <4>2. CASE pn # 1
          <5>1. refcount'[pn] = refcount[pn]
            BY <4>2, <2>2 DEF IInv, TypeOK
          <5>2. pn # viewer
            BY <1>4 DEF NoPage, Pages
          <5> QED BY <5>1, <5>2, <4>2, <2>2 DEF IInv, RefInv
        <4> QED BY <4>1, <4>2
      <3> QED BY <3>1, <2>5 DEF RefInv
    <2>8. Isolation'
      <3>1. ASSUME NEW p \in Live, NEW pn \in Pages, Uses(p, pn)
            PROVE  mem'[pn] = mem[pn]
        BY <3>1, <2>2, <2>6 DEF IInv, TypeOK
      <3>2. ASSUME NEW p \in Live PROVE ImagePages(p) \subseteq Pages
        <4>1. p \in 1 .. NALLOC
          BY LoadedFacts DEF IInv, ProcInv, Live
        <4> QED BY <4>1, RegionFacts, SizeAssumption DEF ImagePages, Pages
      <3>3. HeapPages(0) = HeapPages(0) /\ \A p : HeapPages(p)' = HeapPages(p) /\ HeapPages(p) \subseteq Pages
        BY DEF HeapPages
      <3> QED
        BY <3>1, <3>2, <3>3, <2>5 DEF Isolation, IInv, Uses, SetupPages
    <2> QED
      BY <1>1, <2>2, <2>4, <2>7, <2>8
  <1> QED
    BY <1>3, <1>4

\* exception() and syscall() up to the dispatch, with the memory viewer.
LEMMA EntryInv ==
  ASSUME IInv, Entry
  PROVE  IInv'
  <1>1. mode = "entry" /\ UNCHANGED <<command, pstate, current, spid, spins, trap,
                                      arg, isr, upc, heap_top, upid>>
    BY DEF Entry, uvars
  <1>2. /\ mode' = "keyboard" /\ viewer' \in {NoPage, 1}
        /\ since' \in -1 .. HZ \div 2 /\ showing' \in Pids
        /\ refcount' \in [Pages -> Nat] /\ mem' \in [Pages -> Contents]
        /\ RefInv' /\ Isolation'
    BY <1>1, MemshowFacts DEF Entry
  <1>3. regs' = [regs EXCEPT ![current] = cpu] /\ cpu' = 0
    BY DEF Entry, SaveRegs
  <1>4. TypeOK'
    BY <1>1, <1>2, <1>3, Constants, LowPages DEF IInv, TypeOK, Modes
  <1>5. ProcInv' /\ HeapInv' /\ CallInv' /\ ViewerInv'
    BY <1>1, <1>2 DEF IInv, ProcInv, HeapInv, CallInv, ViewerInv
  <1>6. PidInv'
    <2>1. Loaded(command) \subseteq Pids
      BY LoadedFacts
    <2>2. \A p \in Pids : regs'[p] = IF p = current THEN cpu ELSE regs[p]
      BY <1>3 DEF IInv, TypeOK
    <2> QED BY <1>1, <1>2, <2>1, <2>2 DEF IInv, PidInv
  <1> QED
    BY <1>2, <1>4, <1>5, <1>6 DEF IInv

\* schedule() shows memory while it spins.
LEMMA ScheduleShowInv ==
  ASSUME IInv, ScheduleShow
  PROVE  IInv'
  <1>1. mode = "schedshow" /\ UNCHANGED <<command, pstate, regs, current, spid,
                                 trap, arg, isr, cpu, upc, heap_top, upid>>
    BY DEF ScheduleShow, uvars
  <1>2. spins' \in 0 .. SPIN_PERIOD - 1
    <2>1. spins + 1 \in Nat
      BY DEF IInv, TypeOK
    <2> QED BY <2>1, Constants, ModRange DEF ScheduleShow
  <1>3. /\ mode' = "sched" /\ viewer' \in {NoPage, 1}
        /\ since' \in -1 .. HZ \div 2 /\ showing' \in Pids
        /\ refcount' \in [Pages -> Nat] /\ mem' \in [Pages -> Contents]
        /\ RefInv' /\ Isolation'
    <2>1. CASE spins = 0
      BY <2>1, <1>1, MemshowFacts DEF ScheduleShow
    <2>2. CASE spins # 0
      <3>1. mode' = "sched" /\ UNCHANGED <<since, showing, viewer, refcount, mem>>
        BY <2>2 DEF ScheduleShow
      <3>2. RefInv' /\ Isolation' /\ ViewerInv'
        BY <3>1, <1>1, FramePages
      <3> QED BY <3>1, <3>2 DEF IInv, TypeOK, ViewerInv
    <2> QED BY <2>1, <2>2
  <1>4. TypeOK'
    BY <1>1, <1>2, <1>3, LowPages DEF IInv, TypeOK, Modes
  <1>5. ProcInv' /\ HeapInv' /\ CallInv' /\ ViewerInv' /\ PidInv'
    BY <1>1, <1>3 DEF IInv, ProcInv, HeapInv, CallInv, ViewerInv, PidInv
  <1> QED
    BY <1>3, <1>4, <1>5 DEF IInv

-----------------------------------------------------------------------------
(* The other steps of the kernel.                                          *)

\* No key, the key that powers off, and the panics.
LEMMA KeyOrPanicInv ==
  ASSUME IInv, NoKey \/ Poweroff \/ HandlePanic
  PROVE  IInv'
  <1>1. /\ UNCHANGED <<command, kvars, mem, spid, spins, trap, arg, isr, cpu, uvars>>
        /\ \/ mode = "keyboard" /\ mode' = "dispatch"
           \/ /\ mode \in {"keyboard", "schedkey", "panic", "dispatch"}
              /\ mode' \in {"schedshow", "panic", "off"}
    BY DEF NoKey, Poweroff, HandlePanic, AfterKeyboard, IInv
  <1>2. TypeOK' /\ ProcInv' /\ CallInv' /\ PidInv'
    BY <1>1 DEF IInv, TypeOK, ProcInv, CallInv, PidInv, kvars, uvars, Modes
  <1>3. RefInv' /\ Isolation' /\ ViewerInv' /\ HeapInv'
    BY <1>1, FramePages DEF kvars, uvars
  <1> QED
    BY <1>1, <1>2, <1>3 DEF IInv

\* A soft reboot at any point starts over.
LEMMA SoftRebootInv ==
  ASSUME IInv, SoftReboot
  PROVE  IInv'
  <1>1. TypeOK'
    <2>1. mem' \in [Pages -> Contents]
      <3>1. BOOT \in Contents
        BY Constants DEF BOOT, Contents
      <3> QED BY <3>1, LowPages DEF SoftReboot, IInv, TypeOK
    <2>2. pstate' \in [Pids -> States] /\ regs' \in [Pids -> Pids] /\ refcount' \in [Pages -> Nat]
      BY Constants DEF SoftReboot, NoProcs, NoRegs, NoRefs, States
    <2>3. since' \in -1 .. HZ \div 2 /\ spins' \in 0 .. SPIN_PERIOD - 1
      BY Constants DEF SoftReboot
    <2> QED
      BY <2>1, <2>2, <2>3, Constants, LowPages
         DEF SoftReboot, IInv, TypeOK, Modes, Traps, uvars
  <1>2. mode' # "assert" /\ ProcInv' /\ HeapInv' /\ CallInv' /\ ViewerInv' /\ PidInv'
    BY DEF SoftReboot, ProcInv, HeapInv, CallInv, ViewerInv, PidInv
  <1>3. RefInv'
    BY DEF SoftReboot, RefInv, Live, NoRefs, NoPage, Pages
  <1>4. Isolation'
    BY DEF SoftReboot, Isolation, Live
  <1> QED
    BY <1>1, <1>2, <1>3, <1>4 DEF IInv

\* The spin counter starts in its range.
LEMMA SpinsStart == 1 % SPIN_PERIOD \in 0 .. SPIN_PERIOD - 1
  BY Constants, ModRange

\* A timer interrupt.
LEMMA HandleTimerInv ==
  ASSUME IInv, HandleTimer
  PROVE  IInv'
  <1>1. /\ mode = "dispatch" /\ mode' = "sched"
        /\ UNCHANGED <<command, pstate, regs, current, refcount, mem, showing,
                       viewer, cpu, upc, heap_top, upid>>
        /\ spid' = current /\ spins' = 1 % SPIN_PERIOD /\ trap' = "none"
        /\ arg' = 0 /\ isr' = 0
    BY DEF HandleTimer, StartSchedule, AckTimer, uvars
  <1>2. since' \in -1 .. HZ \div 2
    BY Constants DEF HandleTimer, Tick, IInv, TypeOK
  <1>3. TypeOK'
    BY <1>1, <1>2, SpinsStart, LowPages DEF IInv, TypeOK, Modes, Traps
  <1>4. ProcInv' /\ CallInv' /\ PidInv'
    BY <1>1 DEF IInv, ProcInv, CallInv, PidInv
  <1>5. RefInv' /\ Isolation' /\ ViewerInv' /\ HeapInv'
    BY <1>1, FramePages
  <1> QED
    BY <1>1, <1>3, <1>4, <1>5 DEF IInv

\* A page fault freezes the current process.
LEMMA HandlePageFaultInv ==
  ASSUME IInv, HandlePageFault
  PROVE  IInv'
  <1>1. /\ mode = "dispatch" /\ mode' = "sched"
        /\ UNCHANGED <<command, regs, current, refcount, mem, since, showing,
                       viewer, isr, cpu, upc, heap_top, upid>>
        /\ spid' = current /\ spins' = 1 % SPIN_PERIOD /\ trap' = "none" /\ arg' = 0
        /\ pstate' = [pstate EXCEPT ![current] = "FAULTED"]
    BY DEF HandlePageFault, StartSchedule, uvars
  <1>2. TypeOK'
    BY <1>1, SpinsStart, LowPages DEF IInv, TypeOK, Modes, Traps, States
  <1>3. \A p \in Pids : /\ pstate'[p] = "FREE" <=> pstate[p] = "FREE"
                        /\ pstate'[p] = "RUNNABLE" => pstate[p] = "RUNNABLE"
    BY <1>1 DEF IInv, TypeOK, ProcInv
  <1>4. ProcInv' /\ CallInv' /\ PidInv'
    <2>1. Loaded(command) \subseteq Pids
      BY LoadedFacts
    <2> QED BY <1>1, <1>3, <2>1 DEF IInv, ProcInv, CallInv, PidInv
  <1>5. Live' = Live
    BY <1>1, <1>3 DEF Live
  <1>6. RefInv' /\ Isolation' /\ ViewerInv' /\ HeapInv'
    BY <1>1, <1>5 DEF IInv, RefInv, Isolation, ViewerInv, HeapInv, Uses, HeapPages
  <1> QED
    BY <1>1, <1>2, <1>4, <1>6 DEF IInv

\* sys_getpid()
LEMMA SysGetpidInv ==
  ASSUME IInv, SysGetpid
  PROVE  IInv'
  <1>1. /\ mode = "dispatch" /\ mode' = "user"
        /\ UNCHANGED <<command, pstate, regs, current, refcount, mem, since,
                       showing, viewer, spid, spins, isr, heap_top, upid>>
        /\ cpu' = current /\ trap' = "none" /\ arg' = 0
        /\ upc' = [upc EXCEPT ![current] = "init"]
        /\ upc[current] = "start" /\ current \in Loaded(command)
    BY DEF SysGetpid, Return, kvars, IInv, CallInv, ProcInv
  <1>2. TypeOK'
    BY <1>1, LowPages DEF IInv, TypeOK, Modes, Traps, UserPCs
  <1>3. Loaded(command) \subseteq Pids
    BY LoadedFacts
  <1>4. \A p \in Pids : upc'[p] = IF p = current THEN "init" ELSE upc[p]
    BY <1>1 DEF IInv, TypeOK
  <1>5. ProcInv' /\ CallInv' /\ PidInv' /\ HeapInv' /\ ViewerInv'
    BY <1>1, <1>3, <1>4 DEF IInv, ProcInv, CallInv, PidInv, HeapInv, ViewerInv
  <1>6. Live' = Live /\ Live \subseteq Pids
        /\ \A p \in Live : HeapPages(p)' = HeapPages(p)
    BY <1>1, <1>4 DEF Live, HeapPages
  <1>7. RefInv' /\ Isolation'
    BY <1>1, <1>6 DEF IInv, RefInv, Isolation, Uses
  <1> QED
    BY <1>1, <1>2, <1>5, <1>7 DEF IInv

\* sys_yield()
LEMMA SysYieldInv ==
  ASSUME IInv, SysYield
  PROVE  IInv'
  <1>1. /\ mode = "dispatch" /\ mode' = "sched" /\ trap = "yield"
        /\ UNCHANGED <<command, pstate, current, refcount, mem, since, showing,
                       viewer, isr, cpu, heap_top, upid>>
        /\ spid' = current /\ spins' = 1 % SPIN_PERIOD /\ trap' = "none" /\ arg' = 0
        /\ regs' = [regs EXCEPT ![current] = 0]
        /\ current \in Loaded(command) /\ current \in Pids
    BY DEF SysYield, StartSchedule, IInv, ProcInv, TypeOK
  <1>2. \A p \in Pids : /\ upc'[p] = IF p = current /\ upc[p] = "yield"
                                     THEN "loop" ELSE upc[p]
                        /\ regs'[p] = IF p = current THEN 0 ELSE regs[p]
    BY <1>1 DEF SysYield, IInv, TypeOK
  <1>3. TypeOK'
    <2>1. upc' \in [Pids -> UserPCs]
      BY <1>1 DEF SysYield, IInv, TypeOK, UserPCs
    <2> QED BY <1>1, <2>1, SpinsStart, LowPages, Constants DEF IInv, TypeOK, Modes, Traps
  <1>4. Loaded(command) \subseteq Pids
    BY LoadedFacts
  <1>5. ProcInv' /\ CallInv' /\ HeapInv' /\ ViewerInv'
    BY <1>1, <1>2, <1>4 DEF IInv, ProcInv, CallInv, HeapInv, ViewerInv
  <1>6. PidInv'
    BY <1>1, <1>2, <1>4 DEF IInv, PidInv, CallInv
  <1>7. Live' = Live /\ Live \subseteq Pids
        /\ \A p \in Live : HeapPages(p)' = HeapPages(p)
    BY <1>1, <1>2 DEF Live, HeapPages
  <1>8. RefInv' /\ Isolation'
    BY <1>1, <1>7 DEF IInv, RefInv, Isolation, Uses
  <1> QED
    BY <1>1, <1>3, <1>5, <1>6, <1>8 DEF IInv

\* schedule() moves on, or runs a process with its own registers.
LEMMA ScheduleInv ==
  ASSUME IInv, Schedule
  PROVE  IInv'
  <1> DEFINE pid == (spid + 1) % MAXNPROC
  <1>1. /\ mode = "sched" /\ mode' \in {"user", "schedkey"}
        /\ UNCHANGED <<command, pstate, regs, refcount, mem, since, showing,
                       viewer, trap, arg, isr, upc, heap_top, upid>>
        /\ mode' = "user" => /\ pstate[pid] = "RUNNABLE" /\ current' = pid
                             /\ cpu' = regs[pid] /\ spid' = 0 /\ spins' = 0
        /\ mode' = "schedkey" => /\ spid' = pid
                                 /\ UNCHANGED <<current, cpu, spins>>
    BY DEF Schedule, Schedulable, uvars
  <1>2. pid \in Pids
    <2>1. spid + 1 \in Nat
      BY DEF IInv, TypeOK, Pids
    <2> QED BY <2>1, NextPid
  <1> HIDE DEF pid
  <1>3. TypeOK'
    <2>1. 0 \in 0 .. SPIN_PERIOD - 1
      BY Constants
    <2> QED BY <1>1, <1>2, <2>1, Constants DEF IInv, TypeOK, Modes
  <1>4. ProcInv' /\ CallInv'
    BY <1>1, <1>2 DEF IInv, ProcInv, CallInv
  <1>5. PidInv'
    <2>1. \A p \in Loaded(command) :
            /\ upc[p] = "init" /\ pstate[p] = "RUNNABLE" => regs[p] = p
            /\ upc[p] \in {"loop", "fresh", "yield"} => upid[p] = p
      BY <1>1 DEF IInv, PidInv
    <2>2. CASE mode' = "user"
      BY <1>1, <2>1, <2>2 DEF PidInv
    <2>3. CASE mode' = "schedkey"
      BY <1>1, <2>1, <2>3 DEF PidInv
    <2> QED BY <1>1, <2>2, <2>3
  <1>6. RefInv' /\ Isolation' /\ ViewerInv' /\ HeapInv'
    BY <1>1, FramePages
  <1> QED
    BY <1>1, <1>3, <1>4, <1>5, <1>6 DEF IInv

\* The pages of a process: its image, heap and stack lie in its region, and
\* pages of different processes are different.
LEMMA UsesInRegion ==
  ASSUME IInv, NEW p \in Live, NEW pn, Uses(p, pn)
  PROVE  /\ p \in 1 .. NALLOC /\ p \in Loaded(command) /\ p \in Pids
         /\ pn \in Pages /\ ProcBase(p) <= pn /\ pn <= StackPage(p)
  <1>1. p \in 1 .. NALLOC /\ p \in Loaded(command) /\ p \in Pids /\ mode # "boot"
    BY LoadedFacts DEF IInv, ProcInv, Live
  <1>2. CASE pn \in SetupPages(p)
    BY <1>1, <1>2, RegionFacts, SizeAssumption DEF SetupPages, ImagePages, Pages
  <1>3. CASE pn \in HeapPages(p)
    <2>1. upc[p] \in UserPCs /\ heap_top[p] \in Pages
      BY <1>1 DEF IInv, TypeOK
    <2>2. heap_top[p] <= StackPage(p)
      BY <1>1, <2>1, RegionFacts DEF IInv, HeapInv, UserPCs, Pages
    <2> QED
      BY <1>1, <1>3, <2>1, <2>2, RegionFacts DEF HeapPages, Pages
  <1> QED
    BY <1>1, <1>2, <1>3 DEF Uses

\* No page is used by two processes.
LEMMA OneUser ==
  ASSUME IInv, NEW p \in Live, NEW q \in Live, NEW pn, Uses(p, pn), Uses(q, pn)
  PROVE  p = q
  <1>1. /\ p \in 1 .. NALLOC /\ q \in 1 .. NALLOC
        /\ pn \in Pages
        /\ ProcBase(p) <= pn /\ pn <= StackPage(p)
        /\ ProcBase(q) <= pn /\ pn <= StackPage(q)
    BY UsesInRegion
  <1> QED
    BY <1>1, RegionFacts, RegionsDisjoint DEF Pages

\* sys_page_alloc(), whether or not there is a page.
LEMMA SysPageAllocInv ==
  ASSUME IInv, SysPageAlloc
  PROVE  IInv'
  <1>1. /\ mode = "dispatch" /\ current \in Loaded(command) /\ current \in Pids
        /\ current \in 1 .. NALLOC /\ current \in Live
        /\ upc[current] = "loop" /\ arg = heap_top[current] /\ arg \in Pages
        /\ HeapBottom(current) <= arg /\ arg < StackPage(current)
    <2>1. current \in 1 .. NALLOC
      BY LoadedFacts DEF SysPageAlloc, IInv, ProcInv
    <2> QED
      BY <2>1, RegionFacts
         DEF SysPageAlloc, IInv, TypeOK, ProcInv, HeapInv, CallInv, Live, Pages
  <1>2. \A p \in Live : ~Uses(p, arg)
    <2> SUFFICES ASSUME NEW p \in Live, Uses(p, arg) PROVE FALSE
      OBVIOUS
    <2>1. p \in 1 .. NALLOC /\ ProcBase(p) <= arg /\ arg <= StackPage(p)
      BY UsesInRegion
    <2>2. p = current
      BY <1>1, <2>1, RegionFacts, RegionsDisjoint DEF Pages
    <2> QED
      BY <1>1, <2>2, RegionFacts DEF Uses, SetupPages, ImagePages, HeapPages, Pages
  <1>3. arg # viewer
    BY <1>1, RegionFacts, LayoutAssumption, SizeAssumption
       DEF IInv, ViewerInv, NoPage, Pages
  <1>4. refcount[arg] = 0
    BY <1>1, <1>2, <1>3 DEF IInv, RefInv
  <1>5. /\ mode' = "user"
        /\ UNCHANGED <<command, pstate, regs, current, since, showing, viewer,
                       spid, spins, isr, heap_top, upid>>
        /\ refcount' = [refcount EXCEPT ![arg] = @ + 1]
        /\ mem' = [mem EXCEPT ![arg] = ZERO]
        /\ cpu' = 0 /\ trap' = "none" /\ arg' = 0
        /\ upc' = [upc EXCEPT ![current] = "fresh"]
    BY <1>4 DEF SysPageAlloc, Return
  <1>6. TypeOK'
    <2>1. ZERO \in Contents /\ "fresh" \in UserPCs
      BY Constants DEF ZERO, Contents, UserPCs
    <2>2. refcount' \in [Pages -> Nat]
      BY <1>1, <1>5 DEF IInv, TypeOK
    <2> QED
      BY <1>1, <1>5, <2>1, <2>2, LowPages, Constants DEF IInv, TypeOK, Modes, Traps
  <1>7. \A p \in Pids : upc'[p] = IF p = current THEN "fresh" ELSE upc[p]
    BY <1>5 DEF IInv, TypeOK
  <1>8. Loaded(command) \subseteq Pids /\ StackPage(current) \in Nat
    BY <1>1, LoadedFacts, RegionFacts
  <1>9. ProcInv' /\ CallInv' /\ ViewerInv'
    BY <1>1, <1>5 DEF IInv, ProcInv, CallInv, ViewerInv
  <1>10. PidInv'
    BY <1>1, <1>5, <1>7, <1>8 DEF IInv, PidInv
  <1>11. HeapInv'
    <2>1. ASSUME NEW p \in Loaded(command)
          PROVE  /\ upc'[p] \notin {"failed", "done"}
                 /\ upc'[p] \in {"start", "init", "forking"} => heap_top[p] = 0
                 /\ upc'[p] \in {"loop", "fresh", "yield"} =>
                      HeapBottom(p) <= heap_top[p] /\ heap_top[p] <= StackPage(p)
                 /\ upc'[p] = "fresh" => heap_top[p] # StackPage(p)
      <3>1. CASE p = current
        BY <3>1, <1>1, <1>7, <1>8 DEF Pages
      <3>2. CASE p # current
        BY <3>2, <1>1, <1>7, <1>8 DEF IInv, HeapInv
      <3> QED BY <3>1, <3>2
    <2> QED BY <2>1, <1>5 DEF HeapInv
  <1>12. /\ Live' = Live /\ Live \subseteq Pids
         /\ HeapPages(current)' = HeapPages(current) \cup {arg}
         /\ \A p \in Live : p # current => HeapPages(p)' = HeapPages(p)
    <2>1. Live' = Live /\ Live \subseteq Pids
      BY <1>1, <1>5 DEF Live
    <2>2. HeapPages(current)' = HeapPages(current) \cup {arg}
      BY <1>1, <1>5, <1>7 DEF HeapPages
    <2>3. \A p \in Live : p # current => HeapPages(p)' = HeapPages(p)
      BY <2>1, <1>5, <1>7 DEF HeapPages
    <2> QED BY <2>1, <2>2, <2>3
  <1>13. RefInv'
    <2>1. ASSUME NEW pn \in Pages
          PROVE  refcount'[pn] =
                   IF pn = viewer \/ \E p \in Live : Uses(p, pn)' THEN 1 ELSE 0
      <3>1. CASE pn = arg
        <4>1. refcount'[arg] = 1
          BY <1>1, <1>4, <1>5 DEF IInv, TypeOK
        <4>2. \A p \in Live : p = current => Uses(p, pn)'
          BY <3>1, <1>5, <1>12 DEF Uses
        <4> QED BY <3>1, <4>1, <4>2, <1>1
      <3>2. CASE pn # arg
        <4>1. refcount'[pn] = refcount[pn]
          BY <3>2, <1>5 DEF IInv, TypeOK
        <4>2. \A p \in Live : Uses(p, pn)' <=> Uses(p, pn)
          BY <3>2, <1>12, <1>5 DEF Uses
        <4> QED BY <4>1, <4>2 DEF IInv, RefInv
      <3> QED BY <3>1, <3>2
    <2> QED BY <2>1, <1>5, <1>12 DEF RefInv
  <1>14. Isolation'
    <2> SUFFICES ASSUME NEW p \in Live
                 PROVE  /\ \A pn \in ImagePages(p) : mem'[pn] = p
                        /\ \A pn \in HeapPages(p)' :
                             mem'[pn] = IF pn = heap_top[p] THEN ZERO ELSE p
      BY <1>5, <1>12 DEF Isolation
    <2>1. \A pn : Uses(p, pn) => mem'[pn] = mem[pn]
      <3>1. ASSUME NEW pn, Uses(p, pn) PROVE mem'[pn] = mem[pn]
        <4>1. pn \in Pages /\ pn # arg
          BY <3>1, <1>2, UsesInRegion
        <4> QED BY <4>1, <1>5 DEF IInv, TypeOK
      <3> QED BY <3>1
    <2>2. \A pn \in ImagePages(p) : mem'[pn] = p
      BY <2>1 DEF IInv, Isolation, Uses, SetupPages
    <2>3. \A pn \in HeapPages(p) :
            mem'[pn] = IF pn = heap_top[p] THEN ZERO ELSE p
      BY <2>1 DEF IInv, Isolation, Uses
    <2>4. mem'[arg] = ZERO
      BY <1>1, <1>5 DEF IInv, TypeOK
    <2>5. CASE p = current
      <3>1. HeapPages(p)' = HeapPages(p) \cup {arg} /\ arg = heap_top[p]
        BY <2>5, <1>1, <1>5, <1>12
      <3> QED BY <3>1, <2>2, <2>3, <2>4
    <2>6. CASE p # current
      BY <2>6, <2>2, <2>3, <1>12
    <2> QED BY <2>5, <2>6
  <1> QED
    BY <1>5, <1>6, <1>9, <1>10, <1>11, <1>13, <1>14 DEF IInv

\* kernel_start(): the images and stacks are claimed, and nothing else.
LEMMA BootInv ==
  ASSUME IInv, Boot
  PROVE  IInv'
  <1> DEFINE L == Loaded(command)
  <1>1. /\ mode = "boot" /\ refcount = NoRefs /\ viewer = NoPage
        /\ L \subseteq 1 .. NALLOC /\ 1 \in L /\ L \subseteq Pids
    BY LoadedFacts DEF Boot, IInv, ProcInv
  <1>2. \A p \in L : /\ ImagePages(p) \subseteq Pages /\ StackPage(p) \in Pages
                     /\ SetupPages(p) \subseteq Pages
    <2>1. ASSUME NEW p \in L
          PROVE  ImagePages(p) \subseteq Pages /\ StackPage(p) \in Pages
      <3>1. p \in 1 .. NALLOC
        BY <1>1
      <3> QED BY <3>1, RegionFacts, SizeAssumption DEF ImagePages, Pages
    <2> QED BY <2>1 DEF SetupPages
  <1>3. BootPages(command) \subseteq Pages
    BY <1>2 DEF BootPages
  <1>4. /\ mode' = "user" /\ current' = 1 /\ cpu' = 0 /\ regs' = NoRegs /\ isr' = 0
        /\ UNCHANGED <<command, since, showing, viewer, spid, spins, trap, arg>>
        /\ pstate' = [p \in Pids |-> IF p \in L THEN "RUNNABLE" ELSE "FREE"]
        /\ refcount' = [pn \in Pages |-> IF pn \in BootPages(command)
                                         THEN refcount[pn] + 1 ELSE refcount[pn]]
        /\ mem' = [pn \in Pages |->
                     IF \E p \in L : pn \in ImagePages(p)
                     THEN CHOOSE p \in L : pn \in ImagePages(p) ELSE mem[pn]]
        /\ upc' = [p \in Pids |-> "start"]
        /\ heap_top' = [p \in Pids |-> 0]
        /\ upid' = [p \in Pids |-> 0]
    BY <1>1, <1>3 DEF Boot, AckTimer, NoRefs
  <1> HIDE DEF L
  <1>5. \A p \in L, q \in L : \A pn :
          pn \in ImagePages(p) /\ pn \in ImagePages(q) => p = q
    <2> SUFFICES ASSUME NEW p \in L, NEW q \in L, NEW pn \in ImagePages(p) \cap ImagePages(q)
                 PROVE  p = q
      OBVIOUS
    <2>1. p \in 1 .. NALLOC /\ q \in 1 .. NALLOC
      BY <1>1
    <2> QED
      BY <2>1, RegionFacts, RegionsDisjoint DEF ImagePages
  <1>6. \A p \in L : \A pn \in ImagePages(p) : mem'[pn] = p
    <2> SUFFICES ASSUME NEW p \in L, NEW pn \in ImagePages(p) PROVE mem'[pn] = p
      OBVIOUS
    <2>1. pn \in Pages
      BY <1>2
    <2>2. mem'[pn] = CHOOSE r \in L : pn \in ImagePages(r)
      BY <2>1, <1>4
    <2>3. mem'[pn] \in L /\ pn \in ImagePages(mem'[pn])
      BY <2>2
    <2> QED BY <2>3, <1>5
  <1>7. mem' \in [Pages -> Contents]
    <2>1. \A p \in L : p \in Contents
      BY <1>1, Constants DEF Contents, Pids
    <2>2. ASSUME NEW pn \in Pages PROVE mem'[pn] \in Contents
      <3>1. CASE \E p \in L : pn \in ImagePages(p)
        BY <3>1, <2>1, <1>6
      <3>2. CASE ~\E p \in L : pn \in ImagePages(p)
        BY <3>2, <1>4 DEF IInv, TypeOK
      <3> QED BY <3>1, <3>2
    <2> QED BY <2>2, <1>4
  <1>8. TypeOK'
    <2>1. /\ pstate' \in [Pids -> States] /\ regs' \in [Pids -> Pids]
          /\ refcount' \in [Pages -> Nat]
      BY <1>1, <1>4, Constants DEF NoRegs, NoRefs, States
    <2>2. /\ upc' \in [Pids -> UserPCs] /\ heap_top' \in [Pids -> Pages]
          /\ upid' \in [Pids -> Pids]
      BY <1>4, Constants, LowPages DEF UserPCs
    <2> QED
      BY <1>4, <1>7, <2>1, <2>2, Constants DEF IInv, TypeOK, Modes
  <1>9. ProcInv'
    BY <1>1, <1>4 DEF ProcInv, L
  <1>10. HeapInv' /\ CallInv' /\ ViewerInv' /\ PidInv'
    BY <1>1, <1>4 DEF HeapInv, CallInv, ViewerInv, PidInv, L
  <1>11. Live' = L /\ \A p \in L : HeapPages(p)' = {}
    <2>1. Live' = L
      BY <1>1, <1>4 DEF Live
    <2>2. ASSUME NEW p \in L PROVE HeapPages(p)' = {}
      <3>1. p \in 1 .. NALLOC /\ p \in Pids
        BY <1>1
      <3> QED
        BY <3>1, <1>4, RegionFacts, LayoutAssumption, SizeAssumption DEF HeapPages, Pages
    <2> QED BY <2>1, <2>2
  <1>12. RefInv'
    <2>1. \A pn \in Pages : pn # viewer'
      BY <1>1, <1>4 DEF NoPage, Pages
    <2>2. \A p \in L, pn \in Pages : Uses(p, pn)' <=> pn \in SetupPages(p)
      BY <1>11 DEF Uses
    <2>3. \A pn \in Pages : refcount'[pn] = IF pn \in BootPages(command) THEN 1 ELSE 0
      BY <1>1, <1>4 DEF NoRefs
    <2>4. \A pn : pn \in BootPages(command) <=> \E p \in L : pn \in SetupPages(p)
      BY DEF BootPages, L
    <2> QED BY <2>1, <2>2, <2>3, <2>4, <1>11 DEF RefInv
  <1>13. Isolation'
    BY <1>6, <1>11 DEF Isolation
  <1> QED
    BY <1>4, <1>8, <1>9, <1>10, <1>12, <1>13 DEF IInv

-----------------------------------------------------------------------------
(* Theorems.                                                               *)

\* Every step of the machine keeps the inductive invariant.
LEMMA NextInv == IInv /\ [Next]_vars => IInv'
  <1> SUFFICES ASSUME IInv, [Next]_vars PROVE IInv'
    OBVIOUS
  <1>1. CASE TimerInterrupt \/ UserSyscall \/ UserFault
    BY <1>1, TrapInv
  <1>2. CASE UserInit
    BY <1>2, UserInitInv
  <1>3. CASE UserTouch
    BY <1>3, UserTouchInv
  <1>4. CASE Boot
    BY <1>4, BootInv
  <1>5. CASE Entry
    BY <1>5, EntryInv
  <1>6. CASE NoKey \/ Poweroff \/ HandlePanic
    BY <1>6, KeyOrPanicInv
  <1>7. CASE HandleTimer
    BY <1>7, HandleTimerInv
  <1>8. CASE HandlePageFault
    BY <1>8, HandlePageFaultInv
  <1>9. CASE SysGetpid
    BY <1>9, SysGetpidInv
  <1>10. CASE SysYield
    BY <1>10, SysYieldInv
  <1>11. CASE SysPageAlloc
    BY <1>11, SysPageAllocInv
  <1>12. CASE Schedule
    BY <1>12, ScheduleInv
  <1>13. CASE ScheduleShow
    BY <1>13, ScheduleShowInv
  <1>14. CASE SoftReboot
    BY <1>14, SoftRebootInv
  <1>15. CASE Halted \/ UNCHANGED vars
    BY <1>15 DEF Halted, vars, IInv, TypeOK, ProcInv, HeapInv, CallInv, ViewerInv,
       RefInv, PidInv, Isolation, Live, Uses, HeapPages
  <1> QED
    BY <1>1, <1>2, <1>3, <1>4, <1>5, <1>6, <1>7, <1>8, <1>9, <1>10, <1>11, <1>12,
       <1>13, <1>14, <1>15 DEF Next, UserStep, KernelStep

\* IInv always holds.
LEMMA AlwaysIInv == Spec => []IInv
  BY InitInv, NextInv, PTL DEF Spec

\* The kernel's and the programs' variables keep their types: indices into the
\* process table and physpages stay in range.
THEOREM TypeCorrect == Spec => []TypeOK
  <1>1. IInv => TypeOK
    BY DEF IInv
  <1> QED BY <1>1, AlwaysIInv, PTL

\* IInv implies the accounting of pages.
LEMMA InvAccounting ==
  ASSUME IInv PROVE PageAccounting
  <1> SUFFICES ASSUME IInv, NEW pn \in Pages
               PROVE  /\ refcount[pn] = (IF Owners(pn) = {} THEN 0 ELSE 1)
                      /\ \A p, q \in Owners(pn) : p = q
    BY DEF PageAccounting
  <1>1. refcount[pn] = (IF Owners(pn) = {} THEN 0 ELSE 1)
    BY DEF IInv, RefInv, Owners
  <1>2. ASSUME pn = viewer, NEW p \in Live, Uses(p, pn) PROVE FALSE
    <2>1. p \in 1 .. NALLOC /\ ProcBase(p) <= pn
      BY <1>2, UsesInRegion
    <2> QED
      BY <1>2, <2>1, RegionFacts, LayoutAssumption, SizeAssumption
         DEF IInv, ViewerInv, NoPage, Pages
  <1> QED
    BY <1>1, <1>2, OneUser DEF Owners

\* physpages[] counts exactly one reference for every page that a process or
\* the memory viewer uses, and no page has two users.
THEOREM PagesAccounted == Spec => []PageAccounting
  BY InvAccounting, AlwaysIInv, PTL

\* Every process finds its own bytes in its image and heap, and zeroes in a
\* page sys_page_alloc() has just given it.
THEOREM MemoryIsolated == Spec => []Isolation
  <1>1. IInv => Isolation
    BY DEF IInv
  <1> QED BY <1>1, AlwaysIInv, PTL

\* The part of AssertionsHold that IInv lacks: no process, loaded or not, has
\* failed its own assertion.
NoneFailed == \A p \in Pids : upc[p] # "failed"

\* No step makes an assertion of the kernel or of a program fail.
LEMMA NoneFailedStep ==
  ASSUME IInv, NoneFailed, [Next]_vars
  PROVE  NoneFailed'
  <1> USE DEF IInv, TypeOK, NoneFailed
  <1>1. CASE UserInit
    BY <1>1 DEF UserInit
  <1>2. CASE UserTouch
    <2>1. current \in Loaded(command) /\ current \in Live /\ heap_top[current] \in Pages
          /\ current \in 1 .. NALLOC
      BY <1>2, LoadedFacts DEF UserTouch, ProcInv, Live
    <2>2. HeapBottom(current) <= heap_top[current]
      BY <1>2, <2>1 DEF UserTouch, HeapInv
    <2>3. mem[heap_top[current]] = ZERO
      BY <1>2, <2>1, <2>2 DEF UserTouch, Isolation, HeapPages
    <2> QED BY <1>2, <2>3 DEF UserTouch
  <1>3. CASE Boot
    BY <1>3 DEF Boot, uvars
  <1>4. CASE SysGetpid \/ SysYield \/ SysPageAlloc
    BY <1>4 DEF SysGetpid, SysYield, SysPageAlloc, Return
  <1>5. CASE UNCHANGED upc
    BY <1>5
  <1> QED
    BY <1>1, <1>2, <1>3, <1>4, <1>5
       DEF Next, UserStep, KernelStep, TimerInterrupt, UserSyscall, UserFault, Trap,
           Entry, NoKey, Poweroff, HandlePanic, HandleTimer, HandlePageFault, Schedule,
           ScheduleShow, SoftReboot, Halted, vars, uvars

\* Neither the kernel's assertions (free pages in process_setup() and
\* syscall_page_alloc(), a page for the viewer in memusage::refresh()) nor
\* p-allocator's assertion that new pages are zero can fail.
THEOREM NoAssertionFails == Spec => []AssertionsHold
  <1>1. Init => NoneFailed
    BY DEF Init, NoneFailed
  <1>2. IInv /\ NoneFailed => AssertionsHold
    BY DEF IInv, NoneFailed, AssertionsHold
  <1> QED
    BY <1>1, <1>2, AlwaysIInv, NoneFailedStep, PTL DEF Spec

\* What a step may do to a process other than by booting: a process that is
\* not on the processor keeps its heap, and a faulted one everything.
LEMMA OffProcessor ==
  ASSUME IInv, [Next]_vars, mode' # "boot", NEW p \in Pids, pstate[p] = "FAULTED"
  PROVE  pstate'[p] = "FAULTED" /\ regs'[p] = regs[p]
         /\ upc'[p] = upc[p] /\ heap_top'[p] = heap_top[p] /\ command' = command
         /\ mode # "boot"
  <1> USE DEF IInv, TypeOK
  <1>1. mode # "boot"
    BY DEF ProcInv, NoProcs
  <1>2. mode \in {"user", "entry", "keyboard", "dispatch"} => p # current
    BY DEF ProcInv
  <1>3. CASE UserInit \/ UserTouch
    BY <1>1, <1>2, <1>3 DEF UserInit, UserTouch, GrownHeap, kvars
  <1>4. CASE Entry \/ HandlePageFault
    BY <1>1, <1>2, <1>4 DEF Entry, SaveRegs, HandlePageFault, uvars
  <1>5. CASE SysGetpid \/ SysYield \/ SysPageAlloc
    BY <1>1, <1>2, <1>5 DEF SysGetpid, SysYield, SysPageAlloc, Return, kvars
  <1>6. CASE UNCHANGED <<pstate, regs, upc, heap_top, command>>
    BY <1>1, <1>6
  <1>7. CASE Boot \/ SoftReboot
    BY <1>1, <1>7 DEF Boot, SoftReboot
  <1> QED
    BY <1>3, <1>4, <1>5, <1>6, <1>7
       DEF Next, UserStep, KernelStep, TimerInterrupt, UserSyscall, UserFault, Trap,
           NoKey, Poweroff, HandlePanic, HandleTimer, Schedule, ScheduleShow, Halted,
           vars, uvars, kvars

\* Once a process has faulted, it never runs again, and its registers, image
\* and heap stay as they were until the machine restarts.
THEOREM FaultedStayFrozen == Spec => FaultedFrozen
  <1>1. ASSUME IInv, IInv', [Next]_vars, NEW p \in Pids, pstate[p] = "FAULTED",
               mode' # "boot"
        PROVE  /\ pstate'[p] = "FAULTED"
               /\ regs'[p] = regs[p]
               /\ ~(mode' = "user" /\ current' = p)
               /\ \A pn \in ImagePages(p) \cup HeapPages(p) : mem'[pn] = mem[pn]
    <2>1. /\ pstate'[p] = "FAULTED" /\ regs'[p] = regs[p]
          /\ upc'[p] = upc[p] /\ heap_top'[p] = heap_top[p] /\ mode # "boot"
      BY <1>1, OffProcessor
    <2>2. ~(mode' = "user" /\ current' = p)
      BY <1>1, <2>1 DEF IInv, ProcInv
    <2>3. p \in Live /\ p \in Live' /\ HeapPages(p)' = HeapPages(p)
      BY <1>1, <2>1 DEF Live, HeapPages
    <2>4. \A pn \in ImagePages(p) \cup HeapPages(p) : mem'[pn] = mem[pn]
      BY <1>1, <2>1, <2>3 DEF IInv, Isolation
    <2> QED BY <2>1, <2>2, <2>4
  <1>2. IInv /\ IInv' /\ [Next]_vars =>
          [\A p \in Pids :
             pstate[p] = "FAULTED" /\ mode' # "boot" =>
               /\ pstate'[p] = "FAULTED"
               /\ regs'[p] = regs[p]
               /\ ~(mode' = "user" /\ current' = p)
               /\ \A pn \in ImagePages(p) \cup HeapPages(p) : mem'[pn] = mem[pn]]_vars
    BY <1>1
  <1> QED
    BY <1>2, AlwaysIInv, PTL DEF Spec, FaultedFrozen

-----------------------------------------------------------------------------
(* Refinement of PageOwnership.                                            *)

\* Nobody loses a page except in a restart.
LEMMA OwnersGrow ==
  ASSUME IInv, IInv', [Next]_vars, mode' # "boot", NEW pn \in Pages
  PROVE  Owners(pn) \subseteq Owners(pn)'
  <1>1. CASE mode = "boot"
    BY <1>1 DEF IInv, ProcInv, Owners, Live, NoPage, Pages
  <1> SUFFICES ASSUME mode # "boot" PROVE Owners(pn) \subseteq Owners(pn)'
    BY <1>1
  <1>2. command' = command
    BY DEF Next, UserStep, KernelStep, TimerInterrupt, UserSyscall, UserFault, Trap,
           UserInit, UserTouch, Boot, Entry, NoKey, Poweroff, HandlePanic, HandleTimer,
           HandlePageFault, SysGetpid, SysYield, SysPageAlloc, Schedule, ScheduleShow,
           SoftReboot, Halted, vars
  <1>3. Live' = Live /\ Live \subseteq Pids /\ Live \subseteq Loaded(command)
    BY <1>2 DEF IInv, ProcInv, Live
  <1>4. pn = viewer => pn = viewer'
    <2>1. viewer # NoPage => viewer' = viewer
      BY DEF Next, UserStep, KernelStep, TimerInterrupt, UserSyscall, UserFault, Trap,
           UserInit, UserTouch, Boot, Entry, NoKey, Poweroff, HandlePanic, HandleTimer,
           HandlePageFault, SysGetpid, SysYield, SysPageAlloc, Schedule, ScheduleShow,
           SoftReboot, Halted, vars, kvars, Memshow, RefreshViewer
    <2> QED BY <2>1 DEF NoPage, Pages
  <1>5. ASSUME NEW p \in Live, pn \in HeapPages(p) PROVE (pn \in HeapPages(p))'
    <2> USE DEF IInv, TypeOK
    <2>1. CASE UserInit
      <3>1. current \in Loaded(command) /\ heap_top[current] = 0
        BY <2>1 DEF UserInit, ProcInv, HeapInv
      <3>2. p # current
        <4>1. p \in 1 .. NALLOC
          BY <1>3, LoadedFacts
        <4>2. HeapBottom(p) \in Nat /\ HeapBottom(p) > 0
          BY <4>1, RegionFacts, LayoutAssumption, SizeAssumption
        <4>3. /\ HeapBottom(p) <= pn
              /\ pn < heap_top[p] \/ upc[p] = "fresh"
          BY <1>5 DEF HeapPages
        <4>4. pn \in Nat
          BY SizeAssumption DEF Pages
        <4>5. SUFFICES ASSUME p = current PROVE FALSE
          OBVIOUS
        <4>6. heap_top[p] = 0 /\ upc[p] = "init"
          BY <2>1, <3>1, <4>5 DEF UserInit
        <4> QED BY <4>2, <4>3, <4>4, <4>6
      <3> QED BY <1>3, <1>5, <2>1, <3>2 DEF UserInit, HeapPages
    <2>2. CASE UserTouch
      <3>1. ~(cpu < 0)
        BY DEF Pids
      <3>2. /\ heap_top' = [heap_top EXCEPT ![current] = @ + 1]
            /\ p # current => upc'[p] = upc[p]
        BY <1>3, <2>2, <3>1 DEF UserTouch, GrownHeap
      <3>3. CASE p = current
        <4>1. heap_top'[p] = heap_top[p] + 1 /\ heap_top[p] \in Pages
          BY <1>3, <3>2, <3>3
        <4>2. /\ HeapBottom(p) <= pn
              /\ pn < heap_top[p] \/ pn = heap_top[p]
          BY <1>5 DEF HeapPages
        <4>3. pn \in Nat /\ heap_top[p] \in Nat
          BY <4>1, SizeAssumption DEF Pages
        <4>4. pn < heap_top'[p]
          BY <4>1, <4>2, <4>3
        <4> QED BY <4>2, <4>4 DEF HeapPages
      <3>4. CASE p # current
        <4>1. heap_top'[p] = heap_top[p]
          BY <1>3, <3>2, <3>4
        <4> QED BY <1>5, <3>2, <3>4, <4>1 DEF HeapPages
      <3> QED BY <3>3, <3>4
    <2>3. CASE SysGetpid \/ SysYield \/ SysPageAlloc
      <3>1. heap_top' = heap_top /\ (upc[p] = "fresh" => upc'[p] = "fresh")
        BY <1>3, <2>3 DEF SysGetpid, SysYield, SysPageAlloc, Return, CallInv
      <3> QED BY <1>5, <3>1 DEF HeapPages
    <2>4. CASE UNCHANGED <<upc, heap_top>>
      BY <1>5, <2>4 DEF HeapPages
    <2>5. CASE Boot \/ SoftReboot
      BY <2>5 DEF Boot, SoftReboot
    <2> QED
      BY <2>1, <2>2, <2>3, <2>4, <2>5
         DEF Next, UserStep, KernelStep, TimerInterrupt, UserSyscall, UserFault, Trap,
             Entry, NoKey, Poweroff, HandlePanic, HandleTimer, HandlePageFault, Schedule,
             ScheduleShow, Halted, vars, uvars
  <1> QED
    BY <1>3, <1>4, <1>5 DEF Owners, Uses

\* A page that is in use has exactly one owner, a pid.
LEMMA OwnerFacts ==
  ASSUME IInv, NEW pn \in Pages
  PROVE  /\ OwnerOf(pn) \in Pids \cup {NoPage}
         /\ OwnerOf(pn) # NoPage => /\ OwnerOf(pn) \in Owners(pn)
                                    /\ refcount[pn] # 0
         /\ \A p \in Owners(pn) : p = OwnerOf(pn)
  <1>1. Owners(pn) \subseteq Pids /\ NoPage \notin Pids
    BY Constants DEF Owners, Live, NoPage, Pids
  <1>2. refcount[pn] = (IF Owners(pn) = {} THEN 0 ELSE 1)
        /\ \A p, q \in Owners(pn) : p = q
    BY InvAccounting DEF PageAccounting
  <1> QED
    BY <1>1, <1>2 DEF OwnerOf

\* The kernel implements PageOwnership.
THEOREM OwnershipRefinement == Spec => ImplementsOwnership
  <1> DEFINE own == [pn \in Pages |-> OwnerOf(pn)]
  <1>a. IInv => \A pn \in Pages : /\ OwnerOf(pn) \in Pids \cup {NoPage}
                                   /\ \A p \in Owners(pn) : p = OwnerOf(pn)
    BY OwnerFacts
  <1>0. IInv' => (\A pn \in Pages : /\ OwnerOf(pn) \in Pids \cup {NoPage}
                                     /\ \A p \in Owners(pn) : p = OwnerOf(pn))'
    BY <1>a, PTL
  <1>1. Init => Ownership!Init
    BY DEF Init, Ownership!Init, OwnerOf, NoRefs
  <1>2. ASSUME IInv, IInv', [Next]_vars
        PROVE  Ownership!Next \/ own' = own
    <2>1. CASE mode' = "boot"
      <3>1. refcount' = NoRefs
        BY <1>2, <2>1 DEF IInv, ProcInv
      <3>2. own' = [pn \in Pages |-> NoPage]
        BY <3>1 DEF OwnerOf, NoRefs
      <3> QED BY <3>2 DEF Ownership!Next, Ownership!Restart
    <2>2. CASE mode' # "boot"
      <3>1. own' \in [Pages -> Pids \cup {NoPage}]
        BY <1>2, <1>0
      <3>2. ASSUME NEW pn \in Pages, own[pn] # NoPage
            PROVE  own'[pn] = own[pn]
        <4>1. own[pn] \in Owners(pn)
          BY <1>2, <3>2, OwnerFacts
        <4>2. own[pn] \in Owners(pn)'
          BY <1>2, <2>2, <4>1, OwnersGrow
        <4>3. \A p \in Owners(pn)' : p = OwnerOf(pn)'
          BY <1>2, <1>0
        <4> QED BY <4>2, <4>3
      <3> QED BY <3>1, <3>2 DEF Ownership!Next, Ownership!Claim
    <2> QED BY <2>1, <2>2
  <1>3. IInv /\ IInv' /\ [Next]_vars => [Ownership!Next]_own
    BY <1>2
  <1> QED
    BY <1>1, <1>3, AlwaysIInv, PTL DEF Spec, ImplementsOwnership, Ownership!Spec

-----------------------------------------------------------------------------
(* The memory viewer.                                                      *)

\* Division finds the row of an element in a table with rows of n.
LEMMA RowOf ==
  ASSUME NEW n \in Nat \ {0}, NEW k \in Nat, NEW r \in 0 .. n - 1
  PROVE  (n * k + r) \div n = k
  OBVIOUS

\* refresh() derives the owner of every page in a process's region.
LEMMA MarkedInRegion ==
  ASSUME NEW p \in 1 .. NALLOC, NEW pn \in Pages, ProcBase(p) <= pn, pn <= StackPage(p)
  PROVE  MarkedOwner(pn) = p
  <1> DEFINE r == pn - ProcBase(p)
  <1>1. PROC_SIZE \in Nat \ {0} /\ p - 1 \in Nat /\ pn \in Int /\ PROC_START \in Nat
    BY SizeAssumption DEF Pages
  <1>2. PROC_SIZE * (p - 1) \in Nat /\ PROC_SIZE * p = PROC_SIZE * (p - 1) + PROC_SIZE
    BY <1>1
  <1>3. r \in 0 .. PROC_SIZE - 1 /\ pn - PROC_START = PROC_SIZE * (p - 1) + r
    BY <1>1, <1>2 DEF ProcBase, StackPage
  <1> HIDE DEF r
  <1>4. (PROC_SIZE * (p - 1) + r) \div PROC_SIZE = p - 1
    BY <1>1, <1>3, RowOf
  <1> QED
    BY <1>1, <1>3, <1>4 DEF MarkedOwner

\* Below the processes, where the difference is negative, it derives none.
LEMMA MarkedBelow ==
  ASSUME NEW pn \in Pages, pn < PROC_START
  PROVE  f_process(MarkedOwner(pn)) = {}
  <1>1. PROC_SIZE \in Nat \ {0} /\ pn - PROC_START \in Int /\ pn - PROC_START < 0
    BY SizeAssumption DEF Pages
  <1>2. \A x \in Int, n \in Nat \ {0} : x < 0 => x \div n \in Int /\ x \div n < 0
    OBVIOUS
  <1>3. MarkedOwner(pn) \in Int /\ MarkedOwner(pn) < 1
    BY <1>1, <1>2 DEF MarkedOwner
  <1> QED
    BY <1>3 DEF f_process, MAX_MARK

\* What the invariant says of the pages the viewer looks at.
LEMMA ViewedPages ==
  ASSUME IInv, viewer # NoPage, NEW pn \in Pages
  PROVE  /\ viewer = 1 /\ pstate[0] = "FREE"
         /\ \A p \in Owners(pn) \ {0} : Owners(pn) = {p} /\ pn # viewer /\ p \in 1 .. NALLOC
                                        /\ pn >= PROC_START /\ MarkedOwner(pn) = p
         /\ 0 \in Owners(pn) <=> pn = viewer
         /\ pn = viewer => Owners(pn) = {0}
         /\ refcount[pn] = IF Owners(pn) = {} THEN 0 ELSE 1
  <1>1. viewer = 1
    BY DEF IInv, ViewerInv
  <1>2. mode # "boot" /\ pstate[0] = "FREE"
    <2>1. mode # "boot"
      BY DEF IInv, ProcInv
    <2>2. 0 \notin Loaded(command) /\ 0 \in Pids
      BY LoadedFacts, Constants
    <2> QED BY <2>1, <2>2 DEF IInv, ProcInv
  <1>3. 0 \notin Live
    BY <1>2 DEF Live
  <1>4. PageAccounting
    BY InvAccounting
  <1>5. 0 \in Owners(pn) <=> pn = viewer
    BY <1>3 DEF Owners
  <1>6. ASSUME NEW p \in Owners(pn) \ {0}
        PROVE  /\ Owners(pn) = {p} /\ pn # viewer /\ p \in 1 .. NALLOC
               /\ pn >= PROC_START /\ MarkedOwner(pn) = p
    <2>1. p \in Live /\ Uses(p, pn)
      BY <1>6 DEF Owners
    <2>2. p \in 1 .. NALLOC /\ ProcBase(p) <= pn /\ pn <= StackPage(p)
      BY <2>1, UsesInRegion
    <2>3. Owners(pn) = {p}
      BY <1>4, <1>6 DEF PageAccounting
    <2>4. pn >= PROC_START
      <3>1. PROC_START <= ProcBase(p) /\ ProcBase(p) \in Nat
        BY <2>2, RegionFacts
      <3> QED BY <2>2, <3>1, SizeAssumption DEF Pages
    <2> QED
      BY <1>5, <1>6, <2>2, <2>3, <2>4, MarkedInRegion
  <1>7. pn = viewer => Owners(pn) = {0}
    BY <1>4, <1>5 DEF PageAccounting
  <1> QED
    BY <1>1, <1>2, <1>4, <1>5, <1>6, <1>7 DEF PageAccounting

\* The viewer's map follows from the invariant.
LEMMA MapIsRight ==
  ASSUME IInv PROVE ViewerRight
  <1> SUFFICES ASSUME viewer # NoPage, NEW pn \in Pages
               PROVE  symbol_at(pn) =
                        CASE pn = ConsolePage -> <<"C", 0>>
                          [] pn \in Reserved \ {ConsolePage} -> <<"R", 0>>
                          [] pn \in Unallocatable \ Reserved -> <<"K", 0>>
                          [] OTHER -> IF Owners(pn) = {} THEN <<".", 0>>
                                      ELSE IF Owners(pn) = {0} THEN <<"K", 0>>
                                      ELSE <<"pid", CHOOSE p \in Owners(pn) : TRUE>>
    BY ViewedPages, LowPages DEF ViewerRight
  <1>1. refcount[pn] \in {0, 1} /\ ~(refcount[pn] > MAXNPROC)
    BY ViewedPages, Constants
  <1>2. CASE pn = ConsolePage
    <2>1. symbol_at(pn) = <<"C", 0>>
      BY <1>1, <1>2, Zenon DEF symbol_at
    <2> QED BY <1>2, <2>1, ReservedAssumption
  <1>3. CASE pn \in Unallocatable /\ pn # ConsolePage
    <2>1. pn < PROC_START /\ pn # 1
      BY <1>3, LayoutAssumption, SizeAssumption
    <2>2. Owners(pn) = {}
      BY <2>1, ViewedPages, SizeAssumption DEF Pages
    <2>3. Marks(pn).pids = {}
      BY <2>2, ViewedPages DEF Marks
    <2> QED
      BY <1>1, <1>3, <2>3, ReservedAssumption DEF symbol_at
  <1>4. CASE pn \notin Unallocatable
    <2>0. ~(Cardinality({}) > 1) /\ Cardinality({}) # 1
      BY FS_EmptySet
    <2>1. pn # ConsolePage /\ pn \notin Reserved /\ pn # 0
      BY <1>4, ReservedAssumption, LayoutAssumption
    <2>2. CASE Owners(pn) = {}
      <3>1. refcount[pn] = 0 /\ pn # viewer
        BY <2>2, ViewedPages
      <3>2. ~Marks(pn).kernel /\ ~Marks(pn).user /\ Marks(pn).pids = {}
        BY <3>1 DEF Marks
      <3>3. symbol_at(pn) = <<".", 0>>
        BY <1>1, <1>4, <2>1, <2>0, <3>1, <3>2 DEF symbol_at
      <3> QED BY <1>4, <2>1, <2>2, <3>3
    <2>3. CASE Owners(pn) = {0}
      <3>1. refcount[pn] = 1 /\ pn = viewer /\ pn < PROC_START
        <4>1. pn = viewer /\ viewer = 1 /\ refcount[pn] = 1
          BY <2>3, ViewedPages
        <4> QED BY <4>1, LayoutAssumption, SizeAssumption
      <3>2. f_process(MarkedOwner(pn)) = {} /\ refcount[pn] # 0
        BY <3>1, MarkedBelow
      <3>3. Marks(pn).kernel /\ Marks(pn).user /\ Marks(pn).pids = {}
        BY <2>1, <3>1, <3>2 DEF Marks
      <3>4. symbol_at(pn) = <<"K", 0>>
        BY <1>1, <1>4, <2>1, <2>0, <3>3 DEF symbol_at
      <3> QED BY <1>4, <2>1, <2>3, <3>4
    <2>4. CASE Owners(pn) # {} /\ Owners(pn) # {0}
      <3>1. PICK p \in Owners(pn) : p # 0
        BY <2>4
      <3>2. /\ Owners(pn) = {p} /\ refcount[pn] = 1 /\ pn # viewer
            /\ p \in 1 .. NALLOC /\ MarkedOwner(pn) = p
        BY <3>1, ViewedPages
      <3>3. f_process(p) = {p}
        BY <3>2, MarkAssumption, SizeAssumption DEF f_process, MAX_MARK
      <3>4. ~Marks(pn).kernel /\ Marks(pn).user /\ Marks(pn).pids = {p}
        <4>1. refcount[pn] # 0
          BY <3>2
        <4> QED BY <2>1, <3>2, <3>3, <4>1 DEF Marks
      <3>5. Cardinality({p}) = 1 /\ ~(Cardinality({p}) > 1) /\ {p} # {}
        BY FS_Singleton
      <3>6. (CHOOSE q \in Marks(pn).pids : \A r \in Marks(pn).pids : q <= r) = p
        <4>1. p \in Int
          BY <3>2
        <4>2. \A q : (q \in Marks(pn).pids /\ \A r \in Marks(pn).pids : q <= r) <=> q = p
          BY <3>4, <4>1
        <4> QED BY <4>2
      <3>7. symbol_at(pn) = <<"pid", p>>
        BY <1>1, <1>4, <2>1, <3>4, <3>5, <3>6 DEF symbol_at
      <3>8. (CHOOSE q \in Owners(pn) : TRUE) = p
        BY <3>2
      <3> QED
        BY <1>4, <2>1, <2>4, <3>7, <3>8, ReservedAssumption
    <2> QED
      BY <2>2, <2>3, <2>4
  <1> QED
    BY <1>2, <1>3, <1>4

\* The memory viewer's map is true: each page of a process is shown as its own,
\* the viewer's table as the kernel's, a free page as free, with no error.
THEOREM ViewerIsRight == Spec => []ViewerRight
  BY MapIsRight, AlwaysIInv, PTL

-----------------------------------------------------------------------------
(* The keyboard.                                                           *)

\* The modifiers as the user holds them.
Held ==
  (IF down \cap Shifts # {} THEN {"KEY_SHIFT"} ELSE {})
    \cup (IF down \cap Controls # {} THEN {"KEY_CONTROL"} ELSE {})
    \cup (IF caps THEN {"KEY_CAPSLOCK"} ELSE {})

\* Whether the byte at k + 1 comes after 0xE0, and what the keymap has for it.
Escaped(k) == IF k = 0 THEN last_escape ELSE queue[k] = E0
Found(k) == keymap(Index(Escaped(k), queue[k + 1]))

\* How a byte takes the modifiers from u[k] to u[k + 1], and what it should give: n[k]
\* of the characters in want belong to earlier bytes.
PathStep(u, n, k) ==
  /\ queue[k + 1] = E0 => u[k + 1] = u[k] /\ n[k + 1] = n[k]
  /\ queue[k + 1] \in 128 .. E0 - 1 => u[k + 1] = Released(u[k], Found(k)) /\ n[k + 1] = n[k]
  /\ queue[k + 1] < 128 =>
       /\ u[k + 1] = Pressed(u[k], Found(k)) /\ n[k + 1] = n[k] + 1
       /\ want[n[k] + 1] = Character(u[k], Found(k))

\* u and n follow the queue from its head to its end, which is after a whole key.
Path(u, n) ==
  /\ u \in [0 .. Len(queue) -> SUBSET ModifierKeys]
  /\ n \in [0 .. Len(queue) -> 0 .. Len(want)]
  /\ \A j, k \in 0 .. Len(queue) : j <= k => n[j] <= n[k]
  /\ u[0] = modifiers /\ n[0] = 0
  /\ u[Len(queue)] = Held /\ n[Len(queue)] = Len(want)
  /\ ~Escaped(Len(queue))
  /\ \A k \in 0 .. Len(queue) - 1 : PathStep(u, n, k)

\* All that a key can give.
Characters ==
  {Meaning(key, shift, control, lock) :
     key \in Keys, shift \in BOOLEAN, control \in BOOLEAN, lock \in BOOLEAN}

\* As long as the driver can know what is held, there is a path.
PathInv ==
  ~confused => /\ ~(Shifts \subseteq down) /\ ~(Controls \subseteq down)
               /\ want \in Seq(Characters) /\ \E u, n : Path(u, n)

\* The inductive invariant.
KeyInv ==
  /\ KeyTypeOK /\ queue \in Seq(0 .. E0) /\ caps \in BOOLEAN /\ confused \in BOOLEAN
  /\ KeysRight /\ PathInv

-----------------------------------------------------------------------------
\* The keymap's entry for each key.
Code(key) ==
  IF key \in Shifts THEN "KEY_SHIFT"
  ELSE IF key \in Controls THEN "KEY_CONTROL"
  ELSE IF key = "caps" THEN "KEY_CAPSLOCK"
  ELSE IF key = "printscreen" THEN "0" ELSE key

\* The bytes of a key, pressed or released, lead to its entry.
LEMMA CodeFacts ==
  ASSUME NEW key \in Keys
  PROVE  /\ ScanCode[key] \in 0 .. 95
         /\ keymap(Index(key \in Extended, ScanCode[key])) = Code(key)
         /\ keymap(Index(key \in Extended, ScanCode[key] + 128)) = Code(key)
<1>1. ScanCode[key] \in 0 .. 95
  BY DEF ScanCode, Keys
<1>2. (ScanCode[key] + 128) % 128 = ScanCode[key] /\ ScanCode[key] % 128 = ScanCode[key]
  BY <1>1
<1>3. keymap(ScanCode[key] + IF key \in Extended THEN 128 ELSE 0) = Code(key)
  <2>1. /\ keymap(44) = "z" /\ keymap(33) = "f" /\ keymap(46) = "c" /\ keymap(3) = "2"
        /\ keymap(28) = "enter" /\ keymap(42) = "KEY_SHIFT" /\ keymap(54) = "KEY_SHIFT"
        /\ keymap(29) = "KEY_CONTROL" /\ keymap(157) = "KEY_CONTROL"
        /\ keymap(58) = "KEY_CAPSLOCK" /\ keymap(200) = "up" /\ keymap(170) = "0"
    BY DEF keymap
  <2>2. /\ ScanCode["z"] = 44 /\ ScanCode["f"] = 33 /\ ScanCode["c"] = 46 /\ ScanCode["2"] = 3
        /\ ScanCode["enter"] = 28 /\ ScanCode["lshift"] = 42 /\ ScanCode["rshift"] = 54
        /\ ScanCode["lctrl"] = 29 /\ ScanCode["rctrl"] = 29 /\ ScanCode["caps"] = 58
        /\ ScanCode["up"] = 72 /\ ScanCode["printscreen"] = 42
    BY DEF ScanCode, Keys
  <2> USE <2>1, <2>2 DEF Extended, Code, Shifts, Controls
  <2>3. CASE key \in {"z", "f", "c", "2", "enter"}
    BY <2>3
  <2>4. CASE key \in {"lshift", "rshift", "caps", "lctrl"}
    BY <2>4
  <2>5. CASE key \in {"rctrl", "up", "printscreen"}
    <3>1. 29 + 128 = 157 /\ 72 + 128 = 200 /\ 42 + 128 = 170
      OBVIOUS
    <3> QED BY <2>5, <3>1
  <2> QED BY <2>3, <2>4, <2>5 DEF Keys
<1> QED BY <1>1, <1>2, <1>3 DEF Index

\* What the user means by a key is what the driver makes of its entry.
LEMMA MeaningFacts ==
  ASSUME NEW key \in Keys, caps \in BOOLEAN
  PROVE  Meaning(key, down \cap Shifts # {}, down \cap Controls # {}, caps)
           = Character(Held, Code(key))
<1>1. /\ "KEY_SHIFT" \in Held <=> down \cap Shifts # {}
      /\ "KEY_CONTROL" \in Held <=> down \cap Controls # {}
      /\ "KEY_CAPSLOCK" \in Held <=> caps
  BY DEF Held
<1>2. CASE key \in Letters
  <2>1. Code(key) = key
    BY <1>2 DEF Code, Letters, Shifts, Controls
  <2>2. Meaning(key, down \cap Shifts # {}, down \cap Controls # {}, caps)
          = IF down \cap Controls # {} THEN Control[key]
            ELSE IF (down \cap Shifts # {}) # caps THEN Capital[key] ELSE key
    BY <1>2 DEF Meaning, Letters
  <2>3. Character(Held, key)
          = IF "KEY_CONTROL" \in Held THEN Control[key]
            ELSE IF ("KEY_SHIFT" \in Held) # ("KEY_CAPSLOCK" \in Held) THEN Capital[key] ELSE key
    BY <1>2 DEF Character, Letters, ModifierKeys
  <2>4. ((down \cap Shifts # {}) # caps) <=> (("KEY_SHIFT" \in Held) # ("KEY_CAPSLOCK" \in Held))
    <3>1. CASE caps = TRUE
      BY <1>1, <3>1
    <3>2. CASE caps = FALSE
      BY <1>1, <3>2
    <3> QED BY <3>1, <3>2
  <2> QED BY <1>1, <2>1, <2>2, <2>3, <2>4
<1>3. CASE key \in {"2", "enter"}
  BY <1>1, <1>3 DEF Meaning, Character, Code, Letters, Shifts, Controls, ModifierKeys
<1>4. CASE key \in Keys \ (Letters \cup {"2", "enter"})
  BY <1>4 DEF Meaning, Character, Code, Letters, Shifts, Controls, ModifierKeys, Keys
<1> QED BY <1>2, <1>3, <1>4

\* Pressing a key changes what is held as the driver changes its modifiers, unless
\* both keys of a modifier are down.
LEMMA PressHeld ==
  ASSUME NEW key \in Keys, caps \in BOOLEAN, key \notin down, down' = down \cup {key},
         caps' = (IF key = "caps" THEN ~caps ELSE caps)
  PROVE  Held' = Pressed(Held, Code(key))
<1>1. CASE key \in Shifts
  BY <1>1 DEF Held, Pressed, Code, Shifts, Controls, ModifierKeys
<1>2. CASE key \in Controls
  BY <1>2 DEF Held, Pressed, Code, Shifts, Controls, ModifierKeys
<1>3. CASE key = "caps"
  BY <1>3 DEF Held, Pressed, Code, Shifts, Controls, ModifierKeys
<1>4. CASE key \notin Shifts \cup Controls \cup {"caps"}
  BY <1>4 DEF Held, Pressed, Code, Shifts, Controls, ModifierKeys, Keys
<1> QED BY <1>1, <1>2, <1>3, <1>4

\* So does releasing it, if the other key of a modifier is not down.
LEMMA ReleaseHeld ==
  ASSUME NEW key \in Keys, key \in down, down' = down \ {key}, caps' = caps,
         ~(Shifts \subseteq down), ~(Controls \subseteq down)
  PROVE  Held' = Released(Held, Code(key))
<1>1. CASE key \in Shifts
  BY <1>1 DEF Held, Released, Code, Shifts, Controls
<1>2. CASE key \in Controls
  BY <1>2 DEF Held, Released, Code, Shifts, Controls
<1>3. CASE key \notin Shifts \cup Controls
  BY <1>3 DEF Held, Released, Code, Shifts, Controls, Keys
<1> QED BY <1>1, <1>2, <1>3

\* What is held are modifiers.
LEMMA HeldType == Held \in SUBSET ModifierKeys
  BY DEF Held, ModifierKeys

\* At the start there is nothing in the queue.
LEMMA KeyInitInv == KeyInit => KeyInv
<1> SUFFICES ASSUME KeyInit PROVE KeyInv
  OBVIOUS
<1>1. /\ queue = <<>> /\ want = <<>> /\ modifiers = {} /\ down = {} /\ caps = FALSE
      /\ Len(queue) = 0 /\ Len(want) = 0
  BY DEF KeyInit
<1>2. Held = {}
  BY <1>1 DEF Held
<1> DEFINE u == [k \in 0 .. 0 |-> {}]
           n == [k \in 0 .. 0 |-> 0]
<1>3. Path(u, n)
  <2>1. ~Escaped(Len(queue))
    BY <1>1 DEF Escaped, KeyInit
  <2>2. u \in [0 .. Len(queue) -> SUBSET ModifierKeys] /\ n \in [0 .. Len(queue) -> 0 .. Len(want)]
    BY <1>1
  <2> QED BY <1>1, <1>2, <2>1, <2>2 DEF Path
<1> HIDE DEF u, n
<1>4. PathInv
  BY <1>1, <1>3 DEF PathInv, Shifts, Controls
<1>5. KeyTypeOK
  <2>1. Len(queue) <= QUEUE_SIZE
    BY <1>1, KeyboardAssumption
  <2> QED BY <1>1, <2>1 DEF KeyInit, KeyTypeOK
<1>6. queue \in Seq(0 .. E0)
  BY <1>1
<1>7. given[1] = given[2]
  BY DEF KeyInit
<1>8. confused \in BOOLEAN /\ caps \in BOOLEAN
  BY DEF KeyInit
<1> QED BY <1>4, <1>5, <1>6, <1>7, <1>8 DEF KeyInv, KeysRight

\* What the queue and the characters wanted are sequences of.
SequencesOK == queue \in Seq(0 .. E0) /\ want \in Seq(Characters)

\* A call reads a byte, and the modifiers become those of the path.
ReadsAlong(u) ==
  /\ queue # <<>> /\ queue' = Tail(queue) /\ last_escape' = (Head(queue) = E0)
  /\ modifiers' = u[1] /\ UNCHANGED <<down, caps>>
  /\ want' = IF Head(queue) < 128 THEN Tail(want) ELSE want

\* A call that reads a byte takes the driver along the path.
LEMMA PathShrinks ==
  ASSUME SequencesOK, NEW u, NEW n, Path(u, n), ReadsAlong(u)
  PROVE  want' \in Seq(Characters) /\ \E v, m : Path(v, m)'
<1> USE DEF E0
<1>0. PICK L, W : L = Len(queue) /\ W = Len(want)
  OBVIOUS
<1>1. /\ L \in Nat \ {0} /\ Head(queue) = queue[1] /\ Len(queue') = L - 1
      /\ \A j \in 1 .. L - 1 : queue'[j] = queue[j + 1]
      /\ \A j \in 1 .. L : queue[j] \in 0 .. E0
  <2>1. L \in Nat \ {0}
    BY <1>0, EmptySeq, LenProperties DEF SequencesOK, ReadsAlong
  <2> QED BY <1>0, <2>1, HeadTailProperties, ElementOfSeq DEF SequencesOK, ReadsAlong
<1>2. /\ u \in [0 .. L -> SUBSET ModifierKeys] /\ n \in [0 .. L -> 0 .. W] /\ W \in Nat
      /\ \A j, k \in 0 .. L : j <= k => n[j] <= n[k]
      /\ u[0] = modifiers /\ n[0] = 0 /\ u[L] = Held /\ n[L] = W
      /\ ~Escaped(L) /\ \A k \in 0 .. L - 1 : PathStep(u, n, k)
  BY <1>0 DEF Path, SequencesOK
<1>3. Held' = Held
  BY DEF Held, ReadsAlong
<1>4. n[1] = IF queue[1] < 128 THEN 1 ELSE 0
  <2>1. PathStep(u, n, 0) /\ queue[1] \in 0 .. E0 /\ 0 + 1 = 1
    BY <1>1, <1>2
  <2>2. /\ queue[1] = E0 => n[1] = n[0]
        /\ queue[1] \in 128 .. E0 - 1 => n[1] = n[0]
        /\ queue[1] < 128 => n[1] = n[0] + 1
    BY <2>1, Zenon DEF PathStep
  <2>3. n[0] = 0
    BY <1>2
  <2> QED BY <2>1, <2>2, <2>3
<1>5. /\ want' \in Seq(Characters) /\ Len(want') = W - n[1]
      /\ \A j \in 1 .. W - n[1] : want'[j] = want[j + n[1]]
  <2>1. n[1] <= W
    BY <1>1, <1>2
  <2>2. CASE queue[1] < 128
    <3>1. n[1] = 1 /\ W >= 1 /\ want' = Tail(want)
      BY <1>1, <1>2, <1>4, <2>1, <2>2 DEF ReadsAlong
    <3>2. want # <<>>
      BY <1>0, <3>1
    <3>3. Tail(want) \in Seq(Characters) /\ Len(Tail(want)) = W - 1
          /\ \A j \in 1 .. W - 1 : Tail(want)[j] = want[j + 1]
      BY <1>0, <3>2, HeadTailProperties DEF SequencesOK
    <3> QED BY <3>1, <3>3
  <2>3. CASE ~(queue[1] < 128)
    <3>1. n[1] = 0 /\ want' = want
      BY <1>1, <1>4, <2>3 DEF ReadsAlong
    <3>2. W - n[1] = W /\ \A j \in 1 .. W : j + n[1] = j
      BY <1>2, <3>1
    <3> QED BY <1>2, <1>0, <3>1, <3>2 DEF SequencesOK
  <2> QED BY <2>2, <2>3
<1>6. \A k \in 0 .. L - 1 : Escaped(k)' <=> Escaped(k + 1)
  <2> SUFFICES ASSUME NEW k \in 0 .. L - 1 PROVE Escaped(k)' <=> Escaped(k + 1)
    OBVIOUS
  <2>1. CASE k = 0
    <3>1. last_escape' = (queue[k + 1] = E0) /\ k + 1 # 0
      BY <1>1, <2>1 DEF ReadsAlong
    <3> QED BY <2>1, <3>1, Zenon DEF Escaped
  <2>2. CASE k # 0
    BY <1>1, <2>2 DEF Escaped
  <2> QED BY <2>1, <2>2
<1>7. \A k \in 0 .. L - 2 : queue'[k + 1] = queue[k + 2] /\ Found(k)' = Found(k + 1)
  <2> SUFFICES ASSUME NEW k \in 0 .. L - 2
               PROVE  queue'[k + 1] = queue[k + 2] /\ Found(k)' = Found(k + 1)
    OBVIOUS
  <2>1. queue'[k + 1] = queue[k + 2] /\ k + 1 + 1 = k + 2
    BY <1>1
  <2>2. Escaped(k)' <=> Escaped(k + 1)
    BY <1>1, <1>6
  <2> QED BY <2>1, <2>2 DEF Found, Index
<1>7a. PICK v, m : /\ v = [k \in 0 .. L - 1 |-> u[k + 1]]
                  /\ m = [k \in 0 .. L - 1 |-> n[k + 1] - n[1]]
  OBVIOUS
<1>8. /\ v \in [0 .. L - 1 -> SUBSET ModifierKeys] /\ m \in [0 .. L - 1 -> 0 .. W - n[1]]
      /\ \A k \in 0 .. L - 1 : v[k] = u[k + 1] /\ m[k] = n[k + 1] - n[1]
  <2>1. ASSUME NEW k \in 0 .. L - 1 PROVE u[k + 1] \in SUBSET ModifierKeys
    BY <1>1, <1>2
  <2>2. ASSUME NEW k \in 0 .. L - 1 PROVE n[k + 1] - n[1] \in 0 .. W - n[1]
    <3>1. k + 1 \in 0 .. L /\ 1 \in 0 .. L /\ 1 <= k + 1
      BY <1>1
    <3>2. n[1] <= n[k + 1] /\ n[k + 1] \in 0 .. W /\ n[1] \in 0 .. W
      BY <1>2, <3>1
    <3> QED BY <1>2, <3>2
  <2> QED BY <1>7a, <2>1, <2>2
<1>9. ASSUME NEW k \in 0 .. L - 2 PROVE PathStep(v, m, k)'
  <2>1. /\ k + 1 \in 0 .. L - 1 /\ k \in 0 .. L - 1 /\ k + 1 + 1 = k + 2 /\ k + 2 \in 0 .. L
        /\ PathStep(u, n, k + 1)
    BY <1>1, <1>2
  <2>2. /\ v[k] = u[k + 1] /\ v[k + 1] = u[k + 2]
        /\ m[k] = n[k + 1] - n[1] /\ m[k + 1] = n[k + 2] - n[1]
    BY <1>8, <2>1
  <2>3. /\ n[1] \in Int /\ n[k + 1] \in Int /\ n[k + 2] \in Int
        /\ n[1] <= n[k + 1] /\ n[k + 2] <= W
    BY <1>1, <1>2, <2>1
  <2>4. queue'[k + 1] = queue[k + 2] /\ Found(k)' = Found(k + 1)
    BY <1>7
  <2>5. queue[k + 2] = E0 => v[k + 1] = v[k] /\ m[k + 1] = m[k]
    BY <2>1, <2>2 DEF PathStep
  <2>6. queue[k + 2] \in 128 .. E0 - 1 => v[k + 1] = Released(v[k], Found(k + 1)) /\ m[k + 1] = m[k]
    BY <2>1, <2>2 DEF PathStep
  <2>7. ASSUME queue[k + 2] < 128
        PROVE  /\ v[k + 1] = Pressed(v[k], Found(k + 1)) /\ m[k + 1] = m[k] + 1
               /\ want'[m[k] + 1] = Character(v[k], Found(k + 1))
    <3>1. /\ u[k + 2] = Pressed(u[k + 1], Found(k + 1)) /\ n[k + 2] = n[k + 1] + 1
          /\ want[n[k + 1] + 1] = Character(u[k + 1], Found(k + 1))
      BY <2>1, <2>7 DEF PathStep
    <3>2. m[k] + 1 \in 1 .. W - n[1] /\ m[k] + 1 + n[1] = n[k + 1] + 1
      <4>1. n[k + 2] = n[k + 1] + 1 /\ W \in Int
        BY <1>2, <3>1
      <4> QED BY <2>2, <2>3, <4>1
    <3>3. want'[m[k] + 1] = want[n[k + 1] + 1]
      BY <1>5, <3>2
    <3>4. m[k + 1] = m[k] + 1
      <4>1. n[k + 2] = n[k + 1] + 1
        BY <3>1
      <4> QED BY <2>2, <2>3, <4>1
    <3> QED BY <2>2, <3>1, <3>3, <3>4
  <2> QED BY <2>4, <2>5, <2>6, <2>7, Zenon DEF PathStep
<1>10. Path(v, m)'
  <2>1. v[0] = modifiers' /\ m[0] = 0
    BY <1>1, <1>2, <1>8 DEF ReadsAlong
  <2>2. v[L - 1] = Held' /\ m[L - 1] = W - n[1]
    BY <1>1, <1>2, <1>3, <1>8
  <2>3. ~Escaped(L - 1)'
    <3>1. L - 1 \in 0 .. L - 1 /\ L - 1 + 1 = L
      BY <1>1
    <3> QED BY <1>2, <1>6, <3>1
  <2>4. \A j, k \in 0 .. L - 1 : j <= k => m[j] <= m[k]
    <3> SUFFICES ASSUME NEW j \in 0 .. L - 1, NEW k \in 0 .. L - 1, j <= k PROVE m[j] <= m[k]
      OBVIOUS
    <3>1. n[j + 1] <= n[k + 1] /\ n[j + 1] \in Int /\ n[k + 1] \in Int /\ n[1] \in Int
      BY <1>1, <1>2
    <3>2. m[j] = n[j + 1] - n[1] /\ m[k] = n[k + 1] - n[1]
      BY <1>8
    <3> QED BY <3>1, <3>2
  <2>5. \A k \in 0 .. Len(queue') - 1 : PathStep(v, m, k)'
    BY <1>1, <1>9
  <2>6. Len(queue') = L - 1 /\ Len(want') = W - n[1]
    BY <1>1, <1>5
  <2> QED BY <1>8, <2>1, <2>2, <2>3, <2>4, <2>5, <2>6, Zenon DEF Path
<1> QED BY <1>5, <1>10

\* The user presses or releases a key, and what is held changes as the driver's
\* modifiers will.
Types(key, up) ==
  /\ queue' = queue \o Bytes(key, up)
  /\ UNCHANGED <<modifiers, last_escape>>
  /\ Held' = IF up THEN Released(Held, Code(key)) ELSE Pressed(Held, Code(key))
  /\ want' = IF up THEN want ELSE Append(want, Character(Held, Code(key)))
  /\ Character(Held, Code(key)) \in Characters

\* A key that is pressed or released makes the path longer, by one byte or by two.
LEMMA PathGrows ==
  ASSUME SequencesOK, NEW u, NEW n, Path(u, n), NEW key \in Keys, NEW up \in BOOLEAN,
         Types(key, up)
  PROVE  want' \in Seq(Characters) /\ \E v, m : Path(v, m)'
<1> USE DEF E0
<1>0. PICK L, W : L = Len(queue) /\ W = Len(want)
  OBVIOUS
<1>1. /\ L \in Nat /\ W \in Nat
      /\ u \in [0 .. L -> SUBSET ModifierKeys] /\ n \in [0 .. L -> 0 .. W]
      /\ \A j, k \in 0 .. L : j <= k => n[j] <= n[k]
      /\ u[0] = modifiers /\ n[0] = 0 /\ u[L] = Held /\ n[L] = W
      /\ ~Escaped(L) /\ \A k \in 0 .. L - 1 : PathStep(u, n, k)
  BY <1>0, LenProperties DEF Path, SequencesOK
<1>2. PICK M, b : /\ M = L + (IF key \in Extended THEN 2 ELSE 1)
                  /\ b = ScanCode[key] + (IF up THEN 128 ELSE 0)
  OBVIOUS
<1>3. keymap(Index(key \in Extended, b)) = Code(key)
  BY <1>2, CodeFacts
<1>3a. b \in Nat /\ b < E0
  BY <1>2, CodeFacts
<1>3b. (up => b \in 128 .. E0 - 1) /\ (~up => b < 128)
  BY <1>2, CodeFacts
<1>4. /\ M \in Nat /\ Len(queue') = M /\ queue'[M] = b
      /\ \A j \in 1 .. L : queue'[j] = queue[j]
      /\ M = IF key \in Extended THEN L + 2 ELSE L + 1
      /\ key \in Extended => queue'[L + 1] = E0
  <2>1. queue \in Seq(0 .. E0) /\ queue' = queue \o Bytes(key, up)
    BY DEF SequencesOK, Types
  <2>2. CASE key \in Extended
    <3>1. Bytes(key, up) = <<E0>> \o <<b>>
      BY <1>2, <2>2 DEF Bytes
    <3>2. /\ <<E0>> \o <<b>> \in Seq(0 .. E0) /\ Len(<<E0>> \o <<b>>) = 2
          /\ (<<E0>> \o <<b>>)[1] = E0 /\ (<<E0>> \o <<b>>)[2] = b
      <4>1. b \in 0 .. E0 /\ E0 \in 0 .. E0
        BY <1>3a
      <4> HIDE DEF E0
      <4>2. /\ <<E0>> \in Seq(0 .. E0) /\ Len(<<E0>>) = 1 /\ <<E0>>[1] = E0
            /\ <<b>> \in Seq(0 .. E0) /\ Len(<<b>>) = 1 /\ <<b>>[1] = b
        BY <4>1
      <4> QED BY <4>2, ConcatProperties
    <3>3. /\ Len(queue') = L + 2
          /\ \A i \in 1 .. L + 2 :
               queue'[i] = IF i <= L THEN queue[i] ELSE (<<E0>> \o <<b>>)[i - L]
      BY <1>0, <2>1, <3>1, <3>2, ConcatProperties
    <3> QED BY <1>1, <1>2, <2>2, <3>2, <3>3
  <2>3. CASE key \notin Extended
    <3>1. Bytes(key, up) = <<b>>
      BY <1>2, <2>3 DEF Bytes
    <3>2. <<b>> \in Seq(0 .. E0) /\ Len(<<b>>) = 1 /\ <<b>>[1] = b
      <4>1. b \in 0 .. E0
        BY <1>3a
      <4> HIDE DEF E0
      <4> QED BY <4>1
    <3>3. /\ Len(queue') = L + 1
          /\ \A i \in 1 .. L + 1 : queue'[i] = IF i <= L THEN queue[i] ELSE <<b>>[i - L]
      BY <1>0, <2>1, <3>1, <3>2, ConcatProperties
    <3> QED BY <1>1, <1>2, <2>3, <3>2, <3>3
  <2> QED BY <2>2, <2>3
<1>5. PICK V, x : /\ V = (IF up THEN W ELSE W + 1)
                  /\ x = (IF up THEN Released(Held, Code(key)) ELSE Pressed(Held, Code(key)))
  OBVIOUS
<1>6. /\ want' \in Seq(Characters) /\ Len(want') = V /\ V \in Nat /\ W <= V
      /\ \A j \in 1 .. W : want'[j] = want[j]
      /\ ~up => want'[W + 1] = Character(Held, Code(key))
  <2>1. want \in Seq(Characters) /\ Character(Held, Code(key)) \in Characters
    BY DEF SequencesOK, Types
  <2>2. CASE up
    BY <1>0, <1>1, <1>5, <2>1, <2>2 DEF Types
  <2>3. CASE ~up
    <3>1. want' = Append(want, Character(Held, Code(key))) /\ V = W + 1
      BY <1>5, <2>3 DEF Types
    <3> QED BY <1>0, <1>1, <2>1, <2>3, <3>1, AppendProperties
  <2> QED BY <2>2, <2>3
<1>7. Held' = x /\ x \in SUBSET ModifierKeys
  <2>1. Held \in SUBSET ModifierKeys
    BY HeldType
  <2> QED BY <1>5, <2>1 DEF Types, Released, Pressed, ModifierKeys
<1>8. PICK v, m : /\ v = [k \in 0 .. M |-> IF k <= L THEN u[k] ELSE IF k = M THEN x ELSE u[L]]
                  /\ m = [k \in 0 .. M |-> IF k <= L THEN n[k] ELSE IF k = M THEN V ELSE W]
  OBVIOUS
<1>9. /\ L < M /\ L \in 0 .. L /\ 0 \in 0 .. L
      /\ \A k \in 0 .. L : k \in 0 .. M /\ v[k] = u[k] /\ m[k] = n[k]
      /\ v[M] = x /\ m[M] = V /\ v[M - 1] = Held /\ m[M - 1] = W
      /\ key \in Extended => v[L + 1] = Held /\ m[L + 1] = W
  BY <1>1, <1>4, <1>8
<1>10. \A k \in 0 .. L : Escaped(k)' <=> Escaped(k)
  <2> SUFFICES ASSUME NEW k \in 0 .. L PROVE Escaped(k)' <=> Escaped(k)
    OBVIOUS
  <2>1. CASE k = 0
    BY <2>1 DEF Escaped, Types
  <2>2. CASE k # 0
    BY <1>1, <1>4, <2>2 DEF Escaped
  <2> QED BY <2>1, <2>2
<1>11. ASSUME NEW k \in 0 .. L - 1 PROVE PathStep(v, m, k)'
  <2>1. k \in 0 .. L /\ k + 1 \in 1 .. L /\ k + 1 \in 0 .. L /\ PathStep(u, n, k)
    BY <1>1
  <2>2. queue'[k + 1] = queue[k + 1] /\ Found(k)' = Found(k)
    BY <1>4, <1>10, <2>1 DEF Found, Index
  <2>3. v[k] = u[k] /\ v[k + 1] = u[k + 1] /\ m[k] = n[k] /\ m[k + 1] = n[k + 1]
    BY <1>9, <2>1
  <2>4. queue[k + 1] < 128 => want'[n[k] + 1] = want[n[k] + 1]
    <3> SUFFICES ASSUME queue[k + 1] < 128 PROVE n[k] + 1 \in 1 .. W
      BY <1>6
    <3>1. n[k + 1] = n[k] + 1
      BY <2>1 DEF PathStep
    <3>2. n[k] \in 0 .. W /\ n[k + 1] \in 0 .. W
      BY <1>1, <2>1
    <3> QED BY <1>1, <3>1, <3>2
  <2> QED BY <2>1, <2>2, <2>3, <2>4, Zenon DEF PathStep
<1>12. key \in Extended => PathStep(v, m, L)'
  <2> SUFFICES ASSUME key \in Extended PROVE PathStep(v, m, L)'
    OBVIOUS
  <2>1. queue'[L + 1] = E0 /\ ~(E0 \in 128 .. E0 - 1) /\ ~(E0 < 128)
    BY <1>4
  <2>2. v[L + 1] = v[L] /\ m[L + 1] = m[L]
    BY <1>1, <1>9
  <2> QED BY <2>1, <2>2 DEF PathStep
<1>13. PathStep(v, m, M - 1)'
  <2>1. M - 1 \in Nat /\ M - 1 + 1 = M
    BY <1>1, <1>4
  <2>2. Escaped(M - 1)' <=> key \in Extended
    <3>1. CASE key \in Extended
      <4>1. M - 1 = L + 1 /\ M - 1 # 0 /\ queue'[M - 1] = E0
        BY <1>1, <1>4, <3>1
      <4> QED BY <3>1, <4>1 DEF Escaped
    <3>2. CASE key \notin Extended
      <4>1. M - 1 = L
        BY <1>1, <1>4, <3>2
      <4>2. ~Escaped(L)'
        BY <1>1, <1>9, <1>10
      <4> QED BY <3>2, <4>1, <4>2
    <3> QED BY <3>1, <3>2
  <2>3. queue'[M - 1 + 1] = b /\ Found(M - 1)' = Code(key)
    <3>1. queue'[M - 1 + 1] = b
      BY <1>4, <2>1
    <3>2. Index(Escaped(M - 1)', b) = Index(key \in Extended, b)
      BY <2>2 DEF Index
    <3> QED BY <1>3, <3>1, <3>2 DEF Found
  <2>4. v[M - 1] = Held /\ v[M - 1 + 1] = x /\ m[M - 1] = W /\ m[M - 1 + 1] = V
    BY <1>9, <2>1
  <2>5. CASE up
    <3>1. ~(b < 128) /\ b # E0
      BY <1>3a, <1>3b, <2>5
    <3>2. x = Released(Held, Code(key)) /\ V = W
      BY <1>5, <2>5, Zenon
    <3> QED BY <2>3, <2>4, <3>1, <3>2, Zenon DEF PathStep
  <2>6. CASE ~up
    <3>1. ~(b \in 128 .. E0 - 1) /\ b # E0
      BY <1>3a, <1>3b, <2>6
    <3>2. /\ x = Pressed(Held, Code(key)) /\ V = W + 1
          /\ want'[W + 1] = Character(Held, Code(key))
      BY <1>5, <1>6, <2>6, Zenon
    <3> QED BY <2>3, <2>4, <3>1, <3>2, Zenon DEF PathStep
  <2> QED BY <2>5, <2>6
<1>14. Path(v, m)'
  <2>1. v \in [0 .. M -> SUBSET ModifierKeys] /\ m \in [0 .. M -> 0 .. V]
    <3>1. ASSUME NEW k \in 0 .. M
          PROVE  /\ (IF k <= L THEN u[k] ELSE IF k = M THEN x ELSE u[L]) \in SUBSET ModifierKeys
                 /\ (IF k <= L THEN n[k] ELSE IF k = M THEN V ELSE W) \in 0 .. V
      <4>1. \A j \in 0 .. L : u[j] \in SUBSET ModifierKeys /\ n[j] \in 0 .. V
        BY <1>1, <1>6
      <4>2. k <= L => k \in 0 .. L
        BY <1>1
      <4> QED BY <1>1, <1>6, <1>7, <1>9, <4>1, <4>2
    <3> QED BY <1>8, <3>1
  <2>2. \A j, k \in 0 .. M : j <= k => m[j] <= m[k]
    <3> SUFFICES ASSUME NEW j \in 0 .. M, NEW k \in 0 .. M, j <= k PROVE m[j] <= m[k]
      OBVIOUS
    <3>1. m[j] \in 0 .. V /\ m[k] \in 0 .. V
      BY <2>1
    <3>2. CASE k <= L
      <4>1. j \in 0 .. L /\ k \in 0 .. L
        BY <1>1, <3>2
      <4> QED BY <1>1, <1>9, <4>1
    <3>3. CASE k = M
      BY <1>6, <1>9, <3>1, <3>3
    <3>4. CASE ~(k <= L) /\ k # M
      <4>1. m[k] = W
        BY <1>8, <3>4
      <4>2. j # M
        BY <1>4, <3>4
      <4>3. m[j] <= W
        <5>1. CASE j <= L
          <6>1. j \in 0 .. L
            BY <1>1, <5>1
          <6>2. m[j] = n[j] /\ n[j] \in 0 .. W
            BY <1>1, <1>9, <6>1
          <6> QED BY <1>1, <6>2
        <5>2. CASE ~(j <= L)
          BY <1>1, <1>8, <4>2, <5>2
        <5> QED BY <5>1, <5>2
      <4> QED BY <4>1, <4>3
    <3> QED BY <3>2, <3>3, <3>4
  <2>3. v[0] = modifiers' /\ m[0] = 0
    BY <1>1, <1>9 DEF Types
  <2>4. ~Escaped(M)'
    <3>1. M # 0
      BY <1>1, <1>4
    <3>2. queue'[M] = b /\ b # E0
      BY <1>3a, <1>4
    <3> QED BY <3>1, <3>2, Zenon DEF Escaped
  <2>5. \A k \in 0 .. M - 1 : PathStep(v, m, k)'
    <3> SUFFICES ASSUME NEW k \in 0 .. M - 1 PROVE PathStep(v, m, k)'
      OBVIOUS
    <3>1. k \in 0 .. L - 1 \/ k = M - 1 \/ (k = L /\ key \in Extended)
      BY <1>1, <1>4
    <3> QED BY <1>11, <1>12, <1>13, <3>1
  <2> QED BY <1>4, <1>6, <1>7, <1>9, <2>1, <2>2, <2>3, <2>4, <2>5, Zenon DEF Path
<1> QED BY <1>6, <1>14

-----------------------------------------------------------------------------
\* A key sends one byte or two.
LEMMA BytesType ==
  ASSUME NEW key \in Keys, NEW up \in BOOLEAN
  PROVE  /\ Bytes(key, up) \in Seq(0 .. E0)
         /\ Len(Bytes(key, up)) = IF key \in Extended THEN 2 ELSE 1
<1>1. PICK b : b = ScanCode[key] + IF up THEN 128 ELSE 0
  OBVIOUS
<1>2. b \in 0 .. E0 /\ E0 \in 0 .. E0
  BY <1>1, CodeFacts DEF E0
<1>3. /\ <<E0>> \in Seq(0 .. E0) /\ Len(<<E0>>) = 1
      /\ <<b>> \in Seq(0 .. E0) /\ Len(<<b>>) = 1
      /\ <<>> \in Seq(0 .. E0) /\ Len(<<>>) = 0
  BY <1>2
<1>4. CASE key \in Extended
  <2>1. Bytes(key, up) = <<E0>> \o <<b>>
    BY <1>1, <1>4 DEF Bytes
  <2> QED BY <1>3, <1>4, <2>1, ConcatProperties
<1>5. CASE key \notin Extended
  <2>1. Bytes(key, up) = <<>> \o <<b>>
    BY <1>1, <1>5 DEF Bytes
  <2> QED BY <1>3, <1>5, <2>1, ConcatProperties
<1> QED BY <1>4, <1>5

\* The controller has room for the bytes of a key that is pressed or released.
LEMMA QueueType ==
  ASSUME KeyInv, NEW key \in Keys, NEW up \in BOOLEAN, Fits(key),
         queue' = queue \o Bytes(key, up)
  PROVE  queue' \in Seq(0 .. E0) /\ Len(queue') <= QUEUE_SIZE
<1>1. queue \in Seq(0 .. E0)
  BY DEF KeyInv
<1>2. queue' \in Seq(0 .. E0) /\ Len(queue') = Len(queue) + Len(Bytes(key, up))
  BY <1>1, BytesType, ConcatProperties
<1> QED BY <1>2, BytesType DEF Fits

\* A call leaves fewer bytes.
LEMMA TailType ==
  ASSUME KeyInv, queue # <<>>, queue' = Tail(queue)
  PROVE  /\ queue' \in Seq(0 .. E0) /\ Len(queue') <= QUEUE_SIZE
         /\ Head(queue) = queue[1] /\ queue[1] \in 0 .. E0 /\ Len(queue) \in Nat \ {0}
<1>1. queue \in Seq(0 .. E0) /\ Len(queue) <= QUEUE_SIZE /\ QUEUE_SIZE \in Nat
  BY KeyboardAssumption DEF KeyInv, KeyTypeOK
<1>2. Len(queue) \in Nat \ {0}
  BY <1>1, EmptySeq, LenProperties
<1>3. queue' \in Seq(0 .. E0) /\ Len(queue') = Len(queue) - 1 /\ Head(queue) = queue[1]
  BY <1>1, HeadTailProperties
<1>4. queue[1] \in 0 .. E0
  <2>1. 1 \in 1 .. Len(queue)
    BY <1>2
  <2> QED BY <1>1, <2>1, ElementOfSeq
<1> QED BY <1>1, <1>2, <1>3, <1>4

\* A character that a key means is one of Characters.
LEMMA MeaningType ==
  ASSUME NEW key \in Keys, caps \in BOOLEAN
  PROVE  Meaning(key, down \cap Shifts # {}, down \cap Controls # {}, caps) \in Characters
<1>1. (down \cap Shifts # {}) \in BOOLEAN /\ (down \cap Controls # {}) \in BOOLEAN
  OBVIOUS
<1>2. \A s, c, l \in BOOLEAN : Meaning(key, s, c, l) \in Characters
  BY DEF Characters
<1> QED BY <1>1, <1>2, Zenon

\* Press(key) keeps the invariant.
LEMMA PressInv ==
  ASSUME KeyInv, NEW key \in Keys, Press(key)
  PROVE  KeyInv'
<1>1. caps \in BOOLEAN /\ confused \in BOOLEAN /\ Fits(key)
  BY DEF KeyInv, Press
<1>2. queue' \in Seq(0 .. E0) /\ Len(queue') <= QUEUE_SIZE
  BY <1>1, QueueType DEF Press
<1>3. KeyTypeOK'
  BY <1>2 DEF KeyInv, KeyTypeOK, Press
<1>4. caps' \in BOOLEAN /\ confused' \in BOOLEAN
  BY <1>1 DEF Press
<1>5. KeysRight'
  BY DEF KeyInv, KeysRight, Press
<1>6. PathInv'
  <2> SUFFICES ASSUME ~confused' PROVE PathInv'
    BY DEF PathInv
  <2>1. ~confused /\ ~(Shifts \subseteq down') /\ ~(Controls \subseteq down')
    BY DEF Press
  <2>2. PICK u, n : Path(u, n)
    BY <2>1, Zenon DEF KeyInv, PathInv
  <2>3. SequencesOK
    BY <2>1 DEF KeyInv, PathInv, SequencesOK
  <2>4. Held' = Pressed(Held, Code(key))
    BY <1>1, PressHeld DEF Press
  <2>5. /\ want' = Append(want, Character(Held, Code(key)))
        /\ Character(Held, Code(key)) \in Characters
    BY <1>1, MeaningFacts, MeaningType DEF Press
  <2>6. Types(key, FALSE)
    BY <2>4, <2>5, Zenon DEF Press, Types
  <2>7. want' \in Seq(Characters) /\ \E v, m : Path(v, m)'
    BY <2>2, <2>3, <2>6, PathGrows
  <2> QED BY <2>1, <2>7 DEF PathInv, Shifts, Controls
<1> QED BY <1>2, <1>3, <1>4, <1>5, <1>6 DEF KeyInv

\* Release(key) keeps the invariant.
LEMMA ReleaseInv ==
  ASSUME KeyInv, NEW key \in Keys, Release(key)
  PROVE  KeyInv'
<1>1. caps \in BOOLEAN /\ confused \in BOOLEAN /\ Fits(key)
  BY DEF KeyInv, Release
<1>2. queue' \in Seq(0 .. E0) /\ Len(queue') <= QUEUE_SIZE
  BY <1>1, QueueType DEF Release
<1>3. KeyTypeOK'
  BY <1>2 DEF KeyInv, KeyTypeOK, Release
<1>4. caps' \in BOOLEAN /\ confused' \in BOOLEAN
  BY <1>1 DEF Release
<1>5. KeysRight'
  BY DEF KeyInv, KeysRight, Release
<1>6. PathInv'
  <2> SUFFICES ASSUME ~confused' PROVE PathInv'
    BY DEF PathInv
  <2>1. ~confused /\ ~(Shifts \subseteq down) /\ ~(Controls \subseteq down)
    BY DEF Release, KeyInv, PathInv
  <2>2. PICK u, n : Path(u, n)
    BY <2>1, Zenon DEF KeyInv, PathInv
  <2>3. SequencesOK
    BY <2>1 DEF KeyInv, PathInv, SequencesOK
  <2>4. Held' = Released(Held, Code(key))
    BY <2>1, ReleaseHeld DEF Release
  <2>5. Character(Held, Code(key)) \in Characters
    BY <1>1, MeaningFacts, MeaningType
  <2>6. Types(key, TRUE)
    BY <2>4, <2>5, Zenon DEF Release, Types
  <2>7. want' \in Seq(Characters) /\ \E v, m : Path(v, m)'
    BY <2>2, <2>3, <2>6, PathGrows
  <2>8. ~(Shifts \subseteq down') /\ ~(Controls \subseteq down')
    BY <2>1 DEF Release
  <2> QED BY <2>7, <2>8 DEF PathInv, Shifts, Controls
<1> QED BY <1>2, <1>3, <1>4, <1>5, <1>6 DEF KeyInv

\* A call that moves the driver along the path keeps PathInv.
LEMMA ReadKeepsPath ==
  ASSUME KeyInv, NEW u, NEW n, Path(u, n), ~confused, ReadsAlong(u)
  PROVE  PathInv'
<1>1. SequencesOK
  BY DEF KeyInv, PathInv, SequencesOK
<1>2. want' \in Seq(Characters) /\ \E v, m : Path(v, m)'
  BY <1>1, PathShrinks
<1>3. ~(Shifts \subseteq down') /\ ~(Controls \subseteq down')
  BY DEF KeyInv, PathInv, ReadsAlong
<1> QED BY <1>2, <1>3 DEF PathInv, Shifts, Controls

\* The first byte's place on the path.
LEMMA FirstStep ==
  ASSUME KeyInv, NEW u, NEW n, Path(u, n), queue # <<>>
  PROVE  /\ u[0] = modifiers
         /\ queue[1] = E0 => u[1] = modifiers
         /\ queue[1] \in 128 .. E0 - 1 =>
              u[1] = Released(modifiers, keymap(Index(last_escape, queue[1])))
         /\ queue[1] < 128 =>
              /\ u[1] = Pressed(modifiers, keymap(Index(last_escape, queue[1])))
              /\ want[1] = Character(modifiers, keymap(Index(last_escape, queue[1])))
              /\ 1 <= Len(want)
<1>1. Len(queue) \in Nat \ {0}
  BY EmptySeq, LenProperties DEF KeyInv
<1>2. 0 \in 0 .. Len(queue) - 1 /\ 1 \in 0 .. Len(queue)
  BY <1>1
<1>3. PathStep(u, n, 0) /\ u[0] = modifiers /\ n[0] = 0 /\ n[1] \in 0 .. Len(want)
  BY <1>2 DEF Path
<1>4. Found(0) = keymap(Index(last_escape, queue[1]))
  BY DEF Found, Escaped
<1>5. /\ queue[1] = E0 => u[1] = u[0]
      /\ queue[1] \in 128 .. E0 - 1 => u[1] = Released(u[0], Found(0))
      /\ queue[1] < 128 => /\ u[1] = Pressed(u[0], Found(0)) /\ n[1] = n[0] + 1
                           /\ want[n[0] + 1] = Character(u[0], Found(0))
  <2>1. 0 + 1 = 1
    OBVIOUS
  <2> QED BY <1>3, <2>1, Zenon DEF PathStep
<1>6. queue[1] < 128 => want[1] = Character(u[0], Found(0)) /\ 1 <= Len(want)
  <2> SUFFICES ASSUME queue[1] < 128 PROVE want[1] = Character(u[0], Found(0)) /\ 1 <= Len(want)
    OBVIOUS
  <2>1. n[0] + 1 = 1 /\ n[1] = 1
    BY <1>3, <1>5
  <2> QED BY <1>3, <1>5, <2>1
<1> QED BY <1>3, <1>4, <1>5, <1>6, Zenon

\* ReadEscape keeps the invariant.
LEMMA ReadEscapeInv ==
  ASSUME KeyInv, ReadEscape
  PROVE  KeyInv'
<1>1. /\ queue' \in Seq(0 .. E0) /\ Len(queue') <= QUEUE_SIZE
      /\ Head(queue) = queue[1] /\ queue[1] = E0 /\ queue # <<>>
  BY TailType DEF ReadEscape
<1>2. KeyTypeOK'
  BY <1>1 DEF KeyInv, KeyTypeOK, ReadEscape
<1>3. caps' \in BOOLEAN /\ confused' \in BOOLEAN
  BY DEF KeyInv, ReadEscape
<1>4. KeysRight'
  BY DEF KeysRight, ReadEscape
<1>5. PathInv'
  <2> SUFFICES ASSUME ~confused' PROVE PathInv'
    BY DEF PathInv
  <2>1. ~confused
    BY DEF ReadEscape
  <2>2. PICK u, n : Path(u, n)
    BY <2>1, Zenon DEF KeyInv, PathInv
  <2>3. modifiers' = u[1]
    BY <1>1, <2>2, FirstStep DEF ReadEscape
  <2>4. ~(Head(queue) < 128)
    BY <1>1 DEF E0
  <2>5. ReadsAlong(u)
    BY <1>1, <2>3, <2>4, Zenon DEF ReadsAlong, ReadEscape
  <2> QED BY <2>1, <2>2, <2>5, ReadKeepsPath
<1> QED BY <1>1, <1>2, <1>3, <1>4, <1>5 DEF KeyInv

\* ReadRelease keeps the invariant.
LEMMA ReadReleaseInv ==
  ASSUME KeyInv, ReadRelease
  PROVE  KeyInv'
<1>1. /\ queue' \in Seq(0 .. E0) /\ Len(queue') <= QUEUE_SIZE
      /\ Head(queue) = queue[1] /\ queue[1] \in 128 .. E0 - 1 /\ queue # <<>>
  BY TailType DEF ReadRelease
<1>2. KeyTypeOK'
  <2>1. modifiers' \subseteq ModifierKeys
    BY DEF KeyInv, KeyTypeOK, ReadRelease, Released
  <2> QED BY <1>1, <2>1 DEF KeyInv, KeyTypeOK, ReadRelease
<1>3. caps' \in BOOLEAN /\ confused' \in BOOLEAN
  BY DEF KeyInv, ReadRelease
<1>4. KeysRight'
  BY DEF KeysRight, ReadRelease
<1>5. PathInv'
  <2> SUFFICES ASSUME ~confused' PROVE PathInv'
    BY DEF PathInv
  <2>1. ~confused
    BY DEF ReadRelease
  <2>2. PICK u, n : Path(u, n)
    BY <2>1, Zenon DEF KeyInv, PathInv
  <2>3. modifiers' = u[1]
    BY <1>1, <2>2, FirstStep DEF ReadRelease
  <2>4. ~(Head(queue) < 128) /\ Head(queue) # E0
    <3>1. queue[1] \in 128 .. 223
      BY <1>1 DEF E0
    <3>2. ~(queue[1] < 128) /\ queue[1] # E0
      BY <3>1 DEF E0
    <3> QED BY <1>1, <3>2, Zenon
  <2>5. last_escape' = (Head(queue) = E0)
    BY <2>4 DEF ReadRelease
  <2>6. ReadsAlong(u)
    BY <1>1, <2>3, <2>4, <2>5, Zenon DEF ReadsAlong, ReadRelease
  <2> QED BY <2>1, <2>2, <2>6, ReadKeepsPath
<1> QED BY <1>1, <1>2, <1>3, <1>4, <1>5 DEF KeyInv

\* ReadKey keeps the invariant.  When "f" restarts the kernel and no modifier is
\* on, the driver forgets nothing; when one is, the user is confused.
LEMMA ReadKeyInv ==
  ASSUME KeyInv, ReadKey
  PROVE  KeyInv'
<1>1. /\ queue' \in Seq(0 .. E0) /\ Len(queue') <= QUEUE_SIZE
      /\ Head(queue) = queue[1] /\ queue[1] < 128 /\ queue # <<>>
  BY TailType DEF ReadKey
<1>2. PICK ch, c : ch = keymap(Index(last_escape, queue[1])) /\ c = Character(modifiers, ch)
  OBVIOUS
<1>3. /\ modifiers' = (IF Restarts(c) THEN {} ELSE Pressed(modifiers, ch))
      /\ confused' = (confused \/ (Restarts(c) /\ modifiers # {}))
      /\ power' = (IF PowersOff(c) THEN "off" ELSE "on")
      /\ given' = <<c, Head(want)>> /\ want' = Tail(want)
      /\ last_escape' = FALSE /\ queue' = Tail(queue) /\ UNCHANGED <<down, caps>>
  BY <1>1, <1>2, Zenon DEF ReadKey
<1>4. KeyTypeOK'
  <2>1. modifiers' \subseteq ModifierKeys
    BY <1>3 DEF KeyInv, KeyTypeOK, Pressed
  <2> QED BY <1>1, <1>3, <2>1 DEF KeyInv, KeyTypeOK
<1>5. caps' \in BOOLEAN /\ confused' \in BOOLEAN
  BY <1>3 DEF KeyInv
<1>6. KeysRight' /\ PathInv'
  <2>1. CASE confused'
    BY <2>1 DEF KeysRight, PathInv
  <2>2. CASE ~confused'
    <3>1. ~confused /\ (Restarts(c) => modifiers = {})
      BY <1>3, <2>2
    <3>2. PICK u, n : Path(u, n)
      BY <3>1, Zenon DEF KeyInv, PathInv
    <3>3. u[1] = Pressed(modifiers, ch) /\ want[1] = c /\ 1 <= Len(want)
      BY <1>1, <1>2, <3>2, FirstStep
    <3>4. Head(want) = c
      <4>1. want \in Seq(Characters)
        BY <3>1 DEF KeyInv, PathInv
      <4> QED BY <3>3, <4>1, HeadTailProperties
    <3>5. modifiers' = u[1]
      <4>1. CASE Restarts(c)
        <5>1. modifiers = {} /\ c = "f"
          BY <3>1, <4>1 DEF Restarts
        <5>2. ch \notin ModifierKeys
          BY <1>2, <5>1 DEF Character, Letters, ModifierKeys
        <5> QED BY <1>3, <3>3, <4>1, <5>1, <5>2 DEF Pressed, ModifierKeys
      <4>2. CASE ~Restarts(c)
        BY <1>3, <3>3, <4>2
      <4> QED BY <4>1, <4>2
    <3>6. Head(queue) # E0 /\ Head(queue) < 128
      <4>1. queue[1] \in 0 .. E0
        BY <1>1, <1>3, TailType
      <4> QED BY <1>1, <4>1 DEF E0
    <3>7. last_escape' = (Head(queue) = E0)
      BY <1>3, <3>6
    <3>8. ReadsAlong(u)
      BY <1>1, <1>3, <3>5, <3>6, <3>7, Zenon DEF ReadsAlong
    <3>9. PathInv'
      BY <3>1, <3>2, <3>8, ReadKeepsPath
    <3>10. KeysRight'
      BY <1>3, <3>4 DEF KeysRight
    <3> QED BY <3>9, <3>10
  <2> QED BY <2>1, <2>2
<1> QED BY <1>1, <1>4, <1>5, <1>6 DEF KeyInv

\* Doing nothing keeps the invariant.
LEMMA StutterInv ==
  ASSUME KeyInv, UNCHANGED keyVars
  PROVE  KeyInv'
<1> USE DEF keyVars
<1>1. KeyTypeOK' /\ KeysRight' /\ queue' \in Seq(0 .. E0) /\ caps' \in BOOLEAN /\ confused' \in BOOLEAN
  BY DEF KeyInv, KeyTypeOK, KeysRight
<1>2. \A u, n : Path(u, n) => Path(u, n)'
  BY DEF Path, PathStep, Escaped, Found, Held
<1>3. PathInv'
  BY <1>2 DEF KeyInv, PathInv, Shifts, Controls
<1> QED BY <1>1, <1>3 DEF KeyInv

\* Once the queue is empty the path has one place: the driver's modifiers are the user's.
LEMMA InvRight == KeyInv => KeyboardRight
<1> SUFFICES ASSUME KeyInv PROVE KeyboardRight
  OBVIOUS
<1>1. ModifiersRight
  <2> SUFFICES ASSUME queue = <<>>, ~confused
               PROVE  /\ ("KEY_SHIFT" \in modifiers) <=> (down \cap Shifts # {})
                      /\ ("KEY_CONTROL" \in modifiers) <=> (down \cap Controls # {})
                      /\ ("KEY_CAPSLOCK" \in modifiers) <=> caps
    BY DEF ModifiersRight
  <2>1. PICK u, n : Path(u, n)
    BY Zenon DEF KeyInv, PathInv
  <2>2. Len(queue) = 0
    OBVIOUS
  <2>3. modifiers = Held
    BY <2>1, <2>2 DEF Path
  <2> QED BY <2>3 DEF Held
<1> QED BY <1>1 DEF KeyInv, KeyboardRight

\* However long the controller's queue and however late it is read: until both keys
\* of a modifier are down, or the kernel restarts with a modifier on, keyboard_readc()
\* gives for every key the character that the keys held down at its press ask for,
\* and once the queue is empty its modifiers are those held down.
THEOREM KeyboardIsRight == KeySpec => []KeyboardRight
<1>1. KeyInit => KeyInv
  BY KeyInitInv
<1>2. KeyInv /\ [KeyNext]_keyVars => KeyInv'
  BY PressInv, ReleaseInv, ReadEscapeInv, ReadReleaseInv, ReadKeyInv, StutterInv DEF KeyNext
<1>3. KeyInv => KeyboardRight
  BY InvRight
<1> QED BY <1>1, <1>2, <1>3, PTL DEF KeySpec

-----------------------------------------------------------------------------
(* The guard.                                                              *)

\* Before any call the guard is open and nobody is past it.
LEMMA GuardInvInit == GuardInit => GuardInv
  BY DEF GuardInit, GuardInv, GuardPCs

\* Every step of every thread keeps the strengthened invariant.
LEMMA GuardInvNext == GuardInv /\ [GuardNext]_guardVars => GuardInv'
<1> SUFFICES ASSUME GuardInv, [GuardNext]_guardVars PROVE GuardInv'
  OBVIOUS
<1> USE DEF GuardInv, GuardPCs, To
<1>1. ASSUME NEW t \in Threads, Load(t) PROVE GuardInv'
  BY <1>1 DEF Load
<1>2. ASSUME NEW t \in Threads, Exchange(t) PROVE GuardInv'
  <2>1. CASE guard = 2
    <3>1. gpc' = [gpc EXCEPT ![t] = "unlock"] /\ guard' = 1 /\ inits' = 1
      BY <1>2, <2>1 DEF Exchange
    <3>2. \A u \in Threads : gpc[u] \notin {"initialize", "release"}
      BY <2>1
    <3> QED
      BY <3>1, <3>2
  <2>2. CASE guard = 1
    BY <1>2, <2>2 DEF Exchange
  <2>3. CASE guard = 0
    BY <1>2, <2>3 DEF Exchange
  <2> QED
    BY <2>1, <2>2, <2>3
<1>3. ASSUME NEW t \in Threads, Unlock(t) PROVE GuardInv'
  BY <1>3 DEF Unlock
<1>4. ASSUME NEW t \in Threads, Initialize(t) PROVE GuardInv'
  BY <1>4 DEF Initialize
<1>5. ASSUME NEW t \in Threads, GuardRelease(t) PROVE GuardInv'
  BY <1>5 DEF GuardRelease
<1>6. CASE UNCHANGED guardVars
  BY <1>6 DEF guardVars
<1> QED
  BY <1>1, <1>2, <1>3, <1>4, <1>5, <1>6 DEF GuardNext

\* For any set of threads: the static variable is initialized once, before any
\* thread that __cxa_guard_acquire() lets through uses it, and a locked guard is
\* always held by a thread that will unlock it.
THEOREM GuardCorrect == GuardSpec => []GuardRight
<1>1. GuardInv => GuardRight
  BY DEF GuardInv, GuardRight
<1> QED
  BY <1>1, GuardInvInit, GuardInvNext, PTL DEF GuardSpec

-----------------------------------------------------------------------------
(* The backtrace.                                                          *)

\* Two words make a frame, and a page has so many of them.
FRAME == 2 * WORD
PerPage == PAGESIZE \div (2 * WORD)

BtTypeOK ==
  /\ bt \in [rbp : Nat, rsp : Nat, stack_top : Nat, leaf : BOOLEAN]
  /\ frame \in Nat /\ bpc \in {"start", "print", "walk", "done"}

\* A backtracer that goes on at a leaf reads the word at rsp first.
LeafOK(b, f) ==
  /\ f = 0 /\ b.rsp % WORD = 0 /\ Accessible(b.rsp, WORD)
  /\ b.stack_top <= b.rsp + PAGESIZE

\* On the stack it started from, a frame is at rsp or above, and the frames printed
\* are below rsp; and on the stack it left that for, they are below rbp.
OnFirst(b, f) == b.rsp <= b.rbp /\ (f - 1) * FRAME <= b.rsp + PAGESIZE - b.stack_top
OnSecond(b, f) ==
  b.stack_top < VA_HIGHMIN /\ (f - 1 - PerPage) * FRAME <= b.rbp + PAGESIZE - b.stack_top

\* A backtracer that has passed check(): its frame is aligned, there, and on the page.
FrameOK(b, f) ==
  /\ b.rbp % WORD = 0 /\ Accessible(b.rbp, FRAME)
  /\ b.rbp + FRAME <= b.stack_top
  /\ OnFirst(b, f) \/ OnSecond(b, f)

\* The inductive invariant.
BtInv ==
  /\ BtTypeOK /\ BacktraceSafe
  /\ bpc = "start" => frame = 0 /\ touched = {} /\ ~bt.leaf
  /\ bpc \in {"print", "walk"} /\ bt.rsp # 0 =>
       IF bt.leaf THEN LeafOK(bt, frame) ELSE FrameOK(bt, frame)

\* A page is made of frames.
LEMMA FrameFacts ==
  /\ FRAME \in Nat \ {0} /\ PerPage \in Nat /\ PAGESIZE = PerPage * FRAME /\ PAGESIZE \in Nat \ {0}
  /\ WORD \in Nat \ {0} /\ FRAME = WORD + WORD
<1>1. FRAME \in Nat \ {0} /\ PAGESIZE \in Nat \ {0} /\ PAGESIZE % FRAME = 0
  BY BacktraceAssumption DEF FRAME
<1>2. \A d \in Nat \ {0}, x \in Nat : x \div d \in Nat /\ x = d * (x \div d) + (x % d)
  OBVIOUS
<1>3. PerPage \in Nat /\ PAGESIZE = FRAME * PerPage
  BY <1>1, <1>2 DEF PerPage, FRAME
<1>4. FRAME * PerPage = PerPage * FRAME
  BY <1>1, <1>3
<1> QED BY <1>1, <1>3, <1>4, BacktraceAssumption DEF FRAME

\* round_up() goes up by less than a page, or wraps around.
LEMMA RoundUpFacts ==
  ASSUME NEW x \in Nat
  PROVE  round_up(x, PAGESIZE) \in Nat /\ round_up(x, PAGESIZE) <= x + PAGESIZE - 1
<1>1. PAGESIZE \in Nat \ {0} /\ x + PAGESIZE - 1 \in Nat
  BY BacktraceAssumption
<1>2. PICK w : w = Word(x + PAGESIZE - 1)
  OBVIOUS
<1>3. w \in Nat /\ w <= x + PAGESIZE - 1
  <2>1. \A d \in Nat \ {0}, y \in Nat : y % d \in Nat /\ y % d <= y
    OBVIOUS
  <2> QED BY <1>1, <1>2, <2>1, PowerAssumption DEF Word
<1>4. w % PAGESIZE \in Nat /\ w % PAGESIZE <= w
  BY <1>1, <1>3
<1> QED BY <1>1, <1>2, <1>3, <1>4 DEF round_up, round_down

\* What check() lets pass is on the stack it was on, or on one it may leave it for.
LEMMA CheckedFacts ==
  ASSUME NEW b \in [rbp : Nat, rsp : Nat, stack_top : Nat, leaf : {FALSE}], NEW f \in Nat,
         \/ (f - 1) * FRAME <= b.rsp + PAGESIZE - b.stack_top
         \/ /\ b.stack_top < VA_HIGHMIN
            /\ (f - 1 - PerPage) * FRAME <= b.rsp + PAGESIZE - b.stack_top,
         f <= 1 + PerPage \/ b.stack_top < VA_HIGHMIN
  PROVE  /\ Checked(b) \in [rbp : Nat, rsp : Nat, stack_top : Nat, leaf : {FALSE}]
         /\ Checked(b).rsp # 0 => FrameOK(Checked(b), f)
<1>1. CASE Checked(b) = [b EXCEPT !.rbp = 0, !.rsp = 0]
  <2>1. PICK c : c = [b EXCEPT !.rbp = 0, !.rsp = 0]
    OBVIOUS
  <2>2. c \in [rbp : Nat, rsp : Nat, stack_top : Nat, leaf : {FALSE}] /\ c.rsp = 0
    BY <2>1
  <2> QED BY <1>1, <2>1, <2>2
<1>2. CASE Checked(b) # [b EXCEPT !.rbp = 0, !.rsp = 0]
  <2>1. PICK top : top = IF Leaves(b) THEN round_up(b.rbp, PAGESIZE) ELSE b.stack_top
    OBVIOUS
  <2>2. /\ b.rbp % WORD = 0 /\ Accessible(b.rbp, FRAME)
        /\ Climbs(b) /\ top >= b.rbp /\ top - b.rbp >= FRAME
        /\ Checked(b) = [b EXCEPT !.stack_top = top]
    BY <1>2, <2>1 DEF Checked, FRAME
  <2>3. top \in Nat
    BY <2>1, RoundUpFacts
  <2>4. PICK c : c = Checked(b)
    OBVIOUS
  <2>5. /\ c \in [rbp : Nat, rsp : Nat, stack_top : Nat, leaf : {FALSE}]
        /\ c.rbp = b.rbp /\ c.rsp = b.rsp /\ c.stack_top = top
    BY <2>2, <2>3, <2>4
  <2>6. c.rbp + FRAME <= c.stack_top
    BY <2>2, <2>3, <2>5, FrameFacts
  <2>7. OnFirst(c, f) \/ OnSecond(c, f)
    <3>1. CASE Leaves(b)
      <4>1. top <= b.rbp + PAGESIZE - 1 /\ b.stack_top >= VA_HIGHMIN /\ b.rbp < VA_LOWMAX
        BY <2>1, <3>1, RoundUpFacts DEF Leaves
      <4>2. c.stack_top < VA_HIGHMIN
        BY <2>3, <2>5, <4>1, BacktraceAssumption
      <4>3. f - 1 - PerPage \in Int /\ f - 1 - PerPage <= 0
        BY <4>1, FrameFacts, BacktraceAssumption
      <4>4. (f - 1 - PerPage) * FRAME <= 0
        BY <4>3, FrameFacts
      <4>5. (f - 1 - PerPage) * FRAME \in Int
        BY <4>3, FrameFacts
      <4> QED BY <2>3, <2>5, <4>1, <4>2, <4>4, <4>5, FrameFacts DEF OnSecond
    <3>2. CASE ~Leaves(b)
      <4>1. c.rsp <= c.rbp /\ c.stack_top = b.stack_top
        BY <2>1, <2>2, <2>5, <3>2 DEF Climbs
      <4>2. CASE (f - 1) * FRAME <= b.rsp + PAGESIZE - b.stack_top
        BY <2>5, <4>1, <4>2 DEF OnFirst
      <4>3. CASE /\ b.stack_top < VA_HIGHMIN
                 /\ (f - 1 - PerPage) * FRAME <= b.rsp + PAGESIZE - b.stack_top
        <5>1. (f - 1 - PerPage) * FRAME \in Int
          BY FrameFacts
        <5> QED BY <2>5, <4>1, <4>3, <5>1, FrameFacts DEF OnSecond
      <4> QED BY <4>2, <4>3
    <3> QED BY <3>1, <3>2
  <2> QED BY <2>2, <2>4, <2>5, <2>6, <2>7 DEF FrameOK
<1> QED BY <1>1, <1>2

\* A frame that may be printed is one of those that fit.
LEMMA FrameBound ==
  ASSUME NEW b \in [rbp : Nat, rsp : Nat, stack_top : Nat, leaf : BOOLEAN], NEW f \in Nat,
         FrameOK(b, f)
  PROVE  /\ OnFirst(b, f) => f <= PerPage
         /\ OnSecond(b, f) => f <= 2 * PerPage
<1>1. PICK n, d : n = PerPage /\ d = FRAME
  OBVIOUS
<1>2. n \in Nat /\ d \in Nat \ {0} /\ PAGESIZE = n * d
  BY <1>1, FrameFacts
<1>3. \A k \in Int : k * d <= n * d - d => k <= n - 1
  BY <1>2
<1>4. b.rbp + d <= b.stack_top
  BY <1>1 DEF FrameOK
<1>5. ASSUME OnFirst(b, f) PROVE f <= PerPage
  <2>1. (f - 1) * d <= n * d - d
    BY <1>1, <1>2, <1>4, <1>5 DEF OnFirst
  <2> QED BY <1>1, <1>2, <1>3, <2>1
<1>6. ASSUME OnSecond(b, f) PROVE f <= 2 * PerPage
  <2>1. (f - 1 - n) * d <= n * d - d
    BY <1>1, <1>2, <1>4, <1>6 DEF OnSecond
  <2> QED BY <1>1, <1>2, <1>3, <2>1
<1> QED BY <1>5, <1>6

\* The words of a frame, or the one of a leaf, are there.
LEMMA WordsThere ==
  ASSUME NEW a \in Nat, a % WORD = 0, Accessible(a, FRAME)
  PROVE  /\ Accessible(a, WORD)
         /\ (a + WORD) % WORD = 0 /\ Accessible(a + WORD, WORD)
<1>1. WORD \in Nat \ {0} /\ FRAME = WORD + WORD
  BY FrameFacts
<1>2. /\ a .. a + WORD - 1 \subseteq a .. a + FRAME - 1
      /\ a + WORD .. a + WORD + WORD - 1 \subseteq a .. a + FRAME - 1
  BY <1>1
<1>3. (a + WORD) % WORD = 0
  <2>1. \A d \in Nat \ {0}, x \in Nat : x \div d \in Nat /\ x = d * (x \div d) + (x % d)
    OBVIOUS
  <2>1a. a \div WORD \in Nat /\ a = WORD * (a \div WORD) + (a % WORD)
    BY <1>1, <2>1
  <2>2. PICK k \in Nat : a = WORD * k
    <3>1. WORD * (a \div WORD) \in Int
      BY <1>1, <2>1a
    <3> QED BY <2>1a, <3>1
  <2>3. a + WORD = WORD * (k + 1)
    BY <1>1, <2>2
  <2>4. \A d \in Nat \ {0}, j \in Nat : (d * j) % d = 0
    OBVIOUS
  <2> QED BY <1>1, <2>3, <2>4
<1> QED BY <1>2, <1>3 DEF Accessible

\* The walk starts with no frame.
LEMMA BtInitInv == BtInit => BtInv
<1> SUFFICES ASSUME BtInit PROVE BtInv
  OBVIOUS
<1>1. Addresses \subseteq Nat
  BY BacktraceAssumption
<1>2. BtTypeOK /\ ~bt.leaf
  <2>1. bt \in [rbp : Addresses, rsp : Addresses, stack_top : {0}, leaf : {FALSE}]
    BY DEF BtInit
  <2>2. bt \in [rbp : Nat, rsp : Nat, stack_top : Nat, leaf : BOOLEAN] /\ bt.leaf = FALSE
    <3>1. bt.rbp \in Nat /\ bt.rsp \in Nat /\ bt.stack_top = 0 /\ bt.leaf = FALSE
      BY <1>1, <2>1
    <3>2. bt = [rbp |-> bt.rbp, rsp |-> bt.rsp, stack_top |-> bt.stack_top, leaf |-> bt.leaf]
      BY <2>1
    <3>3. [rbp |-> bt.rbp, rsp |-> bt.rsp, stack_top |-> bt.stack_top, leaf |-> bt.leaf]
            \in [rbp : Nat, rsp : Nat, stack_top : Nat, leaf : BOOLEAN]
      <4>1. bt.rbp \in Nat /\ bt.rsp \in Nat /\ bt.stack_top \in Nat
        BY <3>1
      <4>2. bt.leaf \in BOOLEAN
        BY <3>1, Zenon
      <4> QED BY <4>1, <4>2, Zenon
    <3> QED BY <3>1, <3>2, <3>3, Zenon
  <2> QED BY <2>2 DEF BtInit, BtTypeOK
<1>3. BacktraceSafe
  <2>1. 0 <= 1 + 2 * PerPage
    BY FrameFacts
  <2> QED BY <2>1 DEF BtInit, BacktraceSafe, PerPage
<1> QED BY <1>2, <1>3 DEF BtInit, BtInv

\* Start keeps the invariant.
LEMMA StartInv ==
  ASSUME BtInv, Start
  PROVE  BtInv'
<1>1. /\ bt \in [rbp : Nat, rsp : Nat, stack_top : Nat, leaf : BOOLEAN]
      /\ frame = 0 /\ touched = {} /\ ~bt.leaf /\ bpc = "start"
  BY DEF BtInv, BtTypeOK, Start
<1>2. PICK b : b = [bt EXCEPT !.stack_top = round_up(bt.rsp, PAGESIZE)]
  OBVIOUS
<1>3. b \in [rbp : Nat, rsp : Nat, stack_top : Nat, leaf : {FALSE}]
  BY <1>1, <1>2, RoundUpFacts
<1>4. b.stack_top <= b.rsp + PAGESIZE - 1
  BY <1>1, <1>2, RoundUpFacts
<1>5. /\ Checked(b) \in [rbp : Nat, rsp : Nat, stack_top : Nat, leaf : {FALSE}]
      /\ Checked(b).rsp # 0 => FrameOK(Checked(b), 0)
  <2>1. (0 - 1) * FRAME <= b.rsp + PAGESIZE - b.stack_top
    <3>1. (0 - 1) * FRAME = 0 - FRAME
      BY FrameFacts
    <3> QED BY <1>3, <1>4, <3>1, FrameFacts
  <2>2. 0 <= 1 + PerPage
    BY FrameFacts
  <2> QED BY <1>3, <2>1, <2>2, CheckedFacts
<1>6. PICK c : c = bt'
  OBVIOUS
<1>7. /\ frame' = 0 /\ bpc' = "print" /\ UNCHANGED <<hasTable, present>>
      /\ \/ c = Checked(b) /\ touched' \in {{}, {b.rsp}}
         \/ c = [b EXCEPT !.leaf = TRUE] /\ touched' = {b.rsp}
      /\ touched' # {} => MayReadTop(b)
  BY <1>1, <1>2, <1>6 DEF Start
<1>8. \A x \in touched' : x % WORD = 0 /\ Accessible(x, WORD)
  BY <1>7 DEF MayReadTop
<1>9. BacktraceSafe'
  <2>1. 0 <= 1 + 2 * PerPage
    BY FrameFacts
  <2>2. \A x \in touched' : Accessible(x, WORD)' <=> Accessible(x, WORD)
    BY <1>7 DEF Accessible
  <2> QED BY <1>7, <1>8, <2>1, <2>2 DEF BacktraceSafe, PerPage
<1>10. CASE c = Checked(b)
  <2>1. BtTypeOK'
    BY <1>5, <1>6, <1>7, <1>10 DEF BtTypeOK
  <2>2. ~c.leaf
    BY <1>5, <1>10
  <2>3. c.rsp # 0 => FrameOK(c, 0)
    BY <1>5, <1>10
  <2>4. FrameOK(c, 0) => FrameOK(c, 0)'
    BY <1>7 DEF FrameOK, Accessible
  <2> QED BY <1>6, <1>7, <1>9, <2>1, <2>2, <2>3, <2>4 DEF BtInv, FrameOK, OnFirst, OnSecond, Accessible
<1>11. CASE c = [b EXCEPT !.leaf = TRUE] /\ touched' = {b.rsp}
  <2>1. c.leaf /\ c \in [rbp : Nat, rsp : Nat, stack_top : Nat, leaf : BOOLEAN]
        /\ c.rsp = b.rsp /\ c.stack_top = b.stack_top
    BY <1>3, <1>11
  <2>2. LeafOK(c, 0)
    <3>1. MayReadTop(b)
      BY <1>7, <1>11
    <3>2. c.stack_top <= c.rsp + PAGESIZE
      BY <1>3, <1>4, <2>1, FrameFacts
    <3> QED BY <2>1, <3>1, <3>2 DEF LeafOK, MayReadTop
  <2>3. BtTypeOK'
    BY <1>6, <1>7, <2>1 DEF BtTypeOK
  <2> QED BY <1>6, <1>7, <1>9, <2>1, <2>2, <2>3 DEF BtInv, LeafOK, Accessible
<1> QED BY <1>7, <1>10, <1>11

\* Walk keeps the invariant.
LEMMA WalkInv ==
  ASSUME BtInv, Walk
  PROVE  BtInv'
<1>1. /\ bt \in [rbp : Nat, rsp : Nat, stack_top : Nat, leaf : BOOLEAN]
      /\ bpc = "walk" /\ bt.rsp # 0 /\ frame \in Nat /\ BacktraceSafe
      /\ bpc' = "walk" /\ frame' = frame + 1 /\ UNCHANGED <<hasTable, present>>
  BY DEF BtInv, BtTypeOK, Walk
<1>2. PICK b : /\ b \in [rbp : Nat, rsp : Nat, stack_top : Nat, leaf : {FALSE}]
               /\ bt' = Checked(b)
               /\ \A x \in touched' \ touched : x % WORD = 0 /\ Accessible(x, WORD)
               /\ frame + 1 <= 1 + 2 * PerPage
               /\ \/ frame * FRAME <= b.rsp + PAGESIZE - b.stack_top
                  \/ /\ b.stack_top < VA_HIGHMIN
                     /\ (frame - PerPage) * FRAME <= b.rsp + PAGESIZE - b.stack_top
               /\ frame + 1 <= 1 + PerPage \/ b.stack_top < VA_HIGHMIN
  <2>1. CASE bt.leaf
    <3>1. LeafOK(bt, frame)
      BY <1>1, <2>1 DEF BtInv
    <3>2. /\ touched' = touched \cup {bt.rsp} /\ bt' = Checked([bt EXCEPT !.leaf = FALSE])
      BY <2>1 DEF Walk
    <3>3. PICK b : b = [bt EXCEPT !.leaf = FALSE]
      OBVIOUS
    <3>4. b \in [rbp : Nat, rsp : Nat, stack_top : Nat, leaf : {FALSE}]
          /\ b.rsp = bt.rsp /\ b.stack_top = bt.stack_top
      BY <1>1, <3>3
    <3>5. frame = 0 /\ bt.stack_top <= bt.rsp + PAGESIZE
      BY <3>1 DEF LeafOK
    <3>6. frame * FRAME <= b.rsp + PAGESIZE - b.stack_top
      <4>1. frame * FRAME = 0
        BY <3>5, FrameFacts
      <4> QED BY <3>4, <3>5, <4>1, FrameFacts
    <3>7. frame + 1 <= 1 + 2 * PerPage /\ frame + 1 <= 1 + PerPage
      BY <3>5, FrameFacts
    <3>8. \A x \in touched' \ touched : x % WORD = 0 /\ Accessible(x, WORD)
      BY <3>1, <3>2 DEF LeafOK
    <3> QED BY <3>2, <3>3, <3>4, <3>6, <3>7, <3>8
  <2>2. CASE ~bt.leaf
    <3>1. FrameOK(bt, frame)
      BY <1>1, <2>2 DEF BtInv
    <3>2. touched' = touched \cup {bt.rbp, bt.rbp + WORD}
      BY <2>2 DEF Walk
    <3>3. PICK saved \in Addresses :
            bt' = Checked([bt EXCEPT !.rsp = bt.rbp + 2 * WORD, !.rbp = saved])
      BY <2>2 DEF Walk
    <3>4. PICK b : b = [bt EXCEPT !.rsp = bt.rbp + 2 * WORD, !.rbp = saved]
      OBVIOUS
    <3>5. saved \in Nat /\ bt.rbp + 2 * WORD = bt.rbp + FRAME /\ bt.rbp + FRAME \in Nat
      BY <1>1, FrameFacts, BacktraceAssumption DEF FRAME
    <3>6. /\ b \in [rbp : Nat, rsp : Nat, stack_top : Nat, leaf : {FALSE}]
          /\ b.rsp = bt.rbp + FRAME /\ b.stack_top = bt.stack_top
      BY <1>1, <2>2, <3>4, <3>5
    <3>7. \A x \in touched' \ touched : x % WORD = 0 /\ Accessible(x, WORD)
      <4>1. bt.rbp % WORD = 0 /\ Accessible(bt.rbp, FRAME) /\ bt.rbp \in Nat
        BY <1>1, <3>1 DEF FrameOK
      <4> QED BY <3>2, <4>1, WordsThere
    <3>8. CASE OnFirst(bt, frame)
      <4>1. frame <= PerPage
        BY <1>1, <3>1, <3>8, FrameBound
      <4>2. (frame - 1) * FRAME <= bt.rsp + PAGESIZE - bt.stack_top /\ bt.rsp <= bt.rbp
        BY <3>8 DEF OnFirst
      <4>3. frame * FRAME = (frame - 1) * FRAME + FRAME /\ (frame - 1) * FRAME \in Int
        BY <1>1, FrameFacts
      <4>4. frame * FRAME <= b.rsp + PAGESIZE - b.stack_top
        BY <1>1, <3>6, <4>2, <4>3, FrameFacts
      <4>5. frame + 1 <= 1 + 2 * PerPage /\ frame + 1 <= 1 + PerPage
        BY <1>1, <4>1, FrameFacts
      <4> QED BY <3>3, <3>4, <3>6, <3>7, <4>4, <4>5
    <3>9. CASE OnSecond(bt, frame)
      <4>1. frame <= 2 * PerPage
        BY <1>1, <3>1, <3>9, FrameBound
      <4>2. /\ (frame - 1 - PerPage) * FRAME <= bt.rbp + PAGESIZE - bt.stack_top
            /\ b.stack_top < VA_HIGHMIN
        BY <3>6, <3>9 DEF OnSecond
      <4>3. /\ (frame - PerPage) * FRAME = (frame - 1 - PerPage) * FRAME + FRAME
            /\ (frame - 1 - PerPage) * FRAME \in Int
        BY <1>1, FrameFacts
      <4>4. (frame - PerPage) * FRAME <= b.rsp + PAGESIZE - b.stack_top
        BY <1>1, <3>6, <4>2, <4>3, FrameFacts
      <4>5. frame + 1 <= 1 + 2 * PerPage
        BY <1>1, <4>1, FrameFacts
      <4> QED BY <3>3, <3>4, <3>6, <3>7, <4>2, <4>4, <4>5
    <3> QED BY <3>1, <3>8, <3>9 DEF FrameOK
  <2> QED BY <2>1, <2>2
<1>3. PICK c : c = bt'
  OBVIOUS
<1>4. PICK g \in Nat : g = frame + 1 /\ g - 1 = frame /\ g - 1 - PerPage = frame - PerPage
  BY <1>1, FrameFacts
<1>5. /\ c \in [rbp : Nat, rsp : Nat, stack_top : Nat, leaf : {FALSE}]
      /\ c.rsp # 0 => FrameOK(c, g)
  <2>1. /\ \/ (g - 1) * FRAME <= b.rsp + PAGESIZE - b.stack_top
           \/ /\ b.stack_top < VA_HIGHMIN
              /\ (g - 1 - PerPage) * FRAME <= b.rsp + PAGESIZE - b.stack_top
        /\ g <= 1 + PerPage \/ b.stack_top < VA_HIGHMIN
    BY <1>2, <1>4, Zenon
  <2>2. /\ Checked(b) \in [rbp : Nat, rsp : Nat, stack_top : Nat, leaf : {FALSE}]
        /\ Checked(b).rsp # 0 => FrameOK(Checked(b), g)
    <3>1. b \in [rbp : Nat, rsp : Nat, stack_top : Nat, leaf : {FALSE}]
      BY <1>2
    <3> QED BY <2>1, <3>1, CheckedFacts, Zenon
  <2> QED BY <1>2, <1>3, <2>2
<1>6. BtTypeOK' /\ ~c.leaf
  <2>1. c \in [rbp : Nat, rsp : Nat, stack_top : Nat, leaf : BOOLEAN] /\ c.leaf = FALSE
    BY <1>5
  <2>2. frame' \in Nat /\ bpc' = "walk"
    BY <1>1
  <2> QED BY <1>3, <2>1, <2>2 DEF BtTypeOK
<1>7. BacktraceSafe'
  <2>1. \A x \in touched' : x % WORD = 0 /\ Accessible(x, WORD)
    BY <1>1, <1>2 DEF BacktraceSafe
  <2>2. \A x \in touched' : Accessible(x, WORD)' <=> Accessible(x, WORD)
    BY <1>1 DEF Accessible
  <2> QED BY <1>1, <1>2, <2>1, <2>2 DEF BacktraceSafe, PerPage
<1>8. c.rsp # 0 => FrameOK(c, g)'
  BY <1>1, <1>5 DEF FrameOK, OnFirst, OnSecond, Accessible
<1> QED BY <1>1, <1>3, <1>4, <1>6, <1>7, <1>8 DEF BtInv, FrameOK, OnFirst, OnSecond, Accessible

\* The other steps read nothing.
LEMMA OtherBtInv ==
  ASSUME BtInv, Warn \/ Done \/ UNCHANGED btVars
  PROVE  BtInv'
<1>1. /\ UNCHANGED <<bt, frame, touched, hasTable, present>>
      /\ bpc' \in {bpc, "walk", "done"} /\ (bpc' = "walk" => bpc \in {"print", "walk"})
      /\ (bpc' = "start" => bpc = "start") /\ (bpc' = "print" => bpc = "print")
  BY DEF Warn, Done, btVars
<1>2. BtTypeOK'
  BY <1>1 DEF BtInv, BtTypeOK
<1>3. BacktraceSafe'
  BY <1>1 DEF BtInv, BacktraceSafe, Accessible
<1> QED
  BY <1>1, <1>2, <1>3 DEF BtInv, LeafOK, FrameOK, OnFirst, OnSecond, Accessible

\* Whatever is on the stack, for every size of a page and of a word, the backtrace of
\* a kernel that panics reads only words that are present and aligned, and ends after
\* no more frames than fit on two pages, and one of a leaf.
THEOREM BacktraceIsSafe == BtSpec => []BacktraceSafe
<1>1. BtInv /\ [BtNext]_btVars => BtInv'
  BY StartInv, WalkInv, OtherBtInv DEF BtNext
<1>2. BtInv => BacktraceSafe
  BY DEF BtInv
<1> QED BY BtInitInv, <1>1, <1>2, PTL DEF BtSpec
=============================================================================
