----------------------------- MODULE MemViewer ------------------------------
(***************************************************************************)
(* What the memory viewer (k-memviewer.cc) draws of the kernel's state.    *)
(*                                                                         *)
(* Every process of this kernel runs on kernel_pagetable, so               *)
(* separate_tables_ is false whenever refresh() has run and every mapping  *)
(* is an identity mapping: f_nonidentity is never set.                     *)
(***************************************************************************)
EXTENDS WeensyKernel, FiniteSets

CONSTANTS
  Reserved,    \* the reserved pages among Unallocatable
  ConsolePage  \* the one that holds the console

ASSUME ReservedAssumption ==
  Reserved \subseteq Unallocatable /\ 0 \in Reserved /\ ConsolePage \in Reserved \ {0}

\* memusage::f_process(): a bit for each process below 29.  From 29 on the code
\* shifts 4U by 31, which leaves no bit of an unsigned: those have none.
MAX_MARK == 29

\* The viewer has a bit for each process.  (MAXNPROC is 16.)
ASSUME MarkAssumption == NALLOC < MAX_MARK

f_process(pid) == IF pid \in 1 .. MAX_MARK - 1 THEN {pid} ELSE {}

\* The owner that refresh() derives from an address.  Below PROC_START the
\* difference wraps around and becomes a negative number as an int.
\* Mutant of MarkedOwner: processes are counted from 0.
MarkedOwnerZero(pn) == (pn - PROC_START) \div PROC_SIZE
MarkedOwner(pn) == (pn - PROC_START) \div PROC_SIZE + 1

\* memusage::refresh(): v_[pn], as the flags and the processes in it.  Page 0 is
\* not mapped.  (The kernel's own page tables are kernel data.)
Marks(pn) ==
  LET mapped == pn # 0 /\ refcount[pn] # 0 IN
  [kernel |-> pn = viewer, user |-> mapped,
   pids |-> IF mapped THEN f_process(MarkedOwner(pn)) ELSE {}]

\* memusage::symbol_at(): the character and, if it
\* names a process, that; "error" where it calls page_error().
symbol_at(pn) ==
  LET v == Marks(pn)
      pid == IF v.pids = {} THEN 0 ELSE CHOOSE p \in v.pids : \A q \in v.pids : p <= q
  IN IF refcount[pn] > MAXNPROC THEN <<"error", 0>>
     ELSE IF pn = ConsolePage THEN <<"C", 0>>
     ELSE IF pn \in Reserved THEN IF pid # 0 THEN <<"error", 0>> ELSE <<"R", 0>>
     ELSE IF pn \in Unallocatable THEN <<"K", 0>>
     ELSE CASE ~v.kernel /\ ~v.user /\ v.pids = {} ->
                 IF refcount[pn] # 0 THEN <<"L", 0>> ELSE <<".", 0>>
            [] v.user /\ ~v.kernel /\ v.pids = {} -> <<".", 0>>
            [] v.kernel /\ v.pids = {} -> <<"K", 0>>
            [] Cardinality(v.pids) > 1 -> <<"S", 0>>
            [] Cardinality(v.pids) = 1 -> <<"pid", pid>>

\* The map is true: the viewer, which guesses owners from addresses, shows each
\* page of a process as that process's and as nobody else's, its own table as the
\* kernel's, and a free page as free; it reports no error and no leak, whatever
\* was allocated, faulted or rebooted.  And process 0 is never used.
ViewerRight ==
  viewer # NoPage =>
    /\ pstate[0] = "FREE"
    /\ \A pn \in Pages :
         symbol_at(pn) =
           CASE pn = ConsolePage -> <<"C", 0>>
             [] pn \in Reserved \ {ConsolePage} -> <<"R", 0>>
             [] pn \in Unallocatable \ Reserved -> <<"K", 0>>
             [] OTHER -> IF Owners(pn) = {} THEN <<".", 0>>
                         ELSE IF Owners(pn) = {0} THEN <<"K", 0>>
                         ELSE <<"pid", CHOOSE p \in Owners(pn) : TRUE>>
=============================================================================
