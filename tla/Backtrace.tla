----------------------------- MODULE Backtrace ------------------------------
(***************************************************************************)
(* The backtrace that the kernel prints when it panics (k-hardware.cc): a  *)
(* walk along frame pointers of a stack that may hold anything, and the    *)
(* search for symbols.  A word of memory is WORD addresses long.  What the *)
(* walk reads is chosen when it is read, so that the stack is arbitrary.   *)
(***************************************************************************)
EXTENDS CLib

CONSTANTS
  PAGESIZE, WORD,
  VA_LOWMAX, VA_HIGHMIN,  \* end of the user's addresses, start of the kernel's
  Addresses,              \* values of registers and of words on the stack
  PresentPages,           \* the sets of pages that may be present
  Far, Near,              \* how far rip may be from a return address and from the
                          \* start of its function
  CallBefore              \* return addresses after a call, and the function called, for
                          \* functions that do not start with push %rbp

ASSUME BacktraceAssumption ==
  /\ PAGESIZE \in Nat \ {0} /\ WORD \in Nat \ {0} /\ PAGESIZE % (2 * WORD) = 0
  /\ {VA_LOWMAX, VA_HIGHMIN} \subseteq Nat /\ VA_LOWMAX + PAGESIZE <= VA_HIGHMIN
  /\ Addresses \subseteq 0 .. ULONG_MAX

VARIABLES
  bt,       \* the backtracer
  rip,      \* reg_rip of the registers it starts from
  hasTable, \* whether there is a page table
  present,  \* pages present in it
  frame,    \* frames printed
  touched,  \* addresses of the words read
  warned,   \* a stack overflow was reported
  bpc       \* "start", "print", "walk", "done"

btVars == <<bt, rip, hasTable, present, frame, touched, warned, bpc>>

BtInit ==
  /\ bt \in [rbp : Addresses, rsp : Addresses, stack_top : {0}, leaf : {FALSE}]
  /\ rip \in {0} \cup {c[2] + 1 : c \in CallBefore}
  /\ hasTable \in BOOLEAN /\ present \in PresentPages
  /\ frame = 0 /\ touched = {} /\ warned = FALSE /\ bpc = "start"

\* vmiter::range_perm()
Accessible(va, n) ==
  hasTable /\ \A a \in va .. va + n - 1 : round_down(a, PAGESIZE) \in present

\* backtracer::check(), and what its callers do when it fails.  A step from the
\* kernel's stack to the user's is allowed.
Leaves(b) == b.stack_top >= VA_HIGHMIN /\ b.rbp < VA_LOWMAX
\* Mutant of Climbs: the walk may go to a frame it has seen.
ClimbsOrStays(b) == Leaves(b) \/ b.rbp + 2 * WORD >= b.rsp
Climbs(b) == Leaves(b) \/ b.rbp >= b.rsp
Checked(b) ==
  LET top == IF Leaves(b) THEN round_up(b.rbp, PAGESIZE) ELSE b.stack_top
  IN IF /\ b.rbp % WORD = 0 /\ Accessible(b.rbp, 2 * WORD)
        /\ Climbs(b) /\ top >= b.rbp /\ top - b.rbp >= 2 * WORD
     THEN [b EXCEPT !.stack_top = top]
     ELSE [b EXCEPT !.rbp = 0, !.rsp = 0]

\* backtracer::check_leaf(): the word at rsp is the address after a call of the
\* function that rip is in, which does not push rbp first.
MayReadTop(b) ==
  /\ b.stack_top >= b.rsp /\ b.stack_top - b.rsp >= WORD
  /\ b.rsp % WORD = 0 /\ Accessible(b.rsp, WORD)
Signed(x) == IF x > Bound(FALSE) THEN x - 2 ^ LONG_BITS ELSE x
IsLeaf(b, retaddr) ==
  /\ Signed(Word(retaddr - rip)) <= Far
  /\ ~(retaddr >= b.stack_top - PAGESIZE /\ retaddr <= b.stack_top)
  /\ \E c \in CallBefore : c[1] = retaddr /\ c[2] <= rip /\ rip - c[2] <= Near

\* The constructor.
Start ==
  LET b == [bt EXCEPT !.stack_top = round_up(bt.rsp, PAGESIZE)] IN
  /\ bpc = "start" /\ bpc' = "print"
  /\ \/ /\ ~MayReadTop(b)
        /\ bt' = Checked(b) /\ UNCHANGED touched
     \/ /\ MayReadTop(b) /\ touched' = {b.rsp}
        /\ \E retaddr \in Addresses \cup {c[1] : c \in CallBefore} :
             bt' = IF IsLeaf(b, retaddr) THEN [b EXCEPT !.leaf = TRUE] ELSE Checked(b)
  /\ UNCHANGED <<rip, hasTable, present, frame, warned>>

\* print_backtrace() up to its loop.
Warn ==
  /\ bpc = "print" /\ bpc' = "walk"
  /\ warned' = (bt.rsp # bt.rbp /\ round_up(bt.rsp, PAGESIZE) = round_down(bt.rbp, PAGESIZE))
  /\ UNCHANGED <<bt, rip, hasTable, present, frame, touched>>

\* A round of the loop: ret_rip() and step().
Walk ==
  /\ bpc = "walk" /\ bt.rsp # 0
  /\ frame' = frame + 1
  /\ \/ /\ bt.leaf /\ touched' = touched \cup {bt.rsp}
        /\ bt' = Checked([bt EXCEPT !.leaf = FALSE])
     \/ /\ ~bt.leaf /\ touched' = touched \cup {bt.rbp, bt.rbp + WORD}
        /\ \E saved \in Addresses :
             bt' = Checked([bt EXCEPT !.rsp = bt.rbp + 2 * WORD, !.rbp = saved])
  /\ UNCHANGED <<rip, hasTable, present, warned, bpc>>

Done ==
  /\ bpc = "walk" /\ bt.rsp = 0 /\ bpc' = "done"
  /\ UNCHANGED <<bt, rip, hasTable, present, frame, touched, warned>>

BtNext == Start \/ Warn \/ Walk \/ Done

BtSpec == BtInit /\ [][BtNext]_btVars

-----------------------------------------------------------------------------
(* lookup_symbol() in a table of records, sorted by value.  (The symbol    *)
(* found is its index; 0 is none.)                                         *)

\* The symbol's own addresses: up to the next symbol, or a page for the last one,
\* and within its size if it has one.
Covers(symtab, m, addr) ==
  /\ symtab[m].st_value <= addr
  /\ addr < IF m = Len(symtab) THEN symtab[m].st_value + PAGESIZE ELSE symtab[m + 1].st_value
  /\ symtab[m].st_size = 0 \/ addr <= symtab[m].st_value + symtab[m].st_size

\* The end of the left half.
\* Mutant of LeftEnd: as if the end were included.
LeftEndIn(m) == IF m > 0 THEN m - 1 ELSE 0
LeftEnd(m) == m
lookup_symbol(symtab, addr) ==
  LET search[l \in 0 .. Len(symtab), r \in 0 .. Len(symtab)] ==
        LET m == l + ((r - l) \div 2) IN
        IF l >= r THEN 0
        ELSE IF Covers(symtab, m + 1, addr)
        THEN (IF symtab[m + 1].st_value = 0 THEN 0 ELSE m + 1)
        ELSE IF symtab[m + 1].st_value < addr THEN search[m + 1, r] ELSE search[l, LeftEnd(m)]
  IN search[0, Len(symtab)]

-----------------------------------------------------------------------------
(* Properties.                                                             *)

\* Whatever the stack holds, the walk reads only memory that is there, and it ends:
\* it prints no more frames than fit on a page of the kernel's stack and on one of
\* the user's, and one for a leaf.
BacktraceSafe ==
  /\ \A a \in touched : a % WORD = 0 /\ Accessible(a, WORD)
  /\ frame <= 1 + 2 * (PAGESIZE \div (2 * WORD))

\* The symbol whose addresses include this one is found, if values are distinct.
LookupRight(symtab, addr) ==
  (\A i, j \in DOMAIN symtab : i < j => symtab[i].st_value < symtab[j].st_value) =>
    LET S == {i \in DOMAIN symtab : Covers(symtab, i, addr) /\ symtab[i].st_value # 0}
    IN lookup_symbol(symtab, addr) = IF S = {} THEN 0 ELSE Max(S)
=============================================================================
