------------------------------- MODULE VmIter -------------------------------
(***************************************************************************)
(* The page table iterators of WeensyOS (src/pset3/k-vmiter.cc and .hh):   *)
(* vmiter, which looks up and changes the mapping of virtual addresses and *)
(* keeps its place in the four-level page table between calls, and ptiter, *)
(* which visits the pages of a page table so that they can be freed.       *)
(*                                                                         *)
(* Widths are constants; a page table page is a number, an entry a record. *)
(* `a >> l`, `a | mask(l)` and the like are written with \div and %.       *)
(***************************************************************************)
EXTENDS Integers, FiniteSets, FiniteSetsExt

CONSTANTS
  PAGEOFFBITS,   \* bits of the offset in a page (12)
  PAGEINDEXBITS, \* bits of the index in a page table page (9)
  WORDBITS,      \* bits of an address (64)
  NPAGES,        \* page table pages kalloc() has
  Vas,           \* addresses to look for, and to map
  Frames,        \* physical addresses to map
  PermArgs,      \* permissions to map with
  Spans          \* sizes to ask range_perm() for

PAGESIZE == 2 ^ PAGEOFFBITS
VABITS == PAGEOFFBITS + 4 * PAGEINDEXBITS
VA_LOWMAX == 2 ^ (VABITS - 1) - 1
VA_HIGHMIN == 2 ^ WORDBITS - 2 ^ (VABITS - 1)
Addresses == 0 .. 2 ^ WORDBITS - 1
va_is_canonical(va) == va <= VA_LOWMAX \/ va >= VA_HIGHMIN

initial_lbits == PAGEOFFBITS + 3 * PAGEINDEXBITS
noncanonical_lbits == VABITS - 1
done_lbits == WORDBITS
Lbits == {PAGEOFFBITS + k * PAGEINDEXBITS : k \in 0 .. 3}

ASSUME WidthAssumption ==
  /\ PAGEOFFBITS \in Nat \ {0} /\ PAGEINDEXBITS \in Nat \ {0, 1} /\ NPAGES \in Nat
  /\ WORDBITS \in Nat /\ WORDBITS > VABITS
  /\ Vas \subseteq Addresses /\ Spans \subseteq Addresses
  /\ Frames \subseteq Nat /\ \A pa \in Frames : pa % PAGESIZE = 0
  /\ \A p \in PermArgs : p \subseteq {"P", "W", "U"}

\* What the provers are to know of powers of two.
ASSUME PowerAssumption ==
  /\ 2 ^ 1 = 2
  /\ \A k \in 0 .. WORDBITS : 2 ^ k \in Nat \ {0}
  /\ \A j, k \in 0 .. WORDBITS : j + k <= WORDBITS => 2 ^ (j + k) = 2 ^ j * 2 ^ k

Flags == {"P", "W", "U", "PS"}
Empty == [perm |-> {}, pa |-> 0]
ROOT == 0
zero_pe == <<-1, 0>>

VARIABLES
  mem,   \* the page table pages: number -> index -> entry
  it,    \* a vmiter
  args,  \* the arguments of the try_map() in progress
  op,    \* "idle", "map" in try_map(), "free" once a ptiter frees the table
  pit,   \* a ptiter, with the local variables of down()
  freed  \* the page table pages it has visited, each of which is freed

vars == <<mem, it, args, op, pit, freed>>
Used == DOMAIN mem

Index(va, l) == (va \div 2 ^ l) % (2 ^ PAGEINDEXBITS)
\* (va | mask(l)) + 1
EndOf(va, l) == ((va \div 2 ^ l + 1) * 2 ^ l) % (2 ^ WORDBITS)
Entry(pep) == IF pep = zero_pe THEN Empty ELSE mem[pep[1]][pep[2]]
\* The entry leads to another page table page.
Leads(e) == e.perm \cap {"P", "PS"} = {"P"}

(***************************************************************************)
(* vmiter.                                                                 *)
(***************************************************************************)
DownOne(i) ==
  LET e == Entry(i.pep)
      l == i.lbits - PAGEINDEXBITS
  IN  IF i.lbits > PAGEOFFBITS /\ Leads(e)
      THEN [i EXCEPT !.pep = <<e.pa, Index(i.va, l)>>, !.lbits = l,
                     !.perm = @ \cap (e.perm \cup {"PS"})]
      ELSE i
down(i) == DownOne(DownOne(DownOne(i)))

perm(i) ==
  LET ph == Entry(i.pep).perm \cap i.perm IN IF "P" \in ph THEN ph ELSE {}
pa(i) ==
  LET e == Entry(i.pep)
  IN  IF "P" \in e.perm THEN e.pa + (i.va % (2 ^ i.lbits)) ELSE -1
last_va(i) ==
  IF i.lbits = noncanonical_lbits THEN VA_HIGHMIN ELSE EndOf(i.va, i.lbits)
range_size(i) == (last_va(i) - i.va) % (2 ^ WORDBITS)
done(i) == i.lbits = done_lbits

\* Mutant of SameTable: entries of the neighbouring page table page too.
SameTableWide(i, va) ==
  /\ i.lbits < initial_lbits
  /\ va \div 2 ^ (i.lbits + PAGEINDEXBITS + 1) = i.va \div 2 ^ (i.lbits + PAGEINDEXBITS + 1)

\* The address is in the page table page where the iterator is.
SameTable(i, va) ==
  /\ i.lbits < initial_lbits
  /\ va \div 2 ^ (i.lbits + PAGEINDEXBITS) = i.va \div 2 ^ (i.lbits + PAGEINDEXBITS)

find_impl(i, va, stepping) ==
  IF stepping /\ va = 0
  THEN [pep |-> zero_pe, lbits |-> done_lbits, perm |-> {}, va |-> va]
  ELSE IF SameTable(i, va)
  THEN down([i EXCEPT !.pep = <<@[1], Index(va, i.lbits)>>, !.va = va])
  ELSE IF ~va_is_canonical(va)
  THEN [pep |-> zero_pe, lbits |-> noncanonical_lbits, perm |-> {}, va |-> va]
  ELSE down([pep |-> <<ROOT, Index(va, initial_lbits)>>, lbits |-> initial_lbits,
             perm |-> Flags, va |-> va])

vmiter(va) ==
  find_impl([pep |-> <<ROOT, 0>>, lbits |-> initial_lbits, perm |-> Flags, va |-> 0],
            va, FALSE)
find(i, va) == IF va # i.va THEN find_impl(i, va, FALSE) ELSE i

\* Mutant of SkipBits: the region of the entry is skipped, mapped or not.
SkipBitsAny(i) == i.lbits

\* How much next() steps over.
SkipBits(i) == IF i.lbits > PAGEOFFBITS /\ perm(i) = {} THEN i.lbits ELSE PAGEOFFBITS

next(i) == find_impl(i, EndOf(i.va, SkipBits(i)), TRUE)
next_range(i) == find_impl(i, last_va(i), TRUE)

\* One iteration of range_perm_impl()'s loop, over what is left of the range;
\* at the end of the address space the size of the range is of no account.
Narrow(s) ==
  IF s.p = {} \/ s.sz = 0 THEN s
  ELSE [p |-> IF s.i.va = 0 THEN {} ELSE s.p \cap perm(s.i),
        sz |-> IF done(s.i) THEN 0 ELSE s.sz - Min({s.sz, range_size(s.i)}),
        i |-> IF done(s.i) THEN s.i ELSE next_range(s.i)]

\* Mutant of Covered: the rest of the range is taken to start at its start.
CoveredNone(i, sz) == 0

\* How much of the range the iterator's own entry covers.
Covered(i, sz) == range_size(i)

range_perm(i, sz) ==
  LET p == IF sz > 0 THEN perm(i) ELSE Flags
      steps == 2 ^ (WORDBITS - PAGEOFFBITS)
      after[n \in 0 .. steps] ==
        IF n = 0 THEN [p |-> p, sz |-> sz - Covered(i, sz), i |-> next_range(i)]
                 ELSE Narrow(after[n - 1])
  IN  IF p = {} \/ sz <= range_size(i) THEN p ELSE after[sz \div PAGESIZE + 1].p

(***************************************************************************)
(* The system: a kernel that moves one vmiter about and maps pages through *)
(* it, and at last walks the page table with a ptiter to free it.          *)
(***************************************************************************)
NoArgs == [pa |-> 0, perm |-> {}]
NoPtiter == [pep |-> <<ROOT, 0>>, lbits |-> initial_lbits, va |-> 0,
             stop_lbits |-> PAGEOFFBITS + PAGEINDEXBITS, skip |-> FALSE, at |-> "loop"]
Page == [0 .. 2 ^ PAGEINDEXBITS - 1 -> {Empty}]
Zeroed == CHOOSE p \in Page : TRUE

\* A page table without mappings, or one with a large page at address 0.
Large ==
  LET To(n) == [perm |-> {"P", "W", "U"}, pa |-> n]
      Leaf == [perm |-> {"P", "W", "PS"}, pa |-> 0]
  IN  [n \in 0 .. 2 |-> [Zeroed EXCEPT ![0] = IF n = 2 THEN Leaf ELSE To(n + 1)]]

Init ==
  /\ mem \in {[n \in {ROOT} |-> Zeroed], Large}
  /\ it = vmiter(0)
  /\ args = NoArgs
  /\ op = "idle"
  /\ pit = NoPtiter
  /\ freed = {}

Move(i) ==
  /\ op = "idle"
  /\ it' = i
  /\ UNCHANGED <<mem, args, op, pit, freed>>

\* vmiter::find(), and the operators that call it.
Find == \E va \in Vas : Move(find(it, va))
\* The constructor.
Construct == \E va \in Vas : Move(vmiter(va))
Next1 == ~done(it) /\ Move(next(it))
NextRange == ~done(it) /\ Move(next_range(it))

\* vmiter::try_map() is called, by a caller that keeps to its assertions, and
\* gives -1 for the physical address when it takes a mapping away.
TryMap ==
  /\ op = "idle"
  /\ it.va \in Vas /\ it.va % PAGESIZE = 0
  /\ \E a \in Frames, p \in PermArgs :
       /\ p \subseteq it.perm
       /\ it.lbits > PAGEOFFBITS /\ p # {} => "P" \notin Entry(it.pep).perm
       /\ args' = [pa |-> IF p = {} THEN 0 ELSE a, perm |-> p]
  /\ op' = "map"
  /\ UNCHANGED <<mem, it, pit, freed>>

Missing == it.lbits > PAGEOFFBITS /\ args.perm # {}

\* Mutant of NewPage: the page is not cleared.
NewPageDirty == [Zeroed EXCEPT ![0] = [perm |-> {"P"}, pa |-> ROOT]]

\* A page fresh from kalloc(), after memset().
NewPage == Zeroed

\* One iteration of its loop: the next page table page, into which down()
\* goes, and no further, because it is empty.
MapLevel ==
  /\ op = "map" /\ Missing
  /\ Cardinality(Used) <= NPAGES
  /\ LET n == Cardinality(Used)
     IN  mem' = [m \in Used \cup {n} |->
                   IF m = n THEN NewPage
                   ELSE IF m = it.pep[1]
                   THEN [mem[m] EXCEPT ![it.pep[2]] = [perm |-> {"P", "W", "U"}, pa |-> n]]
                   ELSE mem[m]]
  /\ it' = [it EXCEPT !.pep = <<Cardinality(Used), Index(it.va, it.lbits - PAGEINDEXBITS)>>,
                      !.lbits = @ - PAGEINDEXBITS]
  /\ UNCHANGED <<args, op, pit, freed>>

\* kalloc() has no page: -1.
MapFails ==
  /\ op = "map" /\ Missing
  /\ Cardinality(Used) > NPAGES
  /\ op' = "idle" /\ args' = NoArgs
  /\ UNCHANGED <<mem, it, pit, freed>>

\* The entry is set, unless there is none and nothing to map.
MapEntry ==
  /\ op = "map" /\ ~Missing
  /\ mem' = IF it.lbits = PAGEOFFBITS
            THEN [mem EXCEPT ![it.pep[1]][it.pep[2]] = args]
            ELSE mem
  /\ op' = "idle" /\ args' = NoArgs
  /\ UNCHANGED <<it, pit, freed>>

(***************************************************************************)
(* ptiter.                                                                 *)
(***************************************************************************)
PtStart ==
  /\ op = "idle"
  /\ op' = "free"
  /\ it' = vmiter(0)
  /\ UNCHANGED <<mem, args, pit, freed>>

Descends == ~pit.skip /\ Leads(Entry(pit.pep))
InLoop == op = "free" /\ pit.at = "loop"

\* Mutant of Stops: every page is visited on the way down.
StopsAny == TRUE

\* The entry is at the level to stop at.
Stops == pit.lbits = pit.stop_lbits

\* ptiter::down() stops at an entry that leads to a page it has not visited.
PtStop ==
  /\ InLoop /\ Descends /\ Stops
  /\ pit' = [pit EXCEPT !.at = "visit"]
  /\ UNCHANGED <<mem, it, args, op, freed>>

PtDown ==
  LET l == pit.lbits - PAGEINDEXBITS
  IN  /\ InLoop /\ Descends /\ ~Stops
      /\ pit' = [pit EXCEPT !.lbits = l,
                            !.pep = <<Entry(pit.pep).pa, Index(pit.va, l)>>]
      /\ UNCHANGED <<mem, it, args, op, freed>>

\* Mutant of StopAbove: the page is visited again.
StopAboveHere(l) == l

\* Where to stop after the last entry of a page: at the entry that leads to it.
StopAbove(l) == l + PAGEINDEXBITS

\* Mutant of LeavesPage: it looks one level too high.
LeavesPageLate(va) ==
  va \div 2 ^ (pit.lbits + 2 * PAGEINDEXBITS) # pit.va \div 2 ^ (pit.lbits + 2 * PAGEINDEXBITS)

\* The next address is in another page table page.
LeavesPage(va) ==
  va \div 2 ^ (pit.lbits + PAGEINDEXBITS) # pit.va \div 2 ^ (pit.lbits + PAGEINDEXBITS)

PtSkip ==
  LET va == EndOf(pit.va, pit.lbits)
      up == LeavesPage(va)
  IN  /\ InLoop /\ ~Descends
      /\ pit' =
           IF up /\ va = 0 /\ pit.lbits = initial_lbits
           THEN [pit EXCEPT !.lbits = done_lbits, !.at = "done"]
           ELSE IF up
           THEN [pit EXCEPT !.stop_lbits = StopAbove(pit.lbits), !.lbits = initial_lbits,
                            !.pep = <<ROOT, Index(pit.va, initial_lbits)>>, !.skip = FALSE]
           ELSE [pit EXCEPT !.pep = <<@[1], @[2] + 1>>, !.skip = FALSE,
                            !.va = IF va_is_canonical(va) THEN va ELSE VA_HIGHMIN]
      /\ UNCHANGED <<mem, it, args, op, freed>>

\* The kernel frees the page the ptiter is at, and calls next().
PtNext ==
  /\ op = "free" /\ pit.at = "visit"
  /\ freed' = freed \cup {Entry(pit.pep).pa}
  /\ pit' = [pit EXCEPT !.skip = TRUE, !.stop_lbits = PAGEOFFBITS + PAGEINDEXBITS,
                        !.at = "loop"]
  /\ UNCHANGED <<mem, it, args, op>>

Done == op = "free" /\ pit.at = "done" /\ UNCHANGED vars

Next ==
  \/ Find \/ Construct \/ Next1 \/ NextRange
  \/ TryMap \/ MapLevel \/ MapFails \/ MapEntry
  \/ PtStart \/ PtStop \/ PtDown \/ PtSkip \/ PtNext \/ Done

\* The ptiter's loop goes on.
Spec == Init /\ [][Next]_vars /\ WF_vars(PtStop \/ PtDown \/ PtSkip \/ PtNext)

-----------------------------------------------------------------------------
(***************************************************************************)
(* What the processor makes of the page table: the entries it reads for an *)
(* address, from the root's on.                                            *)
(***************************************************************************)
Path(va) ==
  LET l(k) == initial_lbits - k * PAGEINDEXBITS
      entry[k \in 0 .. 3] ==
        IF k = 0 THEN mem[ROOT][Index(va, initial_lbits)]
        ELSE IF "none" \notin entry[k - 1].perm /\ Leads(entry[k - 1])
        THEN mem[entry[k - 1].pa][Index(va, l(k))]
        ELSE [perm |-> {"none"}, pa |-> 0]
  IN  entry

Depth(va) == Max({k \in 0 .. 3 : "none" \notin Path(va)[k].perm})

Translation(va) ==
  LET e == Path(va)
      d == Depth(va)
      l == initial_lbits - d * PAGEINDEXBITS
      allowed == {q \in {"P", "W", "U"} : \A k \in 0 .. d : q \in e[k].perm}
  IN  IF va_is_canonical(va) /\ "P" \in allowed
      THEN [perm |-> allowed, pa |-> e[d].pa + (va % (2 ^ l))]
      ELSE [perm |-> {}, pa |-> -1]

PageAddresses == {va \in Addresses : va % PAGESIZE = 0 /\ va_is_canonical(va)}

\* Iterators point at entries that exist, at the level they say.
TypeOK ==
  /\ \A m \in Used, x \in 0 .. 2 ^ PAGEINDEXBITS - 1 :
       mem[m][x].perm \subseteq Flags /\ (Leads(mem[m][x]) => mem[m][x].pa \in Nat)
  /\ it.va \in Addresses /\ it.perm \subseteq Flags
  /\ it.lbits \in Lbits \cup {noncanonical_lbits, done_lbits}
  /\ it.pep = zero_pe <=> it.lbits \notin Lbits
  /\ it.pep # zero_pe => it.pep[1] \in Used /\ it.pep[2] = Index(it.va, it.lbits)
  /\ op \in {"idle", "map", "free"}
  /\ pit.lbits \in Lbits \cup {done_lbits}
  /\ pit.pep[1] \in Used /\ pit.pep[2] \in 0 .. 2 ^ PAGEINDEXBITS - 1
  /\ freed \subseteq Used

\* After any sequence of moves, and in the middle of a try_map() too, a
\* vmiter that is not done says of its address what the processor would find:
\* find_impl() may keep its place and permissions only while they are right.
IteratorRight ==
  ~done(it) =>
    /\ perm(it) \cap {"P", "W", "U"} = Translation(it.va).perm
    /\ pa(it) = Translation(it.va).pa

\* "Return intersection of permissions in [this->va(), this->va() + sz)", and
\* none for a range that ends beyond the address space.
RangePermRight ==
  op = "idle" /\ ~done(it) =>
    \A sz \in Spans :
      LET range == it.va .. it.va + sz - 1
      IN  range_perm(it, sz) \cap {"P", "W", "U"} =
            IF range \subseteq Addresses
            THEN {q \in {"P", "W", "U"} : \A va \in range : q \in Translation(va).perm}
            ELSE {}

\* "Move to next larger page-aligned virtual address, skipping large
\* non-present regions": next() and next_range() pass by no mapped page, and
\* the loop over a page table ends.
Between(va) ==
  {v \in PageAddresses : v > it.va /\ (v < va \/ va = 0)}
NextSkipsNothing ==
  op = "idle" /\ ~done(it) =>
    /\ \A v \in Between(next(it).va) : Translation(v).perm = {}
    /\ next(it).va > it.va \/ done(next(it))
    /\ next_range(it).va > it.va \/ done(next_range(it))

\* try_map() changes the mapping of its page and no other, whatever page
\* table pages it adds, and if it fails "without modifying any mappings".
MapsOnlyItsPage ==
  [][mem' = mem \/ \A va \in PageAddresses :
       \/ Translation(va)' = Translation(va)
       \/ op = "map" /\ op' = "idle" /\ va = it.va
            /\ Translation(va)' = IF "P" \in args.perm
                                  THEN args ELSE [perm |-> {}, pa |-> -1]]_vars

\* A kernel that frees each page as the ptiter comes to it frees no page
\* twice, and the ptiter never reads a page that has been freed.
NoUseAfterFree ==
  op = "free" =>
    /\ pit.at = "visit" => Entry(pit.pep).pa \notin freed \cup {ROOT}
    /\ pit.at = "loop" /\ ~pit.skip => pit.pep[1] \notin freed

\* The walk ends, and then every page but the root has been visited.
AllPagesVisited ==
  op = "free" ~> pit.at = "done" /\ freed = Used \ {ROOT}

\* What a vmiter says of its address and of the pages behind it, and where next()
\* and next_range() go, is what the processor finds, after any moves and mappings.
IteratorAgrees == TypeOK /\ IteratorRight /\ RangePermRight /\ NextSkipsNothing
=============================================================================
