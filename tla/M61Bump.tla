------------------------------ MODULE M61Bump -------------------------------
(***************************************************************************)
(* The allocators of pset1b that hand out an 8 MiB buffer from its start   *)
(* upwards: m61-section.cc (and m61-once.cc) never frees, m61-lastalloc.cc *)
(* takes back the latest allocation, m61-reuseempty.cc starts over when    *)
(* nothing is live, m61-staff.cc keeps a table of active allocations.      *)
(* Pointers are offsets from the start of the buffer, NULL is nullptr.     *)
(***************************************************************************)
EXTENDS Integers, FiniteSets, Functions, HeldBytes

CONSTANTS
  Slots,      \* the places where the program keeps its pointers
  Sizes,      \* sizes it asks for
  SIZE,       \* bytes in the buffer (8 << 20)
  Variants,   \* allocators under test
  MAX_COUNT   \* bound on gs.total_count

ASSUME SlotsAssumption == IsFiniteSet(Slots)
ASSUME SizeAssumption ==
  /\ SIZE \in Nat /\ Sizes \subseteq Nat /\ MAX_COUNT \in Nat
  /\ Variants \subseteq {"section", "lastalloc", "reuseempty", "staff"}

VARIABLES
  variant,        \* which allocator this is
  buffer,         \* first byte not handed out, NULL before the first call
  last_allocation,\* m61-lastalloc.cc: the latest allocation or NULL
  active_allocs,  \* m61-staff.cc: size of each active allocation, by pointer
  gs,             \* the statistics
  live,           \* the program's allocations: live[i].ptr = NULL if none
  aborted,        \* "invalid free"
  misused         \* whether the program has freed what it did not own

vars == <<variant, buffer, last_allocation, active_allocs, gs, live, aborted, misused>>

NULL == -1
Empty == [ptr |-> NULL, sz |-> 0]
NoStats == [total_count |-> 0, total_bytes |-> 0, active_count |-> 0, active_bytes |-> 0]
NoAllocs == [p \in {} |-> 0]

Init ==
  /\ variant \in Variants
  /\ buffer = NULL /\ last_allocation = NULL /\ active_allocs = NoAllocs
  /\ gs = NoStats
  /\ live = [i \in Slots |-> Empty]
  /\ aborted = FALSE /\ misused = FALSE

\* buffer when m61_malloc() has made sure that there is one.
Buffer == IF buffer = NULL THEN 0 ELSE buffer

\* The allocators that count.
Counting == variant \in {"reuseempty", "staff"}

Counted(sz) ==
  [gs EXCEPT !.total_count = @ + 1, !.total_bytes = @ + sz,
             !.active_count = @ + 1, !.active_bytes = @ + sz]

\* std::map::insert(): nothing happens if the key is there already.
\* Mutant of Inserted: the end of the allocation is recorded, not its size.
InsertedEnd(p, sz) ==
  IF p \in DOMAIN active_allocs THEN active_allocs
  ELSE [q \in DOMAIN active_allocs \cup {p} |->
          IF q = p THEN p + sz ELSE active_allocs[q]]
Inserted(p, sz) ==
  IF p \in DOMAIN active_allocs THEN active_allocs
  ELSE [q \in DOMAIN active_allocs \cup {p} |->
          IF q = p THEN sz ELSE active_allocs[q]]

\* Whether sz bytes are left.
\* Mutant of Fits: off by one.
FitsOver(sz) == sz <= SIZE - Buffer + 1
Fits(sz) == sz <= SIZE - Buffer

\* m61_malloc(sz) of all four allocators, into slot i.
Malloc(i, sz) ==
  /\ ~aborted
  /\ live[i] = Empty
  /\ gs.total_count < MAX_COUNT
  /\ IF Fits(sz)
     THEN /\ live' = [live EXCEPT ![i] = [ptr |-> Buffer, sz |-> sz]]
          /\ buffer' = Buffer + sz
          /\ last_allocation' = IF variant = "lastalloc" THEN Buffer ELSE NULL
          /\ gs' = IF Counting THEN Counted(sz) ELSE gs
          /\ active_allocs' = IF variant = "staff" THEN Inserted(Buffer, sz)
                              ELSE active_allocs
     ELSE /\ buffer' = Buffer
          /\ UNCHANGED <<live, last_allocation, gs, active_allocs>>
  /\ UNCHANGED <<variant, aborted, misused>>

\* m61_free() of m61-section.cc
FreeNothing(i) ==
  /\ variant = "section"
  /\ live[i] # Empty
  /\ live' = [live EXCEPT ![i] = Empty]
  /\ UNCHANGED <<variant, buffer, last_allocation, active_allocs, gs, aborted, misused>>

\* Whether m61-lastalloc.cc can take p back.
\* Mutant of IsLast: it takes back whatever is freed while there is a latest.
IsLastAny(p) == last_allocation # NULL
IsLast(p) == p = last_allocation

\* m61_free() of m61-lastalloc.cc
FreeLast(i) ==
  /\ variant = "lastalloc"
  /\ live[i] # Empty
  /\ live' = [live EXCEPT ![i] = Empty]
  /\ IF IsLast(live[i].ptr)
     THEN buffer' = last_allocation /\ last_allocation' = NULL
     ELSE UNCHANGED <<buffer, last_allocation>>
  /\ UNCHANGED <<variant, active_allocs, gs, aborted, misused>>

\* When m61-reuseempty.cc starts over: active_count after the decrement.
\* Mutants of NowEmpty: the count before the decrement; one allocation too early.
NowEmptyOld(n) == n + 1 = 0
NowEmptyEarly(n) == n <= 1
NowEmpty(n) == n = 0

\* m61_free() of m61-reuseempty.cc
FreeCount(i) ==
  /\ variant = "reuseempty"
  /\ live[i] # Empty
  /\ live' = [live EXCEPT ![i] = Empty]
  /\ LET n == gs.active_count - 1 IN
     IF NowEmpty(n)
     THEN /\ buffer' = 0
          /\ gs' = [gs EXCEPT !.active_count = n, !.active_bytes = 0]
     ELSE /\ gs' = [gs EXCEPT !.active_count = n]
          /\ UNCHANGED buffer
  /\ UNCHANGED <<variant, last_allocation, active_allocs, aborted, misused>>

\* active_allocs without p.
\* Mutant of Erased: the allocation stays in the table.
NotErased(p) == active_allocs
Erased(p) == Restrict(active_allocs, DOMAIN active_allocs \ {p})

\* m61_free(p) of m61-staff.cc
FreeActive(p) ==
  /\ variant = "staff" /\ ~aborted
  /\ IF p \notin DOMAIN active_allocs
     THEN aborted' = TRUE /\ UNCHANGED <<gs, active_allocs>>
     ELSE /\ gs' = [gs EXCEPT !.active_count = @ - 1,
                              !.active_bytes = @ - active_allocs[p]]
          /\ active_allocs' = Erased(p)
          /\ UNCHANGED aborted
  /\ UNCHANGED <<variant, buffer, last_allocation>>

\* The program frees the allocation in slot i.
FreeStaff(i) ==
  /\ live[i] # Empty
  /\ FreeActive(live[i].ptr)
  /\ live' = [live EXCEPT ![i] = Empty]
  /\ UNCHANGED misused

\* The program frees a pointer that is not one of its allocations.
Misuse(p) ==
  /\ \A i \in Slots : live[i].ptr # p
  /\ FreeActive(p)
  /\ misused' = TRUE
  /\ UNCHANGED live

Next ==
  \/ \E i \in Slots : \/ \E sz \in Sizes : Malloc(i, sz)
                      \/ FreeNothing(i) \/ FreeLast(i) \/ FreeCount(i) \/ FreeStaff(i)
  \/ \E p \in 0 .. SIZE : Misuse(p)

Spec == Init /\ [][Next]_vars

-----------------------------------------------------------------------------
(* Properties.                                                             *)

TypeOK ==
  /\ variant \in Variants
  /\ buffer \in NULL .. SIZE
  /\ last_allocation \in NULL .. SIZE
  /\ live \in [Slots -> [ptr : NULL .. SIZE, sz : Sizes \cup {0}]]
  /\ DOMAIN active_allocs \subseteq 0 .. SIZE
  /\ \A p \in DOMAIN active_allocs : active_allocs[p] \in Nat
  /\ gs \in [total_count : Nat, total_bytes : Nat,
             active_count : Int, active_bytes : Int]
  /\ aborted \in BOOLEAN /\ misused \in BOOLEAN

Active == {i \in Slots : live[i] # Empty}
ActiveBytes == Cardinality(Held(live))

\* Whatever is allocated and freed in whatever order, live allocations are
\* disjoint ranges of the buffer and stay where they are: m61_malloc() and
\* m61_free() implement Malloc61.
Contract == INSTANCE Malloc61
ImplementsMalloc61 == Contract!Spec

\* "number of active allocations", "number of bytes currently allocated"
\* (m61.hh): through any order of frees the statistics of m61-staff.cc agree
\* with what the program holds; those of m61-reuseempty.cc do in the count, and
\* in the bytes once everything has been freed.
StatisticsRight ==
  Counting /\ ~misused =>
    /\ gs.active_count = Cardinality(Active)
    /\ variant = "staff" \/ Active = {} => gs.active_bytes = ActiveBytes

\* m61-staff.cc aborts on the first free of something that is not an active
\* allocation, however it was reached, and never on the free of one that is.
AbortsOnMisuse == aborted = misused

\* With nothing live the whole buffer of m61-reuseempty.cc is free again, and
\* what m61-lastalloc.cc could take back is the end of what it has handed out:
\* nothing live lies behind it.
SpaceComesBack ==
  /\ variant = "reuseempty" /\ Active = {} => Buffer = 0
  /\ variant = "lastalloc" /\ last_allocation # NULL =>
       \A i \in Active : live[i].ptr <= last_allocation

\* torture/03-distinct.cc: "Check that active allocations do not overlap".
NoOverlap ==
  \A i, j \in Active :
    i # j => Contract!Bytes(live[i]) \cap Contract!Bytes(live[j]) = {}

\* The allocators' variables have their types, and m61_get_statistics() is right.
BooksRight == TypeOK /\ StatisticsRight
=============================================================================
