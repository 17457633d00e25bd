------------------------------ MODULE M61Derp -------------------------------
(***************************************************************************)
(* m61-derp.cc: all blocks of the buffer, allocated or free, in one        *)
(* std::map; m61_malloc() splits the first free block that is big enough,  *)
(* m61_free() marks a block free and never merges.  Pointers are offsets   *)
(* from the start of the buffer; a size_t is a number below WORD, so that  *)
(* a difference that is negative in the code wraps around here too.        *)
(***************************************************************************)
EXTENDS Integers, FiniteSets, FiniteSetsExt, HeldBytes

CONSTANTS
  Slots,      \* the places where the program keeps its pointers
  Sizes,      \* sizes it asks for
  SIZE,       \* bytes in the buffer (8 << 20)
  ALIGN,      \* 16
  WORD,       \* 2^64
  MAX_COUNT   \* bound on gs.total_count

ASSUME DerpAssumption ==
  /\ ALIGN \in Nat \ {0} /\ SIZE \in Nat /\ SIZE % ALIGN = 0
  /\ WORD \in Nat /\ WORD > SIZE + ALIGN /\ WORD % ALIGN = 0
  /\ Sizes \subseteq 0 .. WORD - 1 /\ IsFiniteSet(Slots)
  /\ MAX_COUNT \in Nat

VARIABLES
  blocks,     \* by first byte: size, the program's size and whether it is free
  gs,         \* active_count, active_bytes and (bounded here) total_count
  live,       \* the program's allocations: live[i].ptr = NULL if none
  aborted,    \* "", or the assertion that has failed
  misused     \* whether the program has freed what it did not own

vars == <<blocks, gs, live, aborted, misused>>

NULL == -1
Empty == [ptr |-> NULL, sz |-> 0]

Init ==
  /\ blocks = [p \in {} |-> 0]
  /\ gs = [total_count |-> 0, active_count |-> 0, active_bytes |-> 0]
  /\ live = [i \in Slots |-> Empty]
  /\ aborted = "" /\ misused = FALSE

\* The blocks when m61_malloc() has made sure that there are some.
Blocks ==
  IF DOMAIN blocks = {} THEN [p \in {0} |-> [bsz |-> SIZE, usz |-> 0, free |-> TRUE]]
  ELSE blocks

\* The free blocks that are big enough; the first one is taken.
\* Mutant of Candidates: the free flag is not looked at.
CandidatesAny(sz) == {p \in DOMAIN Blocks : Blocks[p].bsz >= sz}
Candidates(sz) == {p \in DOMAIN Blocks : Blocks[p].free /\ Blocks[p].bsz >= sz}

\* sz rounded up to a multiple of ALIGN, at least ALIGN: the code's sz | 15 is
\* sz - (sz % 16) + 15.
\* Mutants of Asz: sz is rounded down; a multiple is rounded up too.
AszDown(sz) == IF sz < ALIGN THEN ALIGN ELSE sz - (sz % ALIGN)
AszAlways(sz) == (sz - (sz % ALIGN) + ALIGN) % WORD
Asz(sz) ==
  IF sz # 0 /\ sz % ALIGN = 0 THEN sz ELSE (sz - (sz % ALIGN) + ALIGN) % WORD

\* The block at p split: sz bytes for the program, the rest a free block, whose
\* entry replaces any other that starts there.
Split(p, sz) ==
  LET next == p + Asz(sz) IN
  [q \in DOMAIN Blocks \cup {next} |->
     CASE q = p    -> [bsz |-> Asz(sz), usz |-> sz, free |-> FALSE]
       [] q = next -> [bsz |-> (Blocks[p].bsz - Asz(sz)) % WORD, usz |-> 0, free |-> TRUE]
       [] OTHER    -> Blocks[q]]

\* m61_malloc(sz), into slot i
Malloc(i, sz) ==
  /\ aborted = "" /\ live[i] = Empty /\ gs.total_count < MAX_COUNT
  /\ IF Candidates(sz) = {}
     THEN blocks' = Blocks /\ UNCHANGED <<gs, live>>
     ELSE LET p == Min(Candidates(sz)) IN
          /\ blocks' = Split(p, sz)
          /\ gs' = [total_count |-> gs.total_count + 1,
                    active_count |-> gs.active_count + 1,
                    active_bytes |-> gs.active_bytes + sz]
          /\ live' = [live EXCEPT ![i] = [ptr |-> p, sz |-> sz]]
  /\ UNCHANGED <<aborted, misused>>

\* What an allocation counts for in gs.active_bytes when it is freed.
\* Mutant of BytesOf: with its padding.
PaddedBytesOf(p) == blocks[p].bsz
BytesOf(p) == blocks[p].usz

\* The assertion m61_free(p) fails, if any.
\* Mutant of Verdict: the free flag is not looked at.
VerdictKnown(p) == IF p \notin DOMAIN blocks THEN "invalid free" ELSE ""
Verdict(p) ==
  IF p \notin DOMAIN blocks THEN "invalid free"
  ELSE IF blocks[p].free THEN "double free"
  ELSE ""

\* m61_free(p)
FreeBlock(p) ==
  /\ aborted = ""
  /\ aborted' = Verdict(p)
  /\ IF Verdict(p) # "" THEN UNCHANGED <<blocks, gs>>
     ELSE /\ blocks' = [blocks EXCEPT ![p].free = TRUE]
          /\ gs' = [gs EXCEPT !.active_count = @ - 1,
                              !.active_bytes = @ - BytesOf(p)]

\* The program frees the allocation in slot i.
Free(i) ==
  /\ live[i] # Empty
  /\ FreeBlock(live[i].ptr)
  /\ live' = [live EXCEPT ![i] = Empty]
  /\ UNCHANGED misused

\* The program frees a pointer that is not one of its allocations.
Misuse(p) ==
  /\ \A i \in Slots : live[i].ptr # p
  /\ FreeBlock(p)
  /\ misused' = TRUE
  /\ UNCHANGED live

Next ==
  \/ \E i \in Slots : Free(i) \/ \E sz \in Sizes : Malloc(i, sz)
  \/ \E p \in 0 .. SIZE : Misuse(p)

Spec == Init /\ [][Next]_vars

-----------------------------------------------------------------------------
(* Properties.                                                             *)

TypeOK ==
  /\ DOMAIN blocks \subseteq 0 .. SIZE
  /\ \A p \in DOMAIN blocks :
       blocks[p] \in [bsz : 0 .. SIZE, usz : 0 .. SIZE, free : BOOLEAN]
  /\ live \in [Slots -> [ptr : NULL .. SIZE, sz : 0 .. SIZE]]
  /\ gs.active_bytes \in Int
  /\ aborted \in {"", "invalid free", "double free"}

\* However blocks have been split and freed, live allocations are disjoint
\* ranges of the buffer and stay where they are, even where the entry of one
\* has been overwritten by a block of no bytes: Malloc61 is implemented.
Contract == INSTANCE Malloc61
ImplementsMalloc61 == Contract!Spec

Active == {i \in Slots : live[i] # Empty}

\* Splitting, reuse of a block by a smaller request and freeing keep
\* active_count and active_bytes equal to what the program holds.
StatisticsRight ==
  aborted = "" /\ ~misused =>
    /\ gs.active_count = Cardinality(Active)
    /\ gs.active_bytes = Cardinality(Held(live))

\* Every free of something that is not an active allocation aborts.
DetectsMisuse == misused => aborted # ""

\* The code's "(ASZ is a multiple of 16 so that SZ <= ASZ <= BSZ.)": a block that
\* becomes allocated covers the request and no more than the free block had.
SplitFits ==
  [][\A p \in DOMAIN Blocks :
       Blocks[p].free /\ p \in DOMAIN blocks' /\ ~blocks'[p].free =>
         /\ blocks'[p].bsz % ALIGN = 0
         /\ blocks'[p].usz <= blocks'[p].bsz
         /\ blocks'[p].bsz <= Blocks[p].bsz]_vars

\* assert(false && "double free") in m61_free() fails only for a double free.
DoubleFreeIsOne == aborted = "double free" => misused

\* The table has its type, m61_get_statistics() is right, and every wrong free is
\* detected.
BooksRight == TypeOK /\ StatisticsRight /\ DetectsMisuse
=============================================================================
