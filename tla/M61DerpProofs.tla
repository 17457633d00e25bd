--------------------------- MODULE M61DerpProofs ----------------------------
(***************************************************************************)
(* Proofs about M61Derp: for every buffer size, alignment and set of       *)
(* positive sizes the first-fit allocator of m61-derp.cc implements        *)
(* Malloc61, its statistics are right and it detects every wrong free.     *)
(*                                                                         *)
(* The table alone does not say where the live allocations are: a request  *)
(* that fills a block exactly overwrites the entry that starts behind it.  *)
(* What stays true is that a free block with bytes in it meets no live     *)
(* allocation (FreeInv), that an allocated block has an owner (OwnerInv),  *)
(* and that blocks do not overlap (BlockInv).                              *)
(***************************************************************************)
EXTENDS M61Derp, FiniteSets, FiniteSetTheorems, NaturalsInduction,
        WellFoundedInduction, TLAPS

-----------------------------------------------------------------------------
(* How the number of bytes a program holds changes with an allocation and  *)
(* with a free: what the statistics rest on.                               *)

\* An allocation of n bytes has n bytes.
LEMMA OneAllocation ==
  ASSUME NEW i, NEW n \in Nat
  PROVE  IsFiniteSet({i} \X (1 .. n)) /\ Cardinality({i} \X (1 .. n)) = n
<1>1. IsFiniteSet({i}) /\ Cardinality({i}) = 1
  BY FS_Singleton
<1>2. IsFiniteSet(1 .. n) /\ Cardinality(1 .. n) = n
  <2>1. IsFiniteSet(1 .. n) /\ Cardinality(1 .. n) = IF 1 > n THEN 0 ELSE n - 1 + 1
    BY FS_Interval
  <2> QED BY <2>1
<1>3. /\ IsFiniteSet({i} \X (1 .. n))
      /\ Cardinality({i} \X (1 .. n)) = Cardinality({i}) * Cardinality(1 .. n)
  BY <1>1, <1>2, FS_Product
<1> QED BY <1>1, <1>2, <1>3

\* If one slot changes, the others' bytes stay.
LEMMA OneSlot ==
  ASSUME NEW f, NEW g, NEW i \in DOMAIN f, DOMAIN g = DOMAIN f,
         \A j \in DOMAIN f \ {i} : g[j].sz = f[j].sz, f[i].sz = 0
  PROVE  /\ Held(g) = Held(f) \cup ({i} \X (1 .. g[i].sz))
         /\ Held(f) \cap ({i} \X (1 .. g[i].sz)) = {}
<1>1. ASSUME NEW x PROVE x \in Held(f) <=> \E j \in DOMAIN f \ {i} : x \in {j} \X (1 .. f[j].sz)
  <2>1. {i} \X (1 .. f[i].sz) = {}
    OBVIOUS
  <2> QED BY <2>1 DEF Held
<1>2. ASSUME NEW x PROVE x \in Held(g) <=> \E j \in DOMAIN f : x \in {j} \X (1 .. g[j].sz)
  BY DEF Held
<1>3. Held(g) = Held(f) \cup ({i} \X (1 .. g[i].sz))
  BY <1>1, <1>2
<1>4. Held(f) \cap ({i} \X (1 .. g[i].sz)) = {}
  BY <1>1
<1> QED BY <1>3, <1>4

\* An allocation of n bytes adds n; read backwards, its free takes n away.
LEMMA HeldChange ==
  ASSUME NEW f, NEW g, NEW i \in DOMAIN f, DOMAIN g = DOMAIN f,
         \A j \in DOMAIN f \ {i} : g[j].sz = f[j].sz, f[i].sz = 0, g[i].sz \in Nat
  PROVE  /\ IsFiniteSet(Held(f)) <=> IsFiniteSet(Held(g))
         /\ IsFiniteSet(Held(f)) => Cardinality(Held(g)) = Cardinality(Held(f)) + g[i].sz
<1> DEFINE new == {i} \X (1 .. g[i].sz)
<1>1. Held(g) = Held(f) \cup new /\ Held(f) \cap new = {}
  BY OneSlot
<1>2. IsFiniteSet(new) /\ Cardinality(new) = g[i].sz
  BY OneAllocation
<1> HIDE DEF new
<1>3. ASSUME IsFiniteSet(Held(g)) PROVE IsFiniteSet(Held(f))
  BY <1>1, <1>3, FS_Subset
<1>4. ASSUME IsFiniteSet(Held(f))
      PROVE  IsFiniteSet(Held(g)) /\ Cardinality(Held(g)) = Cardinality(Held(f)) + g[i].sz
  <2>1. /\ IsFiniteSet(Held(f) \cup new)
        /\ Cardinality(Held(f) \cup new)
             = Cardinality(Held(f)) + Cardinality(new) - Cardinality(Held(f) \cap new)
    BY <1>2, <1>4, FS_Union
  <2>2. Cardinality(Held(f) \cap new) = 0
    BY <1>1, FS_EmptySet
  <2>3. Cardinality(Held(f)) \in Nat
    BY <1>4, FS_CardinalityType
  <2> QED BY <1>1, <1>2, <2>1, <2>2, <2>3
<1> QED BY <1>3, <1>4

\* Nothing is held in empty slots.
LEMMA HeldNothing ==
  ASSUME NEW f, \A i \in DOMAIN f : f[i].sz = 0
  PROVE  Held(f) = {} /\ IsFiniteSet(Held(f)) /\ Cardinality(Held(f)) = 0
<1>1. Held(f) = {}
  BY DEF Held
<1> QED BY <1>1, FS_EmptySet

-----------------------------------------------------------------------------
(* The allocator.                                                          *)

\* No request is for no bytes.  (A block of no bytes could be given to one, and the
\* size of the rest would wrap around.)
Positive == 0 \notin Sizes

\* Blocks are multiples of ALIGN, in the buffer, and do not overlap.
BlockOK(b) ==
  /\ \A p \in DOMAIN b : b[p].bsz % ALIGN = 0 /\ p + b[p].bsz <= SIZE
  /\ \A p, q \in DOMAIN b : p < q => p + b[p].bsz <= q
BlockInv == BlockOK(blocks)

\* An allocated block belongs to a live allocation.
OwnerOK(b) ==
  \A p \in DOMAIN b : ~b[p].free =>
    \E i \in Active : live[i].ptr = p /\ live[i].sz = b[p].usz /\ b[p].bsz = Asz(b[p].usz)
OwnerInv == OwnerOK(blocks)

\* A free block that is not empty is apart from every live allocation.
FreeOK(b) ==
  \A i \in Active, p \in DOMAIN b :
    b[p].free /\ b[p].bsz > 0 =>
      live[i].ptr + Asz(live[i].sz) <= p \/ p + b[p].bsz <= live[i].ptr
FreeInv == FreeOK(blocks)

\* Live allocations, with their padding, are in the buffer and apart.
LiveInv ==
  /\ DOMAIN blocks = {} => Active = {}
  /\ \A i \in Active : /\ live[i].ptr >= 0 /\ live[i].sz \in Sizes /\ Asz(live[i].sz) \in Nat
                       /\ live[i].sz <= Asz(live[i].sz)
                       /\ live[i].ptr + Asz(live[i].sz) <= SIZE
  /\ \A i, j \in Active :
       i # j => \/ live[i].ptr + Asz(live[i].sz) <= live[j].ptr
                \/ live[j].ptr + Asz(live[j].sz) <= live[i].ptr

\* The statistics.
StatsInv ==
  /\ gs \in [total_count : Nat, active_count : Int, active_bytes : Int]
  /\ IsFiniteSet(Held(live))
  /\ aborted = "" => /\ gs.active_count = Cardinality(Active)
                     /\ gs.active_bytes = Cardinality(Held(live))

\* The inductive invariant.
IInv == /\ TypeOK /\ BlockInv /\ OwnerInv /\ FreeInv /\ LiveInv /\ StatsInv
        /\ DetectsMisuse

-----------------------------------------------------------------------------
\* Division by n, with symbols the provers know.
LEMMA Quotient ==
  ASSUME NEW n \in Nat \ {0}, NEW x \in Nat
  PROVE  /\ x % n \in 0 .. n - 1 /\ x \div n \in Nat
         /\ x = n * (x \div n) + (x % n)
         /\ x < n => x % n = x
  OBVIOUS

\* A product is a multiple.
LEMMA IsMultiple ==
  ASSUME NEW n \in Nat \ {0}, NEW k \in Nat
  PROVE  n * k \in Nat /\ (n * k) % n = 0
  OBVIOUS

\* Rounding x up to a multiple of n does not pass a multiple.
LEMMA Multiples ==
  ASSUME NEW n \in Nat \ {0}, NEW x \in Nat, NEW y \in Nat, y % n = 0, x <= y
  PROVE  /\ (x - (x % n)) % n = 0
         /\ x % n # 0 => x - (x % n) + n <= y /\ (x - (x % n) + n) % n = 0
         /\ x % n = 0 => (y - x) % n = 0
<1>1. PICK k \in Nat, r \in 0 .. n - 1 : x = n * k + r /\ r = x % n
  BY Quotient
<1>2. PICK m \in Nat : y = n * m
  <2>1. y \div n \in Nat /\ y = n * (y \div n) + (y % n)
    BY Quotient
  <2>2. y = n * (y \div n)
    BY <2>1
  <2> QED BY <2>1, <2>2
<1>3. x - (x % n) = n * k
  BY <1>1
<1>4. (n * k) % n = 0
  BY IsMultiple
<1>5. ASSUME r # 0 PROVE n * k + n <= y /\ (n * k + n) % n = 0
  <2>1. n * k < n * m
    BY <1>1, <1>2, <1>5
  <2>2. k < m
    BY <2>1
  <2>3. k + 1 <= m /\ n * k + n = n * (k + 1)
    BY <2>2
  <2>4. n * k + n <= n * m
    BY <2>3
  <2>5. (n * (k + 1)) % n = 0
    BY IsMultiple
  <2> QED BY <1>2, <2>3, <2>4, <2>5
<1>6. ASSUME r = 0 PROVE (y - x) % n = 0
  <2>1. n * k <= n * m
    BY <1>1, <1>2, <1>6
  <2>2. k <= m
    BY <2>1
  <2>3. m - k \in Nat /\ n * m - n * k = n * (m - k)
    BY <2>2
  <2>4. (n * (m - k)) % n = 0
    BY <2>3, IsMultiple
  <2>5. x = n * k
    BY <1>1, <1>6
  <2>6. y - x = n * (m - k)
    BY <1>2, <2>3, <2>5
  <2> QED BY <2>4, <2>6
<1> QED BY <1>1, <1>3, <1>4, <1>5, <1>6

\* "ASZ is a multiple of 16 so that SZ <= ASZ <= BSZ", for a block of b bytes.
LEMMA AszFacts ==
  ASSUME Positive, NEW sz \in Sizes, NEW b \in 0 .. SIZE, b % ALIGN = 0, sz <= b
  PROVE  /\ Asz(sz) \in 1 .. b /\ sz <= Asz(sz) /\ Asz(sz) % ALIGN = 0
         /\ (b - Asz(sz)) % ALIGN = 0 /\ (b - Asz(sz)) % WORD = b - Asz(sz)
<1>1. /\ sz \in Nat \ {0} /\ b \in Nat /\ ALIGN \in Nat \ {0} /\ WORD \in Nat \ {0}
      /\ b < WORD
  BY DerpAssumption DEF Positive
<1>2. sz % ALIGN \in 0 .. ALIGN - 1
  BY <1>1, Quotient
<1> DEFINE up == sz - (sz % ALIGN) + ALIGN
<1>3. CASE sz % ALIGN = 0
  <2>1. Asz(sz) = sz
    BY <1>1, <1>3 DEF Asz
  <2>2. (b - sz) % ALIGN = 0
    BY <1>1, <1>3, Multiples
  <2>3. b - sz \in Nat /\ b - sz < WORD
    BY <1>1
  <2>4. (b - sz) % WORD = b - sz
    BY <1>1, <2>3, Quotient
  <2> QED BY <1>1, <1>3, <2>1, <2>2, <2>4
<1>4. CASE sz % ALIGN # 0
  <2>1. up <= b /\ up % ALIGN = 0
    BY <1>1, <1>4, Multiples
  <2>2. up \in Nat /\ sz <= up /\ up >= 1
    BY <1>1, <1>2
  <2> HIDE DEF up
  <2>3. up % WORD = up
    <3>1. up \in Nat /\ up < WORD
      BY <1>1, <2>1, <2>2
    <3> QED BY <1>1, <3>1, Quotient
  <2>4. Asz(sz) = up
    BY <1>4, <2>3 DEF Asz, up
  <2>5. (b - up) % ALIGN = 0
    BY <1>1, <2>1, <2>2, Multiples
  <2>6. (b - up) % WORD = b - up
    <3>1. b - up \in Nat /\ b - up < WORD
      BY <1>1, <2>1, <2>2
    <3> QED BY <1>1, <3>1, Quotient
  <2> QED BY <1>1, <2>1, <2>2, <2>4, <2>5, <2>6
<1> QED BY <1>3, <1>4

\* A set of numbers that is not empty has a least one, which Min() finds.
LEMMA MinIn ==
  ASSUME NEW S \in SUBSET Nat, S # {}
  PROVE  Min(S) \in S
<1>1. PICK x \in S : \A y \in S : ~(<<y, x>> \in OpToRel(<, Nat))
  BY NatLessThanWellFounded, WFMin
<1>2. \A y \in S : ~(y < x)
  BY <1>1, Zenon DEF OpToRel
<1>3. \A y \in S : x <= y
  BY <1>2
<1> QED BY <1>3 DEF Min

\* The blocks m61_malloc() looks at.
LEMMA BlocksFacts ==
  ASSUME IInv
  PROVE  /\ DOMAIN Blocks \subseteq 0 .. SIZE /\ DOMAIN Blocks # {}
         /\ \A p \in DOMAIN Blocks :
              Blocks[p] \in [bsz : 0 .. SIZE, usz : 0 .. SIZE, free : BOOLEAN]
         /\ BlockOK(Blocks) /\ OwnerOK(Blocks) /\ FreeOK(Blocks)
<1>1. CASE DOMAIN blocks = {}
  <2>1. Active = {}
    BY <1>1 DEF IInv, LiveInv
  <2>2. Blocks = [p \in {0} |-> [bsz |-> SIZE, usz |-> 0, free |-> TRUE]]
    BY <1>1 DEF Blocks
  <2>3. DOMAIN Blocks = {0} /\ Blocks[0] = [bsz |-> SIZE, usz |-> 0, free |-> TRUE]
    BY <2>2
  <2>4. BlockOK(Blocks)
    BY <2>3, DerpAssumption DEF BlockOK
  <2>5. OwnerOK(Blocks) /\ FreeOK(Blocks)
    BY <2>1, <2>3 DEF OwnerOK, FreeOK
  <2>6. [bsz |-> SIZE, usz |-> 0, free |-> TRUE] \in [bsz : 0 .. SIZE, usz : 0 .. SIZE, free : BOOLEAN]
    BY DerpAssumption
  <2> QED
    BY <2>3, <2>4, <2>5, <2>6, DerpAssumption
<1>2. CASE DOMAIN blocks # {}
  <2>1. Blocks = blocks
    BY <1>2 DEF Blocks
  <2> QED
    BY <1>2, <2>1 DEF IInv, TypeOK, BlockInv, OwnerInv, FreeInv
<1> QED BY <1>1, <1>2

\* The invariant holds at the start.
LEMMA InitInv == Init => IInv
<1> SUFFICES ASSUME Init PROVE IInv
  OBVIOUS
<1>1. Active = {} /\ DOMAIN blocks = {}
  BY DEF Init, Active
<1>2. TypeOK
  <2>1. Empty \in [ptr : NULL .. SIZE, sz : 0 .. SIZE]
    BY DerpAssumption DEF Empty, NULL
  <2>2. live \in [Slots -> [ptr : NULL .. SIZE, sz : 0 .. SIZE]]
    BY <2>1 DEF Init
  <2>3. gs.active_bytes = 0
    BY DEF Init
  <2>4. gs.active_bytes \in Int
    BY <2>3
  <2> QED
    BY <1>1, <2>2, <2>4 DEF Init, TypeOK
<1>3. StatsInv
  <2>1. \A i \in DOMAIN live : live[i].sz = 0
    BY DEF Init, Empty
  <2>2. gs \in [total_count : Nat, active_count : Int, active_bytes : Int]
    <3>1. gs = [total_count |-> 0, active_count |-> 0, active_bytes |-> 0]
      BY DEF Init
    <3> QED BY <3>1
  <2> QED
    BY <1>1, <2>1, <2>2, HeldNothing, FS_EmptySet DEF Init, StatsInv
<1> QED
  BY <1>1, <1>2, <1>3 DEF Init, IInv, BlockInv, BlockOK, OwnerInv, OwnerOK, FreeInv, FreeOK,
                          LiveInv, DetectsMisuse

-----------------------------------------------------------------------------
\* The program's slots.
LEMMA SlotFacts ==
  ASSUME TypeOK
  PROVE  /\ Active \subseteq Slots /\ IsFiniteSet(Active) /\ Cardinality(Active) \in Nat
         /\ \A i \in Slots : live[i].ptr \in Int /\ live[i].sz \in Nat
<1>1. Active \subseteq Slots
  BY DEF Active
<1>2. IsFiniteSet(Active) /\ Cardinality(Active) \in Nat
  BY <1>1, DerpAssumption, FS_Subset, FS_CardinalityType
<1>3. \A i \in Slots : live[i].ptr \in NULL .. SIZE /\ live[i].sz \in 0 .. SIZE
  BY DEF TypeOK
<1> QED BY <1>1, <1>2, <1>3, DerpAssumption DEF NULL

\* What Split() makes of a free block that is big enough.
LEMMA SplitFacts ==
  ASSUME IInv, Positive, NEW sz \in Sizes, NEW p \in Candidates(sz)
  PROVE  /\ p \in DOMAIN Blocks /\ Blocks[p].free /\ p \in Nat
         /\ sz \in Nat \ {0} /\ Blocks[p].bsz \in 0 .. SIZE /\ p + Blocks[p].bsz <= SIZE
         /\ Asz(sz) \in 1 .. Blocks[p].bsz /\ sz <= Asz(sz)
         /\ DOMAIN Split(p, sz) = DOMAIN Blocks \cup {p + Asz(sz)}
         /\ Split(p, sz)[p] = [bsz |-> Asz(sz), usz |-> sz, free |-> FALSE]
         /\ Split(p, sz)[p + Asz(sz)]
              = [bsz |-> Blocks[p].bsz - Asz(sz), usz |-> 0, free |-> TRUE]
         /\ \A q \in DOMAIN Blocks \ {p, p + Asz(sz)} : Split(p, sz)[q] = Blocks[q]
         /\ Asz(sz) % ALIGN = 0 /\ (Blocks[p].bsz - Asz(sz)) % ALIGN = 0
<1>1. p \in DOMAIN Blocks /\ Blocks[p].free /\ Blocks[p].bsz >= sz
  BY DEF Candidates
<1>2. /\ p \in 0 .. SIZE /\ Blocks[p].bsz \in 0 .. SIZE
      /\ Blocks[p].bsz % ALIGN = 0 /\ p + Blocks[p].bsz <= SIZE
  BY <1>1, BlocksFacts DEF BlockOK
<1>3. sz \in Nat \ {0}
  BY DerpAssumption DEF Positive
<1>4. /\ Asz(sz) \in 1 .. Blocks[p].bsz /\ sz <= Asz(sz) /\ Asz(sz) % ALIGN = 0
      /\ (Blocks[p].bsz - Asz(sz)) % ALIGN = 0
      /\ (Blocks[p].bsz - Asz(sz)) % WORD = Blocks[p].bsz - Asz(sz)
  BY <1>1, <1>2, <1>3, AszFacts
<1>5. p # p + Asz(sz)
  BY <1>2, <1>4
<1>6. /\ DOMAIN Split(p, sz) = DOMAIN Blocks \cup {p + Asz(sz)}
      /\ Split(p, sz)[p] = [bsz |-> Asz(sz), usz |-> sz, free |-> FALSE]
      /\ Split(p, sz)[p + Asz(sz)]
           = [bsz |-> (Blocks[p].bsz - Asz(sz)) % WORD, usz |-> 0, free |-> TRUE]
      /\ \A q \in DOMAIN Blocks \ {p, p + Asz(sz)} : Split(p, sz)[q] = Blocks[q]
  BY <1>1, <1>5 DEF Split
<1>7. Split(p, sz)[p + Asz(sz)] = [bsz |-> Blocks[p].bsz - Asz(sz), usz |-> 0, free |-> TRUE]
  BY <1>4, <1>6, Zenon
<1>8. p \in Nat
  BY <1>2
<1> QED
  BY <1>1, <1>2, <1>3, <1>4, <1>6, <1>7, <1>8, Zenon

\* What is held when slot i is taken, or freed.
LEMMA HeldNext ==
  ASSUME TypeOK, NEW i \in Slots, IsFiniteSet(Held(live))
  PROVE  /\ \A p \in Nat, sz \in Nat :
              live[i] = Empty /\ live' = [live EXCEPT ![i] = [ptr |-> p, sz |-> sz]] =>
                IsFiniteSet(Held(live')) /\ Cardinality(Held(live')) = Cardinality(Held(live)) + sz
         /\ live' = [live EXCEPT ![i] = Empty] =>
              IsFiniteSet(Held(live'))
              /\ Cardinality(Held(live')) = Cardinality(Held(live)) - live[i].sz
<1>1. PICK f : f = live
  OBVIOUS
<1>2. PICK g : g = live'
  OBVIOUS
<1>3. DOMAIN f = Slots /\ IsFiniteSet(Held(f)) /\ f[i].sz \in Nat
  BY <1>1, SlotFacts DEF TypeOK
<1>4. ASSUME NEW p \in Nat, NEW sz \in Nat, f[i] = Empty,
             g = [f EXCEPT ![i] = [ptr |-> p, sz |-> sz]]
      PROVE  IsFiniteSet(Held(g)) /\ Cardinality(Held(g)) = Cardinality(Held(f)) + sz
  <2>1. DOMAIN g = DOMAIN f /\ f[i].sz = 0 /\ g[i].sz = sz /\ g[i].sz \in Nat
    BY <1>3, <1>4 DEF Empty
  <2>2. \A j \in DOMAIN f \ {i} : g[j].sz = f[j].sz
    BY <1>4
  <2>3. IsFiniteSet(Held(g)) /\ Cardinality(Held(g)) = Cardinality(Held(f)) + g[i].sz
    BY <1>3, <2>1, <2>2, HeldChange
  <2> QED BY <2>1, <2>3
<1>5. ASSUME g = [f EXCEPT ![i] = Empty]
      PROVE  IsFiniteSet(Held(g)) /\ Cardinality(Held(g)) = Cardinality(Held(f)) - f[i].sz
  <2>1. DOMAIN f = DOMAIN g /\ g[i].sz = 0 /\ i \in DOMAIN g
    BY <1>3, <1>5 DEF Empty
  <2>2. \A j \in DOMAIN g \ {i} : f[j].sz = g[j].sz
    BY <1>5
  <2>3. IsFiniteSet(Held(g)) /\ Cardinality(Held(f)) = Cardinality(Held(g)) + f[i].sz
    BY <1>3, <2>1, <2>2, HeldChange
  <2>4. Cardinality(Held(g)) \in Nat
    BY <2>3, FS_CardinalityType
  <2> QED BY <1>3, <2>3, <2>4
<1> QED BY <1>1, <1>2, <1>4, <1>5

\* m61_malloc() that finds no block.
LEMMA MallocNull ==
  ASSUME IInv, NEW i \in Slots, NEW sz \in Sizes, Malloc(i, sz), Candidates(sz) = {}
  PROVE  IInv'
<1>1. blocks' = Blocks /\ UNCHANGED <<gs, live, aborted, misused>>
  BY DEF Malloc
<1>2. Active' = Active
  BY <1>1 DEF Active
<1>3. TypeOK'
  BY <1>1, BlocksFacts DEF IInv, TypeOK
<1>4. BlockInv'
  BY <1>1, BlocksFacts DEF BlockInv, BlockOK
<1>5. OwnerInv'
  BY <1>1, <1>2, BlocksFacts DEF OwnerInv, OwnerOK
<1>6. FreeInv'
  BY <1>1, <1>2, BlocksFacts DEF FreeInv, FreeOK
<1>7. LiveInv'
  BY <1>1, <1>2, BlocksFacts DEF IInv, LiveInv
<1> QED
  BY <1>1, <1>2, <1>3, <1>4, <1>5, <1>6, <1>7 DEF IInv, StatsInv, DetectsMisuse

\* m61_malloc() that splits a block.
LEMMA MallocSplit ==
  ASSUME IInv, Positive, NEW i \in Slots, NEW sz \in Sizes, Malloc(i, sz), Candidates(sz) # {}
  PROVE  IInv'
<1>1. PICK p \in Candidates(sz) :
        /\ blocks' = Split(p, sz)
        /\ gs' = [total_count |-> gs.total_count + 1,
                  active_count |-> gs.active_count + 1,
                  active_bytes |-> gs.active_bytes + sz]
        /\ live' = [live EXCEPT ![i] = [ptr |-> p, sz |-> sz]]
        /\ UNCHANGED <<aborted, misused>> /\ live[i] = Empty
  <2>1. Min(Candidates(sz)) \in Candidates(sz)
    <3>1. Candidates(sz) \in SUBSET Nat
      <4>1. DOMAIN Blocks \subseteq Nat
        BY BlocksFacts, DerpAssumption
      <4>2. Candidates(sz) \subseteq DOMAIN Blocks
        BY DEF Candidates
      <4> QED BY <4>1, <4>2
    <3> QED BY <3>1, MinIn
  <2> QED BY <2>1 DEF Malloc
<1> DEFINE a == Asz(sz)
           b == Blocks[p].bsz
           next == p + a
<1>2. /\ p \in DOMAIN Blocks /\ Blocks[p].free /\ p \in Nat /\ sz \in Nat \ {0}
      /\ b \in 0 .. SIZE /\ p + b <= SIZE /\ a \in 1 .. b /\ sz <= a
      /\ DOMAIN blocks' = DOMAIN Blocks \cup {next}
      /\ blocks'[p] = [bsz |-> a, usz |-> sz, free |-> FALSE]
      /\ blocks'[next] = [bsz |-> b - a, usz |-> 0, free |-> TRUE]
      /\ \A q \in DOMAIN Blocks \ {p, next} : blocks'[q] = Blocks[q]
      /\ a % ALIGN = 0 /\ (b - a) % ALIGN = 0
  BY <1>1, SplitFacts
<1>3. /\ \A q \in DOMAIN Blocks : q \in Nat /\ Blocks[q].bsz \in Nat
      /\ DOMAIN Blocks \subseteq 0 .. SIZE
      /\ \A q \in DOMAIN Blocks :
           Blocks[q] \in [bsz : 0 .. SIZE, usz : 0 .. SIZE, free : BOOLEAN]
      /\ BlockOK(Blocks) /\ OwnerOK(Blocks) /\ FreeOK(Blocks)
  BY BlocksFacts, DerpAssumption
<1>4. SIZE \in Nat /\ TypeOK
  BY DerpAssumption DEF IInv
<1>5. /\ Active' = Active \cup {i} /\ i \notin Active
      /\ \A j \in Active : live'[j] = live[j]
      /\ live'[i] = [ptr |-> p, sz |-> sz]
  <2>1. \A j \in Slots : live'[j] = IF j = i THEN [ptr |-> p, sz |-> sz] ELSE live[j]
    BY <1>1, <1>4 DEF TypeOK
  <2>2. [ptr |-> p, sz |-> sz] # Empty
    BY <1>2 DEF Empty, NULL
  <2> QED BY <1>1, <2>1, <2>2 DEF Active
<1>6. /\ \A j \in Slots : live[j].ptr \in Int /\ live[j].sz \in Nat
      /\ Active \subseteq Slots /\ IsFiniteSet(Active) /\ Cardinality(Active) \in Nat
  BY <1>4, SlotFacts
<1> HIDE DEF a, b, next
<1>7. next \in Nat /\ next \in 0 .. SIZE /\ p < next
  BY <1>2, <1>4 DEF next
<1>8. TypeOK'
  <2>1. \A q \in DOMAIN blocks' :
          blocks'[q] \in [bsz : 0 .. SIZE, usz : 0 .. SIZE, free : BOOLEAN]
    <3>1. blocks'[p] \in [bsz : 0 .. SIZE, usz : 0 .. SIZE, free : BOOLEAN]
      BY <1>2, <1>4
    <3>2. blocks'[next] \in [bsz : 0 .. SIZE, usz : 0 .. SIZE, free : BOOLEAN]
      BY <1>2, <1>4
    <3> QED BY <1>2, <1>3, <3>1, <3>2
  <2>2. live' \in [Slots -> [ptr : NULL .. SIZE, sz : 0 .. SIZE]]
    <3>1. [ptr |-> p, sz |-> sz] \in [ptr : NULL .. SIZE, sz : 0 .. SIZE]
      BY <1>2, <1>4 DEF NULL
    <3> QED BY <1>1, <1>4, <3>1 DEF TypeOK
  <2>3. gs'.active_bytes \in Int
    <3>1. gs'.active_bytes = gs.active_bytes + sz
      BY <1>1
    <3>2. gs.active_bytes \in Int
      BY <1>4 DEF TypeOK
    <3> QED BY <1>2, <3>1, <3>2
  <2> QED BY <1>1, <1>2, <1>3, <1>4, <1>7, <2>1, <2>2, <2>3 DEF TypeOK
<1>9. BlockInv'
  <2>1. ASSUME NEW q \in DOMAIN blocks'
        PROVE  blocks'[q].bsz % ALIGN = 0 /\ q + blocks'[q].bsz <= SIZE
    BY <1>2, <1>3, <1>4, <1>7, <2>1 DEF BlockOK, next
  <2>2. ASSUME NEW q \in DOMAIN blocks', NEW r \in DOMAIN blocks', q < r
        PROVE  q + blocks'[q].bsz <= r
    <3>1. \A x, y \in DOMAIN Blocks : x < y => x + Blocks[x].bsz <= y
      BY <1>3 DEF BlockOK
    <3>2. /\ a \in Nat /\ b \in Nat /\ a <= b /\ next = p + a /\ b = Blocks[p].bsz
          /\ blocks'[p].bsz = a /\ blocks'[next].bsz = b - a
      BY <1>2, <1>4 DEF next, b
    <3>3. q \in Nat /\ r \in Nat
      BY <1>2, <1>3, <1>7
    <3>4. \A x \in DOMAIN Blocks : p < x => p + b <= x
      BY <1>2, <3>1, <3>2
    <3>5. CASE q = p
      <4>1. r # next => r \in DOMAIN Blocks /\ p < r
        BY <1>2, <2>2, <3>5
      <4>2. r # next => p + b <= r
        BY <3>4, <4>1
      <4> QED BY <1>2, <3>2, <3>3, <3>5, <4>2
    <3>6. CASE q = next
      <4>1. r \in DOMAIN Blocks /\ p < r
        BY <1>2, <1>7, <2>2, <3>3, <3>6
      <4>2. p + b <= r
        BY <3>4, <4>1
      <4> QED BY <1>2, <3>2, <3>3, <3>6, <4>2
    <3>7. CASE q \notin {p, next}
      <4>1. q \in DOMAIN Blocks /\ blocks'[q].bsz = Blocks[q].bsz /\ Blocks[q].bsz \in Nat
        BY <1>2, <1>3, <3>7
      <4>2. CASE r # next
        <5>1. r \in DOMAIN Blocks
          BY <1>2, <4>2
        <5> QED BY <2>2, <3>1, <4>1, <5>1
      <4>3. CASE r = next
        <5>1. ~(p < q)
          <6>1. p < q => p + b <= q
            BY <3>4, <4>1
          <6> QED BY <1>2, <2>2, <3>2, <3>3, <4>3, <6>1
        <5>2. q < p
          BY <1>2, <3>3, <3>7, <5>1
        <5>3. q + Blocks[q].bsz <= p
          BY <1>2, <3>1, <4>1, <5>2
        <5> QED BY <1>2, <1>7, <3>3, <4>1, <4>3, <5>3
      <4> QED BY <4>2, <4>3
    <3> QED BY <3>5, <3>6, <3>7
  <2> QED BY <2>1, <2>2 DEF BlockInv, BlockOK
<1>10. OwnerInv'
  <2> SUFFICES ASSUME NEW q \in DOMAIN blocks', ~blocks'[q].free
               PROVE  \E j \in Active' : /\ live'[j].ptr = q /\ live'[j].sz = blocks'[q].usz
                                         /\ blocks'[q].bsz = Asz(blocks'[q].usz)
    BY DEF OwnerInv, OwnerOK
  <2>1. CASE q = p
    BY <1>2, <1>5, <2>1 DEF a
  <2>2. CASE q # p
    <3>1. q # next /\ q \in DOMAIN Blocks /\ blocks'[q] = Blocks[q]
      BY <1>2, <2>2
    <3> QED BY <1>3, <1>5, <3>1 DEF OwnerOK
  <2> QED BY <2>1, <2>2
<1>11. \A j \in Active : live[j].ptr + Asz(live[j].sz) <= p \/ p + b <= live[j].ptr
  BY <1>2, <1>3 DEF FreeOK, b
<1>12. FreeInv'
  <2> SUFFICES ASSUME NEW j \in Active', NEW q \in DOMAIN blocks',
                      blocks'[q].free, blocks'[q].bsz > 0
               PROVE  \/ live'[j].ptr + Asz(live'[j].sz) <= q
                      \/ q + blocks'[q].bsz <= live'[j].ptr
    BY DEF FreeInv, FreeOK
  <2>1. q # p
    BY <1>2
  <2>2. CASE j = i
    <3>1. live'[j].ptr = p /\ Asz(live'[j].sz) = a
      BY <1>5, <2>2 DEF a
    <3>2. CASE q = next
      <4>1. p + a = next /\ a \in Nat
        BY <1>2, <1>4 DEF next
      <4> QED BY <1>2, <1>7, <3>1, <3>2, <4>1
    <3>3. CASE q # next
      BY <1>2, <1>3, <2>1, <3>1, <3>3 DEF BlockOK, b
    <3> QED BY <3>2, <3>3
  <2>3. CASE j # i
    <3>1. j \in Active /\ live'[j] = live[j]
      BY <1>5, <2>3
    <3>2. CASE q = next
      BY <1>2, <1>7, <1>6, <1>11, <3>1, <3>2 DEF next, IInv, LiveInv
    <3>3. CASE q # next
      BY <1>2, <1>3, <2>1, <3>1, <3>3 DEF FreeOK
    <3> QED BY <3>2, <3>3
  <2> QED BY <2>2, <2>3
<1>13. LiveInv'
  <2>1. Asz(live'[i].sz) = a /\ live'[i].ptr = p /\ live'[i].sz = sz
    BY <1>5 DEF a
  <2>2. DOMAIN blocks' # {}
    BY <1>2
  <2>3. \A j \in Active' : /\ live'[j].ptr >= 0 /\ live'[j].sz \in Sizes
                           /\ Asz(live'[j].sz) \in Nat
                           /\ live'[j].sz <= Asz(live'[j].sz)
                           /\ live'[j].ptr + Asz(live'[j].sz) <= SIZE
    BY <1>2, <1>4, <1>5, <2>1 DEF IInv, LiveInv
  <2>4. ASSUME NEW j \in Active', NEW k \in Active', j # k
        PROVE  \/ live'[j].ptr + Asz(live'[j].sz) <= live'[k].ptr
               \/ live'[k].ptr + Asz(live'[k].sz) <= live'[j].ptr
    <3>1. ASSUME NEW m \in Active
          PROVE  live[m].ptr + Asz(live[m].sz) <= p \/ p + a <= live[m].ptr
      <4>1. live[m].ptr \in Int /\ a \in Nat /\ b \in Nat /\ a <= b
        BY <1>2, <1>4, <1>6
      <4>2. live[m].ptr + Asz(live[m].sz) <= p \/ p + b <= live[m].ptr
        BY <1>11
      <4> QED BY <1>2, <4>1, <4>2
    <3>2. CASE j = i
      <4>1. k \in Active /\ live'[k] = live[k]
        BY <1>5, <2>4, <3>2
      <4> QED BY <2>1, <3>1, <3>2, <4>1
    <3>3. CASE k = i
      <4>1. j \in Active /\ live'[j] = live[j]
        BY <1>5, <2>4, <3>3
      <4> QED BY <2>1, <3>1, <3>3, <4>1
    <3>4. CASE j # i /\ k # i
      <4>1. j \in Active /\ live'[j] = live[j] /\ k \in Active /\ live'[k] = live[k]
        BY <1>5, <3>4
      <4> QED BY <2>4, <4>1 DEF IInv, LiveInv
    <3> QED BY <3>2, <3>3, <3>4
  <2> QED BY <2>2, <2>3, <2>4 DEF LiveInv
<1>14. StatsInv'
  <2>1. IsFiniteSet(Held(live')) /\ Cardinality(Held(live')) = Cardinality(Held(live)) + sz
    BY <1>1, <1>2, <1>4, HeldNext DEF IInv, StatsInv
  <2>2. Cardinality(Active') = Cardinality(Active) + 1
    BY <1>5, <1>6, FS_AddElement
  <2>3. gs' \in [total_count : Nat, active_count : Int, active_bytes : Int]
    <3>1. gs \in [total_count : Nat, active_count : Int, active_bytes : Int]
      BY DEF IInv, StatsInv
    <3> QED BY <1>1, <1>2, <3>1
  <2> QED BY <1>1, <2>1, <2>2, <2>3 DEF IInv, StatsInv
<1> QED
  BY <1>1, <1>8, <1>9, <1>10, <1>12, <1>13, <1>14 DEF IInv, DetectsMisuse

\* m61_free() of the allocation in slot i: that is the owner of the block, so
\* that the block is apart from all the others.
LEMMA FreeKeeps ==
  ASSUME IInv, Positive, NEW i \in Slots, Free(i)
  PROVE  IInv'
<1> DEFINE p == live[i].ptr
<1>1. /\ i \in Active /\ live' = [live EXCEPT ![i] = Empty] /\ misused' = misused
      /\ aborted = "" /\ aborted' = Verdict(p)
  BY DEF Free, FreeBlock, Active
<1>2. /\ TypeOK /\ SIZE \in Nat /\ Active \subseteq Slots /\ IsFiniteSet(Active)
      /\ Cardinality(Active) \in Nat
      /\ \A j \in Slots : live[j].ptr \in Int /\ live[j].sz \in Nat
  BY SlotFacts, DerpAssumption DEF IInv
<1>3. /\ Active' = Active \ {i} /\ \A j \in Active \ {i} : live'[j] = live[j]
      /\ live' \in [Slots -> [ptr : NULL .. SIZE, sz : 0 .. SIZE]]
  <2>1. Empty \in [ptr : NULL .. SIZE, sz : 0 .. SIZE]
    BY <1>2 DEF Empty, NULL
  <2>2. live \in [Slots -> [ptr : NULL .. SIZE, sz : 0 .. SIZE]]
    BY <1>2 DEF TypeOK
  <2> QED BY <1>1, <2>1, <2>2 DEF Active
<1>4. /\ IsFiniteSet(Held(live'))
      /\ Cardinality(Held(live')) = Cardinality(Held(live)) - live[i].sz
  BY <1>1, <1>2, HeldNext DEF IInv, StatsInv
<1>5. aborted' \in {"", "invalid free", "double free"} /\ DetectsMisuse'
  BY <1>1 DEF Verdict, DetectsMisuse, IInv
<1>6. \A j \in Active : /\ live[j].ptr >= 0 /\ live[j].sz \in Sizes /\ Asz(live[j].sz) \in Nat
                        /\ live[j].sz <= Asz(live[j].sz) /\ live[j].sz > 0
                        /\ live[j].ptr + Asz(live[j].sz) <= SIZE
  BY <1>2, DerpAssumption DEF IInv, LiveInv, Positive
<1>7. \A j \in Active \ {i} : /\ live[j].ptr # p
                              /\ \/ live[j].ptr + Asz(live[j].sz) <= p
                                 \/ p + Asz(live[i].sz) <= live[j].ptr
  <2> SUFFICES ASSUME NEW j \in Active \ {i}
               PROVE  /\ live[j].ptr # p
                      /\ \/ live[j].ptr + Asz(live[j].sz) <= p
                         \/ p + Asz(live[i].sz) <= live[j].ptr
    OBVIOUS
  <2>1. \/ live[j].ptr + Asz(live[j].sz) <= p
        \/ p + Asz(live[i].sz) <= live[j].ptr
    BY <1>1 DEF IInv, LiveInv
  <2>2. /\ live[j].ptr \in Int /\ Asz(live[j].sz) \in Nat /\ Asz(live[j].sz) > 0
        /\ p \in Int /\ Asz(live[i].sz) \in Nat /\ Asz(live[i].sz) > 0
    <3>1. \A k \in Active : live[k].ptr \in Int /\ Asz(live[k].sz) \in Nat /\ Asz(live[k].sz) > 0
      <4> SUFFICES ASSUME NEW k \in Active
                   PROVE  live[k].ptr \in Int /\ Asz(live[k].sz) \in Nat /\ Asz(live[k].sz) > 0
        OBVIOUS
      <4>1. live[k].ptr \in Int /\ live[k].sz \in Nat
        BY <1>2
      <4>2. Asz(live[k].sz) \in Nat /\ live[k].sz <= Asz(live[k].sz) /\ live[k].sz > 0
        BY <1>6
      <4> QED BY <4>1, <4>2
    <3> QED BY <1>1, <3>1
  <2> QED BY <2>1, <2>2
<1> HIDE DEF p
<1>8. DOMAIN blocks' = DOMAIN blocks => LiveInv'
  BY <1>3 DEF IInv, LiveInv
<1>9. CASE Verdict(p) # ""
  <2>1. UNCHANGED <<blocks, gs>>
    BY <1>9 DEF Free, FreeBlock, p
  <2>2. TypeOK'
    BY <1>2, <1>3, <1>5, <2>1 DEF TypeOK
  <2>3. OwnerInv'
    <3> SUFFICES ASSUME NEW q \in DOMAIN blocks, ~blocks[q].free
                 PROVE  \E j \in Active' : /\ live'[j].ptr = q /\ live'[j].sz = blocks[q].usz
                                           /\ blocks[q].bsz = Asz(blocks[q].usz)
      BY <2>1 DEF OwnerInv, OwnerOK
    <3>1. PICK j \in Active : /\ live[j].ptr = q /\ live[j].sz = blocks[q].usz
                              /\ blocks[q].bsz = Asz(blocks[q].usz)
      BY DEF IInv, OwnerInv, OwnerOK
    <3>2. q # p
      BY <1>9 DEF Verdict
    <3>3. j # i
      BY <3>1, <3>2 DEF p
    <3> QED BY <1>3, <3>1, <3>3
  <2>4. BlockInv' /\ FreeInv'
    BY <1>3, <2>1 DEF IInv, BlockInv, BlockOK, FreeInv, FreeOK
  <2>5. StatsInv'
    BY <1>1, <1>4, <1>9, <2>1 DEF IInv, StatsInv
  <2> QED BY <1>5, <1>8, <2>1, <2>2, <2>3, <2>4, <2>5 DEF IInv
<1>10. CASE Verdict(p) = ""
  <2>1. /\ p \in DOMAIN blocks /\ ~blocks[p].free
        /\ blocks' = [blocks EXCEPT ![p].free = TRUE]
        /\ gs' = [gs EXCEPT !.active_count = @ - 1, !.active_bytes = @ - BytesOf(p)]
    BY <1>10 DEF Free, FreeBlock, Verdict, p
  <2>2. \A q \in DOMAIN blocks :
          blocks[q] \in [bsz : 0 .. SIZE, usz : 0 .. SIZE, free : BOOLEAN]
    BY <1>2 DEF TypeOK
  <2>3. /\ DOMAIN blocks' = DOMAIN blocks
        /\ \A q \in DOMAIN blocks \ {p} : blocks'[q] = blocks[q]
        /\ blocks'[p] = [blocks[p] EXCEPT !.free = TRUE]
    BY <2>1
  <2>4. /\ blocks'[p].free /\ blocks'[p].bsz = blocks[p].bsz
        /\ blocks'[p] \in [bsz : 0 .. SIZE, usz : 0 .. SIZE, free : BOOLEAN]
    BY <2>1, <2>2, <2>3
  <2>5. live[i].sz = blocks[p].usz /\ blocks[p].bsz = Asz(live[i].sz)
    <3>1. PICK j \in Active : /\ live[j].ptr = p /\ live[j].sz = blocks[p].usz
                              /\ blocks[p].bsz = Asz(blocks[p].usz)
      BY <2>1 DEF IInv, OwnerInv, OwnerOK
    <3>2. j = i
      BY <1>7, <3>1
    <3> QED BY <3>1, <3>2
  <2>6. TypeOK'
    <3>1. \A q \in DOMAIN blocks' :
            blocks'[q] \in [bsz : 0 .. SIZE, usz : 0 .. SIZE, free : BOOLEAN]
      BY <2>2, <2>3, <2>4
    <3>2. gs \in [total_count : Nat, active_count : Int, active_bytes : Int]
      BY DEF IInv, StatsInv
    <3>3. gs'.active_bytes \in Int
      <4>1. BytesOf(p) \in Int
        BY <1>2, <2>5 DEF BytesOf
      <4> QED BY <2>1, <3>2, <4>1
    <3>4. DOMAIN blocks' \subseteq 0 .. SIZE
      BY <1>2, <2>3 DEF TypeOK
    <3> QED BY <1>3, <1>5, <3>1, <3>3, <3>4 DEF TypeOK
  <2>7. BlockInv'
    <3>1. \A q \in DOMAIN blocks : blocks'[q].bsz = blocks[q].bsz
      BY <2>3, <2>4
    <3> QED BY <2>3, <3>1 DEF IInv, BlockInv, BlockOK
  <2>8. OwnerInv'
    <3> SUFFICES ASSUME NEW q \in DOMAIN blocks', ~blocks'[q].free
                 PROVE  \E j \in Active' : /\ live'[j].ptr = q /\ live'[j].sz = blocks'[q].usz
                                           /\ blocks'[q].bsz = Asz(blocks'[q].usz)
      BY DEF OwnerInv, OwnerOK
    <3>1. q # p /\ q \in DOMAIN blocks /\ blocks'[q] = blocks[q]
      BY <2>3, <2>4
    <3>2. PICK j \in Active : /\ live[j].ptr = q /\ live[j].sz = blocks[q].usz
                              /\ blocks[q].bsz = Asz(blocks[q].usz)
      BY <3>1 DEF IInv, OwnerInv, OwnerOK
    <3>3. j # i
      BY <3>1, <3>2 DEF p
    <3> QED BY <1>3, <3>1, <3>2, <3>3
  <2>9. FreeInv'
    <3> SUFFICES ASSUME NEW j \in Active', NEW q \in DOMAIN blocks',
                        blocks'[q].free, blocks'[q].bsz > 0
                 PROVE  \/ live'[j].ptr + Asz(live'[j].sz) <= q
                        \/ q + blocks'[q].bsz <= live'[j].ptr
      BY DEF FreeInv, FreeOK
    <3>1. j \in Active \ {i} /\ live'[j] = live[j]
      BY <1>3
    <3>2. CASE q = p
      BY <1>7, <2>4, <2>5, <3>1, <3>2
    <3>3. CASE q # p
      <4>1. q \in DOMAIN blocks /\ blocks'[q] = blocks[q]
        BY <2>3, <3>3
      <4> QED BY <3>1, <4>1 DEF IInv, FreeInv, FreeOK
    <3> QED BY <3>2, <3>3
  <2>10. StatsInv'
    <3>1. Cardinality(Active') = Cardinality(Active) - 1
      BY <1>1, <1>2, <1>3, FS_RemoveElement
    <3>2. gs \in [total_count : Nat, active_count : Int, active_bytes : Int]
      BY DEF IInv, StatsInv
    <3>3. /\ gs' \in [total_count : Nat, active_count : Int, active_bytes : Int]
          /\ gs'.active_count = gs.active_count - 1
          /\ gs'.active_bytes = gs.active_bytes - live[i].sz
      <4>1. BytesOf(p) = live[i].sz /\ live[i].sz \in Int
        BY <1>2, <2>5 DEF BytesOf
      <4>2. gs' = [gs EXCEPT !.active_count = gs.active_count - 1,
                             !.active_bytes = gs.active_bytes - live[i].sz]
        BY <2>1, <3>2, <4>1
      <4>3. gs.active_count - 1 \in Int /\ gs.active_bytes - live[i].sz \in Int
        BY <3>2, <4>1
      <4>4. /\ gs'.total_count = gs.total_count /\ gs'.active_count = gs.active_count - 1
            /\ gs'.active_bytes = gs.active_bytes - live[i].sz
            /\ gs' = [total_count |-> gs'.total_count, active_count |-> gs'.active_count,
                      active_bytes |-> gs'.active_bytes]
        BY <3>2, <4>2
      <4>5. gs.total_count \in Nat
        BY <3>2
      <4> QED BY <4>3, <4>4, <4>5
    <3> QED BY <1>1, <1>4, <3>1, <3>3 DEF IInv, StatsInv
  <2> QED BY <1>5, <1>8, <2>3, <2>6, <2>7, <2>8, <2>9, <2>10 DEF IInv
<1> QED BY <1>9, <1>10

\* m61_free() of what the program does not hold: no block that is allocated starts
\* there, so the code aborts.
LEMMA MisuseAborts ==
  ASSUME IInv, NEW p \in 0 .. SIZE, Misuse(p)
  PROVE  IInv'
<1>1. Verdict(p) # ""
  <2> SUFFICES ASSUME Verdict(p) = "" PROVE FALSE
    OBVIOUS
  <2>1. p \in DOMAIN blocks /\ ~blocks[p].free
    BY DEF Verdict
  <2>2. \E j \in Active : live[j].ptr = p
    BY <2>1 DEF IInv, OwnerInv, OwnerOK
  <2> QED BY <2>2 DEF Misuse, Active
<1>2. UNCHANGED <<blocks, gs, live>> /\ aborted' = Verdict(p)
  BY <1>1 DEF Misuse, FreeBlock
<1>3. aborted' # "" /\ aborted' \in {"", "invalid free", "double free"}
  BY <1>1, <1>2 DEF Verdict
<1>4. Active' = Active
  BY <1>2 DEF Active
<1>5. TypeOK'
  BY <1>2, <1>3 DEF IInv, TypeOK
<1>6. BlockInv' /\ OwnerInv' /\ FreeInv' /\ LiveInv'
  BY <1>2, <1>4 DEF IInv, BlockInv, BlockOK, OwnerInv, OwnerOK, FreeInv, FreeOK, LiveInv
<1> QED BY <1>2, <1>3, <1>5, <1>6 DEF IInv, StatsInv, DetectsMisuse

\* Every call keeps the invariant.
LEMMA NextInv ==
  ASSUME IInv, Positive, [Next]_vars PROVE IInv'
<1>1. CASE Next
  <2>1. ASSUME NEW i \in Slots, NEW sz \in Sizes, Malloc(i, sz) PROVE IInv'
    BY <2>1, MallocNull, MallocSplit
  <2> QED BY <1>1, <2>1, FreeKeeps, MisuseAborts DEF Next
<1>2. CASE UNCHANGED vars
  <2>1. Active' = Active
    BY <1>2 DEF vars, Active
  <2> QED BY <1>2, <2>1 DEF vars, IInv, TypeOK, BlockInv, BlockOK, OwnerInv, OwnerOK, FreeInv,
                            FreeOK, LiveInv, StatsInv, DetectsMisuse
<1> QED BY <1>1, <1>2

\* The invariant holds always.
LEMMA AlwaysIInv == ASSUME Positive PROVE Spec => []IInv
<1>1. Init => IInv
  BY InitInv
<1>2. IInv /\ [Next]_vars => IInv'
  BY NextInv
<1> QED BY <1>1, <1>2, PTL DEF Spec

-----------------------------------------------------------------------------
\* m61_get_statistics() agrees with what the program holds, however blocks were
\* split, overwritten and reused, and a free of anything else aborts.
THEOREM StatisticsAreRight ==
  ASSUME Positive PROVE Spec => []BooksRight
<1>1. IInv => BooksRight
  BY DEF IInv, StatsInv, BooksRight, StatisticsRight
<1> QED BY <1>1, AlwaysIInv, PTL

\* "ASZ is a multiple of 16 so that SZ <= ASZ <= BSZ" in m61_malloc(): the block
\* given away covers the request and fits in the free block it was cut from.
THEOREM SplitsFit ==
  ASSUME Positive PROVE Spec => SplitFits
<1> DEFINE Fit ==
      \A p \in DOMAIN Blocks :
        Blocks[p].free /\ p \in DOMAIN blocks' /\ ~blocks'[p].free =>
          /\ blocks'[p].bsz % ALIGN = 0
          /\ blocks'[p].usz <= blocks'[p].bsz
          /\ blocks'[p].bsz <= Blocks[p].bsz
<1>1. ASSUME IInv, [Next]_vars PROVE [Fit]_vars
  <2> SUFFICES ASSUME NEW q \in DOMAIN Blocks, Blocks[q].free, q \in DOMAIN blocks',
                      ~blocks'[q].free, Next
               PROVE  /\ blocks'[q].bsz % ALIGN = 0
                      /\ blocks'[q].usz <= blocks'[q].bsz
                      /\ blocks'[q].bsz <= Blocks[q].bsz
    BY <1>1
  <2>1. blocks' # Blocks
    OBVIOUS
  <2>2. blocks' # blocks
    BY DEF Blocks
  <2>3. ASSUME NEW i \in Slots, NEW sz \in Sizes, Malloc(i, sz)
        PROVE  /\ blocks'[q].bsz % ALIGN = 0
               /\ blocks'[q].usz <= blocks'[q].bsz
               /\ blocks'[q].bsz <= Blocks[q].bsz
    <3>1. PICK p \in Candidates(sz) : blocks' = Split(p, sz)
      <4>1. Candidates(sz) # {} /\ blocks' = Split(Min(Candidates(sz)), sz)
        BY <2>1, <2>3 DEF Malloc
      <4>2. Candidates(sz) \in SUBSET Nat
        <5>1. DOMAIN Blocks \subseteq Nat
          BY <1>1, BlocksFacts, DerpAssumption
        <5> QED BY <5>1 DEF Candidates
      <4> QED BY <4>1, <4>2, MinIn
    <3>2. /\ Asz(sz) \in 1 .. Blocks[p].bsz /\ sz <= Asz(sz) /\ Asz(sz) % ALIGN = 0
          /\ blocks'[p] = [bsz |-> Asz(sz), usz |-> sz, free |-> FALSE]
          /\ blocks'[p + Asz(sz)].free
          /\ \A r \in DOMAIN Blocks \ {p, p + Asz(sz)} : blocks'[r] = Blocks[r]
          /\ Blocks[p].bsz \in Int
      <4>1. IInv
        BY <1>1
      <4>2. /\ Asz(sz) \in 1 .. Blocks[p].bsz /\ sz <= Asz(sz) /\ Asz(sz) % ALIGN = 0
            /\ Split(p, sz)[p] = [bsz |-> Asz(sz), usz |-> sz, free |-> FALSE]
            /\ Split(p, sz)[p + Asz(sz)]
                 = [bsz |-> Blocks[p].bsz - Asz(sz), usz |-> 0, free |-> TRUE]
            /\ \A r \in DOMAIN Blocks \ {p, p + Asz(sz)} : Split(p, sz)[r] = Blocks[r]
            /\ Blocks[p].bsz \in 0 .. SIZE
        BY <2>3, <4>1, SplitFacts
      <4> QED BY <3>1, <4>2, DerpAssumption
    <3>3. q = p
      BY <3>2
    <3> QED BY <3>2, <3>3
  <2>4. ASSUME NEW p, FreeBlock(p) PROVE FALSE
    <3>1. Verdict(p) = "" /\ blocks' = [blocks EXCEPT ![p].free = TRUE]
      BY <2>2, <2>4 DEF FreeBlock
    <3>2. p \in DOMAIN blocks /\ blocks[p] \in [bsz : 0 .. SIZE, usz : 0 .. SIZE, free : BOOLEAN]
      BY <1>1, <3>1 DEF IInv, TypeOK, Verdict
    <3>3. Blocks = blocks
      BY <3>2 DEF Blocks
    <3>4. blocks'[p] = [blocks[p] EXCEPT !.free = TRUE]
      BY <3>1, <3>2
    <3>5. blocks'[p].free
      BY <3>2, <3>4
    <3>6. q # p
      BY <3>5
    <3>7. blocks'[q] = blocks[q]
      BY <3>1, <3>3, <3>6
    <3> QED BY <3>3, <3>7
  <2> QED BY <2>3, <2>4 DEF Next, Free, Misuse
<1>2. IInv /\ [Next]_vars => [Fit]_vars
  BY <1>1
<1> QED BY <1>2, AlwaysIInv, PTL DEF Spec, SplitFits

\* A call of m61-derp.cc is a call that Malloc61 allows, or changes no allocation.
LEMMA ContractStep ==
  ASSUME IInv, Positive, [Next]_vars PROVE [Contract!Next]_live
<1> USE DEF Empty, Contract!Empty, NULL
<1>1. ASSUME NEW i \in Slots, NEW sz \in Sizes, Malloc(i, sz)
      PROVE  Contract!Malloc(i) \/ UNCHANGED live
  <2> SUFFICES ASSUME live' # live PROVE Contract!Malloc(i)
    OBVIOUS
  <2>1. PICK p \in Candidates(sz) :
          live[i] = Empty /\ live' = [live EXCEPT ![i] = [ptr |-> p, sz |-> sz]]
    <3>1. /\ Candidates(sz) # {} /\ live[i] = Empty
          /\ live' = [live EXCEPT ![i] = [ptr |-> Min(Candidates(sz)), sz |-> sz]]
      BY <1>1 DEF Malloc
    <3>2. Candidates(sz) \in SUBSET Nat
      <4>1. DOMAIN Blocks \subseteq Nat
        BY BlocksFacts, DerpAssumption
      <4> QED BY <4>1 DEF Candidates
    <3> QED BY <3>1, <3>2, MinIn
  <2>2. /\ p \in DOMAIN Blocks /\ Blocks[p].free /\ p \in Nat /\ sz \in Nat \ {0}
        /\ Blocks[p].bsz \in Nat /\ p + Blocks[p].bsz <= SIZE
        /\ sz <= Blocks[p].bsz /\ Blocks[p].bsz > 0 /\ SIZE \in Nat
    <3>1. /\ p \in DOMAIN Blocks /\ Blocks[p].free /\ p \in Nat /\ sz \in Nat \ {0}
          /\ Blocks[p].bsz \in 0 .. SIZE /\ p + Blocks[p].bsz <= SIZE
          /\ Asz(sz) \in 1 .. Blocks[p].bsz /\ sz <= Asz(sz)
      BY <1>1, SplitFacts
    <3> QED BY <3>1, DerpAssumption
  <2>3. p \in 0 .. SIZE /\ p + sz <= SIZE
    BY <2>2
  <2>4. \A j \in Slots : live[j].ptr \in Int /\ live[j].sz \in Nat
    BY SlotFacts DEF IInv
  <2>5. ASSUME NEW j \in Slots \ {i}
        PROVE  Contract!Bytes(live[j]) \cap Contract!Bytes([ptr |-> p, sz |-> sz]) = {}
    <3>1. CASE j \in Active
      <4>1. live[j].ptr + Asz(live[j].sz) <= p \/ p + Blocks[p].bsz <= live[j].ptr
        BY <2>2, <3>1, BlocksFacts DEF FreeOK
      <4>2. Asz(live[j].sz) \in Nat /\ live[j].sz <= Asz(live[j].sz)
        BY <3>1 DEF IInv, LiveInv
      <4>3. live[j].ptr + live[j].sz <= p \/ p + sz <= live[j].ptr
        BY <2>2, <2>4, <4>1, <4>2
      <4> QED BY <2>2, <2>4, <4>3 DEF Contract!Bytes
    <3>2. CASE j \notin Active
      <4>1. live[j] = Empty
        BY <3>2 DEF Active
      <4> QED BY <4>1, <2>2 DEF Contract!Bytes
    <3> QED BY <3>1, <3>2
  <2> QED BY <2>1, <2>3, <2>5 DEF Contract!Malloc
<1>2. ASSUME NEW i \in Slots, Free(i) PROVE Contract!Free(i)
  BY <1>2 DEF Free, Contract!Free
<1>3. ASSUME NEW p \in 0 .. SIZE, Misuse(p) PROVE UNCHANGED live
  BY <1>3 DEF Misuse
<1>4. CASE Next
  BY <1>1, <1>2, <1>3, <1>4 DEF Next, Contract!Next
<1>5. CASE UNCHANGED vars
  BY <1>5 DEF vars
<1> QED BY <1>4, <1>5

\* m61-derp.cc implements Malloc61: a live allocation never moves and meets no
\* other, although the entry of one may have been overwritten.
THEOREM AllocationContract ==
  ASSUME Positive PROVE Spec => ImplementsMalloc61
<1>1. Init => Contract!Init
  BY DEF Init, Contract!Init, Empty, Contract!Empty, NULL
<1>2. IInv /\ [Next]_vars => [Contract!Next]_live
  BY ContractStep
<1> QED BY <1>1, <1>2, AlwaysIInv, PTL DEF Spec, ImplementsMalloc61, Contract!Spec
=============================================================================
