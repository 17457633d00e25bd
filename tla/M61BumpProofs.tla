--------------------------- MODULE M61BumpProofs ----------------------------
(***************************************************************************)
(* Proofs about M61Bump: for every buffer size, set of slots and set of    *)
(* positive sizes the bump allocators of pset1b implement Malloc61, and    *)
(* m61-staff.cc aborts exactly on wrong frees.                             *)
(*                                                                         *)
(* Malloc61 is not inductive for them: m61-lastalloc.cc needs to know that *)
(* what it may take back is behind everything else that is live, and       *)
(* m61-reuseempty.cc that its counter counts.  IInv says so.               *)
(***************************************************************************)
EXTENDS M61Bump, FiniteSets, FiniteSetTheorems, TLAPS

-----------------------------------------------------------------------------
(* How the number of bytes a program holds changes with an allocation and  *)
(* with a free: what the statistics rest on.                               *)

\* An allocation of n bytes has n bytes.
LEMMA OneAllocation ==
  ASSUME NEW i, NEW n \in Nat
  PROVE  IsFiniteSet({i} \X (1 .. n)) /\ Cardinality({i} \X (1 .. n)) = n
<1>1. IsFiniteSet({i}) /\ Cardinality({i}) = 1
  BY FS_Singleton
<1>2. IsFiniteSet(1 .. n) /\ Cardinality(1 .. n) = n
  <2>1. IsFiniteSet(1 .. n) /\ Cardinality(1 .. n) = IF 1 > n THEN 0 ELSE n - 1 + 1
    BY FS_Interval
  <2> QED BY <2>1
<1>3. /\ IsFiniteSet({i} \X (1 .. n))
      /\ Cardinality({i} \X (1 .. n)) = Cardinality({i}) * Cardinality(1 .. n)
  BY <1>1, <1>2, FS_Product
<1> QED BY <1>1, <1>2, <1>3

\* If one slot changes, the others' bytes stay.
LEMMA OneSlot ==
  ASSUME NEW f, NEW g, NEW i \in DOMAIN f, DOMAIN g = DOMAIN f,
         \A j \in DOMAIN f \ {i} : g[j].sz = f[j].sz, f[i].sz = 0
  PROVE  /\ Held(g) = Held(f) \cup ({i} \X (1 .. g[i].sz))
         /\ Held(f) \cap ({i} \X (1 .. g[i].sz)) = {}
<1>1. ASSUME NEW x PROVE x \in Held(f) <=> \E j \in DOMAIN f \ {i} : x \in {j} \X (1 .. f[j].sz)
  <2>1. {i} \X (1 .. f[i].sz) = {}
    OBVIOUS
  <2> QED BY <2>1 DEF Held
<1>2. ASSUME NEW x PROVE x \in Held(g) <=> \E j \in DOMAIN f : x \in {j} \X (1 .. g[j].sz)
  BY DEF Held
<1>3. Held(g) = Held(f) \cup ({i} \X (1 .. g[i].sz))
  BY <1>1, <1>2
<1>4. Held(f) \cap ({i} \X (1 .. g[i].sz)) = {}
  BY <1>1
<1> QED BY <1>3, <1>4

\* An allocation of n bytes adds n; read backwards, its free takes n away.
LEMMA HeldChange ==
  ASSUME NEW f, NEW g, NEW i \in DOMAIN f, DOMAIN g = DOMAIN f,
         \A j \in DOMAIN f \ {i} : g[j].sz = f[j].sz, f[i].sz = 0, g[i].sz \in Nat
  PROVE  /\ IsFiniteSet(Held(f)) <=> IsFiniteSet(Held(g))
         /\ IsFiniteSet(Held(f)) => Cardinality(Held(g)) = Cardinality(Held(f)) + g[i].sz
<1> DEFINE new == {i} \X (1 .. g[i].sz)
<1>1. Held(g) = Held(f) \cup new /\ Held(f) \cap new = {}
  BY OneSlot
<1>2. IsFiniteSet(new) /\ Cardinality(new) = g[i].sz
  BY OneAllocation
<1> HIDE DEF new
<1>3. ASSUME IsFiniteSet(Held(g)) PROVE IsFiniteSet(Held(f))
  BY <1>1, <1>3, FS_Subset
<1>4. ASSUME IsFiniteSet(Held(f))
      PROVE  IsFiniteSet(Held(g)) /\ Cardinality(Held(g)) = Cardinality(Held(f)) + g[i].sz
  <2>1. /\ IsFiniteSet(Held(f) \cup new)
        /\ Cardinality(Held(f) \cup new)
             = Cardinality(Held(f)) + Cardinality(new) - Cardinality(Held(f) \cap new)
    BY <1>2, <1>4, FS_Union
  <2>2. Cardinality(Held(f) \cap new) = 0
    BY <1>1, FS_EmptySet
  <2>3. Cardinality(Held(f)) \in Nat
    BY <1>4, FS_CardinalityType
  <2> QED BY <1>1, <1>2, <2>1, <2>2, <2>3
<1> QED BY <1>3, <1>4

\* Nothing is held in empty slots.
LEMMA HeldNothing ==
  ASSUME NEW f, \A i \in DOMAIN f : f[i].sz = 0
  PROVE  Held(f) = {} /\ IsFiniteSet(Held(f)) /\ Cardinality(Held(f)) = 0
<1>1. Held(f) = {}
  BY DEF Held
<1> QED BY <1>1, FS_EmptySet

-----------------------------------------------------------------------------
(* The allocator.                                                          *)

\* No request is for no bytes.  (With one, m61-lastalloc.cc breaks the contract.)
Positive == 0 \notin Sizes

Apart(a, b) == a.ptr + a.sz <= b.ptr \/ b.ptr + b.sz <= a.ptr

\* What is live lies in the part of the buffer that has been handed out ...
LiveInv == \A i \in Active : /\ live[i].ptr >= 0 /\ live[i].sz \in Sizes
                             /\ live[i].ptr + live[i].sz <= Buffer

\* ... and apart from everything else that is live.
ApartInv == \A i, j \in Active : i # j => Apart(live[i], live[j])

\* m61-lastalloc.cc: nothing live lies behind the latest allocation.
LastInv ==
  variant = "lastalloc" /\ last_allocation # NULL =>
    /\ last_allocation <= Buffer
    /\ \A i \in Active : \/ live[i].ptr = last_allocation
                         \/ live[i].ptr + live[i].sz <= last_allocation

\* m61-reuseempty.cc: the counter counts, and an empty buffer is all free.
CountInv ==
  variant = "reuseempty" =>
    /\ gs.active_count = Cardinality(Active)
    /\ Active = {} => Buffer = 0

\* m61-staff.cc: the table holds what is live.
TableInv ==
  variant = "staff" /\ ~aborted =>
    DOMAIN active_allocs = {live[i].ptr : i \in Active}

IInv == /\ TypeOK /\ LiveInv /\ ApartInv /\ LastInv /\ CountInv /\ TableInv
        /\ AbortsOnMisuse

-----------------------------------------------------------------------------
\* Freeing slot i leaves the other allocations as they are.
LEMMA FreedSlot ==
  ASSUME TypeOK, NEW i \in Slots, live' = [live EXCEPT ![i] = Empty]
  PROVE  /\ Active' = Active \ {i}
         /\ \A j \in Active' : live'[j] = live[j]
         /\ live' \in [Slots -> [ptr : NULL .. SIZE, sz : Sizes \cup {0}]]
<1>1. live \in [Slots -> [ptr : NULL .. SIZE, sz : Sizes \cup {0}]]
  BY DEF TypeOK
<1>2. Empty \in [ptr : NULL .. SIZE, sz : Sizes \cup {0}]
  BY SizeAssumption DEF Empty, NULL
<1>3. \A j \in Slots : live'[j] = IF j = i THEN Empty ELSE live[j]
  BY <1>1
<1> QED BY <1>1, <1>2, <1>3 DEF Active

\* So does an allocation into the empty slot i.
LEMMA TakenSlot ==
  ASSUME TypeOK, NEW i \in Slots, live[i] = Empty,
         NEW p \in 0 .. SIZE, NEW sz \in Sizes,
         live' = [live EXCEPT ![i] = [ptr |-> p, sz |-> sz]]
  PROVE  /\ Active' = Active \cup {i} /\ i \notin Active
         /\ \A j \in Active : live'[j] = live[j]
         /\ live'[i] = [ptr |-> p, sz |-> sz]
         /\ live' \in [Slots -> [ptr : NULL .. SIZE, sz : Sizes \cup {0}]]
<1>1. live \in [Slots -> [ptr : NULL .. SIZE, sz : Sizes \cup {0}]]
  BY DEF TypeOK
<1>2. [ptr |-> p, sz |-> sz] \in [ptr : NULL .. SIZE, sz : Sizes \cup {0}]
  BY SizeAssumption DEF NULL
<1>3. [ptr |-> p, sz |-> sz] # Empty
  BY DEF Empty, NULL
<1>4. \A j \in Slots : live'[j] = IF j = i THEN [ptr |-> p, sz |-> sz] ELSE live[j]
  BY <1>1
<1> QED BY <1>1, <1>2, <1>3, <1>4 DEF Active

\* What is live has a place and a size.
LEMMA LiveTypes ==
  ASSUME TypeOK
  PROVE  /\ \A i \in Slots : live[i].ptr \in Int /\ live[i].sz \in Nat
         /\ Buffer \in 0 .. SIZE /\ last_allocation \in Int
         /\ Active \subseteq Slots /\ IsFiniteSet(Active) /\ Cardinality(Active) \in Nat
<1>1. Active \subseteq Slots
  BY DEF Active
<1>2. IsFiniteSet(Active) /\ Cardinality(Active) \in Nat
  BY <1>1, SlotsAssumption, FS_Subset, FS_CardinalityType
<1>3. live \in [Slots -> [ptr : NULL .. SIZE, sz : Sizes \cup {0}]]
  BY DEF TypeOK
<1>4. \A i \in Slots : live[i].ptr \in NULL .. SIZE /\ live[i].sz \in Sizes \cup {0}
  BY <1>3
<1>5. \A i \in Slots : live[i].ptr \in Int /\ live[i].sz \in Nat
  <2> TAKE i \in Slots
  <2>1. live[i].ptr \in NULL .. SIZE /\ live[i].sz \in Sizes \cup {0}
    BY <1>4
  <2>2. live[i].ptr \in Int
    BY <2>1, SizeAssumption DEF NULL
  <2>3. live[i].sz \in Nat
    <3>1. \A s \in Sizes \cup {0} : s \in Nat
      BY SizeAssumption
    <3> QED BY <2>1, <3>1 DEF NULL
  <2> QED BY <2>2, <2>3
<1>6. buffer \in NULL .. SIZE /\ last_allocation \in NULL .. SIZE
  BY DEF TypeOK
<1>7. Buffer \in 0 .. SIZE /\ last_allocation \in Int
  BY <1>6, SizeAssumption DEF Buffer, NULL
<1> QED BY <1>1, <1>2, <1>5, <1>7

-----------------------------------------------------------------------------
\* IInv holds at the start.
LEMMA InitInv == Init => IInv
<1> SUFFICES ASSUME Init PROVE IInv
  OBVIOUS
<1>1. Active = {}
  BY DEF Init, Active
<1>2. TypeOK
  <2>1. live \in [Slots -> [ptr : NULL .. SIZE, sz : Sizes \cup {0}]]
    BY SizeAssumption DEF Init, NULL, Empty
  <2>2. gs \in [total_count : Nat, total_bytes : Nat, active_count : Int, active_bytes : Int]
    BY DEF Init, NoStats
  <2>3. DOMAIN active_allocs = {}
    BY DEF Init, NoAllocs
  <2>4. buffer \in NULL .. SIZE /\ last_allocation \in NULL .. SIZE
    BY SizeAssumption DEF Init, NULL
  <2> QED BY <2>1, <2>2, <2>3, <2>4 DEF Init, TypeOK
<1>3. Buffer = 0
  BY DEF Init, Buffer
<1>4. gs.active_count = Cardinality(Active)
  BY <1>1, FS_EmptySet DEF Init, NoStats
<1>5. DOMAIN active_allocs = {live[i].ptr : i \in Active}
  BY <1>1 DEF Init, NoAllocs
<1> QED BY <1>1, <1>2, <1>3, <1>4, <1>5
        DEF IInv, LiveInv, ApartInv, LastInv, CountInv, TableInv, AbortsOnMisuse, Init

\* m61_malloc()
LEMMA MallocInv ==
  ASSUME IInv, NEW i \in Slots, NEW sz \in Sizes, Malloc(i, sz), Positive
  PROVE  IInv'
<1> USE SizeAssumption
<1>t. TypeOK /\ Buffer \in 0 .. SIZE /\ last_allocation \in Int
  BY LiveTypes DEF IInv
<1>s. sz \in Nat /\ sz > 0
  BY DEF Positive
<1>1. CASE ~Fits(sz)
  <2>1. /\ buffer' = Buffer
        /\ UNCHANGED <<variant, live, last_allocation, gs, active_allocs, aborted, misused>>
    BY <1>1 DEF Malloc
  <2>2. Buffer' = Buffer /\ Active' = Active
    BY <2>1, <1>t DEF Buffer, Active, NULL
  <2>3. TypeOK'
    BY <2>1, <1>t DEF TypeOK, NULL
  <2> QED BY <2>1, <2>2, <2>3
          DEF IInv, LiveInv, ApartInv, Apart, LastInv, CountInv, TableInv, AbortsOnMisuse
<1>2. CASE Fits(sz)
  <2>1. /\ live' = [live EXCEPT ![i] = [ptr |-> Buffer, sz |-> sz]]
        /\ buffer' = Buffer + sz
        /\ last_allocation' = IF variant = "lastalloc" THEN Buffer ELSE NULL
        /\ gs' = IF Counting THEN Counted(sz) ELSE gs
        /\ active_allocs' = IF variant = "staff" THEN Inserted(Buffer, sz)
                            ELSE active_allocs
        /\ UNCHANGED <<variant, aborted, misused>>
        /\ live[i] = Empty /\ ~aborted
    BY <1>2 DEF Malloc
  <2>2. /\ Active' = Active \cup {i} /\ i \notin Active
        /\ \A j \in Active : live'[j] = live[j]
        /\ live'[i] = [ptr |-> Buffer, sz |-> sz]
        /\ live' \in [Slots -> [ptr : NULL .. SIZE, sz : Sizes \cup {0}]]
    BY <1>t, <2>1, TakenSlot
  <2>3. Buffer' = Buffer + sz /\ Buffer + sz <= SIZE /\ buffer' \in 0 .. SIZE
    BY <1>2, <1>t, <1>s, <2>1 DEF Buffer, Fits, NULL
  <2>l. \A j \in Active : live[j].ptr \in Int /\ live[j].sz \in Nat
    BY <1>t, LiveTypes
  <2>4. TypeOK'
    <3>g. gs \in [total_count : Nat, total_bytes : Nat, active_count : Int, active_bytes : Int]
      BY <1>t DEF TypeOK
    <3>1. gs' \in [total_count : Nat, total_bytes : Nat, active_count : Int, active_bytes : Int]
      <4>1. \/ gs' = gs
            \/ gs' = [gs EXCEPT !.total_count = gs.total_count + 1,
                                !.total_bytes = gs.total_bytes + sz,
                                !.active_count = gs.active_count + 1,
                                !.active_bytes = gs.active_bytes + sz]
        BY <2>1 DEF Counted
      <4>2. /\ gs.total_count + 1 \in Nat /\ gs.total_bytes + sz \in Nat
            /\ gs.active_count + 1 \in Int /\ gs.active_bytes + sz \in Int
        BY <3>g, <1>s
      <4> QED BY <4>1, <4>2, <3>g
    <3>2. /\ DOMAIN active_allocs' \subseteq 0 .. SIZE
          /\ \A p \in DOMAIN active_allocs' : active_allocs'[p] \in Nat
      BY <2>1, <1>t, <1>s DEF TypeOK, Inserted
    <3>3. last_allocation' \in NULL .. SIZE
      BY <2>1, <1>t DEF NULL
    <3> QED BY <2>1, <2>2, <2>3, <3>1, <3>2, <3>3, <1>t DEF TypeOK, NULL
  <2>5. LiveInv'
    BY <1>t, <1>s, <2>2, <2>3, <2>l DEF IInv, LiveInv
  <2>6. ApartInv'
    BY <1>t, <1>s, <2>2, <2>3, <2>l DEF IInv, LiveInv, ApartInv, Apart
  <2>7. LastInv'
    BY <1>t, <1>s, <2>1, <2>2, <2>3, <2>l DEF IInv, LiveInv, LastInv
  <2>8. CountInv'
    <3>1. Cardinality(Active') = Cardinality(Active) + 1
      BY <1>t, <2>2, LiveTypes, FS_AddElement
    <3>2. variant = "reuseempty" => gs'.active_count = gs.active_count + 1
      BY <2>1, <1>t DEF Counting, Counted, TypeOK
    <3> QED BY <2>1, <2>2, <3>1, <3>2 DEF IInv, CountInv
  <2>9. TableInv'
    <3>1. variant = "staff" => DOMAIN active_allocs' = DOMAIN active_allocs \cup {Buffer}
      BY <2>1 DEF Inserted
    <3>2. {live'[j].ptr : j \in Active'} = {live[j].ptr : j \in Active} \cup {Buffer}
      BY <2>2
    <3> QED BY <2>1, <3>1, <3>2 DEF IInv, TableInv
  <2> QED BY <2>1, <2>4, <2>5, <2>6, <2>7, <2>8, <2>9 DEF IInv, AbortsOnMisuse
<1> QED BY <1>1, <1>2

\* What every m61_free() of an allocation keeps, if it leaves the buffer alone
\* or moves its end to where nothing live lies behind it.
LEMMA FreedInv ==
  ASSUME IInv, NEW i \in Slots, live' = [live EXCEPT ![i] = Empty],
         buffer' \in NULL .. SIZE,
         \A j \in Active \ {i} : live[j].ptr + live[j].sz <= Buffer'
  PROVE  LiveInv' /\ ApartInv'
<1>1. /\ Active' = Active \ {i}
      /\ \A j \in Active' : live'[j] = live[j]
  BY FreedSlot DEF IInv
<1> QED BY <1>1 DEF IInv, LiveInv, ApartInv, Apart

\* m61_free() of m61-section.cc
LEMMA FreeNothingInv ==
  ASSUME IInv, NEW i \in Slots, FreeNothing(i) PROVE IInv'
<1>1. /\ Active' = Active \ {i}
      /\ \A j \in Active' : live'[j] = live[j]
      /\ live' \in [Slots -> [ptr : NULL .. SIZE, sz : Sizes \cup {0}]]
  BY FreedSlot DEF IInv, FreeNothing
<1>2. /\ UNCHANGED <<variant, buffer, last_allocation, active_allocs, gs, aborted, misused>>
      /\ variant = "section"
  BY DEF FreeNothing
<1>3. Buffer' = Buffer
  BY <1>2 DEF Buffer
<1>4. LiveInv' /\ ApartInv'
  BY <1>2, <1>3, FreedInv DEF FreeNothing, IInv, TypeOK, LiveInv
<1>5. TypeOK'
  BY <1>1, <1>2 DEF IInv, TypeOK
<1> QED BY <1>2, <1>4, <1>5 DEF IInv, LastInv, CountInv, TableInv, AbortsOnMisuse

\* m61_free() of m61-lastalloc.cc: only the latest allocation starts where the
\* latest allocation starts, since no size is 0.
LEMMA FreeLastInv ==
  ASSUME IInv, NEW i \in Slots, FreeLast(i), Positive PROVE IInv'
<1>1. /\ Active' = Active \ {i} /\ i \in Active
      /\ \A j \in Active' : live'[j] = live[j]
      /\ live' \in [Slots -> [ptr : NULL .. SIZE, sz : Sizes \cup {0}]]
  BY FreedSlot DEF IInv, FreeLast, Active
<1>2. /\ UNCHANGED <<variant, active_allocs, gs, aborted, misused>>
      /\ variant = "lastalloc"
  BY DEF FreeLast
<1>t. /\ \A j \in Slots : live[j].ptr \in Int /\ live[j].sz \in Nat
      /\ Buffer \in 0 .. SIZE /\ last_allocation \in Int
      /\ Active \subseteq Slots
  BY LiveTypes DEF IInv
<1>z. \A j \in Active : live[j].sz > 0
  BY <1>t, SizeAssumption DEF IInv, LiveInv, Positive
<1>3. CASE live[i].ptr = last_allocation
  <2>1. buffer' = last_allocation /\ last_allocation' = NULL
    BY <1>3 DEF FreeLast, IsLast
  <2>2. last_allocation >= 0 /\ last_allocation <= SIZE
    <3>1. live[i].ptr >= 0 /\ live[i].ptr + live[i].sz <= Buffer
      BY <1>1 DEF IInv, LiveInv
    <3> QED BY <1>1, <1>3, <1>t, <3>1, SizeAssumption
  <2>3. Buffer' = last_allocation /\ buffer' \in NULL .. SIZE
    BY <2>1, <2>2, <1>t DEF Buffer, NULL
  <2>4. \A j \in Active \ {i} : live[j].ptr + live[j].sz <= last_allocation
    BY <1>1, <1>2, <1>3, <1>t, <1>z, <2>2 DEF IInv, LastInv, ApartInv, Apart, NULL
  <2>5. LiveInv' /\ ApartInv'
    BY <2>3, <2>4, FreedInv DEF FreeLast
  <2>6. TypeOK'
    BY <1>1, <1>2, <2>1, <2>3, SizeAssumption DEF IInv, TypeOK, NULL
  <2> QED BY <1>2, <2>1, <2>5, <2>6 DEF IInv, LastInv, CountInv, TableInv, AbortsOnMisuse
<1>4. CASE live[i].ptr # last_allocation
  <2>1. UNCHANGED <<buffer, last_allocation>>
    BY <1>4 DEF FreeLast, IsLast
  <2>2. Buffer' = Buffer
    BY <2>1 DEF Buffer
  <2>3. LiveInv' /\ ApartInv'
    BY <2>1, <2>2, FreedInv DEF FreeLast, IInv, TypeOK, LiveInv
  <2>4. TypeOK'
    BY <1>1, <1>2, <2>1 DEF IInv, TypeOK
  <2>5. LastInv'
    BY <1>1, <1>2, <2>1, <2>2 DEF IInv, LastInv
  <2> QED BY <1>2, <2>3, <2>4, <2>5 DEF IInv, CountInv, TableInv, AbortsOnMisuse
<1> QED BY <1>3, <1>4

\* m61_free() of m61-reuseempty.cc: the counter is 0 only when nothing is live.
LEMMA FreeCountInv ==
  ASSUME IInv, NEW i \in Slots, FreeCount(i) PROVE IInv'
<1>1. /\ Active' = Active \ {i} /\ i \in Active
      /\ \A j \in Active' : live'[j] = live[j]
      /\ live' \in [Slots -> [ptr : NULL .. SIZE, sz : Sizes \cup {0}]]
  BY FreedSlot DEF IInv, FreeCount, Active
<1>2. /\ UNCHANGED <<variant, last_allocation, active_allocs, aborted, misused>>
      /\ variant = "reuseempty"
  BY DEF FreeCount
<1>t. Buffer \in 0 .. SIZE /\ IsFiniteSet(Active) /\ Cardinality(Active) \in Nat
  BY LiveTypes DEF IInv
<1>c. /\ Cardinality(Active') = gs.active_count - 1
      /\ IsFiniteSet(Active')
  BY <1>1, <1>2, <1>t, FS_RemoveElement DEF IInv, CountInv
<1>e. Active' = {} <=> gs.active_count - 1 = 0
  BY <1>c, FS_EmptySet
<1>g. gs' \in [total_count : Nat, total_bytes : Nat, active_count : Int, active_bytes : Int]
      /\ gs'.active_count = gs.active_count - 1
  <2>1. gs \in [total_count : Nat, total_bytes : Nat, active_count : Int, active_bytes : Int]
    BY DEF IInv, TypeOK
  <2>2. \/ gs' = [gs EXCEPT !.active_count = gs.active_count - 1, !.active_bytes = 0]
        \/ gs' = [gs EXCEPT !.active_count = gs.active_count - 1]
    BY DEF FreeCount
  <2>3. gs.active_count - 1 \in Int
    BY <2>1
  <2>4. CASE gs' = [gs EXCEPT !.active_count = gs.active_count - 1, !.active_bytes = 0]
    <3>1. PICK n \in Int : n = 0
      OBVIOUS
    <3>2. gs' = [gs EXCEPT !.active_count = gs.active_count - 1, !.active_bytes = n]
      BY <2>4, <3>1
    <3> QED BY <2>1, <2>3, <3>2
  <2>5. CASE gs' = [gs EXCEPT !.active_count = gs.active_count - 1]
    BY <2>1, <2>3, <2>5
  <2> QED BY <2>2, <2>4, <2>5
<1>3. CASE gs.active_count - 1 = 0
  <2>1. buffer' = 0 /\ Buffer' = 0
    BY <1>3 DEF FreeCount, NowEmpty, Buffer, NULL
  <2>2. LiveInv' /\ ApartInv'
    BY <1>3, <1>e DEF LiveInv, ApartInv
  <2>3. TypeOK'
    BY <1>1, <1>2, <1>g, <2>1, SizeAssumption DEF IInv, TypeOK, NULL
  <2> QED BY <1>2, <1>c, <1>g, <2>1, <2>2, <2>3
          DEF IInv, LastInv, CountInv, TableInv, AbortsOnMisuse
<1>4. CASE gs.active_count - 1 # 0
  <2>1. buffer' = buffer /\ Buffer' = Buffer
    BY <1>4 DEF FreeCount, NowEmpty, Buffer
  <2>2. LiveInv' /\ ApartInv'
    BY <2>1, FreedInv DEF FreeCount, IInv, TypeOK, LiveInv
  <2>3. TypeOK'
    BY <1>1, <1>2, <1>g, <2>1 DEF IInv, TypeOK
  <2> QED BY <1>2, <1>4, <1>c, <1>e, <1>g, <2>1, <2>2, <2>3
          DEF IInv, LastInv, CountInv, TableInv, AbortsOnMisuse
<1> QED BY <1>3, <1>4

\* m61_free() of m61-staff.cc: what is live is in the table, under an address
\* that nothing else has.
LEMMA FreeStaffInv ==
  ASSUME IInv, NEW i \in Slots, FreeStaff(i), Positive PROVE IInv'
<1>1. /\ Active' = Active \ {i} /\ i \in Active
      /\ \A j \in Active' : live'[j] = live[j]
      /\ live' \in [Slots -> [ptr : NULL .. SIZE, sz : Sizes \cup {0}]]
  BY FreedSlot DEF IInv, FreeStaff, Active
<1>t. /\ \A j \in Slots : live[j].ptr \in Int /\ live[j].sz \in Nat
      /\ Active \subseteq Slots
  BY LiveTypes DEF IInv
<1>z. \A j \in Active : live[j].sz > 0
  BY <1>t, SizeAssumption DEF IInv, LiveInv, Positive
<1>2. live[i].ptr \in DOMAIN active_allocs
  BY <1>1 DEF FreeStaff, FreeActive, IInv, TableInv
<1>3. /\ UNCHANGED <<variant, buffer, last_allocation, aborted, misused>>
      /\ variant = "staff"
      /\ gs' = [gs EXCEPT !.active_count = @ - 1,
                          !.active_bytes = @ - active_allocs[live[i].ptr]]
      /\ active_allocs' = Erased(live[i].ptr)
  BY <1>2 DEF FreeStaff, FreeActive
<1>4. Buffer' = Buffer
  BY <1>3 DEF Buffer
<1>5. LiveInv' /\ ApartInv'
  BY <1>3, <1>4, FreedInv DEF FreeStaff, IInv, TypeOK, LiveInv
<1>6. TypeOK'
  <2>1. gs' \in [total_count : Nat, total_bytes : Nat, active_count : Int, active_bytes : Int]
    <3>1. gs \in [total_count : Nat, total_bytes : Nat, active_count : Int, active_bytes : Int]
          /\ active_allocs[live[i].ptr] \in Nat
      BY <1>2 DEF IInv, TypeOK
    <3>2. /\ gs.active_count - 1 \in Int
          /\ gs.active_bytes - active_allocs[live[i].ptr] \in Int
      BY <3>1
    <3>3. gs' = [gs EXCEPT !.active_count = gs.active_count - 1,
                           !.active_bytes = gs.active_bytes - active_allocs[live[i].ptr]]
      BY <1>3
    <3> QED BY <3>1, <3>2, <3>3
  <2>2. /\ DOMAIN active_allocs' \subseteq 0 .. SIZE
        /\ \A p \in DOMAIN active_allocs' : active_allocs'[p] \in Nat
    BY <1>3 DEF IInv, TypeOK, Erased, Restrict
  <2> QED BY <1>1, <1>3, <2>1, <2>2 DEF IInv, TypeOK
<1>7. TableInv'
  <2>1. \A j \in Active \ {i} : live[j].ptr # live[i].ptr
    BY <1>1, <1>t, <1>z DEF IInv, ApartInv, Apart
  <2>2. {live'[j].ptr : j \in Active'} = {live[j].ptr : j \in Active} \ {live[i].ptr}
    BY <1>1, <2>1
  <2>3. DOMAIN active_allocs' = DOMAIN active_allocs \ {live[i].ptr}
    BY <1>3 DEF Erased, Restrict
  <2> QED BY <1>3, <2>2, <2>3 DEF IInv, TableInv
<1> QED BY <1>3, <1>5, <1>6, <1>7 DEF IInv, LastInv, CountInv, AbortsOnMisuse

\* A wrong free finds nothing in the table.
LEMMA MisuseInv ==
  ASSUME IInv, NEW p \in 0 .. SIZE, Misuse(p) PROVE IInv'
<1>1. p \notin DOMAIN active_allocs
  BY DEF Misuse, FreeActive, IInv, TableInv, Active
<1>2. /\ aborted' = TRUE /\ misused' = TRUE
      /\ UNCHANGED <<variant, buffer, last_allocation, live, gs, active_allocs>>
      /\ variant = "staff"
  BY <1>1 DEF Misuse, FreeActive
<1>3. Buffer' = Buffer /\ Active' = Active
  BY <1>2 DEF Buffer, Active
<1>4. TypeOK'
  BY <1>2 DEF IInv, TypeOK
<1> QED BY <1>2, <1>3, <1>4
        DEF IInv, LiveInv, ApartInv, Apart, LastInv, CountInv, TableInv, AbortsOnMisuse

\* IInv is inductive.
LEMMA NextInv ==
  ASSUME IInv, [Next]_vars, Positive PROVE IInv'
<1>1. CASE \E i \in Slots, sz \in Sizes : Malloc(i, sz)
  BY <1>1, MallocInv
<1>2. CASE \E i \in Slots : FreeNothing(i) \/ FreeLast(i) \/ FreeCount(i) \/ FreeStaff(i)
  BY <1>2, FreeNothingInv, FreeLastInv, FreeCountInv, FreeStaffInv
<1>3. CASE \E p \in 0 .. SIZE : Misuse(p)
  BY <1>3, MisuseInv
<1>4. CASE UNCHANGED vars
  <2>1. Buffer' = Buffer /\ Active' = Active
    BY <1>4 DEF vars, Buffer, Active
  <2>2. TypeOK'
    BY <1>4 DEF vars, IInv, TypeOK
  <2> QED BY <1>4, <2>1, <2>2
          DEF vars, IInv, LiveInv, ApartInv, Apart, LastInv, CountInv, TableInv, AbortsOnMisuse
<1> QED BY <1>1, <1>2, <1>3, <1>4 DEF Next

\* IInv always holds.
LEMMA AlwaysIInv ==
  ASSUME Positive PROVE Spec => []IInv
BY InitInv, NextInv, PTL DEF Spec

-----------------------------------------------------------------------------
\* m61-staff.cc aborts with "invalid free" on the first free of what is not
\* active, and never on the free of an active allocation.
THEOREM StaffAbortsRight ==
  ASSUME Positive PROVE Spec => []AbortsOnMisuse
<1>1. IInv => AbortsOnMisuse
  BY DEF IInv
<1> QED BY <1>1, AlwaysIInv, PTL

\* m61-reuseempty.cc gets all of its buffer back, and nothing live lies behind
\* what m61-lastalloc.cc may take back.
THEOREM SpaceReturns ==
  ASSUME Positive PROVE Spec => []SpaceComesBack
<1>1. IInv => SpaceComesBack
  BY LiveTypes DEF IInv, SpaceComesBack, LastInv, CountInv
<1> QED BY <1>1, AlwaysIInv, PTL

\* A step of an allocator is a step of the contract.
LEMMA ContractStep ==
  ASSUME IInv, [Next]_vars PROVE [Contract!Next]_live
<1> USE SizeAssumption DEF Empty, Contract!Empty, NULL
<1>1. ASSUME NEW i \in Slots, NEW sz \in Sizes, Malloc(i, sz), Fits(sz)
      PROVE  Contract!Malloc(i)
  <2>t. /\ \A j \in Slots : live[j].ptr \in Int /\ live[j].sz \in Nat
        /\ Buffer \in 0 .. SIZE
    BY LiveTypes DEF IInv
  <2>1. live[i] = Empty /\ live' = [live EXCEPT ![i] = [ptr |-> Buffer, sz |-> sz]]
    BY <1>1 DEF Malloc
  <2>2. Buffer + sz <= SIZE
    BY <1>1, <2>t DEF Fits
  <2>3. ASSUME NEW j \in Slots \ {i}
        PROVE  Contract!Bytes(live[j]) \cap Contract!Bytes([ptr |-> Buffer, sz |-> sz]) = {}
    <3>1. CASE j \in Active
      <4>1. live[j].ptr + live[j].sz <= Buffer
        BY <3>1 DEF IInv, LiveInv
      <4> QED BY <4>1, <2>t DEF Contract!Bytes
    <3>2. CASE j \notin Active
      <4>1. live[j] = Empty
        BY <3>2 DEF Active
      <4> QED BY <4>1 DEF Contract!Bytes
    <3> QED BY <3>1, <3>2
  <2> QED BY <2>t, <2>1, <2>2, <2>3 DEF Contract!Malloc
<1>2. ASSUME NEW i \in Slots, NEW sz \in Sizes, Malloc(i, sz), ~Fits(sz)
      PROVE  UNCHANGED live
  BY <1>2 DEF Malloc
<1>3. ASSUME NEW i \in Slots,
             FreeNothing(i) \/ FreeLast(i) \/ FreeCount(i) \/ FreeStaff(i)
      PROVE  Contract!Free(i)
  BY <1>3 DEF FreeNothing, FreeLast, FreeCount, FreeStaff, Contract!Free
<1>4. ASSUME NEW p \in 0 .. SIZE, Misuse(p) PROVE UNCHANGED live
  BY <1>4 DEF Misuse
<1>5. CASE Next
  BY <1>1, <1>2, <1>3, <1>4, <1>5 DEF Next, Contract!Next
<1>6. CASE UNCHANGED vars
  BY <1>6 DEF vars
<1> QED BY <1>5, <1>6

\* The four allocators implement Malloc61: live allocations never overlap or
\* move, for any buffer size and any number of slots.
THEOREM AllocationContract ==
  ASSUME Positive PROVE Spec => ImplementsMalloc61
<1>1. Init => Contract!Init
  BY DEF Init, Contract!Init, Empty, Contract!Empty, NULL
<1>2. IInv /\ [Next]_vars => [Contract!Next]_live
  BY ContractStep
<1> QED BY <1>1, <1>2, AlwaysIInv, PTL DEF Spec, ImplementsMalloc61, Contract!Spec

-----------------------------------------------------------------------------
\* The statistics: m61-staff.cc counts what is held, and its table has the sizes;
\* m61-reuseempty.cc counts no bytes when nothing is held.
StatsInv ==
  /\ IsFiniteSet(Held(live))
  /\ variant = "staff" /\ ~aborted =>
       /\ gs.active_count = Cardinality(Active) /\ gs.active_bytes = Cardinality(Held(live))
       /\ \A i \in Active : active_allocs[live[i].ptr] = live[i].sz
  /\ variant = "reuseempty" /\ Active = {} => gs.active_bytes = 0

\* What is held when slot i is taken, or freed.
LEMMA HeldNext ==
  ASSUME TypeOK, NEW i \in Slots, IsFiniteSet(Held(live))
  PROVE  /\ \A p \in 0 .. SIZE, sz \in Sizes :
              live[i] = Empty /\ live' = [live EXCEPT ![i] = [ptr |-> p, sz |-> sz]] =>
                IsFiniteSet(Held(live')) /\ Cardinality(Held(live')) = Cardinality(Held(live)) + sz
         /\ live' = [live EXCEPT ![i] = Empty] =>
              IsFiniteSet(Held(live'))
              /\ Cardinality(Held(live')) = Cardinality(Held(live)) - live[i].sz
<1>1. PICK f : f = live
  OBVIOUS
<1>2. PICK g : g = live'
  OBVIOUS
<1>3. DOMAIN f = Slots /\ IsFiniteSet(Held(f)) /\ f[i].sz \in Nat
  BY <1>1, LiveTypes DEF TypeOK
<1>4. ASSUME NEW p \in 0 .. SIZE, NEW sz \in Sizes, f[i] = Empty,
             g = [f EXCEPT ![i] = [ptr |-> p, sz |-> sz]]
      PROVE  IsFiniteSet(Held(g)) /\ Cardinality(Held(g)) = Cardinality(Held(f)) + sz
  <2>1. DOMAIN g = DOMAIN f /\ f[i].sz = 0 /\ g[i].sz = sz /\ g[i].sz \in Nat
    BY <1>3, <1>4, SizeAssumption DEF Empty
  <2>2. \A j \in DOMAIN f \ {i} : g[j].sz = f[j].sz
    BY <1>4
  <2>3. IsFiniteSet(Held(g)) /\ Cardinality(Held(g)) = Cardinality(Held(f)) + g[i].sz
    BY <1>3, <2>1, <2>2, HeldChange
  <2> QED BY <2>1, <2>3
<1>5. ASSUME g = [f EXCEPT ![i] = Empty]
      PROVE  IsFiniteSet(Held(g)) /\ Cardinality(Held(g)) = Cardinality(Held(f)) - f[i].sz
  <2>1. DOMAIN f = DOMAIN g /\ g[i].sz = 0 /\ i \in DOMAIN g
    BY <1>3, <1>5 DEF Empty
  <2>2. \A j \in DOMAIN g \ {i} : f[j].sz = g[j].sz
    BY <1>5
  <2>3. IsFiniteSet(Held(g)) /\ Cardinality(Held(f)) = Cardinality(Held(g)) + f[i].sz
    BY <1>3, <2>1, <2>2, HeldChange
  <2>4. Cardinality(Held(g)) \in Nat
    BY <2>3, FS_CardinalityType
  <2> QED BY <1>3, <2>3, <2>4
<1> QED BY <1>1, <1>2, <1>4, <1>5

\* Every call keeps the statistics.
LEMMA StatsNext ==
  ASSUME IInv, StatsInv, [Next]_vars, Positive
  PROVE  StatsInv'
<1>t. /\ TypeOK /\ Buffer \in 0 .. SIZE /\ IsFiniteSet(Active) /\ Cardinality(Active) \in Nat
      /\ \A i \in Slots : live[i].ptr \in Int /\ live[i].sz \in Nat
      /\ Active \subseteq Slots
  BY LiveTypes DEF IInv
<1>g. gs \in [total_count : Nat, total_bytes : Nat, active_count : Int, active_bytes : Int]
  BY <1>t DEF TypeOK
<1>z. \A j \in Active : live[j].sz > 0
  BY <1>t, SizeAssumption DEF IInv, LiveInv, Positive
<1>1. ASSUME NEW i \in Slots, NEW sz \in Sizes, Malloc(i, sz) PROVE StatsInv'
  <2>1. CASE ~Fits(sz)
    BY <1>1, <2>1 DEF Malloc, StatsInv, Active
  <2>2. CASE Fits(sz)
    <3>1. /\ live' = [live EXCEPT ![i] = [ptr |-> Buffer, sz |-> sz]]
          /\ gs' = IF Counting THEN Counted(sz) ELSE gs
          /\ active_allocs' = IF variant = "staff" THEN Inserted(Buffer, sz) ELSE active_allocs
          /\ UNCHANGED <<variant, aborted>> /\ live[i] = Empty
      BY <1>1, <2>2 DEF Malloc
    <3>2. /\ Active' = Active \cup {i} /\ i \notin Active
          /\ \A j \in Active : live'[j] = live[j]
          /\ live'[i] = [ptr |-> Buffer, sz |-> sz]
      BY <1>t, <3>1, TakenSlot
    <3>3. IsFiniteSet(Held(live')) /\ Cardinality(Held(live')) = Cardinality(Held(live)) + sz
      BY <1>t, <3>1, HeldNext DEF StatsInv
    <3>4. CASE variant = "staff" /\ ~aborted
      <4>1. gs'.active_count = gs.active_count + 1 /\ gs'.active_bytes = gs.active_bytes + sz
        BY <3>1, <3>4, <1>g DEF Counting, Counted
      <4>2. Cardinality(Active') = Cardinality(Active) + 1
        BY <1>t, <3>2, FS_AddElement
      <4>3. \A j \in Active : live[j].ptr # Buffer /\ live[j].ptr \in DOMAIN active_allocs
        BY <1>t, <1>z, <3>4 DEF IInv, LiveInv, TableInv
      <4>4. Buffer \notin DOMAIN active_allocs
        BY <1>t, <3>4, <4>3 DEF IInv, TableInv
      <4>5. \A j \in Active' : active_allocs'[live'[j].ptr] = live'[j].sz
        BY <3>1, <3>2, <3>4, <4>3, <4>4 DEF StatsInv, Inserted
      <4> QED
        BY <3>1, <3>3, <3>4, <4>1, <4>2, <4>5 DEF StatsInv
    <3>5. CASE ~(variant = "staff" /\ ~aborted)
      BY <3>1, <3>2, <3>3, <3>5 DEF StatsInv
    <3> QED BY <3>4, <3>5
  <2> QED BY <2>1, <2>2
<1>2. ASSUME NEW i \in Slots, FreeNothing(i) \/ FreeLast(i) \/ FreeCount(i) PROVE StatsInv'
  <2>1. live' = [live EXCEPT ![i] = Empty] /\ UNCHANGED variant /\ variant # "staff" /\ i \in Active
    BY <1>2 DEF FreeNothing, FreeLast, FreeCount, Active
  <2>2. IsFiniteSet(Held(live'))
    BY <1>t, <2>1, HeldNext DEF StatsInv
  <2>3. ASSUME variant = "reuseempty", Active' = {} PROVE gs'.active_bytes = 0
    <3>1. Active' = Active \ {i}
      BY <1>t, <2>1, FreedSlot
    <3>2. Cardinality(Active) = 1
      BY <2>1, <2>3, <3>1, <1>t, FS_RemoveElement, FS_EmptySet
    <3>3. gs.active_count - 1 = 0
      BY <2>3, <3>2 DEF IInv, CountInv
    <3> QED
      BY <1>2, <1>g, <2>3, <3>3 DEF FreeNothing, FreeLast, FreeCount, NowEmpty
  <2> QED
    BY <2>1, <2>2, <2>3 DEF StatsInv
<1>3. ASSUME NEW i \in Slots, FreeStaff(i) PROVE StatsInv'
  <2>1. /\ live' = [live EXCEPT ![i] = Empty] /\ i \in Active /\ variant = "staff" /\ ~aborted
        /\ variant' = variant
    BY <1>3 DEF FreeStaff, FreeActive, Active
  <2>2. Active' = Active \ {i} /\ \A j \in Active' : live'[j] = live[j]
    BY <1>t, <2>1, FreedSlot
  <2>3. IsFiniteSet(Held(live')) /\ Cardinality(Held(live')) = Cardinality(Held(live)) - live[i].sz
    BY <1>t, <2>1, HeldNext DEF StatsInv
  <2>4. live[i].ptr \in DOMAIN active_allocs /\ active_allocs[live[i].ptr] = live[i].sz
    BY <2>1 DEF IInv, TableInv, StatsInv
  <2>5. /\ gs' = [gs EXCEPT !.active_count = @ - 1, !.active_bytes = @ - live[i].sz]
        /\ active_allocs' = Erased(live[i].ptr) /\ aborted' = aborted
    BY <1>3, <2>4 DEF FreeStaff, FreeActive
  <2>6. gs'.active_count = gs.active_count - 1 /\ gs'.active_bytes = gs.active_bytes - live[i].sz
    BY <1>g, <2>5
  <2>7. Cardinality(Active') = Cardinality(Active) - 1
    BY <1>t, <2>1, <2>2, FS_RemoveElement
  <2>8. ASSUME NEW j \in Active' PROVE active_allocs'[live'[j].ptr] = live'[j].sz
    <3>1. live[j].ptr # live[i].ptr
      BY <2>1, <2>2, <1>t, <1>z DEF IInv, ApartInv, Apart
    <3>2. live[j].ptr \in DOMAIN active_allocs
      BY <2>1, <2>2 DEF IInv, TableInv
    <3> QED
      BY <2>1, <2>2, <2>5, <3>1, <3>2 DEF StatsInv, Erased, Restrict
  <2> QED
    BY <2>1, <2>3, <2>5, <2>6, <2>7, <2>8 DEF StatsInv
<1>4. ASSUME NEW p \in 0 .. SIZE, Misuse(p) PROVE StatsInv'
  <2>1. p \notin DOMAIN active_allocs
    BY <1>4 DEF Misuse, FreeActive, IInv, TableInv, Active
  <2> QED
    BY <1>4, <2>1 DEF Misuse, FreeActive, StatsInv, Active
<1>5. CASE UNCHANGED vars
  BY <1>5 DEF vars, StatsInv, Active
<1> QED BY <1>1, <1>2, <1>3, <1>4, <1>5 DEF Next

\* m61_get_statistics() tells the program what it holds, for any order of calls: every
\* active allocation and its bytes with m61-staff.cc, and with m61-reuseempty.cc the
\* allocations, and no bytes when all have been freed.
THEOREM StatisticsAreRight ==
  ASSUME Positive PROVE Spec => []BooksRight
<1>1. Init => StatsInv
  <2> SUFFICES ASSUME Init PROVE StatsInv
    OBVIOUS
  <2>1. \A i \in DOMAIN live : live[i].sz = 0
    BY DEF Init, Empty
  <2>2. Active = {}
    BY DEF Init, Active
  <2> QED
    BY <2>1, <2>2, HeldNothing, FS_EmptySet DEF Init, NoStats, StatsInv
<1>2. IInv /\ StatsInv => BooksRight
  <2> SUFFICES ASSUME IInv, StatsInv PROVE BooksRight
    OBVIOUS
  <2>1. ASSUME Active = {} PROVE Cardinality(Held(live)) = 0
    <3>1. \A i \in DOMAIN live : live[i].sz = 0
      BY <2>1 DEF Active, Empty, IInv, TypeOK
    <3> QED BY <3>1, HeldNothing
  <2>2. StatisticsRight
    BY <2>1 DEF StatisticsRight, StatsInv, IInv, CountInv, AbortsOnMisuse, Counting, ActiveBytes
  <2> QED BY <2>2 DEF BooksRight, IInv
<1> QED BY <1>1, <1>2, StatsNext, AlwaysIInv, PTL DEF Spec
=============================================================================
