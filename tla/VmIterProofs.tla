---------------------------- MODULE VmIterProofs ----------------------------
(***************************************************************************)
(* Proofs about the page table iterators, for every width of an index, an  *)
(* offset and an address, and every table that mappings can make.          *)
(*                                                                         *)
(* What the table says of an address is a walk from its root (Reached).    *)
(* IterInv keeps a vmiter at the end of its address's walk, or in the hole *)
(* between the halves of the address space; for that the table has to stay *)
(* a tree (Tree), through every page that try_map() links into it.         *)
(*                                                                         *)
(* PtInv has the ptiter at an entry on the way down from the root, and     *)
(* every page that has been freed past it: for a block of addresses before *)
(* its own, or further down in its own.                                    *)
(***************************************************************************)
EXTENDS VmIter, FiniteSetTheorems, WellFoundedInduction, TLAPS

-----------------------------------------------------------------------------
(* Sizes.                                                                  *)

\* The entries of depth k in a page table, 0 at the root, each stand for Size(k)
\* addresses; a page table page has Fan entries, half of the root's are for low
\* addresses; there are Words addresses, Spaces times the reach of a root.
Lev(k) == initial_lbits - k * PAGEINDEXBITS
Size(k) == 2 ^ Lev(k)
Fan == 2 ^ PAGEINDEXBITS
Half == 2 ^ (PAGEINDEXBITS - 1)
Words == 2 ^ WORDBITS
Spaces == 2 ^ (WORDBITS - VABITS)
Block(va, k) == va \div Size(k)

\* The levels of a page table are different, and lie apart.
LEMMA Levels ==
  /\ Lev(0) = initial_lbits /\ Lev(3) = PAGEOFFBITS /\ Lev(2) = PAGEOFFBITS + PAGEINDEXBITS
  /\ Lbits = {Lev(k) : k \in 0 .. 3}
  /\ \A k \in 0 .. 3 : Lev(k) \in Nat /\ Lev(k) <= initial_lbits /\ Lev(k) >= PAGEOFFBITS
                       /\ Lev(k) < noncanonical_lbits /\ Lev(k) < done_lbits
  /\ \A k \in 0 .. 3, j \in 0 .. 3 : Lev(j) < Lev(k) <=> k < j
  /\ \A k \in 1 .. 3 : Lev(k) + PAGEINDEXBITS = Lev(k - 1) /\ Lev(k - 1) - PAGEINDEXBITS = Lev(k)
  /\ noncanonical_lbits < done_lbits /\ initial_lbits < noncanonical_lbits
  /\ noncanonical_lbits \in Nat /\ done_lbits \in Nat /\ initial_lbits \in Nat
<1> USE WidthAssumption
<1>1. Lev(0) = initial_lbits /\ Lev(3) = PAGEOFFBITS /\ Lev(2) = PAGEOFFBITS + PAGEINDEXBITS
      /\ Lev(1) = PAGEOFFBITS + 2 * PAGEINDEXBITS
  BY DEF Lev, initial_lbits
<1>2. \A k \in 0 .. 3 : k = 0 \/ k = 1 \/ k = 2 \/ k = 3
  OBVIOUS
<1>3. Lbits = {Lev(k) : k \in 0 .. 3}
  <2>1. \A k \in 0 .. 3 : 3 - k \in 0 .. 3 /\ PAGEOFFBITS + k * PAGEINDEXBITS = Lev(3 - k)
    BY <1>2 DEF Lev, initial_lbits
  <2>2. \A k \in 0 .. 3 : 3 - (3 - k) = k
    OBVIOUS
  <2>3. ASSUME NEW l \in Lbits PROVE l \in {Lev(k) : k \in 0 .. 3}
    BY <2>1 DEF Lbits
  <2>4. ASSUME NEW k \in 0 .. 3 PROVE Lev(k) \in Lbits
    BY <2>1, <2>2 DEF Lbits
  <2> QED BY <2>3, <2>4
<1>4. \A k \in 0 .. 3 : Lev(k) \in Nat /\ Lev(k) <= initial_lbits /\ Lev(k) >= PAGEOFFBITS
                        /\ Lev(k) < noncanonical_lbits /\ Lev(k) < done_lbits
  BY <1>1, <1>2 DEF initial_lbits, noncanonical_lbits, done_lbits, VABITS
<1>5. \A k \in 0 .. 3, j \in 0 .. 3 : Lev(j) < Lev(k) <=> k < j
  <2>1. initial_lbits = PAGEOFFBITS + 3 * PAGEINDEXBITS
    BY DEF initial_lbits
  <2>2. Lev(3) < Lev(2) /\ Lev(2) < Lev(1) /\ Lev(1) < Lev(0)
    BY <1>1, <2>1
  <2>3. \A k \in 0 .. 3 : Lev(k) \in Int
    BY <1>4
  <2> QED BY <1>2, <2>2, <2>3
<1>6. \A k \in 1 .. 3 : Lev(k) + PAGEINDEXBITS = Lev(k - 1) /\ Lev(k - 1) - PAGEINDEXBITS = Lev(k)
  BY DEF Lev, initial_lbits
<1>7. /\ noncanonical_lbits < done_lbits /\ initial_lbits < noncanonical_lbits
      /\ noncanonical_lbits \in Nat /\ done_lbits \in Nat /\ initial_lbits \in Nat
  BY DEF noncanonical_lbits, done_lbits, initial_lbits, VABITS
<1> QED BY <1>1, <1>3, <1>4, <1>5, <1>6, <1>7

\* How the sizes go together.
LEMMA Sizes ==
  /\ \A k \in 0 .. 3 : Size(k) \in Nat \ {0}
  /\ \A k \in 1 .. 3 : Size(k - 1) = Size(k) * Fan
  /\ Size(3) = PAGESIZE
  /\ Fan \in Nat \ {0} /\ Half \in Nat \ {0} /\ Fan = 2 * Half
  /\ Words \in Nat \ {0} /\ Spaces \in Nat /\ Spaces > 1
  /\ Words = Size(0) * (Fan * Spaces)
  /\ 2 ^ noncanonical_lbits = Size(0) * Half
  /\ VA_LOWMAX = Size(0) * Half - 1
  /\ VA_HIGHMIN = Words - Size(0) * Half
<1> USE WidthAssumption
<1>0. /\ initial_lbits = PAGEOFFBITS + 3 * PAGEINDEXBITS /\ VABITS = PAGEOFFBITS + 4 * PAGEINDEXBITS
      /\ VABITS \in Nat /\ initial_lbits \in Nat
  BY DEF initial_lbits, VABITS
<1>p. ASSUME NEW j \in Nat, NEW k \in Nat, j + k <= WORDBITS
      PROVE  2 ^ (j + k) = 2 ^ j * 2 ^ k /\ 2 ^ j \in Nat \ {0} /\ 2 ^ k \in Nat \ {0}
  <2>1. j \in 0 .. WORDBITS /\ k \in 0 .. WORDBITS
    BY <1>p
  <2> QED BY <1>p, <2>1, PowerAssumption
<1>1. \A k \in 0 .. 3 : Size(k) \in Nat \ {0}
  <2> TAKE k \in 0 .. 3
  <2>1. Lev(k) \in Nat /\ Lev(k) < done_lbits
    BY Levels
  <2>2. Lev(k) \in 0 .. WORDBITS
    BY <2>1 DEF done_lbits
  <2> QED BY <2>2, PowerAssumption DEF Size
<1>2. \A k \in 1 .. 3 : Size(k - 1) = Size(k) * Fan
  <2> TAKE k \in 1 .. 3
  <2>1. Lev(k) + PAGEINDEXBITS = Lev(k - 1) /\ Lev(k) \in Nat /\ Lev(k - 1) < done_lbits
    BY Levels
  <2>2. 2 ^ (Lev(k) + PAGEINDEXBITS) = 2 ^ Lev(k) * 2 ^ PAGEINDEXBITS
    BY <1>p, <2>1 DEF done_lbits
  <2> QED BY <2>1, <2>2 DEF Size, Fan
<1>3. Size(3) = PAGESIZE
  BY Levels DEF Size, PAGESIZE
<1>4. Fan \in Nat \ {0} /\ Half \in Nat \ {0} /\ Fan = 2 * Half
  <2>1. PICK i \in Nat : i = PAGEINDEXBITS - 1 /\ 1 + i = PAGEINDEXBITS /\ 1 + i <= WORDBITS
    BY <1>0
  <2>2. 2 ^ (1 + i) = 2 ^ 1 * 2 ^ i /\ 2 ^ i \in Nat \ {0}
    BY <1>p, <2>1
  <2>3. 2 ^ PAGEINDEXBITS = 2 * 2 ^ (PAGEINDEXBITS - 1)
    BY <2>1, <2>2, PowerAssumption
  <2> DEFINE h == 2 ^ (PAGEINDEXBITS - 1)
             f == 2 ^ PAGEINDEXBITS
  <2>4. h \in Nat \ {0} /\ f = 2 * h
    BY <2>1, <2>2, <2>3
  <2> HIDE DEF h, f
  <2>5. f \in Nat \ {0}
    BY <2>4
  <2> QED BY <2>4, <2>5 DEF h, f, Fan, Half
<1>5. Words \in Nat \ {0} /\ Spaces \in Nat /\ Spaces > 1 /\ Words = 2 ^ VABITS * Spaces
  <2>1. /\ WORDBITS - VABITS \in Nat /\ VABITS + (WORDBITS - VABITS) = WORDBITS
        /\ (WORDBITS - VABITS) - 1 \in Nat
        /\ 1 + ((WORDBITS - VABITS) - 1) = WORDBITS - VABITS
        /\ WORDBITS - VABITS <= WORDBITS
    BY <1>0
  <2>2. 2 ^ WORDBITS = 2 ^ VABITS * 2 ^ (WORDBITS - VABITS)
    BY <1>0, <1>p, <2>1
  <2> DEFINE r == (WORDBITS - VABITS) - 1
  <2>3. 2 ^ (1 + r) = 2 ^ 1 * 2 ^ r /\ 2 ^ r \in Nat \ {0}
    BY <1>p, <2>1
  <2>4. 2 ^ (WORDBITS - VABITS) = 2 * 2 ^ r
    BY <2>1, <2>3, PowerAssumption
  <2>5. Words \in Nat \ {0}
    BY PowerAssumption DEF Words
  <2>6. Spaces = 2 * 2 ^ r
    BY <2>4 DEF Spaces
  <2>7. ASSUME NEW x \in Nat \ {0} PROVE 2 * x \in Nat /\ 2 * x > 1
    OBVIOUS
  <2> QED BY <2>2, <2>3, <2>5, <2>6, <2>7 DEF Words, Spaces
<1>6. 2 ^ VABITS = Size(0) * Fan
  <2>1. initial_lbits + PAGEINDEXBITS = VABITS /\ VABITS <= WORDBITS
    BY <1>0
  <2>2. 2 ^ (initial_lbits + PAGEINDEXBITS) = 2 ^ initial_lbits * 2 ^ PAGEINDEXBITS
    BY <1>0, <1>p, <2>1
  <2> QED BY <2>1, <2>2, Levels DEF Size, Fan
<1>7. 2 ^ noncanonical_lbits = Size(0) * Half
  <2>1. /\ initial_lbits + (PAGEINDEXBITS - 1) = noncanonical_lbits
        /\ PAGEINDEXBITS - 1 \in Nat /\ noncanonical_lbits <= WORDBITS
    BY <1>0 DEF noncanonical_lbits
  <2>2. 2 ^ (initial_lbits + (PAGEINDEXBITS - 1)) = 2 ^ initial_lbits * 2 ^ (PAGEINDEXBITS - 1)
    BY <1>0, <1>p, <2>1
  <2> QED BY <2>1, <2>2, Levels DEF Size, Half
<1>8. Words = Size(0) * (Fan * Spaces)
  <2>1. ASSUME NEW x \in Nat, NEW y \in Nat, NEW z \in Nat PROVE (x * y) * z = x * (y * z)
    OBVIOUS
  <2>2. Size(0) \in Nat
    BY <1>1
  <2> QED BY <1>4, <1>5, <1>6, <2>1, <2>2
<1>9. VA_LOWMAX = Size(0) * Half - 1 /\ VA_HIGHMIN = Words - Size(0) * Half
  BY <1>7 DEF VA_LOWMAX, VA_HIGHMIN, noncanonical_lbits, Words
<1> QED BY <1>1, <1>2, <1>3, <1>4, <1>5, <1>7, <1>8, <1>9

-----------------------------------------------------------------------------
(* Division.                                                               *)

\* Quotient and remainder.
LEMMA Divide ==
  ASSUME NEW n \in Nat \ {0}, NEW x \in Nat
  PROVE  x \div n \in Nat /\ x % n \in 0 .. n - 1 /\ x = n * (x \div n) + (x % n)
OBVIOUS

\* There is only one quotient and one remainder.
LEMMA DivideOnce ==
  ASSUME NEW n \in Nat \ {0}, NEW q \in Nat, NEW r \in 0 .. n - 1
  PROVE  (n * q + r) \div n = q /\ (n * q + r) % n = r
<1> DEFINE x == n * q + r
<1>1. x \in Nat
  OBVIOUS
<1>2. PICK p \in Nat, s \in 0 .. n - 1 : p = x \div n /\ s = x % n /\ x = n * p + s
  BY <1>1, Divide
<1>3. n * q + r = n * p + s
  BY <1>2
<1>4. ~(p < q)
  <2> SUFFICES ASSUME p < q PROVE FALSE
    OBVIOUS
  <2>1. p + 1 <= q
    OBVIOUS
  <2>2. n * (p + 1) <= n * q
    BY <2>1
  <2>3. n * (p + 1) = n * p + n
    OBVIOUS
  <2> QED BY <1>3, <2>2, <2>3
<1>5. ~(q < p)
  <2> SUFFICES ASSUME q < p PROVE FALSE
    OBVIOUS
  <2>1. q + 1 <= p
    OBVIOUS
  <2>2. n * (q + 1) <= n * p
    BY <2>1
  <2>3. n * (q + 1) = n * q + n
    OBVIOUS
  <2> QED BY <1>3, <2>2, <2>3
<1>6. p = q
  BY <1>4, <1>5
<1>7. s = r
  BY <1>3, <1>6
<1> QED BY <1>2, <1>6, <1>7

\* A quotient is small if the number is.
LEMMA DivideBelow ==
  ASSUME NEW n \in Nat \ {0}, NEW x \in Nat, NEW q \in Nat
  PROVE  x < n * q <=> x \div n < q
<1>1. PICK p \in Nat, r \in 0 .. n - 1 : p = x \div n /\ x = n * p + r
  BY Divide
<1>2. ASSUME p < q PROVE x < n * q
  <2>1. p + 1 <= q
    BY <1>2
  <2>2. n * (p + 1) <= n * q
    BY <2>1
  <2>3. n * (p + 1) = n * p + n
    OBVIOUS
  <2> QED BY <1>1, <2>2, <2>3
<1>3. ASSUME x < n * q PROVE p < q
  <2> SUFFICES ASSUME q <= p PROVE FALSE
    OBVIOUS
  <2>1. n * q <= n * p
    OBVIOUS
  <2> QED BY <1>1, <1>3, <2>1
<1> QED BY <1>1, <1>2, <1>3

\* Division keeps the order.
LEMMA DivideOrder ==
  ASSUME NEW n \in Nat \ {0}, NEW x \in Nat, NEW y \in Nat, x <= y
  PROVE  x \div n <= y \div n
<1>1. PICK p \in Nat : p = y \div n
  BY Divide
<1>2. y < n * (p + 1)
  BY <1>1, DivideBelow
<1>3. n * (p + 1) \in Nat
  OBVIOUS
<1>4. x < n * (p + 1)
  BY <1>2, <1>3
<1>5. x \div n < p + 1
  BY <1>4, DivideBelow
<1>6. x \div n \in Nat
  BY Divide
<1> QED BY <1>1, <1>5, <1>6

\* Division by a product is division by its factors.
LEMMA DivideTwice ==
  ASSUME NEW n \in Nat \ {0}, NEW m \in Nat \ {0}, NEW x \in Nat
  PROVE  x \div (n * m) = (x \div n) \div m
<1>1. PICK p \in Nat, r \in 0 .. n - 1 : p = x \div n /\ x = n * p + r
  BY Divide
<1>2. PICK q \in Nat, s \in 0 .. m - 1 : q = p \div m /\ p = m * q + s
  BY Divide
<1>3. x = (n * m) * q + (n * s + r)
  <2>1. n * (m * q + s) = (n * m) * q + n * s
    OBVIOUS
  <2>2. PICK a \in Nat, b \in Nat : a = (n * m) * q /\ b = n * s
    OBVIOUS
  <2>3. n * p = a + b
    BY <1>2, <2>1, <2>2
  <2>4. x = (a + b) + r
    BY <1>1, <2>3
  <2>5. x = a + (b + r)
    BY <2>4
  <2> QED BY <2>2, <2>5
<1>4. n * s + r \in 0 .. (n * m) - 1
  <2>1. s + 1 <= m
    OBVIOUS
  <2>2. n * (s + 1) <= n * m
    BY <2>1
  <2>3. n * (s + 1) = n * s + n
    OBVIOUS
  <2>4. n * s \in Nat /\ n * m \in Nat
    OBVIOUS
  <2> QED BY <2>2, <2>3, <2>4
<1>5. n * m \in Nat \ {0}
  OBVIOUS
<1>6. x \div (n * m) = q
  <2> DEFINE d == n * m
             e == n * s + r
  <2>1. x = d * q + e /\ d \in Nat \ {0} /\ e \in 0 .. d - 1
    BY <1>3, <1>4, <1>5
  <2> HIDE DEF d, e
  <2>2. x \div d = q
    BY <2>1, DivideOnce
  <2> QED BY <2>2 DEF d
<1> QED BY <1>1, <1>2, <1>6

-----------------------------------------------------------------------------
(* Addresses: which entries the walk of an address reads.                  *)

\* The index at depth k is the part of the block that is new at this depth.
LEMMA BlockIndex ==
  ASSUME NEW va \in Nat
  PROVE  /\ \A k \in 0 .. 3 : /\ Block(va, k) \in Nat
                              /\ Index(va, Lev(k)) = Block(va, k) % Fan
                              /\ Index(va, Lev(k)) \in 0 .. Fan - 1
         /\ \A k \in 1 .. 3 : /\ Block(va, k - 1) = Block(va, k) \div Fan
                              /\ Block(va, k) = Fan * Block(va, k - 1) + Index(va, Lev(k))
<1>1. ASSUME NEW k \in 0 .. 3
      PROVE  /\ Block(va, k) \in Nat
             /\ Index(va, Lev(k)) = Block(va, k) % Fan
             /\ Index(va, Lev(k)) \in 0 .. Fan - 1
  <2>1. Block(va, k) \in Nat
    BY Sizes, Divide DEF Block
  <2>2. Index(va, Lev(k)) = Block(va, k) % Fan
    BY DEF Index, Block, Size, Fan
  <2>3. Block(va, k) % Fan \in 0 .. Fan - 1
    BY <2>1, Sizes, Divide
  <2> QED BY <2>1, <2>2, <2>3
<1>2. ASSUME NEW k \in 1 .. 3
      PROVE  /\ Block(va, k - 1) = Block(va, k) \div Fan
             /\ Block(va, k) = Fan * Block(va, k - 1) + Index(va, Lev(k))
  <2>0. k \in 0 .. 3 /\ k - 1 \in 0 .. 3
    OBVIOUS
  <2>1. Size(k - 1) = Size(k) * Fan /\ Size(k) \in Nat \ {0} /\ Fan \in Nat \ {0}
    BY <2>0, Sizes
  <2>2. va \div (Size(k) * Fan) = (va \div Size(k)) \div Fan
    BY <2>1, DivideTwice
  <2>3. Block(va, k - 1) = Block(va, k) \div Fan
    BY <2>1, <2>2 DEF Block
  <2>4. Block(va, k) = Fan * (Block(va, k) \div Fan) + (Block(va, k) % Fan)
    BY <1>1, <2>0, <2>1, Divide
  <2> QED BY <1>1, <2>0, <2>3, <2>4
<1> QED BY <1>1, <1>2

\* va and vb have the same indices at the first k depths.
Same(va, vb, k) == k = 0 \/ Block(va, k - 1) = Block(vb, k - 1)

\* Canonical addresses are those of the first and of the last half of the blocks of a root.
LEMMA CanonicalBlock ==
  ASSUME NEW va \in Addresses
  PROVE  /\ va \in Nat /\ Block(va, 0) < Fan * Spaces /\ Fan * Spaces \in Nat
         /\ va_is_canonical(va) <=> Block(va, 0) < Half \/ Block(va, 0) >= Fan * Spaces - Half
<1> USE Sizes
<1>s. Size(0) \in Nat \ {0} /\ Half \in Nat \ {0} /\ Fan \in Nat /\ Spaces \in Nat /\ Words \in Nat
  OBVIOUS
<1>1. va \in Nat /\ va < Words
  BY <1>s DEF Addresses, Words
<1>2. Fan * Spaces \in Nat
  BY <1>s
<1>3. va < Size(0) * (Fan * Spaces)
  BY <1>1
<1>4. Block(va, 0) < Fan * Spaces
  BY <1>1, <1>2, <1>3, <1>s, DivideBelow DEF Block
<1>5. va <= VA_LOWMAX <=> Block(va, 0) < Half
  <2>1. VA_LOWMAX = Size(0) * Half - 1 /\ Size(0) * Half \in Nat
    BY <1>s
  <2>2. va <= VA_LOWMAX <=> va < Size(0) * Half
    BY <1>1, <2>1
  <2>3. va < Size(0) * Half <=> Block(va, 0) < Half
    BY <1>1, <1>s, DivideBelow DEF Block
  <2> QED BY <2>2, <2>3
<1>6. PICK n \in Nat : n = Fan * Spaces - Half
  <2>1. Fan = 2 * Half /\ Spaces > 1
    OBVIOUS
  <2>2. ASSUME NEW x \in Nat, NEW y \in Nat, y > 1 PROVE x * y >= x
    BY <2>2
  <2>3. PICK f \in Nat : f = Fan * Spaces /\ f >= Fan
    BY <1>s, <1>2, <2>1, <2>2
  <2>4. f - Half \in Nat
    BY <1>s, <2>1, <2>3
  <2> QED BY <2>3, <2>4
<1>7. va >= VA_HIGHMIN <=> Block(va, 0) >= n
  <2>1. VA_HIGHMIN = Size(0) * n
    <3>1. ASSUME NEW x \in Nat, NEW y \in Nat, NEW z \in Nat PROVE x * y - x * z = x * (y - z)
      OBVIOUS
    <3>2. Size(0) * (Fan * Spaces) - Size(0) * Half = Size(0) * (Fan * Spaces - Half)
      BY <1>s, <1>2, <3>1
    <3>3. VA_HIGHMIN = Words - Size(0) * Half /\ Words = Size(0) * (Fan * Spaces)
      OBVIOUS
    <3> QED BY <1>6, <3>2, <3>3
  <2>2. va < Size(0) * n <=> Block(va, 0) < n
    BY <1>1, <1>s, DivideBelow DEF Block
  <2>3. Block(va, 0) \in Nat /\ Size(0) * n \in Nat
    <3>1. Size(0) * n \in Nat
      BY <1>s
    <3> QED BY <1>1, <3>1, BlockIndex
  <2> QED BY <1>1, <2>1, <2>2, <2>3
<1> QED BY <1>1, <1>2, <1>4, <1>5, <1>6, <1>7 DEF va_is_canonical

\* Addresses with the same indices up to some depth have them up to every depth above.
LEMMA SameUp ==
  ASSUME NEW va \in Nat, NEW vb \in Nat
  PROVE  /\ \A k \in 0 .. 3 : Same(va, vb, k + 1) =>
                Same(va, vb, k) /\ Index(va, Lev(k)) = Index(vb, Lev(k))
         /\ \A k \in 0 .. 4 : \A j \in 0 .. k : Same(va, vb, k) => Same(va, vb, j)
<1>1. ASSUME NEW k \in 0 .. 3, Same(va, vb, k + 1)
      PROVE  Same(va, vb, k) /\ Index(va, Lev(k)) = Index(vb, Lev(k))
  <2>1. Block(va, k) = Block(vb, k)
    <3>1. k + 1 # 0 /\ (k + 1) - 1 = k
      OBVIOUS
    <3> QED BY <1>1, <3>1 DEF Same
  <2>2. Index(va, Lev(k)) = Index(vb, Lev(k))
    <3>1. Index(va, Lev(k)) = Block(va, k) % Fan
      BY BlockIndex
    <3>2. Index(vb, Lev(k)) = Block(vb, k) % Fan
      BY BlockIndex
    <3> QED BY <2>1, <3>1, <3>2
  <2>3. Same(va, vb, k)
    <3>1. CASE k = 0
      BY <3>1 DEF Same
    <3>2. CASE k # 0
      <4>1. k \in 1 .. 3
        BY <3>2
      <4>2. Block(va, k - 1) = Block(va, k) \div Fan
        BY <4>1, BlockIndex
      <4>3. Block(vb, k - 1) = Block(vb, k) \div Fan
        BY <4>1, BlockIndex
      <4> QED BY <2>1, <4>2, <4>3 DEF Same
    <3> QED BY <3>1, <3>2
  <2> QED BY <2>2, <2>3
<1>2. Same(va, vb, 4) => Same(va, vb, 3)
  <2>1. 3 \in 0 .. 3 /\ 3 + 1 = 4
    OBVIOUS
  <2> QED BY <1>1, <2>1
<1>3. Same(va, vb, 3) => Same(va, vb, 2)
  <2>1. 2 \in 0 .. 3 /\ 2 + 1 = 3
    OBVIOUS
  <2> QED BY <1>1, <2>1
<1>4. Same(va, vb, 2) => Same(va, vb, 1)
  <2>1. 1 \in 0 .. 3 /\ 1 + 1 = 2
    OBVIOUS
  <2> QED BY <1>1, <2>1
<1>5. Same(va, vb, 0)
  BY DEF Same
<1>6. ASSUME NEW k \in 0 .. 4, NEW j \in 0 .. k, Same(va, vb, k)
      PROVE  Same(va, vb, j)
  <2>1. \/ k = 0 /\ j = 0
        \/ k = 1 /\ j \in {0, 1}
        \/ k = 2 /\ j \in {0, 1, 2}
        \/ k = 3 /\ j \in {0, 1, 2, 3}
        \/ k = 4 /\ j \in {0, 1, 2, 3, 4}
    OBVIOUS
  <2> QED BY <1>2, <1>3, <1>4, <1>5, <1>6, <2>1
<1> QED BY <1>1, <1>6

\* Of a canonical address, the index in the root tells the block.
LEMMA RootBlock ==
  ASSUME NEW va \in Addresses, va_is_canonical(va)
  PROVE  Block(va, 0) = IF Index(va, Lev(0)) < Half THEN Index(va, Lev(0))
                        ELSE Fan * (Spaces - 1) + Index(va, Lev(0))
<1> DEFINE b == Block(va, 0)
           i == Index(va, Lev(0))
<1>s. Half \in Nat \ {0} /\ Fan \in Nat \ {0} /\ Fan = 2 * Half /\ Spaces \in Nat /\ Spaces > 1
  BY Sizes
<1>1. va \in Nat /\ b < Fan * Spaces /\ (b < Half \/ b >= Fan * Spaces - Half)
  BY CanonicalBlock
<1>2. b \in Nat /\ i = b % Fan
  BY <1>1, BlockIndex
<1> HIDE DEF b, i
<1>3. CASE b < Half
  <2>1. b \in 0 .. Fan - 1 /\ Fan * 0 + b = b
    BY <1>s, <1>2, <1>3
  <2>2. (Fan * 0 + b) % Fan = b
    BY <1>s, <2>1, DivideOnce
  <2>3. i = b
    BY <1>2, <2>1, <2>2
  <2> QED BY <1>3, <2>3 DEF b, i
<1>4. CASE ~(b < Half)
  <2>1. PICK q \in Nat : q = Spaces - 1
    BY <1>s
  <2>2. PICK p \in Nat : p = Fan * q
    BY <1>s
  <2>3. Fan * Spaces = p + Fan
    <3>1. Spaces = q + 1
      BY <1>s, <2>1
    <3>2. Fan * (q + 1) = Fan * q + Fan
      BY <1>s
    <3> QED BY <2>2, <3>1, <3>2
  <2>4. b < p + Fan /\ b >= (p + Fan) - Half
    BY <1>1, <1>4, <2>3
  <2>5. b - p \in 0 .. Fan - 1 /\ b - p >= Half /\ b = p + (b - p)
    BY <1>s, <1>2, <2>4
  <2>6. (Fan * q + (b - p)) % Fan = b - p
    BY <1>s, <2>5, DivideOnce
  <2>7. i = b - p
    BY <1>2, <2>2, <2>5, <2>6
  <2>8. ~(i < Half) /\ b = p + i
    BY <1>s, <2>5, <2>7
  <2> QED BY <2>1, <2>2, <2>8 DEF b, i
<1> QED BY <1>3, <1>4

\* Of canonical addresses, the indices tell the addresses apart.
LEMMA SameDown ==
  ASSUME NEW va \in Addresses, NEW vb \in Addresses, va_is_canonical(va), va_is_canonical(vb),
         NEW k \in 0 .. 3, Same(va, vb, k), Index(va, Lev(k)) = Index(vb, Lev(k))
  PROVE  Same(va, vb, k + 1)
<1>0. va \in Nat /\ vb \in Nat
  BY CanonicalBlock
<1>1. Block(va, k) = Block(vb, k)
  <2>1. CASE k = 0
    BY <2>1, RootBlock
  <2>2. CASE k # 0
    <3>1. k \in 1 .. 3 /\ Block(va, k - 1) = Block(vb, k - 1)
      BY <2>2 DEF Same
    <3>2. Block(va, k) = Fan * Block(va, k - 1) + Index(va, Lev(k))
      BY <1>0, <3>1, BlockIndex
    <3>3. Block(vb, k) = Fan * Block(vb, k - 1) + Index(vb, Lev(k))
      BY <1>0, <3>1, BlockIndex
    <3> QED BY <3>1, <3>2, <3>3
  <2> QED BY <2>1, <2>2
<1>2. (k + 1) - 1 = k
  OBVIOUS
<1> QED BY <1>1, <1>2 DEF Same

\* An address in the same block of a root entry is canonical too.
LEMMA CanonicalSame ==
  ASSUME NEW va \in Addresses, NEW vb \in Addresses, NEW k \in 1 .. 4, Same(va, vb, k)
  PROVE  va_is_canonical(va) <=> va_is_canonical(vb)
<1>1. va \in Nat /\ vb \in Nat
  BY CanonicalBlock
<1>2. 1 \in 0 .. k /\ k \in 0 .. 4
  OBVIOUS
<1>3. Same(va, vb, 1)
  BY <1>1, <1>2, SameUp
<1>4. Block(va, 0) = Block(vb, 0)
  BY <1>3 DEF Same
<1> QED BY <1>4, CanonicalBlock

-----------------------------------------------------------------------------
(* The end of a block.                                                     *)

\* e is the first address behind the block of va, of blocks of d addresses, n of which
\* are all, and 0 behind the last.
Behind(d, n, va, e) ==
  /\ \/ va \div d + 1 = n /\ e = 0
     \/ va \div d + 1 < n /\ e = d * (va \div d + 1)
  /\ e \in Nat /\ e < d * n
  /\ e = 0 \/ (e > va /\ e \div d = va \div d + 1 /\ e % d = 0)
  /\ \A v \in Nat : v < d * n /\ v >= va /\ (e = 0 \/ v < e) => v \div d = va \div d

\* It is the next multiple of d, in as many bits as an address has.
LEMMA EndOfBlock ==
  ASSUME NEW d \in Nat \ {0}, NEW n \in Nat \ {0}, NEW va \in Nat, va < d * n,
         NEW e, e = ((va \div d + 1) * d) % (d * n)
  PROVE  Behind(d, n, va, e)
<1>1. PICK q \in Nat : q = va \div d /\ q < n
  BY Divide, DivideBelow
<1>2. PICK w \in Nat \ {0} : w = d * n
  OBVIOUS
<1>3. (q + 1) * d = d * (q + 1) /\ d * (q + 1) \in Nat
  OBVIOUS
<1>4. va < d * (q + 1)
  BY <1>1, DivideBelow
<1>5. CASE q + 1 = n
  <2>1. e = w % w
    BY <1>1, <1>2, <1>3, <1>5
  <2>2. w % w = 0
    <3>1. w * 1 + 0 = w /\ 0 \in 0 .. w - 1
      OBVIOUS
    <3>2. (w * 1 + 0) % w = 0
      BY <3>1, DivideOnce
    <3> QED BY <3>1, <3>2
  <2>3. e = 0
    BY <2>1, <2>2
  <2>4. ASSUME NEW v \in Nat, v < d * n, v >= va PROVE v \div d = q
    <3>1. v \div d < n /\ v \div d \in Nat
      BY <2>4, Divide, DivideBelow
    <3>2. va \div d <= v \div d
      BY <2>4, DivideOrder
    <3> QED BY <1>1, <1>5, <3>1, <3>2
  <2>5. e \in Nat /\ e < d * n
    BY <1>2, <2>3
  <2> QED BY <1>1, <1>5, <2>3, <2>4, <2>5 DEF Behind
<1>6. CASE q + 1 # n
  <2>1. q + 1 < n
    BY <1>1, <1>6
  <2>2. PICK f \in Nat : f = d * (q + 1)
    BY <1>3
  <2>3. f < w
    <3>1. ASSUME NEW x \in Nat, NEW y \in Nat, x < y PROVE d * x < d * y
      <4>1. x + 1 <= y
        BY <3>1
      <4>2. d * (x + 1) <= d * y
        BY <4>1
      <4>3. d * (x + 1) = d * x + d
        OBVIOUS
      <4>4. PICK a \in Nat, b \in Nat : a = d * x /\ b = d * y
        OBVIOUS
      <4> QED BY <4>2, <4>3, <4>4
    <3>2. q + 1 \in Nat
      OBVIOUS
    <3> QED BY <1>2, <2>1, <2>2, <3>1, <3>2
  <2>4. e = f
    <3>1. w * 0 + f = f /\ f \in 0 .. w - 1
      BY <2>3
    <3>2. (w * 0 + f) % w = f
      BY <3>1, DivideOnce
    <3>3. e = f % w
      BY <1>1, <1>2, <1>3, <2>2
    <3> QED BY <3>1, <3>2, <3>3
  <2>5. e \div d = q + 1 /\ e % d = 0
    <3>1. 0 \in 0 .. d - 1 /\ q + 1 \in Nat /\ d * (q + 1) + 0 = d * (q + 1)
      BY <1>3
    <3>2. (d * (q + 1) + 0) \div d = q + 1 /\ (d * (q + 1) + 0) % d = 0
      BY <3>1, DivideOnce
    <3>3. e = d * (q + 1)
      BY <2>2, <2>4
    <3> QED BY <3>1, <3>2, <3>3
  <2>6. e > va /\ e \in Nat /\ e < d * n /\ e # 0
    BY <1>2, <1>4, <2>2, <2>3, <2>4
  <2>7. ASSUME NEW v \in Nat, v >= va, v < e PROVE v \div d = q
    <3>1. v \div d < q + 1 /\ v \div d \in Nat
      <4>1. v < d * (q + 1) /\ q + 1 \in Nat
        BY <2>2, <2>4, <2>7
      <4> QED BY <4>1, Divide, DivideBelow
    <3>2. va \div d <= v \div d
      BY <2>7, DivideOrder
    <3> QED BY <1>1, <3>1, <3>2
  <2>8. va \div d + 1 < n /\ e = d * (va \div d + 1)
    BY <1>1, <2>1, <2>2, <2>4
  <2> QED BY <1>1, <2>5, <2>6, <2>7, <2>8 DEF Behind
<1> QED BY <1>5, <1>6

\* Every size goes into the number of addresses.
LEMMA Counts ==
  /\ \A k \in 0 .. 3 : \E n \in Nat \ {0} : Words = Size(k) * n
  /\ Words = 2 ^ noncanonical_lbits * (2 * Spaces)
<1>s. /\ \A k \in 0 .. 3 : Size(k) \in Nat \ {0}
      /\ \A k \in 1 .. 3 : Size(k - 1) = Size(k) * Fan
      /\ Fan \in Nat \ {0} /\ Half \in Nat \ {0} /\ Fan = 2 * Half /\ Spaces \in Nat \ {0}
      /\ Words = Size(0) * (Fan * Spaces) /\ 2 ^ noncanonical_lbits = Size(0) * Half
  BY Sizes
<1>1. \E n \in Nat \ {0} : Words = Size(0) * n
  <2>1. Fan * Spaces \in Nat \ {0}
    BY <1>s
  <2> QED BY <1>s, <2>1
<1>2. ASSUME NEW k \in 1 .. 3, NEW n \in Nat \ {0}, Words = Size(k - 1) * n
      PROVE  \E m \in Nat \ {0} : Words = Size(k) * m
  <2>1. k \in 0 .. 3
    OBVIOUS
  <2>2. ASSUME NEW x \in Nat, NEW y \in Nat, NEW z \in Nat PROVE (x * y) * z = x * (y * z)
    OBVIOUS
  <2>3. (Size(k) * Fan) * n = Size(k) * (Fan * n)
    BY <1>s, <2>1, <2>2
  <2>4. Fan * n \in Nat \ {0}
    BY <1>s
  <2> QED BY <1>2, <1>s, <2>3, <2>4
<1>3. \E n \in Nat \ {0} : Words = Size(1) * n
  <2>1. 1 \in 1 .. 3 /\ 1 - 1 = 0
    OBVIOUS
  <2> QED BY <1>1, <1>2, <2>1
<1>4. \E n \in Nat \ {0} : Words = Size(2) * n
  <2>1. 2 \in 1 .. 3 /\ 2 - 1 = 1
    OBVIOUS
  <2> QED BY <1>3, <1>2, <2>1
<1>5. \E n \in Nat \ {0} : Words = Size(3) * n
  <2>1. 3 \in 1 .. 3 /\ 3 - 1 = 2
    OBVIOUS
  <2> QED BY <1>4, <1>2, <2>1
<1>6. \A k \in 0 .. 3 : k = 0 \/ k = 1 \/ k = 2 \/ k = 3
  OBVIOUS
<1>7. Words = 2 ^ noncanonical_lbits * (2 * Spaces)
  <2>1. ASSUME NEW x \in Nat, NEW y \in Nat, NEW z \in Nat
        PROVE  x * ((2 * y) * z) = (x * y) * (2 * z)
    OBVIOUS
  <2>2. Size(0) \in Nat
    BY <1>s
  <2> QED BY <1>s, <2>1, <2>2
<1> QED BY <1>1, <1>3, <1>4, <1>5, <1>6, <1>7

-----------------------------------------------------------------------------
(* The walk of an address through the page table m: the page table page it *)
(* comes to at depth k, the entry it reads there, and whether it gets so   *)
(* far.                                                                    *)

EntryAt(m, n, va, k) == m[n][Index(va, Lev(k))]
Node1(m, va) == EntryAt(m, ROOT, va, 0).pa
Node2(m, va) == EntryAt(m, Node1(m, va), va, 1).pa
Node3(m, va) == EntryAt(m, Node2(m, va), va, 2).pa
Node(m, va, k) ==
  IF k = 0 THEN ROOT ELSE IF k = 1 THEN Node1(m, va)
  ELSE IF k = 2 THEN Node2(m, va) ELSE Node3(m, va)
Ent(m, va, k) == EntryAt(m, Node(m, va, k), va, k)
Reached(m, va, k) == \A j \in 0 .. k - 1 : Leads(Ent(m, va, j))

\* The walk starts at the root and goes where the entries lead.
LEMMA WalkStep ==
  ASSUME NEW m, NEW va
  PROVE  /\ Node(m, va, 0) = ROOT /\ Reached(m, va, 0)
         /\ \A k \in 0 .. 2 : Node(m, va, k + 1) = Ent(m, va, k).pa
         /\ \A k \in 0 .. 3 : Reached(m, va, k + 1) <=> Reached(m, va, k) /\ Leads(Ent(m, va, k))
         /\ \A k \in 0 .. 4 : \A j \in 0 .. k : Reached(m, va, k) => Reached(m, va, j)
<1>1. Node(m, va, 0) = ROOT /\ Reached(m, va, 0)
  <2>1. 0 .. 0 - 1 = {}
    OBVIOUS
  <2> QED BY <2>1 DEF Node, Reached
<1>2. ASSUME NEW k \in 0 .. 2 PROVE Node(m, va, k + 1) = Ent(m, va, k).pa
  <2>1. k = 0 \/ k = 1 \/ k = 2
    OBVIOUS
  <2>2. CASE k = 0
    BY <2>2 DEF Node, Ent, Node1
  <2>3. CASE k = 1
    BY <2>3 DEF Node, Ent, Node2
  <2>4. CASE k = 2
    BY <2>4 DEF Node, Ent, Node3
  <2> QED BY <2>1, <2>2, <2>3, <2>4
<1>3. ASSUME NEW k \in 0 .. 3
      PROVE  Reached(m, va, k + 1) <=> Reached(m, va, k) /\ Leads(Ent(m, va, k))
  <2>1. 0 .. (k + 1) - 1 = (0 .. k - 1) \cup {k}
    OBVIOUS
  <2> QED BY <2>1 DEF Reached
<1>4. ASSUME NEW k \in 0 .. 4, NEW j \in 0 .. k, Reached(m, va, k) PROVE Reached(m, va, j)
  <2>1. 0 .. j - 1 \subseteq 0 .. k - 1
    OBVIOUS
  <2> QED BY <1>4, <2>1 DEF Reached
<1> QED BY <1>1, <1>2, <1>3, <1>4

\* Down to depth n, the walk of vb through l reads what the walk of va through m reads.
Alike(m, va, l, vb, n) ==
  \A k \in 0 .. n - 1 :
    /\ Index(vb, Lev(k)) = Index(va, Lev(k))
    /\ Reached(m, va, k) => EntryAt(l, Node(m, va, k), va, k) = Ent(m, va, k)
AlikeTo(m, va, l, vb, k) ==
  /\ Reached(l, vb, k) <=> Reached(m, va, k)
  /\ Reached(m, va, k) => Node(l, vb, k) = Node(m, va, k)

\* Two walks that read the same go the same way.
LEMMA WalksAlike ==
  ASSUME NEW m, NEW va, NEW l, NEW vb, NEW n \in 0 .. 3, Alike(m, va, l, vb, n)
  PROVE  /\ \A k \in 0 .. n : AlikeTo(m, va, l, vb, k)
         /\ \A k \in 0 .. n - 1 : Reached(m, va, k) => Ent(l, vb, k) = Ent(m, va, k)
<1>1. AlikeTo(m, va, l, vb, 0)
  BY WalkStep DEF AlikeTo
<1>2. ASSUME NEW k \in 0 .. n - 1, AlikeTo(m, va, l, vb, k), Reached(m, va, k)
      PROVE  Ent(l, vb, k) = Ent(m, va, k)
  <2>1. Node(l, vb, k) = Node(m, va, k)
    BY <1>2 DEF AlikeTo
  <2>2. EntryAt(l, Node(m, va, k), va, k) = Ent(m, va, k) /\ Index(vb, Lev(k)) = Index(va, Lev(k))
    BY <1>2 DEF Alike
  <2> QED BY <2>1, <2>2 DEF Ent, EntryAt
<1>3. ASSUME NEW k \in 0 .. n - 1, AlikeTo(m, va, l, vb, k)
      PROVE  AlikeTo(m, va, l, vb, k + 1)
  <2>1. k \in 0 .. 2 /\ k \in 0 .. 3
    OBVIOUS
  <2>2. /\ Reached(m, va, k + 1) <=> Reached(m, va, k) /\ Leads(Ent(m, va, k))
        /\ Node(m, va, k + 1) = Ent(m, va, k).pa
    BY <2>1, WalkStep
  <2>3. /\ Reached(l, vb, k + 1) <=> Reached(l, vb, k) /\ Leads(Ent(l, vb, k))
        /\ Node(l, vb, k + 1) = Ent(l, vb, k).pa
    BY <2>1, WalkStep
  <2> QED BY <1>2, <1>3, <2>2, <2>3 DEF AlikeTo
<1>4. n = 0 \/ n = 1 \/ n = 2 \/ n = 3
  OBVIOUS
<1>5. n >= 1 => AlikeTo(m, va, l, vb, 1)
  <2>1. n >= 1 => 0 \in 0 .. n - 1 /\ 0 + 1 = 1
    OBVIOUS
  <2> QED BY <1>1, <1>3, <2>1
<1>6. n >= 2 => AlikeTo(m, va, l, vb, 2)
  <2>1. n >= 2 => 1 \in 0 .. n - 1 /\ 1 + 1 = 2 /\ n >= 1
    OBVIOUS
  <2> QED BY <1>5, <1>3, <2>1
<1>7. n >= 3 => AlikeTo(m, va, l, vb, 3)
  <2>1. n >= 3 => 2 \in 0 .. n - 1 /\ 2 + 1 = 3 /\ n >= 2
    OBVIOUS
  <2> QED BY <1>6, <1>3, <2>1
<1>8. ASSUME NEW k \in 0 .. n PROVE AlikeTo(m, va, l, vb, k)
  <2>1. k = 0 \/ (k = 1 /\ n >= 1) \/ (k = 2 /\ n >= 2) \/ (k = 3 /\ n >= 3)
    OBVIOUS
  <2> QED BY <1>1, <1>5, <1>6, <1>7, <2>1
<1>9. \A k \in 0 .. n - 1 : k \in 0 .. n
  OBVIOUS
<1> QED BY <1>2, <1>8, <1>9

\* Addresses with the same indices have the same walk.
LEMMA SameWalk ==
  ASSUME NEW m, NEW va \in Nat, NEW vb \in Nat, NEW k \in 0 .. 3, Same(va, vb, k)
  PROVE  /\ Reached(m, vb, k) <=> Reached(m, va, k)
         /\ Reached(m, va, k) => Node(m, vb, k) = Node(m, va, k)
         /\ \A j \in 0 .. k - 1 : Reached(m, va, j) => Ent(m, vb, j) = Ent(m, va, j)
<1>1. Alike(m, va, m, vb, k)
  <2> SUFFICES ASSUME NEW j \in 0 .. k - 1 PROVE Index(vb, Lev(j)) = Index(va, Lev(j))
    BY DEF Alike, Ent
  <2>1. j \in 0 .. 3 /\ j + 1 \in 0 .. k /\ k \in 0 .. 4
    OBVIOUS
  <2>2. Same(va, vb, j + 1)
    BY <2>1, SameUp
  <2> QED BY <2>1, <2>2, SameUp
<1>2. k \in 0 .. k
  OBVIOUS
<1>3. /\ \A j \in 0 .. k : AlikeTo(m, va, m, vb, j)
      /\ \A j \in 0 .. k - 1 : Reached(m, va, j) => Ent(m, vb, j) = Ent(m, va, j)
  BY <1>1, WalksAlike
<1> QED BY <1>2, <1>3 DEF AlikeTo

-----------------------------------------------------------------------------
(* The page table.                                                         *)

Canon == {va \in Addresses : va_is_canonical(va)}
EntryType == [perm : SUBSET Flags, pa : Nat]

\* Entries have their type, and walks do not leave the page table pages.
MemOK(m) ==
  /\ DOMAIN m \subseteq Nat /\ \A n \in DOMAIN m : m[n] \in [0 .. Fan - 1 -> EntryType]
  /\ \A va \in Canon, k \in 0 .. 3 : Reached(m, va, k) => Node(m, va, k) \in DOMAIN m

\* A page table page is at one depth, and the addresses whose walks come there have the
\* same indices up to it.
Tree(m) ==
  \A va \in Canon, vb \in Canon, j \in 0 .. 3, k \in 0 .. 3 :
    Reached(m, va, j) /\ Reached(m, vb, k) /\ Node(m, va, j) = Node(m, vb, k)
      => j = k /\ Same(va, vb, k)

\* What a walk reads is an entry.
LEMMA EntryIs ==
  ASSUME NEW m, MemOK(m), NEW va \in Canon, NEW k \in 0 .. 3, Reached(m, va, k)
  PROVE  /\ Node(m, va, k) \in DOMAIN m /\ Index(va, Lev(k)) \in 0 .. Fan - 1
         /\ Ent(m, va, k) \in EntryType /\ "none" \notin Ent(m, va, k).perm
<1>1. Node(m, va, k) \in DOMAIN m
  BY DEF MemOK
<1>2. va \in Nat
  BY CanonicalBlock DEF Canon
<1>3. Index(va, Lev(k)) \in 0 .. Fan - 1
  BY <1>2, BlockIndex
<1>4. Ent(m, va, k) \in EntryType
  BY <1>1, <1>3 DEF MemOK, Ent, EntryAt
<1> QED BY <1>1, <1>3, <1>4 DEF EntryType, Flags

\* What the processor reads when the walk does not get so far.
NoEntry == [perm |-> {"none"}, pa |-> 0]

\* e is the function Path() defines.
PathIs(e, va) ==
  e = [k \in 0 .. 3 |->
        IF k = 0 THEN mem[ROOT][Index(va, initial_lbits)]
        ELSE IF "none" \notin e[k - 1].perm /\ Leads(e[k - 1])
        THEN mem[e[k - 1].pa][Index(va, initial_lbits - k * PAGEINDEXBITS)]
        ELSE NoEntry]
Walked(va) == [k \in 0 .. 3 |-> IF Reached(mem, va, k) THEN Ent(mem, va, k) ELSE NoEntry]

\* The walk is such a function.
LEMMA WalkedIsPath ==
  ASSUME MemOK(mem), NEW va \in Canon
  PROVE  PathIs(Walked(va), va)
<1> DEFINE w == Walked(va)
<1>1. \A k \in 0 .. 3 : w[k] = IF Reached(mem, va, k) THEN Ent(mem, va, k) ELSE NoEntry
  BY DEF Walked
<1>2. w = [k \in 0 .. 3 |-> w[k]]
  BY DEF Walked
<1> HIDE DEF w
<1>3. ASSUME NEW k \in 0 .. 3
      PROVE  w[k] = IF k = 0 THEN mem[ROOT][Index(va, initial_lbits)]
                    ELSE IF "none" \notin w[k - 1].perm /\ Leads(w[k - 1])
                    THEN mem[w[k - 1].pa][Index(va, initial_lbits - k * PAGEINDEXBITS)]
                    ELSE NoEntry
  <2>1. CASE k = 0
    <3>1. Reached(mem, va, 0) /\ Node(mem, va, 0) = ROOT
      BY WalkStep
    <3>2. w[0] = mem[ROOT][Index(va, Lev(0))]
      BY <1>1, <3>1 DEF Ent, EntryAt
    <3> QED BY <2>1, <3>2, Levels
  <2>2. CASE k # 0
    <3>0. PICK j \in 0 .. 2 : j = k - 1 /\ j + 1 = k /\ j \in 0 .. 3
      BY <2>2
    <3>1. /\ Reached(mem, va, j + 1) <=> Reached(mem, va, j) /\ Leads(Ent(mem, va, j))
          /\ Node(mem, va, j + 1) = Ent(mem, va, j).pa
      BY <3>0, WalkStep
    <3>2. CASE Reached(mem, va, j)
      <4>1. w[j] = Ent(mem, va, j) /\ "none" \notin w[j].perm
        BY <1>1, <3>0, <3>2, EntryIs
      <4>2. w[k] = IF Leads(w[j]) THEN Ent(mem, va, k) ELSE NoEntry
        BY <1>1, <3>0, <3>1, <3>2, <4>1
      <4>3. Ent(mem, va, k) = mem[w[j].pa][Index(va, initial_lbits - k * PAGEINDEXBITS)]
        BY <3>0, <3>1, <4>1 DEF Ent, EntryAt, Lev
      <4> QED BY <2>2, <3>0, <4>1, <4>2, <4>3
    <3>3. CASE ~Reached(mem, va, j)
      <4>1. w[j] = NoEntry /\ w[k] = NoEntry
        BY <1>1, <3>0, <3>1, <3>3
      <4>2. "none" \in w[j].perm
        BY <4>1 DEF NoEntry
      <4> QED BY <2>2, <3>0, <4>1, <4>2
    <3> QED BY <3>2, <3>3
  <2> QED BY <2>1, <2>2
<1>4. w = [k \in 0 .. 3 |->
            IF k = 0 THEN mem[ROOT][Index(va, initial_lbits)]
            ELSE IF "none" \notin w[k - 1].perm /\ Leads(w[k - 1])
            THEN mem[w[k - 1].pa][Index(va, initial_lbits - k * PAGEINDEXBITS)]
            ELSE NoEntry]
  BY <1>2, <1>3
<1> QED BY <1>4 DEF PathIs, w

\* There is only one.
LEMMA OnePath ==
  ASSUME NEW e, NEW f, NEW va, PathIs(e, va), PathIs(f, va)
  PROVE  e = f
<1> DEFINE step(g, k) == IF "none" \notin g[k - 1].perm /\ Leads(g[k - 1])
                         THEN mem[g[k - 1].pa][Index(va, initial_lbits - k * PAGEINDEXBITS)]
                         ELSE NoEntry
<1>1. e = [k \in 0 .. 3 |-> IF k = 0 THEN mem[ROOT][Index(va, initial_lbits)] ELSE step(e, k)]
  BY DEF PathIs
<1>2. f = [k \in 0 .. 3 |-> IF k = 0 THEN mem[ROOT][Index(va, initial_lbits)] ELSE step(f, k)]
  BY DEF PathIs
<1>3. ASSUME NEW k \in 1 .. 3, e[k - 1] = f[k - 1] PROVE e[k] = f[k]
  <2>1. k \in 0 .. 3 /\ k # 0
    OBVIOUS
  <2>2. step(e, k) = step(f, k)
    BY <1>3
  <2> HIDE DEF step
  <2>3. e[k] = step(e, k)
    BY <1>1, <2>1
  <2>4. f[k] = step(f, k)
    BY <1>2, <2>1
  <2> QED BY <2>2, <2>3, <2>4
<1> HIDE DEF step
<1>4. e[0] = f[0]
  BY <1>1, <1>2
<1>5. e[1] = f[1]
  <2>1. 1 \in 1 .. 3 /\ 1 - 1 = 0
    OBVIOUS
  <2> QED BY <1>3, <1>4, <2>1
<1>6. e[2] = f[2]
  <2>1. 2 \in 1 .. 3 /\ 2 - 1 = 1
    OBVIOUS
  <2> QED BY <1>3, <1>5, <2>1
<1>7. e[3] = f[3]
  <2>1. 3 \in 1 .. 3 /\ 3 - 1 = 2
    OBVIOUS
  <2> QED BY <1>3, <1>6, <2>1
<1>8. \A k \in 0 .. 3 : e[k] = f[k]
  <2>1. \A k \in 0 .. 3 : k = 0 \/ k = 1 \/ k = 2 \/ k = 3
    OBVIOUS
  <2> QED BY <1>4, <1>5, <1>6, <1>7, <2>1
<1>9. e = [k \in 0 .. 3 |-> e[k]]
  BY <1>1
<1>10. f = [k \in 0 .. 3 |-> f[k]]
  BY <1>2
<1> QED BY <1>8, <1>9, <1>10

\* What the processor reads is the walk.
LEMMA PathIsWalked ==
  ASSUME MemOK(mem), NEW va \in Canon
  PROVE  Path(va) = Walked(va)
<1>1. PathIs(Walked(va), va)
  BY WalkedIsPath
<1>2. Path(va) = CHOOSE e : PathIs(e, va)
  BY DEF Path, PathIs, NoEntry
<1>3. PathIs(Path(va), va)
  BY <1>1, <1>2
<1> QED BY <1>1, <1>3, OnePath

\* The walk of va ends at depth d.
Deepest(m, va, d) == Reached(m, va, d) /\ (d = 3 \/ ~Leads(Ent(m, va, d)))

\* The permissions all entries of a walk to depth d give, and the translation.
Allowed(m, va, d) == {q \in {"P", "W", "U"} : \A k \in 0 .. d : q \in Ent(m, va, k).perm}
Nowhere == [perm |-> {}, pa |-> -1]
Trans(m, va, d) ==
  IF "P" \in Allowed(m, va, d)
  THEN [perm |-> Allowed(m, va, d), pa |-> Ent(m, va, d).pa + (va % Size(d))]
  ELSE Nowhere

\* Every walk ends, in one place.
LEMMA DeepestOne ==
  ASSUME NEW m, NEW va
  PROVE  /\ \E d \in 0 .. 3 : Deepest(m, va, d)
         /\ \A d \in 0 .. 3, k \in 0 .. 3 : Deepest(m, va, d) => (Reached(m, va, k) <=> k <= d)
<1>1. \A k \in 0 .. 3 : Reached(m, va, k + 1) <=> Reached(m, va, k) /\ Leads(Ent(m, va, k))
  BY WalkStep
<1>2. Reached(m, va, 0)
  BY WalkStep
<1>3. \E d \in 0 .. 3 : Deepest(m, va, d)
  <2>1. 0 \in 0 .. 3 /\ 1 \in 0 .. 3 /\ 2 \in 0 .. 3 /\ 3 \in 0 .. 3
        /\ 0 + 1 = 1 /\ 1 + 1 = 2 /\ 2 + 1 = 3
    OBVIOUS
  <2>2. CASE ~Leads(Ent(m, va, 0))
    BY <1>2, <2>1, <2>2 DEF Deepest
  <2>3. CASE Leads(Ent(m, va, 0)) /\ ~Leads(Ent(m, va, 1))
    BY <1>1, <1>2, <2>1, <2>3 DEF Deepest
  <2>4. CASE Leads(Ent(m, va, 0)) /\ Leads(Ent(m, va, 1))
    <3>1. Reached(m, va, 2)
      BY <1>1, <1>2, <2>1, <2>4
    <3> QED BY <1>1, <2>1, <3>1 DEF Deepest
  <2> QED BY <2>2, <2>3, <2>4
<1>4. ASSUME NEW d \in 0 .. 3, NEW k \in 0 .. 3, Deepest(m, va, d)
      PROVE  Reached(m, va, k) <=> k <= d
  <2>1. CASE k <= d
    <3>1. k \in 0 .. d /\ d \in 0 .. 4
      BY <2>1
    <3> QED BY <1>4, <2>1, <3>1, WalkStep DEF Deepest
  <2>2. CASE ~(k <= d)
    <3>1. d + 1 \in 0 .. k /\ k \in 0 .. 4 /\ d # 3
      BY <2>2
    <3>2. ~Reached(m, va, d + 1)
      BY <1>1, <1>4, <3>1 DEF Deepest
    <3> QED BY <2>2, <3>1, <3>2, WalkStep
  <2> QED BY <2>1, <2>2
<1> QED BY <1>3, <1>4

\* What the processor makes of an address follows from the end of its walk.
TransRight ==
  MemOK(mem) => /\ \A va \in Canon, d \in 0 .. 3 :
                     Deepest(mem, va, d) => Translation(va) = Trans(mem, va, d)
                /\ \A va \in Addresses \ Canon : Translation(va) = Nowhere

\* It does.
LEMMA TranslationIs == TransRight
<1> SUFFICES ASSUME MemOK(mem)
             PROVE  /\ \A va \in Canon, d \in 0 .. 3 :
                         Deepest(mem, va, d) => Translation(va) = Trans(mem, va, d)
                    /\ \A va \in Addresses \ Canon : Translation(va) = Nowhere
  BY DEF TransRight
<1>1. ASSUME NEW va \in Canon, NEW d \in 0 .. 3, Deepest(mem, va, d)
      PROVE  Translation(va) = Trans(mem, va, d)
  <2>1. Path(va) = Walked(va)
    BY PathIsWalked
  <2>2. \A k \in 0 .. 3 : Path(va)[k] = IF k <= d THEN Ent(mem, va, k) ELSE NoEntry
    BY <1>1, <2>1, DeepestOne DEF Walked
  <2>3. \A k \in 0 .. 3 : "none" \notin Path(va)[k].perm <=> k <= d
    <3> TAKE k \in 0 .. 3
    <3>1. CASE k <= d
      <4>1. Reached(mem, va, k)
        BY <1>1, <3>1, DeepestOne
      <4> QED BY <2>2, <3>1, <4>1, EntryIs
    <3>2. CASE ~(k <= d)
      BY <2>2, <3>2 DEF NoEntry
    <3> QED BY <3>1, <3>2
  <2>4. Depth(va) = d
    <3>1. {k \in 0 .. 3 : "none" \notin Path(va)[k].perm} = 0 .. d
      BY <2>3
    <3>2. Max(0 .. d) = d
      <4>1. d \in 0 .. d /\ \A y \in 0 .. d : d >= y
        OBVIOUS
      <4>2. \A x \in 0 .. d : (\A y \in 0 .. d : x >= y) => x = d
        <5> TAKE x \in 0 .. d
        <5> HAVE \A y \in 0 .. d : x >= y
        <5>1. x >= d
          BY <4>1
        <5> QED BY <5>1
      <4> QED BY <4>1, <4>2 DEF Max
    <3> QED BY <3>1, <3>2 DEF Depth
  <2>5. \A k \in 0 .. d : Path(va)[k] = Ent(mem, va, k)
    <3>1. \A k \in 0 .. d : k \in 0 .. 3 /\ k <= d
      OBVIOUS
    <3> QED BY <2>2, <3>1
  <2>6. {q \in {"P", "W", "U"} : \A k \in 0 .. d : q \in Path(va)[k].perm} = Allowed(mem, va, d)
    BY <2>5 DEF Allowed
  <2>7. Path(va)[d].pa = Ent(mem, va, d).pa
    <3>1. d \in 0 .. d
      OBVIOUS
    <3> QED BY <2>5, <3>1
  <2>8. 2 ^ (initial_lbits - d * PAGEINDEXBITS) = Size(d)
    BY DEF Size, Lev
  <2>9. va_is_canonical(va)
    BY DEF Canon
  <2>10. Translation(va) =
           IF va_is_canonical(va) /\ "P" \in Allowed(mem, va, d)
           THEN [perm |-> Allowed(mem, va, d), pa |-> Path(va)[d].pa + (va % Size(d))]
           ELSE [perm |-> {}, pa |-> -1]
    BY <2>4, <2>6, <2>8, Zenon DEF Translation
  <2> QED BY <2>7, <2>9, <2>10 DEF Trans, Nowhere
<1>2. ASSUME NEW va \in Addresses \ Canon PROVE Translation(va) = Nowhere
  BY DEF Translation, Canon, Nowhere
<1> QED BY <1>1, <1>2

-----------------------------------------------------------------------------
(* vmiter.                                                                 *)

\* The permissions the entries above depth d leave.
PermTo(m, va, d) == {q \in Flags : q = "PS" \/ \A k \in 0 .. d - 1 : q \in Ent(m, va, k).perm}

\* A vmiter at depth d of the walk of va, in the hole between the canonical addresses,
\* and done.
Place(m, va, d) == [pep |-> <<Node(m, va, d), Index(va, Lev(d))>>, lbits |-> Lev(d),
                    perm |-> PermTo(m, va, d), va |-> va]
Hole(va) == [pep |-> zero_pe, lbits |-> noncanonical_lbits, perm |-> {}, va |-> va]
End == [pep |-> zero_pe, lbits |-> done_lbits, perm |-> {}, va |-> 0]

\* i is a vmiter at the end of the walk of its address.
IterOK(m, i) ==
  \/ \E va \in Canon, d \in 0 .. 3 : Deepest(m, va, d) /\ i = Place(m, va, d)
  \/ \E va \in Addresses \ Canon : i = Hole(va)
  \/ i = End

\* A vmiter on a walk reads the entry of the walk.
LEMMA PlaceEntry ==
  ASSUME MemOK(mem), NEW va \in Canon, NEW d \in 0 .. 3, Reached(mem, va, d)
  PROVE  Entry(Place(mem, va, d).pep) = Ent(mem, va, d) /\ Place(mem, va, d).pep # zero_pe
<1>1. Node(mem, va, d) \in Nat
  BY EntryIs DEF MemOK
<1>2. Place(mem, va, d).pep = <<Node(mem, va, d), Index(va, Lev(d))>>
  BY DEF Place
<1>3. Place(mem, va, d).pep # zero_pe
  BY <1>1, <1>2 DEF zero_pe
<1>4. Entry(Place(mem, va, d).pep) = mem[Node(mem, va, d)][Index(va, Lev(d))]
  BY <1>2, <1>3 DEF Entry
<1> QED BY <1>3, <1>4 DEF Ent, EntryAt

\* What down() does to a vmiter.
Step(i, pp, ll, x) == [i EXCEPT !.pep = pp, !.lbits = ll, !.perm = @ \cap x]

\* The members of a vmiter that down() has moved.
LEMMA Stepped ==
  ASSUME NEW p, NEW l, NEW q, NEW v, NEW pp, NEW ll, NEW x
  PROVE  Step([pep |-> p, lbits |-> l, perm |-> q, va |-> v], pp, ll, x)
         = [pep |-> pp, lbits |-> ll, perm |-> q \cap x, va |-> v]
<1>0. PICK i : i = [pep |-> p, lbits |-> l, perm |-> q, va |-> v]
  OBVIOUS
<1>1. PICK j : j = [i EXCEPT !.pep = pp, !.lbits = ll, !.perm = @ \cap x]
  OBVIOUS
<1>2. j.pep = pp /\ j.lbits = ll /\ j.perm = q \cap x /\ j.va = v
  BY <1>0, <1>1
<1>3. DOMAIN i = {"pep", "lbits", "perm", "va"}
  BY <1>0
<1>4. DOMAIN j = DOMAIN i
  BY <1>1, Zenon
<1>5. j = [z \in DOMAIN j |-> j[z]]
  BY <1>1
<1>6. j = [pep |-> pp, lbits |-> ll, perm |-> q \cap x, va |-> v]
  BY <1>2, <1>3, <1>4, <1>5
<1> QED BY <1>0, <1>1, <1>6 DEF Step

\* One step of down() goes one step on, where there is one.
LEMMA DownOneIs ==
  ASSUME MemOK(mem), NEW va \in Canon, NEW d \in 0 .. 3, Reached(mem, va, d)
  PROVE  DownOne(Place(mem, va, d)) = IF d < 3 /\ Leads(Ent(mem, va, d))
                                      THEN Place(mem, va, d + 1) ELSE Place(mem, va, d)
<1> DEFINE i == Place(mem, va, d)
           e == Ent(mem, va, d)
<1>1. Entry(i.pep) = e
  BY PlaceEntry
<1>2. i.lbits = Lev(d) /\ i.va = va /\ i.perm = PermTo(mem, va, d)
      /\ i = [pep |-> <<Node(mem, va, d), Index(va, Lev(d))>>, lbits |-> Lev(d),
              perm |-> PermTo(mem, va, d), va |-> va]
  BY DEF Place
<1>3. i.lbits > PAGEOFFBITS <=> d < 3
  <2>1. Lev(3) = PAGEOFFBITS /\ (Lev(3) < Lev(d) <=> d < 3) /\ Lev(3) \in Nat /\ Lev(d) \in Nat
    BY Levels
  <2> QED BY <1>2, <2>1
<1>4. DownOne(i) =
        IF i.lbits > PAGEOFFBITS /\ Leads(e)
        THEN [i EXCEPT !.pep = <<e.pa, Index(i.va, i.lbits - PAGEINDEXBITS)>>,
                       !.lbits = i.lbits - PAGEINDEXBITS, !.perm = @ \cap (e.perm \cup {"PS"})]
        ELSE i
  BY <1>1 DEF DownOne
<1>5. ASSUME d < 3, Leads(e) PROVE DownOne(i) = Place(mem, va, d + 1)
  <2>1. d \in 0 .. 2 /\ d + 1 \in 1 .. 3 /\ (d + 1) - 1 = d
    BY <1>5
  <2>2. Lev(d) - PAGEINDEXBITS = Lev(d + 1)
    BY <2>1, Levels
  <2>3. e.pa = Node(mem, va, d + 1)
    BY <2>1, WalkStep
  <2>4. PermTo(mem, va, d) \cap (e.perm \cup {"PS"}) = PermTo(mem, va, d + 1)
    <3>1. 0 .. (d + 1) - 1 = (0 .. d - 1) \cup {d}
      OBVIOUS
    <3> QED BY <3>1 DEF PermTo
  <2> HIDE DEF i, e
  <2>5. [i EXCEPT !.pep = <<e.pa, Index(i.va, i.lbits - PAGEINDEXBITS)>>,
                  !.lbits = i.lbits - PAGEINDEXBITS, !.perm = @ \cap (e.perm \cup {"PS"})]
        = [pep |-> <<e.pa, Index(va, Lev(d) - PAGEINDEXBITS)>>,
           lbits |-> Lev(d) - PAGEINDEXBITS,
           perm |-> PermTo(mem, va, d) \cap (e.perm \cup {"PS"}), va |-> va]
    <3> DEFINE pp == <<e.pa, Index(i.va, i.lbits - PAGEINDEXBITS)>>
               ll == i.lbits - PAGEINDEXBITS
               x == e.perm \cup {"PS"}
    <3>1. pp = <<e.pa, Index(va, Lev(d) - PAGEINDEXBITS)>> /\ ll = Lev(d) - PAGEINDEXBITS
      BY <1>2
    <3>2. PICK p, l, q : i = [pep |-> p, lbits |-> l, perm |-> q, va |-> va] /\ q = PermTo(mem, va, d)
      BY <1>2
    <3> HIDE DEF pp, ll, x
    <3>3. Step(i, pp, ll, x) = [pep |-> pp, lbits |-> ll, perm |-> q \cap x, va |-> va]
      BY <3>2, Stepped
    <3> QED BY <3>1, <3>2, <3>3 DEF pp, ll, x, Step
  <2>6. DownOne(i) = [pep |-> <<e.pa, Index(va, Lev(d) - PAGEINDEXBITS)>>,
                      lbits |-> Lev(d) - PAGEINDEXBITS,
                      perm |-> PermTo(mem, va, d) \cap (e.perm \cup {"PS"}), va |-> va]
    BY <1>3, <1>4, <1>5, <2>5
  <2> QED BY <2>2, <2>3, <2>4, <2>6 DEF Place
<1> QED BY <1>3, <1>4, <1>5

\* down() goes to the end of the walk.
LEMMA DownIs ==
  ASSUME MemOK(mem), NEW va \in Canon, NEW d \in 0 .. 3, Reached(mem, va, d)
  PROVE  \E e \in 0 .. 3 : Deepest(mem, va, e) /\ down(Place(mem, va, d)) = Place(mem, va, e)
<1>1. PICK e \in 0 .. 3 : Deepest(mem, va, e)
  BY DeepestOne
<1>2. d <= e
  BY <1>1, DeepestOne
<1>3. ASSUME NEW j \in 0 .. e
      PROVE  DownOne(Place(mem, va, j)) = Place(mem, va, IF j < e THEN j + 1 ELSE e)
  <2>1. j \in 0 .. 3 /\ j <= e
    OBVIOUS
  <2>2. Reached(mem, va, j)
    BY <1>1, <2>1, DeepestOne
  <2>3. CASE j < e
    <3>1. j + 1 \in 0 .. 3 /\ j + 1 <= e /\ j < 3
      BY <2>3
    <3>2. Reached(mem, va, j + 1)
      BY <1>1, <3>1, DeepestOne
    <3>3. Leads(Ent(mem, va, j))
      BY <2>1, <3>2, WalkStep
    <3> QED BY <2>1, <2>2, <2>3, <3>1, <3>3, DownOneIs
  <2>4. CASE ~(j < e)
    <3>1. j = e
      BY <2>4
    <3>2. ~(j < 3 /\ Leads(Ent(mem, va, j)))
      BY <1>1, <3>1 DEF Deepest
    <3>3. DownOne(Place(mem, va, j)) = Place(mem, va, j)
      BY <2>1, <2>2, <3>2, DownOneIs
    <3> QED BY <2>4, <3>1, <3>3
  <2> QED BY <2>3, <2>4
<1> DEFINE s(j) == IF j < e THEN j + 1 ELSE e
<1>4. \A j \in 0 .. e : s(j) \in 0 .. e
  OBVIOUS
<1>5. d \in 0 .. e /\ s(s(s(d))) = e
  BY <1>2
<1>6. \A j \in 0 .. e : DownOne(Place(mem, va, j)) = Place(mem, va, s(j))
  BY <1>3
<1> HIDE DEF s
<1>7. DownOne(DownOne(DownOne(Place(mem, va, d)))) = Place(mem, va, s(s(s(d))))
  BY <1>4, <1>5, <1>6
<1> QED BY <1>1, <1>5, <1>7 DEF down

\* A walk that another address shares has the same place and permissions.
LEMMA SamePlace ==
  ASSUME NEW m, NEW va \in Nat, NEW vb \in Nat, NEW d \in 0 .. 3, Same(va, vb, d), Reached(m, va, d)
  PROVE  Reached(m, vb, d) /\ Node(m, vb, d) = Node(m, va, d) /\ PermTo(m, vb, d) = PermTo(m, va, d)
<1>1. /\ Reached(m, vb, d) /\ Node(m, vb, d) = Node(m, va, d)
      /\ \A j \in 0 .. d - 1 : Reached(m, va, j) => Ent(m, vb, j) = Ent(m, va, j)
  BY SameWalk
<1>2. \A j \in 0 .. d - 1 : Reached(m, va, j)
  <2>1. \A j \in 0 .. d - 1 : j \in 0 .. d /\ d \in 0 .. 4
    OBVIOUS
  <2> QED BY <2>1, WalkStep
<1>3. PermTo(m, vb, d) = PermTo(m, va, d)
  BY <1>1, <1>2 DEF PermTo
<1> QED BY <1>1, <1>3

\* What find_impl() does to a vmiter that stays in its page table page.
Shift(i, x, va) == [i EXCEPT !.pep = <<@[1], x>>, !.va = va]

\* The members of a vmiter that find_impl() has moved.
LEMMA Shifted ==
  ASSUME NEW n, NEW y, NEW l, NEW q, NEW v, NEW x, NEW va
  PROVE  Shift([pep |-> <<n, y>>, lbits |-> l, perm |-> q, va |-> v], x, va)
         = [pep |-> <<n, x>>, lbits |-> l, perm |-> q, va |-> va]
<1>0. PICK i : i = [pep |-> <<n, y>>, lbits |-> l, perm |-> q, va |-> v]
  OBVIOUS
<1>1. PICK j : j = [i EXCEPT !.pep = <<@[1], x>>, !.va = va]
  OBVIOUS
<1>2. j.pep = <<n, x>> /\ j.lbits = l /\ j.perm = q /\ j.va = va
  BY <1>0, <1>1
<1>3. DOMAIN i = {"pep", "lbits", "perm", "va"}
  BY <1>0
<1>4. DOMAIN j = DOMAIN i
  BY <1>1, Zenon
<1>5. j = [z \in DOMAIN j |-> j[z]]
  BY <1>1
<1>6. j = [pep |-> <<n, x>>, lbits |-> l, perm |-> q, va |-> va]
  BY <1>2, <1>3, <1>4, <1>5
<1> QED BY <1>0, <1>1, <1>6 DEF Shift

\* Where a vmiter is, from its level.
LEMMA PlaceLevel ==
  ASSUME NEW m, NEW va, NEW d \in 0 .. 3
  PROVE  /\ Place(m, va, d).lbits = Lev(d) /\ Place(m, va, d).va = va
         /\ ~done(Place(m, va, d)) /\ ~done(Hole(va)) /\ done(End)
         /\ Hole(va).va = va /\ End.va = 0
         /\ Hole(va).lbits = noncanonical_lbits /\ End.lbits = done_lbits
<1>1. Place(m, va, d).lbits = Lev(d) /\ Place(m, va, d).va = va
      /\ Hole(va).lbits = noncanonical_lbits /\ Hole(va).va = va /\ End.lbits = done_lbits /\ End.va = 0
  BY DEF Place, Hole, End
<1>2. Lev(d) # done_lbits /\ noncanonical_lbits # done_lbits
  BY Levels
<1> QED BY <1>1, <1>2 DEF done

\* A vmiter that stays in its page table page is on the walk of its new address.
LEMMA SameTableIs ==
  ASSUME MemOK(mem), NEW i, IterOK(mem, i) \/ i.lbits = initial_lbits, NEW va \in Addresses,
         SameTable(i, va)
  PROVE  /\ va \in Canon
         /\ \E d \in 1 .. 3 : Reached(mem, va, d) /\ Shift(i, Index(va, i.lbits), va) = Place(mem, va, d)
<1>0. i.lbits < initial_lbits
  BY DEF SameTable
<1>1. PICK v \in Canon, d \in 0 .. 3 : Deepest(mem, v, d) /\ i = Place(mem, v, d)
  <2>1. ~(i.lbits = initial_lbits)
    BY <1>0, Levels
  <2>2. ASSUME NEW w \in Addresses \ Canon PROVE i # Hole(w)
    <3>1. Hole(w).lbits = noncanonical_lbits
      BY DEF Hole
    <3> QED BY <1>0, <3>1, Levels
  <2>3. i # End
    <3>1. End.lbits = done_lbits
      BY DEF End
    <3> QED BY <1>0, <3>1, Levels
  <2> QED BY <2>1, <2>2, <2>3 DEF IterOK
<1>2. i.lbits = Lev(d) /\ i.va = v
  BY <1>1, PlaceLevel
<1>3. d \in 1 .. 3
  <2>1. Lev(d) < Lev(0)
    BY <1>0, <1>2, Levels
  <2>2. 0 < d
    BY <2>1, Levels
  <2> QED BY <2>2
<1>4. Block(va, d - 1) = Block(v, d - 1)
  <2>1. Lev(d) + PAGEINDEXBITS = Lev(d - 1)
    BY <1>3, Levels
  <2> QED BY <1>2, <2>1 DEF SameTable, Block, Size
<1>5. Same(v, va, d) /\ Same(va, v, d)
  BY <1>4 DEF Same
<1>6. v \in Addresses /\ v \in Nat /\ va \in Nat
  BY CanonicalBlock DEF Canon
<1>7. va \in Canon
  <2>1. d \in 1 .. 4
    BY <1>3
  <2> QED BY <1>5, <1>6, <2>1, CanonicalSame DEF Canon
<1>8. /\ Reached(mem, va, d) /\ Node(mem, va, d) = Node(mem, v, d)
      /\ PermTo(mem, va, d) = PermTo(mem, v, d)
  BY <1>1, <1>5, <1>6, SamePlace DEF Deepest
<1>9. Shift(i, Index(va, i.lbits), va) = Place(mem, va, d)
  <2>1. i = [pep |-> <<Node(mem, v, d), Index(v, Lev(d))>>, lbits |-> Lev(d),
             perm |-> PermTo(mem, v, d), va |-> v]
    BY <1>1 DEF Place
  <2>2. Shift(i, Index(va, Lev(d)), va) = [pep |-> <<Node(mem, v, d), Index(va, Lev(d))>>,
             lbits |-> Lev(d), perm |-> PermTo(mem, v, d), va |-> va]
    BY <2>1, Shifted
  <2> QED BY <1>2, <1>8, <2>2 DEF Place
<1> QED BY <1>3, <1>7, <1>8, <1>9

\* find_impl() comes to the end of the walk of its address.
LEMMA FindIs ==
  ASSUME MemOK(mem), NEW i, IterOK(mem, i) \/ i.lbits = initial_lbits, NEW va \in Addresses,
         NEW stepping \in BOOLEAN, NEW f, f = find_impl(i, va, stepping)
  PROVE  IterOK(mem, f) /\ f.va = va /\ (done(f) <=> stepping /\ va = 0)
<1>p. ASSUME va \in Canon, NEW d \in 0 .. 3, Reached(mem, va, d), f = down(Place(mem, va, d))
      PROVE  IterOK(mem, f) /\ f.va = va /\ ~done(f)
  <2>1. PICK e \in 0 .. 3 : Deepest(mem, va, e) /\ f = Place(mem, va, e)
    BY <1>p, DownIs
  <2> QED BY <1>p, <2>1, PlaceLevel DEF IterOK
<1>1. CASE stepping /\ va = 0
  <2>1. f = End
    BY <1>1 DEF find_impl, End
  <2>2. done(End) /\ End.va = 0
    BY DEF done, End
  <2> QED BY <1>1, <2>1, <2>2 DEF IterOK
<1>2. CASE ~(stepping /\ va = 0) /\ SameTable(i, va)
  <2>1. f = down(Shift(i, Index(va, i.lbits), va))
    BY <1>2 DEF find_impl, Shift
  <2>2. /\ va \in Canon
        /\ \E d \in 1 .. 3 : Reached(mem, va, d) /\ Shift(i, Index(va, i.lbits), va) = Place(mem, va, d)
    BY <1>2, SameTableIs
  <2>3. \A d \in 1 .. 3 : d \in 0 .. 3
    OBVIOUS
  <2> QED BY <1>2, <1>p, <2>1, <2>2, <2>3
<1>3. CASE ~(stepping /\ va = 0) /\ ~SameTable(i, va) /\ ~va_is_canonical(va)
  <2>1. f = Hole(va)
    BY <1>3 DEF find_impl, Hole
  <2>2. va \in Addresses \ Canon
    BY <1>3 DEF Canon
  <2> QED BY <1>3, <2>1, <2>2, PlaceLevel DEF IterOK
<1>4. CASE ~(stepping /\ va = 0) /\ ~SameTable(i, va) /\ va_is_canonical(va)
  <2>1. f = down([pep |-> <<ROOT, Index(va, initial_lbits)>>, lbits |-> initial_lbits,
                  perm |-> Flags, va |-> va])
    BY <1>4 DEF find_impl
  <2>2. PermTo(mem, va, 0) = Flags
    <3>1. 0 .. 0 - 1 = {}
      OBVIOUS
    <3> QED BY <3>1 DEF PermTo
  <2>3. f = down(Place(mem, va, 0))
    <3>1. Lev(0) = initial_lbits /\ Node(mem, va, 0) = ROOT
      BY Levels, WalkStep
    <3> QED BY <2>1, <2>2, <3>1 DEF Place
  <2>4. va \in Canon /\ 0 \in 0 .. 3 /\ Reached(mem, va, 0)
    BY <1>4, WalkStep DEF Canon
  <2> QED BY <1>4, <1>p, <2>3, <2>4
<1> QED BY <1>1, <1>2, <1>3, <1>4

\* The constructor and find() do.
LEMMA ConstructIs ==
  ASSUME MemOK(mem), NEW va \in Addresses
  PROVE  /\ IterOK(mem, vmiter(va))
         /\ \A i : IterOK(mem, i) => IterOK(mem, find(i, va))
<1>1. IterOK(mem, vmiter(va))
  <2>1. PICK i : i = [pep |-> <<ROOT, 0>>, lbits |-> initial_lbits, perm |-> Flags, va |-> 0]
    OBVIOUS
  <2>2. vmiter(va) = find_impl(i, va, FALSE)
    BY <2>1 DEF vmiter
  <2>3. i.lbits = initial_lbits
    BY <2>1
  <2> QED BY <2>2, <2>3, FindIs
<1>2. ASSUME NEW i, IterOK(mem, i) PROVE IterOK(mem, find(i, va))
  <2>1. CASE va # i.va
    <3>1. find(i, va) = find_impl(i, va, FALSE)
      BY <2>1 DEF find
    <3> QED BY <1>2, <3>1, FindIs
  <2>2. CASE va = i.va
    BY <1>2, <2>2 DEF find
  <2> QED BY <2>1, <2>2
<1> QED BY <1>1, <1>2

\* What a vmiter says of its address is what the processor finds.
LEMMA IterSays ==
  ASSUME MemOK(mem), NEW i, IterOK(mem, i), ~done(i)
  PROVE  /\ perm(i) \cap {"P", "W", "U"} = Translation(i.va).perm
         /\ pa(i) = Translation(i.va).pa
         /\ "P" \in perm(i) \/ perm(i) = {}
<1>1. CASE \E va \in Addresses \ Canon : i = Hole(va)
  <2>1. PICK va \in Addresses \ Canon : i = Hole(va)
    BY <1>1
  <2>2. i.pep = zero_pe /\ i.va = va
    BY <2>1 DEF Hole
  <2>3. Entry(i.pep) = Empty /\ Empty.perm = {}
    BY <2>2 DEF Entry, Empty
  <2>4. Translation(va) = [perm |-> {}, pa |-> -1]
    BY TranslationIs DEF TransRight, Nowhere
  <2>5. perm(i) = {} /\ pa(i) = -1
    BY <2>3 DEF perm, pa
  <2> QED BY <2>2, <2>4, <2>5
<1>2. CASE \E va \in Canon, d \in 0 .. 3 : Deepest(mem, va, d) /\ i = Place(mem, va, d)
  <2>1. PICK va \in Canon, d \in 0 .. 3 : Deepest(mem, va, d) /\ i = Place(mem, va, d)
    BY <1>2
  <2>2. Reached(mem, va, d)
    BY <2>1 DEF Deepest
  <2>3. Entry(i.pep) = Ent(mem, va, d)
    BY <2>1, <2>2, PlaceEntry
  <2>4. i.va = va /\ i.lbits = Lev(d) /\ i.perm = PermTo(mem, va, d)
    BY <2>1 DEF Place
  <2>5. Translation(va) = Trans(mem, va, d)
    BY <2>1, TranslationIs DEF TransRight
  <2>6. Ent(mem, va, d).perm \subseteq Flags
    BY <2>2, EntryIs DEF EntryType
  <2>7. Allowed(mem, va, d) = Ent(mem, va, d).perm \cap PermTo(mem, va, d) \cap {"P", "W", "U"}
    <3>1. 0 .. d = (0 .. d - 1) \cup {d}
      OBVIOUS
    <3> QED BY <2>6, <3>1 DEF Allowed, PermTo, Flags
  <2>8. "P" \in PermTo(mem, va, d)
    BY <2>2 DEF Reached, Leads, PermTo, Flags
  <2>9. "P" \in Allowed(mem, va, d) <=> "P" \in Ent(mem, va, d).perm
    BY <2>7, <2>8
  <2>10. CASE "P" \in Ent(mem, va, d).perm
    <3>1. perm(i) = Ent(mem, va, d).perm \cap PermTo(mem, va, d)
      BY <2>3, <2>4, <2>8, <2>10 DEF perm
    <3>2. pa(i) = Ent(mem, va, d).pa + (va % Size(d))
      BY <2>3, <2>4, <2>10 DEF pa, Size
    <3>3. /\ Translation(va).perm = Allowed(mem, va, d)
          /\ Translation(va).pa = Ent(mem, va, d).pa + (va % Size(d))
      BY <2>5, <2>9, <2>10 DEF Trans
    <3> QED BY <2>4, <2>7, <2>8, <2>10, <3>1, <3>2, <3>3
  <2>11. CASE "P" \notin Ent(mem, va, d).perm
    <3>1. perm(i) = {} /\ pa(i) = -1
      BY <2>3, <2>11 DEF perm, pa
    <3>2. Translation(va).perm = {} /\ Translation(va).pa = -1
      BY <2>5, <2>9, <2>11 DEF Trans, Nowhere
    <3> QED BY <2>4, <3>1, <3>2
  <2> QED BY <2>10, <2>11
<1>3. i # End
  BY PlaceLevel
<1> QED BY <1>1, <1>2, <1>3 DEF IterOK

-----------------------------------------------------------------------------
(* Stepping.                                                               *)

\* A multiple of a multiple of the page size is one.
LEMMA MultipleOf ==
  ASSUME NEW p \in Nat \ {0}, NEW n \in Nat, NEW q \in Nat
  PROVE  ((p * n) * q) % p = 0
<1>1. PICK x \in Nat : x = n * q
  OBVIOUS
<1>2. ASSUME NEW a \in Nat, NEW b \in Nat, NEW c \in Nat PROVE (a * b) * c = a * (b * c)
  OBVIOUS
<1>3. (p * n) * q = p * x
  BY <1>1, <1>2
<1>4. 0 \in 0 .. p - 1 /\ p * x + 0 = p * x
  OBVIOUS
<1>5. (p * x + 0) % p = 0
  BY <1>4, DivideOnce
<1> QED BY <1>3, <1>4, <1>5

\* The sizes are multiples of the page size, and of the hole's ends too.
LEMMA WholePages ==
  /\ PAGESIZE \in Nat \ {0}
  /\ \A k \in 0 .. 3 : \E n \in Nat \ {0} : Size(k) = PAGESIZE * n
  /\ VA_HIGHMIN % PAGESIZE = 0
  /\ VA_HIGHMIN \in Addresses /\ VA_HIGHMIN > 0 /\ VA_LOWMAX \in Nat /\ VA_LOWMAX + 1 < VA_HIGHMIN
  /\ 2 ^ noncanonical_lbits \in Nat \ {0}
  /\ VA_LOWMAX = 2 ^ noncanonical_lbits - 1
  /\ VA_HIGHMIN = 2 ^ noncanonical_lbits * (2 * Spaces - 1)
<1>s. /\ \A k \in 0 .. 3 : Size(k) \in Nat \ {0}
      /\ \A k \in 1 .. 3 : Size(k - 1) = Size(k) * Fan
      /\ Size(3) = PAGESIZE
      /\ Fan \in Nat \ {0} /\ Half \in Nat \ {0} /\ Spaces \in Nat /\ Spaces > 1
      /\ 2 ^ noncanonical_lbits = Size(0) * Half
      /\ VA_LOWMAX = Size(0) * Half - 1 /\ VA_HIGHMIN = Words - Size(0) * Half
  BY Sizes
<1>a. ASSUME NEW x \in Nat, NEW y \in Nat, NEW z \in Nat PROVE (x * y) * z = x * (y * z)
  OBVIOUS
<1>1. PAGESIZE \in Nat \ {0}
  BY <1>s
<1>2. \E n \in Nat \ {0} : Size(3) = PAGESIZE * n
  <2>1. PAGESIZE = PAGESIZE * 1
    BY <1>1
  <2> QED BY <1>s, <2>1
<1>3. ASSUME NEW k \in 1 .. 3, NEW n \in Nat \ {0}, Size(k) = PAGESIZE * n
      PROVE  \E m \in Nat \ {0} : Size(k - 1) = PAGESIZE * m
  <2>1. Size(k - 1) = PAGESIZE * (n * Fan)
    BY <1>s, <1>1, <1>3, <1>a
  <2>2. n * Fan \in Nat \ {0}
    BY <1>s
  <2> QED BY <2>1, <2>2
<1>4. \E n \in Nat \ {0} : Size(2) = PAGESIZE * n
  <2>1. 3 \in 1 .. 3 /\ 3 - 1 = 2
    OBVIOUS
  <2> QED BY <1>2, <1>3, <2>1
<1>5. \E n \in Nat \ {0} : Size(1) = PAGESIZE * n
  <2>1. 2 \in 1 .. 3 /\ 2 - 1 = 1
    OBVIOUS
  <2> QED BY <1>4, <1>3, <2>1
<1>6. \E n \in Nat \ {0} : Size(0) = PAGESIZE * n
  <2>1. 1 \in 1 .. 3 /\ 1 - 1 = 0
    OBVIOUS
  <2> QED BY <1>5, <1>3, <2>1
<1>7. \A k \in 0 .. 3 : k = 0 \/ k = 1 \/ k = 2 \/ k = 3
  OBVIOUS
<1>8. \A k \in 0 .. 3 : \E n \in Nat \ {0} : Size(k) = PAGESIZE * n
  BY <1>2, <1>4, <1>5, <1>6, <1>7
<1>9. PICK h \in Nat \ {0} : h = 2 ^ noncanonical_lbits
  <2>1. Size(0) \in Nat \ {0}
    BY <1>s
  <2>2. Size(0) * Half \in Nat \ {0}
    BY <1>s, <2>1
  <2> QED BY <1>s, <2>2
<1>10. Words = h * (2 * Spaces)
  BY <1>9, Counts
<1>11. VA_HIGHMIN = h * (2 * Spaces - 1)
  <2>1. ASSUME NEW x \in Nat, NEW y \in Nat PROVE x * (2 * y) - x = x * (2 * y - 1)
    OBVIOUS
  <2> QED BY <1>s, <1>9, <1>10, <2>1
<1>12. PICK m \in Nat : h = PAGESIZE * m
  <2>1. PICK n \in Nat \ {0} : Size(0) = PAGESIZE * n
    BY <1>6
  <2>2. Size(0) * Half = PAGESIZE * (n * Half)
    BY <1>s, <1>1, <1>a, <2>1
  <2>3. n * Half \in Nat
    BY <1>s
  <2> QED BY <1>s, <1>9, <2>2, <2>3
<1>13. VA_HIGHMIN % PAGESIZE = 0
  <2>1. 2 * Spaces - 1 \in Nat
    BY <1>s
  <2> QED BY <1>1, <1>11, <1>12, <2>1, MultipleOf
<1>14. /\ VA_HIGHMIN \in Addresses /\ VA_HIGHMIN > 0 /\ VA_LOWMAX \in Nat
       /\ VA_LOWMAX + 1 < VA_HIGHMIN
  <2>1. ASSUME NEW x \in Nat \ {0}, NEW y \in Nat, y > 1
        PROVE  x * (2 * y) - x \in 0 .. x * (2 * y) - 1 /\ x * (2 * y) - x > x
               /\ x * (2 * y) - x > 0 /\ x - 1 \in Nat
    <3>1. x * (2 * y) = 2 * (x * y)
      OBVIOUS
    <3>2. x * y >= 2 * x
      BY <2>1
    <3>3. PICK z \in Nat : z = x * y
      OBVIOUS
    <3> QED BY <3>1, <3>2, <3>3
  <2>2. Addresses = 0 .. h * (2 * Spaces) - 1
    BY <1>10 DEF Addresses, Words
  <2>3. VA_HIGHMIN = h * (2 * Spaces) - h /\ VA_LOWMAX = h - 1
    BY <1>s, <1>9, <1>10
  <2>4. PICK g \in Nat : g = h * (2 * Spaces)
    BY <1>s
  <2>5. g - h \in 0 .. g - 1 /\ g - h > h /\ g - h > 0 /\ h - 1 \in Nat
    BY <1>s, <2>1, <2>4
  <2> QED BY <2>2, <2>3, <2>4, <2>5
<1>15. VA_LOWMAX = 2 ^ noncanonical_lbits - 1
  BY <1>s
<1> QED BY <1>1, <1>8, <1>9, <1>11, <1>13, <1>14, <1>15

\* The first address behind the region of an entry at depth k, 0 behind the last address.
LEMMA EndOfIs ==
  ASSUME NEW va \in Addresses, NEW k \in 0 .. 3, NEW e, e = EndOf(va, Lev(k))
  PROVE  /\ e \in Addresses /\ e % PAGESIZE = 0
         /\ e = 0 \/ (e > va /\ Block(e, k) = Block(va, k) + 1 /\ e % Size(k) = 0)
         /\ \A v \in Addresses : v >= va /\ (e = 0 \/ v < e) => Block(v, k) = Block(va, k)
         /\ e = 0 => Words = Size(k) * (Block(va, k) + 1)
<1>1. PICK d \in Nat \ {0} : d = Size(k)
  BY Sizes
<1>2. PICK n \in Nat \ {0} : Words = d * n
  BY <1>1, Counts
<1>3. va \in Nat /\ va < d * n /\ Addresses = 0 .. d * n - 1
  BY <1>2 DEF Addresses, Words
<1>v. va \in Nat /\ va < d * n
  BY <1>3
<1>q. va \div d \in Nat
  BY <1>v, Divide
<1>4. e = ((va \div d + 1) * d) % (d * n)
  BY <1>1, <1>2 DEF EndOf, Size, Words
<1>b. Behind(d, n, va, e)
  BY <1>v, <1>4, EndOfBlock
<1>5. /\ \/ va \div d + 1 = n /\ e = 0
         \/ va \div d + 1 < n /\ e = d * (va \div d + 1)
      /\ e \in Nat /\ e < d * n
      /\ e = 0 \/ (e > va /\ e \div d = va \div d + 1 /\ e % d = 0)
      /\ \A v \in Nat : v < d * n /\ v >= va /\ (e = 0 \/ v < e) => v \div d = va \div d
  BY <1>b DEF Behind
<1>6. e \in Addresses
  BY <1>3, <1>5
<1>7. e % PAGESIZE = 0
  <2>1. PICK p \in Nat \ {0}, m \in Nat \ {0} : p = PAGESIZE /\ d = p * m
    BY <1>1, WholePages
  <2>2. 0 % p = 0
    <3>1. p * 0 + 0 = 0 /\ 0 \in 0 .. p - 1
      OBVIOUS
    <3>2. (p * 0 + 0) % p = 0
      BY <3>1, DivideOnce
    <3> QED BY <3>1, <3>2
  <2>3. va \div d + 1 \in Nat
    BY <1>q
  <2>4. (d * (va \div d + 1)) % p = 0
    BY <2>1, <2>3, MultipleOf
  <2> QED BY <1>5, <2>1, <2>2, <2>4
<1>8. \A v \in Addresses : v \in Nat /\ v < d * n
  BY <1>3
<1>9. \A v : Block(v, k) = v \div d
  BY <1>1 DEF Block
<1>10. e = 0 \/ (e > va /\ Block(e, k) = Block(va, k) + 1 /\ e % Size(k) = 0)
  BY <1>1, <1>5, <1>9
<1>11. ASSUME NEW v \in Addresses, v >= va, e = 0 \/ v < e PROVE Block(v, k) = Block(va, k)
  BY <1>5, <1>8, <1>9, <1>11
<1>12. ASSUME e = 0 PROVE Words = Size(k) * (Block(va, k) + 1)
  <2>1. va \div d + 1 = n
    <3>1. va \div d + 1 < n => d * (va \div d + 1) # 0
      <4>1. va \div d + 1 \in Nat \ {0}
        BY <1>q
      <4>2. ASSUME NEW x \in Nat \ {0} PROVE d * x # 0
        OBVIOUS
      <4> QED BY <4>1, <4>2
    <3> QED BY <1>5, <1>12, <3>1
  <2> QED BY <1>1, <1>2, <1>9, <2>1
<1> QED BY <1>6, <1>7, <1>10, <1>11, <1>12

\* Addresses in the region of the entry where a walk ends are translated alike.
LEMMA SameRegion ==
  ASSUME MemOK(mem), NEW va \in Canon, NEW v \in Addresses, NEW d \in 0 .. 3,
         Deepest(mem, va, d), Block(v, d) = Block(va, d)
  PROVE  Translation(v).perm = Translation(va).perm
<1>1. Same(va, v, d + 1) /\ (d + 1) - 1 = d
  BY DEF Same
<1>2. v \in Nat /\ va \in Nat /\ va \in Addresses
  BY CanonicalBlock DEF Canon
<1>3. v \in Canon
  <2>1. d + 1 \in 1 .. 4
    OBVIOUS
  <2> QED BY <1>1, <1>2, <2>1, CanonicalSame DEF Canon
<1>4. Same(va, v, d) /\ Index(va, Lev(d)) = Index(v, Lev(d))
  BY <1>1, <1>2, SameUp
<1>5. Reached(mem, va, d)
  BY DEF Deepest
<1>6. /\ Reached(mem, v, d) /\ Node(mem, v, d) = Node(mem, va, d)
      /\ \A j \in 0 .. d - 1 : Reached(mem, va, j) => Ent(mem, v, j) = Ent(mem, va, j)
  BY <1>2, <1>4, <1>5, SameWalk
<1>7. Ent(mem, v, d) = Ent(mem, va, d)
  BY <1>4, <1>6 DEF Ent, EntryAt
<1>8. Deepest(mem, v, d)
  BY <1>6, <1>7 DEF Deepest
<1>9. ASSUME NEW k \in 0 .. d PROVE Ent(mem, v, k) = Ent(mem, va, k)
  <2>1. CASE k = d
    BY <1>7, <2>1
  <2>2. CASE k # d
    <3>1. k \in 0 .. d - 1 /\ d \in 0 .. 4
      BY <2>2
    <3>2. Reached(mem, va, k)
      BY <1>5, <3>1, WalkStep
    <3> QED BY <1>6, <3>1, <3>2
  <2> QED BY <2>1, <2>2
<1>10. Allowed(mem, v, d) = Allowed(mem, va, d)
  BY <1>9 DEF Allowed
<1>11. Translation(v) = Trans(mem, v, d) /\ Translation(va) = Trans(mem, va, d)
  BY <1>3, <1>8, TranslationIs DEF TransRight
<1> QED BY <1>10, <1>11 DEF Trans, Nowhere

\* Where a region that ends at address l ends, the end of the address space included.
Upto(l) == IF l = 0 THEN Words ELSE l

\* The region of a vmiter starts at its address, and all of it is translated alike.
RegionOK(i) ==
  /\ i.va \in Addresses /\ last_va(i) \in Addresses
  /\ Upto(last_va(i)) \in Nat /\ i.va < Upto(last_va(i)) /\ Upto(last_va(i)) <= Words
  /\ range_size(i) = Upto(last_va(i)) - i.va
  /\ last_va(i) % PAGESIZE = 0
  /\ i.va % PAGESIZE = 0 => range_size(i) >= PAGESIZE
  /\ \A v \in Addresses : v >= i.va /\ v < Upto(last_va(i)) =>
       Translation(v).perm = Translation(i.va).perm

\* Subtraction of addresses.
LEMMA Subtract ==
  ASSUME NEW n \in Nat \ {0}, NEW x \in Nat, NEW y \in Nat, x < n, y < n
  PROVE  /\ x <= y => (y - x) % n = y - x
         /\ x > 0 => (0 - x) % n = n - x
<1>1. ASSUME x <= y PROVE (y - x) % n = y - x
  <2>1. y - x \in 0 .. n - 1 /\ n * 0 + (y - x) = y - x
    BY <1>1
  <2>2. (n * 0 + (y - x)) % n = y - x
    BY <2>1, DivideOnce
  <2> QED BY <2>1, <2>2
<1>2. ASSUME x > 0 PROVE (0 - x) % n = n - x
  <2>1. PICK z \in Int : z = 0 - x
    OBVIOUS
  <2>2. z = n * (z \div n) + (z % n) /\ z % n \in 0 .. n - 1 /\ z \div n \in Int
    BY <2>1
  <2>3. PICK q \in Int, r \in 0 .. n - 1 : q = z \div n /\ r = z % n
    BY <2>2
  <2>4. 0 - x = n * q + r
    BY <2>1, <2>2, <2>3
  <2>5. q = -1
    <3>1. ~(q >= 0)
      <4>1. q >= 0 => n * q >= 0
        OBVIOUS
      <4> QED BY <1>2, <2>4, <4>1
    <3>2. ~(q <= -2)
      <4>1. q <= -2 => n * q <= n * (-2)
        OBVIOUS
      <4>2. n * (-2) = -n - n
        OBVIOUS
      <4>3. PICK w \in Int : w = n * q
        OBVIOUS
      <4>4. q <= -2 => w <= -n - n
        BY <4>1, <4>2, <4>3
      <4> QED BY <2>4, <4>3, <4>4
    <3> QED BY <3>1, <3>2
  <2>6. n * q = -n
    BY <2>5
  <2> QED BY <2>1, <2>3, <2>4, <2>6
<1> QED BY <1>1, <1>2

\* Multiples of the page size lie apart.
LEMMA PagesApart ==
  ASSUME NEW p \in Nat \ {0}, NEW x \in Nat, NEW y \in Nat, x % p = 0, y % p = 0, x < y
  PROVE  y - x >= p
<1>1. PICK a \in Nat, b \in Nat : a = x \div p /\ b = y \div p
  BY Divide
<1>2. x = p * a /\ y = p * b
  <2>1. x = p * (x \div p) + (x % p) /\ y = p * (y \div p) + (y % p)
    BY Divide
  <2>2. p * a \in Nat /\ p * b \in Nat
    OBVIOUS
  <2> QED BY <1>1, <2>1, <2>2
<1>3. a < b
  <2>1. a >= b => p * a >= p * b
    OBVIOUS
  <2> QED BY <1>2, <2>1
<1>4. p * b >= p * (a + 1)
  BY <1>3
<1>5. p * (a + 1) = p * a + p
  OBVIOUS
<1>6. PICK c \in Nat, d \in Nat : c = p * a /\ d = p * b
  OBVIOUS
<1> QED BY <1>2, <1>4, <1>5, <1>6

\* Every vmiter that is not done has such a region.
LEMMA RegionIs ==
  ASSUME MemOK(mem), NEW i, IterOK(mem, i), ~done(i)
  PROVE  RegionOK(i)
<1>w. PICK w \in Nat \ {0} : w = Words /\ Addresses = 0 .. w - 1 /\ w = 2 ^ WORDBITS
  BY Sizes DEF Addresses, Words
<1>p. PICK p \in Nat \ {0} : p = PAGESIZE
  BY WholePages
<1>z. Words % PAGESIZE = 0
  <2>1. PICK n \in Nat \ {0} : Words = Size(3) * n
    BY Counts
  <2>2. Words = (p * 1) * n
    BY <1>p, <2>1, Sizes
  <2> QED BY <1>p, <2>2, MultipleOf
<1>1. ASSUME NEW va \in Addresses, i.va = va, NEW l \in Addresses, last_va(i) = l,
             l = 0 \/ l > va, l % PAGESIZE = 0, l # 0 \/ va # 0,
             \A v \in Addresses : v >= va /\ (l = 0 \/ v < l) =>
               Translation(v).perm = Translation(va).perm
      PROVE  RegionOK(i)
  <2>0. va \in Nat /\ l \in Nat /\ va < w /\ l < w
    BY <1>w
  <2>1. PICK u \in Nat : u = Upto(l) /\ (l = 0 => u = w) /\ (l # 0 => u = l)
    BY <1>w, <2>0 DEF Upto
  <2>2. va < u /\ u <= w /\ (l = 0 => u = w) /\ (l # 0 => u = l)
    BY <1>1, <2>0, <2>1
  <2>3. range_size(i) = u - va
    <3>1. range_size(i) = (l - va) % w
      BY <1>w, <1>1 DEF range_size
    <3>2. va \in Nat /\ l \in Nat /\ va < w /\ l < w
      BY <1>w
    <3>3. l # 0 => (l - va) % w = l - va
      <4>1. l # 0 => va <= l
        BY <1>1, <3>2
      <4> QED BY <3>2, <4>1, Subtract
    <3>4. l = 0 => (0 - va) % w = w - va
      <4>1. l = 0 => va > 0
        BY <1>1, <3>2
      <4> QED BY <3>2, <4>1, Subtract
    <3> QED BY <2>2, <3>1, <3>3, <3>4
  <2>4. va % PAGESIZE = 0 => u - va >= PAGESIZE
    <3>1. u % p = 0 /\ va \in Nat
      BY <1>1, <1>p, <1>w, <1>z, <2>2
    <3> QED BY <1>p, <2>2, <3>1, PagesApart
  <2>5. \A v \in Addresses : v >= va /\ v < u => Translation(v).perm = Translation(va).perm
    BY <1>1, <2>2
  <2> QED BY <1>1, <1>w, <2>1, <2>2, <2>3, <2>4, <2>5 DEF RegionOK
<1>2. CASE \E va \in Canon, d \in 0 .. 3 : Deepest(mem, va, d) /\ i = Place(mem, va, d)
  <2>1. PICK va \in Canon, d \in 0 .. 3 : Deepest(mem, va, d) /\ i = Place(mem, va, d)
    BY <1>2
  <2>2. i.va = va /\ i.lbits = Lev(d) /\ va \in Addresses
    BY <2>1, PlaceLevel DEF Canon
  <2>3. last_va(i) = EndOf(va, Lev(d))
    <3>1. Lev(d) # noncanonical_lbits
      <4>1. Lev(d) \in Nat /\ Lev(d) < noncanonical_lbits /\ noncanonical_lbits \in Nat
        BY Levels
      <4> QED BY <4>1
    <3> QED BY <2>2, <3>1 DEF last_va
  <2>4. PICK e : e = EndOf(va, Lev(d))
    OBVIOUS
  <2>5. /\ e \in Addresses /\ e % PAGESIZE = 0
        /\ e = 0 \/ (e > va /\ Block(e, d) = Block(va, d) + 1 /\ e % Size(d) = 0)
        /\ \A v \in Addresses : v >= va /\ (e = 0 \/ v < e) => Block(v, d) = Block(va, d)
    BY <2>2, <2>4, EndOfIs
  <2>6. \A v \in Addresses : v >= va /\ (e = 0 \/ v < e) =>
          Translation(v).perm = Translation(va).perm
    BY <2>1, <2>5, SameRegion
  <2>7. e # 0 \/ va # 0
    <3>1. SUFFICES ASSUME e = 0, va = 0 PROVE FALSE
      OBVIOUS
    <3>2. PICK x \in Addresses : x = VA_LOWMAX + 1
      <4>1. VA_LOWMAX \in Nat /\ VA_HIGHMIN \in Nat /\ VA_HIGHMIN < w /\ VA_LOWMAX + 1 < VA_HIGHMIN
        BY <1>w, WholePages
      <4>2. VA_LOWMAX + 1 \in 0 .. w - 1
        BY <4>1
      <4> QED BY <1>w, <4>2
    <3>3. ~va_is_canonical(x)
      <4>1. VA_LOWMAX \in Nat /\ VA_HIGHMIN \in Nat /\ VA_LOWMAX + 1 < VA_HIGHMIN
        BY <1>w, WholePages
      <4> QED BY <3>2, <4>1 DEF va_is_canonical
    <3>4. Block(x, d) = Block(va, d)
      <4>1. x >= 0
        BY <1>w
      <4> QED BY <2>5, <3>1, <4>1
    <3>5. Same(va, x, d + 1) /\ d + 1 \in 1 .. 4
      <4>1. (d + 1) - 1 = d
        OBVIOUS
      <4> QED BY <3>4, <4>1 DEF Same
    <3> QED BY <2>1, <2>2, <3>3, <3>5, CanonicalSame DEF Canon
  <2> QED BY <1>1, <2>2, <2>3, <2>4, <2>5, <2>6, <2>7
<1>3. CASE \E va \in Addresses \ Canon : i = Hole(va)
  <2>1. PICK va \in Addresses \ Canon : i = Hole(va)
    BY <1>3
  <2>2. i.va = va /\ i.lbits = noncanonical_lbits
    BY <2>1 DEF Hole
  <2>3. last_va(i) = VA_HIGHMIN
    BY <2>2 DEF last_va
  <2>4. /\ VA_HIGHMIN \in Addresses /\ VA_HIGHMIN % PAGESIZE = 0 /\ VA_HIGHMIN # 0
        /\ VA_LOWMAX \in Nat /\ VA_HIGHMIN \in Nat
    BY <1>w, WholePages
  <2>5. va \in Nat /\ VA_LOWMAX < va /\ va < VA_HIGHMIN
    BY <1>w, <2>4 DEF Canon, va_is_canonical
  <2>6. ASSUME NEW v \in Addresses, v >= va, v < VA_HIGHMIN
        PROVE  Translation(v).perm = Translation(va).perm
    <3>1. v \in Addresses \ Canon
      BY <1>w, <2>4, <2>5, <2>6 DEF Canon, va_is_canonical
    <3> QED BY <3>1, TranslationIs DEF TransRight
  <2> QED BY <1>1, <2>2, <2>3, <2>4, <2>5, <2>6
<1>4. i # End
  BY PlaceLevel DEF done, End
<1> QED BY <1>2, <1>3, <1>4 DEF IterOK

\* next_range() goes to the end of the region.
LEMMA NextRangeIs ==
  ASSUME MemOK(mem), NEW i, IterOK(mem, i), ~done(i)
  PROVE  /\ IterOK(mem, next_range(i)) /\ next_range(i).va = last_va(i)
         /\ done(next_range(i)) <=> last_va(i) = 0
         /\ next_range(i).va > i.va \/ done(next_range(i))
<1>1. RegionOK(i)
  BY RegionIs
<1>2. last_va(i) \in Addresses
  BY <1>1 DEF RegionOK
<1>3. /\ IterOK(mem, next_range(i)) /\ next_range(i).va = last_va(i)
      /\ done(next_range(i)) <=> last_va(i) = 0
  BY <1>2, FindIs DEF next_range
<1>4. last_va(i) # 0 => i.va < last_va(i)
  BY <1>1 DEF RegionOK, Upto
<1>5. i.va \in Nat /\ last_va(i) \in Nat
  <2>1. Addresses \subseteq Nat
    BY Sizes DEF Addresses, Words
  <2> QED BY <1>1, <2>1 DEF RegionOK
<1> QED BY <1>3, <1>4, <1>5

\* next() passes by no page that is mapped.
LEMMA NextIs ==
  ASSUME MemOK(mem), NEW i, IterOK(mem, i), ~done(i)
  PROVE  /\ IterOK(mem, next(i))
         /\ next(i).va > i.va \/ done(next(i))
         /\ \A v \in PageAddresses : v > i.va /\ (v < next(i).va \/ next(i).va = 0) =>
              Translation(v).perm = {}
<1>w. Addresses \subseteq Nat
  BY Sizes DEF Addresses, Words
<1>r. RegionOK(i)
  BY RegionIs
<1>v. i.va \in Addresses
  BY <1>r DEF RegionOK
<1>p. \A v \in PageAddresses : v \in Addresses /\ v % PAGESIZE = 0 /\ v \in Canon
  BY DEF PageAddresses, Canon
<1>1. ASSUME NEW e \in Addresses, EndOf(i.va, SkipBits(i)) = e, e = 0 \/ e > i.va,
             \A v \in PageAddresses : v > i.va /\ (v < e \/ e = 0) => Translation(v).perm = {}
      PROVE  /\ IterOK(mem, next(i))
             /\ next(i).va > i.va \/ done(next(i))
             /\ \A v \in PageAddresses : v > i.va /\ (v < next(i).va \/ next(i).va = 0) =>
                  Translation(v).perm = {}
  <2>1. IterOK(mem, next(i)) /\ next(i).va = e /\ (done(next(i)) <=> e = 0)
    <3>1. next(i) = find_impl(i, e, TRUE)
      BY <1>1 DEF next
    <3> QED BY <3>1, FindIs
  <2> QED BY <1>1, <2>1
<1>2. CASE SkipBits(i) = PAGEOFFBITS
  <2>1. PICK e : e = EndOf(i.va, Lev(3))
    OBVIOUS
  <2>2. SkipBits(i) = Lev(3) /\ 3 \in 0 .. 3
    BY <1>2, Levels
  <2>3. /\ e \in Addresses /\ (e = 0 \/ e > i.va)
        /\ \A v \in Addresses : v >= i.va /\ (e = 0 \/ v < e) => Block(v, 3) = Block(i.va, 3)
    BY <1>v, <2>1, <2>2, EndOfIs
  <2>4. ASSUME NEW v \in PageAddresses, v > i.va, v < e \/ e = 0 PROVE FALSE
    <3>1. v \in Addresses /\ v % PAGESIZE = 0 /\ v \in Nat /\ i.va \in Nat
      BY <1>p, <1>w, <1>v
    <3>2. Block(v, 3) = Block(i.va, 3)
      <4>1. v >= i.va
        BY <2>4, <3>1
      <4> QED BY <2>3, <2>4, <3>1, <4>1
    <3>3. PICK p \in Nat \ {0} : p = PAGESIZE /\ p = Size(3)
      BY Sizes
    <3>4. v \div p = i.va \div p /\ v % p = 0
      BY <3>1, <3>2, <3>3 DEF Block
    <3>5. v = p * (v \div p) + (v % p) /\ i.va = p * (i.va \div p) + (i.va % p)
          /\ i.va % p \in 0 .. p - 1 /\ v \div p \in Nat
      BY <3>1, Divide
    <3>6. PICK y \in Nat : y = p * (v \div p)
      BY <3>5
    <3>7. v = y /\ i.va = y + (i.va % p)
      BY <3>4, <3>5, <3>6
    <3> QED BY <2>4, <3>1, <3>5, <3>7
  <2>5. EndOf(i.va, SkipBits(i)) = e
    BY <2>1, <2>2
  <2> QED BY <1>1, <2>3, <2>4, <2>5
<1>3. CASE SkipBits(i) # PAGEOFFBITS
  <2>1. SkipBits(i) = i.lbits /\ perm(i) = {}
    BY <1>3 DEF SkipBits
  <2>2. Translation(i.va).perm = {}
    BY <2>1, IterSays
  <2>3. CASE i.lbits # noncanonical_lbits
    <3>1. EndOf(i.va, SkipBits(i)) = last_va(i)
      BY <2>1, <2>3 DEF last_va
    <3>2. PICK e \in Addresses : e = last_va(i)
      BY <1>r DEF RegionOK
    <3>3. /\ i.va < Upto(e) /\ (e = 0 => Upto(e) = Words) /\ (e # 0 => Upto(e) = e)
          /\ \A v \in Addresses : v >= i.va /\ v < Upto(e) =>
               Translation(v).perm = Translation(i.va).perm
      BY <1>r, <3>2 DEF RegionOK, Upto
    <3>4. e = 0 \/ e > i.va
      BY <1>v, <1>w, <3>3
    <3>5. ASSUME NEW v \in PageAddresses, v > i.va, v < e \/ e = 0 PROVE Translation(v).perm = {}
      <4>1. v \in Addresses /\ v \in Nat /\ i.va \in Nat
        BY <1>p, <1>v, <1>w
      <4>2. v < Words
        <5>1. v \in 0 .. Words - 1 /\ Words \in Nat
          BY <4>1, Sizes DEF Addresses, Words
        <5> QED BY <5>1
      <4>3. v < Upto(e)
        BY <3>3, <3>5, <4>2
      <4>4. v >= i.va
        BY <3>5, <4>1
      <4> QED BY <2>2, <3>3, <4>1, <4>3, <4>4
    <3> QED BY <1>1, <3>1, <3>2, <3>4, <3>5
  <2>4. CASE i.lbits = noncanonical_lbits
    <3>1. PICK va \in Addresses \ Canon : i = Hole(va)
      <4>1. ASSUME NEW va, NEW d \in 0 .. 3 PROVE i # Place(mem, va, d)
        <5>1. Lev(d) < noncanonical_lbits /\ Lev(d) \in Nat /\ noncanonical_lbits \in Nat
          BY Levels
        <5>2. Lev(d) # noncanonical_lbits
          BY <5>1
        <5> QED BY <2>4, <5>2, PlaceLevel
      <4>2. i # End
        BY DEF done, End
      <4> QED BY <4>1, <4>2 DEF IterOK
    <3>2. i.va = va
      BY <3>1 DEF Hole
    <3>3. PICK h \in Nat \ {0}, n \in Nat \ {0} :
            h = 2 ^ noncanonical_lbits /\ n = 2 * Spaces /\ Words = h * n
            /\ VA_HIGHMIN = h * (n - 1) /\ VA_LOWMAX \in Nat /\ n - 1 \in Nat
      BY Sizes, Counts, WholePages
    <3>4. va \in Nat /\ va < h * n /\ Addresses = 0 .. h * n - 1
      BY <3>3 DEF Addresses, Words
    <3>5. h * (n - 1) \in Nat /\ va > VA_LOWMAX /\ va < h * (n - 1)
      <4>1. ~(va <= VA_LOWMAX) /\ ~(va >= VA_HIGHMIN)
        BY DEF Canon, va_is_canonical
      <4>2. VA_HIGHMIN \in Nat
        BY <1>w, WholePages
      <4> QED BY <3>3, <3>4, <4>1, <4>2
    <3>6. PICK e : e = ((va \div h + 1) * h) % (h * n)
      OBVIOUS
    <3>7. Behind(h, n, va, e)
      <4>1. va \in Nat /\ va < h * n
        BY <3>4
      <4> QED BY <3>6, <4>1, EndOfBlock
    <3>8. EndOf(i.va, SkipBits(i)) = e
      BY <2>1, <2>4, <3>2, <3>3, <3>6 DEF EndOf, Words
    <3>9. /\ e \in Nat /\ e < h * n /\ (e = 0 \/ e > va)
          /\ \A v \in Nat : v < h * n /\ v >= va /\ (e = 0 \/ v < e) => v \div h = va \div h
      BY <3>7 DEF Behind
    <3>10. ASSUME NEW v \in PageAddresses, v > i.va, v < e \/ e = 0 PROVE FALSE
      <4>1. v \in Nat /\ v < h * n /\ va_is_canonical(v)
        BY <1>p, <3>4 DEF Canon
      <4>2. v \div h = va \div h
        <5>1. v >= va
          BY <3>2, <3>4, <3>10, <4>1
        <5> QED BY <3>9, <3>10, <4>1, <5>1
      <4>3. va \div h < n - 1
        BY <3>3, <3>4, <3>5, DivideBelow
      <4>4. v < h * (n - 1)
        BY <3>3, <4>1, <4>2, <4>3, DivideBelow
      <4>5. ~(v >= VA_HIGHMIN) /\ ~(v <= VA_LOWMAX)
        BY <3>2, <3>3, <3>4, <3>5, <3>10, <4>1, <4>4
      <4> QED BY <4>1, <4>5 DEF va_is_canonical
    <3>11. e \in Addresses
      BY <3>4, <3>9
    <3> QED BY <1>1, <3>2, <3>8, <3>9, <3>10, <3>11
  <2> QED BY <2>3, <2>4
<1> QED BY <1>2, <1>3

-----------------------------------------------------------------------------
(* range_perm().                                                           *)

\* A set of numbers that is not empty has a least one.
LEMMA LeastOne ==
  ASSUME NEW S \in SUBSET Nat, S # {}
  PROVE  \E x \in S : \A y \in S : x <= y
<1>1. PICK x \in S : \A y \in S : ~(<<y, x>> \in OpToRel(<, Nat))
  BY NatLessThanWellFounded, WFMin
<1>2. \A y \in S : ~(y < x)
  BY <1>1, Zenon DEF OpToRel
<1>3. \A y \in S : x <= y
  BY <1>2
<1> QED BY <1>3

\* The lesser of two numbers.
LEMMA MinOfTwo ==
  ASSUME NEW x \in Nat, NEW y \in Nat
  PROVE  Min({x, y}) = IF x <= y THEN x ELSE y
<1>1. \E z \in {x, y} : \A u \in {x, y} : z <= u
  OBVIOUS
<1>2. Min({x, y}) \in {x, y} /\ \A u \in {x, y} : Min({x, y}) <= u
  BY <1>1 DEF Min
<1> QED BY <1>2

\* g is the function range_perm() defines, from its first value on, up to n.
Narrows(g, first, n) ==
  g = [k \in 0 .. n |-> IF k = 0 THEN first ELSE Narrow(g[k - 1])]
Narrowed(first, n) == CHOOSE g : Narrows(g, first, n)

\* The function can be made one longer.
LEMMA NarrowsMore ==
  ASSUME NEW a, NEW n \in Nat, NEW g, Narrows(g, a, n)
  PROVE  \E h : Narrows(h, a, n + 1)
<1> DEFINE h == [k \in 0 .. n + 1 |-> IF k = n + 1 THEN Narrow(g[n]) ELSE g[k]]
<1>1. \A k \in 0 .. n : g[k] = IF k = 0 THEN a ELSE Narrow(g[k - 1])
  BY DEF Narrows
<1>2. \A k \in 0 .. n + 1 : h[k] = IF k = n + 1 THEN Narrow(g[n]) ELSE g[k]
  OBVIOUS
<1>4. h = [k \in 0 .. n + 1 |-> h[k]]
  OBVIOUS
<1> HIDE DEF h
<1>3. ASSUME NEW k \in 0 .. n + 1
      PROVE  h[k] = IF k = 0 THEN a ELSE Narrow(h[k - 1])
  <2>1. CASE k = n + 1
    <3>1. k # 0 /\ k - 1 \in 0 .. n + 1 /\ k - 1 # n + 1 /\ k - 1 = n
      BY <2>1
    <3>2. h[k - 1] = g[n]
      BY <1>2, <3>1
    <3>3. h[k] = Narrow(g[n])
      BY <1>2, <2>1
    <3> QED BY <3>1, <3>2, <3>3
  <2>2. CASE k # n + 1
    <3>1. k \in 0 .. n
      BY <2>2
    <3>2. h[k] = IF k = 0 THEN a ELSE Narrow(g[k - 1])
      BY <1>1, <1>2, <2>2, <3>1
    <3>3. k # 0 => k - 1 \in 0 .. n + 1 /\ k - 1 # n + 1
      BY <3>1
    <3>4. k # 0 => h[k - 1] = g[k - 1]
      BY <1>2, <3>3
    <3> QED BY <3>2, <3>4
  <2> QED BY <2>1, <2>2
<1> QED BY <1>3, <1>4 DEF Narrows

\* There is such a function for every length.
LEMMA NarrowsSome ==
  ASSUME NEW a, NEW n \in Nat
  PROVE  \E g : Narrows(g, a, n)
<1> DEFINE bad == {k \in Nat : ~\E g : Narrows(g, a, k)}
<1> SUFFICES ASSUME bad # {} PROVE FALSE
  OBVIOUS
<1>1. PICK k \in bad : \A y \in bad : k <= y
  BY LeastOne
<1>2. ~\E g : Narrows(g, a, k)
  BY <1>1
<1>3. CASE k = 0
  <2> DEFINE g == [j \in 0 .. k |-> a]
  <2>1. \A j \in 0 .. k : j = 0
    BY <1>3
  <2>2. g = [j \in 0 .. k |-> IF j = 0 THEN a ELSE Narrow(g[j - 1])]
    BY <2>1
  <2> QED BY <1>2, <2>2 DEF Narrows
<1>4. CASE k # 0
  <2>1. k - 1 \in Nat /\ ~(k <= k - 1) /\ (k - 1) + 1 = k
    BY <1>4
  <2>2. PICK g : Narrows(g, a, k - 1)
    BY <1>1, <2>1
  <2>3. \E h : Narrows(h, a, (k - 1) + 1)
    BY <2>1, <2>2, NarrowsMore
  <2> QED BY <1>2, <2>1, <2>3
<1> QED BY <1>3, <1>4

\* It is what range_perm() says.
LEMMA NarrowedIs ==
  ASSUME NEW a, NEW n \in Nat
  PROVE  \A k \in 0 .. n : Narrowed(a, n)[k] = IF k = 0 THEN a ELSE Narrow(Narrowed(a, n)[k - 1])
<1>1. Narrows(Narrowed(a, n), a, n)
  BY NarrowsSome DEF Narrowed
<1> QED BY <1>1 DEF Narrows

\* Where the loop of range_perm_impl() starts, and what range_perm() comes to.
First(i, sz) == [p |-> perm(i), sz |-> sz - range_size(i), i |-> next_range(i)]
LEMMA RangePermDef ==
  ASSUME NEW i, NEW sz, sz > 0
  PROVE  range_perm(i, sz) =
           IF perm(i) = {} \/ sz <= range_size(i) THEN perm(i)
           ELSE Narrowed(First(i, sz), 2 ^ (WORDBITS - PAGEOFFBITS))[sz \div PAGESIZE + 1].p
BY DEF range_perm, Narrowed, Narrows, First, Covered

\* The permissions that all addresses from a on and below b have.
Common(a, b) ==
  {q \in {"P", "W", "U"} : \A v \in Addresses : v >= a /\ v < b => q \in Translation(v).perm}

\* A region more.
LEMMA CommonMore ==
  ASSUME NEW a \in Nat, NEW x \in Addresses, NEW y \in Nat, a <= x, x < y,
         \A v \in Addresses : v >= x /\ v < y => Translation(v).perm = Translation(x).perm
  PROVE  Common(a, y) = Common(a, x) \cap Translation(x).perm
<1>1. Addresses \subseteq Nat
  BY Sizes DEF Addresses, Words
<1>2. ASSUME NEW q \in Common(a, y) PROVE q \in Common(a, x) /\ q \in Translation(x).perm
  <2>1. q \in {"P", "W", "U"} /\ \A v \in Addresses : v >= a /\ v < y => q \in Translation(v).perm
    BY <1>2 DEF Common
  <2>2. q \in Translation(x).perm
    BY <1>1, <2>1
  <2>3. \A v \in Addresses : v >= a /\ v < x => v < y
    BY <1>1
  <2> QED BY <2>1, <2>2, <2>3 DEF Common
<1>3. ASSUME NEW q \in Common(a, x), q \in Translation(x).perm PROVE q \in Common(a, y)
  <2>1. q \in {"P", "W", "U"} /\ \A v \in Addresses : v >= a /\ v < x => q \in Translation(v).perm
    BY <1>3 DEF Common
  <2>2. ASSUME NEW v \in Addresses, v >= a, v < y PROVE q \in Translation(v).perm
    <3>1. v < x \/ v >= x
      BY <1>1
    <3> QED BY <1>3, <2>1, <2>2, <3>1
  <2> QED BY <2>1, <2>2 DEF Common
<1> QED BY <1>2, <1>3

\* A larger range has no more permissions in common.
LEMMA CommonLess ==
  ASSUME NEW a \in Nat, NEW x \in Nat, NEW y \in Nat, x <= y
  PROVE  Common(a, y) \subseteq Common(a, x)
<1>1. Addresses \subseteq Nat
  BY Sizes DEF Addresses, Words
<1>2. \A v \in Addresses : v < x => v < y
  BY <1>1
<1> QED BY <1>2 DEF Common

\* The permissions of a range that ends at e, and of one that ends beyond all addresses.
Answer(a, e) == IF e <= Words THEN Common(a, e) ELSE {}

\* What range_perm_impl()'s loop has found out of the range from a to e: there are no
\* common permissions, or it is at the end, or it has seen the range up to its vmiter,
\* in n steps a page at least each.
Refused(s, a, e) == s.p = {} /\ Answer(a, e) = {}
Ended(s, a, e) ==
  s.sz = 0 /\ e <= Words /\ s.p \cap {"P", "W", "U"} = Common(a, e)
Going(s, a, e, n) ==
  /\ "P" \in s.p /\ IterOK(mem, s.i)
  /\ s.i.va \in Addresses /\ s.i.va % PAGESIZE = 0 /\ (done(s.i) <=> s.i.va = 0)
  /\ a < Upto(s.i.va) /\ s.sz = e - Upto(s.i.va) /\ s.sz > 0
  /\ s.sz + n * PAGESIZE <= e - a
  /\ s.p \cap {"P", "W", "U"} = Common(a, Upto(s.i.va))

\* An iteration keeps to it.
LEMMA NarrowIs ==
  ASSUME MemOK(mem), NEW a \in Nat, NEW e \in Nat, NEW n \in Nat, NEW s, Going(s, a, e, n)
  PROVE  LET t == Narrow(s)
         IN  Refused(t, a, e) \/ Ended(t, a, e) \/ Going(t, a, e, n + 1)
<1>w. PICK w \in Nat \ {0} : w = Words /\ Addresses = 0 .. w - 1
  BY Sizes DEF Addresses, Words
<1>p. PICK p \in Nat \ {0} : p = PAGESIZE
  BY WholePages
<1>1. PICK t : t = Narrow(s)
  OBVIOUS
<1>2. PICK x \in Nat : x = Upto(s.i.va)
  BY <1>w DEF Upto, Going
<1>3. /\ "P" \in s.p /\ IterOK(mem, s.i) /\ s.i.va \in Addresses /\ s.i.va % PAGESIZE = 0
      /\ done(s.i) <=> s.i.va = 0
      /\ a < x /\ s.sz = e - x /\ e - x > 0 /\ (e - x) + n * p <= e - a
      /\ s.p \cap {"P", "W", "U"} = Common(a, x)
  BY <1>2, <1>p DEF Going
<1>4. /\ s.p # {} /\ s.sz # 0
      /\ t = [p |-> IF s.i.va = 0 THEN {} ELSE s.p \cap perm(s.i),
              sz |-> IF done(s.i) THEN 0 ELSE s.sz - Min({s.sz, range_size(s.i)}),
              i |-> IF done(s.i) THEN s.i ELSE next_range(s.i)]
  <2>1. s.p # {} /\ s.sz # 0
    BY <1>3
  <2> QED BY <1>1, <2>1 DEF Narrow
<1>5. CASE done(s.i)
  <2>1. t.p = {}
    BY <1>3, <1>4, <1>5
  <2>2. x = Words
    BY <1>2, <1>3, <1>5 DEF Upto
  <2>3. ~(e <= Words)
    BY <1>3, <1>w, <2>2
  <2> QED BY <1>1, <2>1, <2>3 DEF Refused, Answer
<1>6. CASE ~done(s.i)
  <2>1. t.p = s.p \cap perm(s.i) /\ t.i = next_range(s.i)
        /\ t.sz = s.sz - Min({s.sz, range_size(s.i)})
    BY <1>3, <1>4, <1>6
  <2>2. RegionOK(s.i)
    BY <1>3, <1>6, RegionIs
  <2>3. x = s.i.va /\ x \in Addresses
    BY <1>2, <1>3, <1>6 DEF Upto
  <2>4. PICK y \in Nat : y = Upto(last_va(s.i))
    BY <2>2 DEF RegionOK
  <2>5. /\ x < y /\ y <= w /\ range_size(s.i) = y - x /\ y - x >= p
        /\ last_va(s.i) \in Addresses /\ last_va(s.i) % PAGESIZE = 0
        /\ \A v \in Addresses : v >= x /\ v < y => Translation(v).perm = Translation(x).perm
    BY <1>3, <1>w, <1>p, <2>2, <2>3, <2>4 DEF RegionOK
  <2>6. perm(s.i) \cap {"P", "W", "U"} = Translation(x).perm /\ ("P" \in perm(s.i) \/ perm(s.i) = {})
    BY <1>3, <1>6, <2>3, IterSays
  <2>7. t.p \cap {"P", "W", "U"} = Common(a, x) \cap Translation(x).perm
    BY <1>3, <2>1, <2>6
  <2>8. "P" \in t.p \/ t.p = {}
    BY <1>3, <2>1, <2>6
  <2>9. PICK f \in Nat : f = e - x
    BY <1>3
  <2>10. t.sz = IF f <= y - x THEN 0 ELSE f - (y - x)
    <3>1. y - x \in Nat
      BY <2>5
    <3>2. Min({f, y - x}) = IF f <= y - x THEN f ELSE y - x
      BY <3>1, MinOfTwo
    <3> QED BY <1>3, <2>1, <2>5, <2>9, <3>1, <3>2
  <2>11. CASE f <= y - x
    <3>1. t.sz = 0 /\ e <= y /\ x < e /\ e <= w
      BY <1>3, <2>5, <2>9, <2>10, <2>11
    <3>2. \A v \in Addresses : v >= x /\ v < e => Translation(v).perm = Translation(x).perm
      BY <1>w, <2>5, <3>1
    <3>3. Common(a, e) = Common(a, x) \cap Translation(x).perm
      BY <1>3, <2>3, <3>1, <3>2, CommonMore
    <3>4. Ended(t, a, e)
      BY <1>w, <2>7, <3>1, <3>3 DEF Ended
    <3> QED BY <1>1, <3>4
  <2>12. CASE ~(f <= y - x)
    <3>1. t.sz = e - y /\ t.sz > 0 /\ e > y
      BY <1>3, <2>5, <2>9, <2>10, <2>12
    <3>2. Common(a, y) = Common(a, x) \cap Translation(x).perm
      BY <1>3, <2>3, <2>5, CommonMore
    <3>3. CASE t.p = {}
      <4>1. Common(a, y) = {}
        <5>1. Common(a, y) \subseteq {"P", "W", "U"}
          BY DEF Common
        <5> QED BY <2>7, <3>2, <3>3, <5>1
      <4>2. Common(a, e) = {}
        BY <3>1, <4>1, CommonLess
      <4>3. Refused(t, a, e)
        BY <3>3, <4>2 DEF Refused, Answer
      <4> QED BY <1>1, <4>3
    <3>4. CASE "P" \in t.p
      <4>1. /\ IterOK(mem, t.i) /\ t.i.va = last_va(s.i)
            /\ done(t.i) <=> last_va(s.i) = 0
        BY <1>3, <1>6, <2>1, NextRangeIs
      <4>2. Upto(t.i.va) = y
        BY <2>4, <4>1
      <4>3. t.sz + (n + 1) * PAGESIZE <= e - a
        <5>1. (n + 1) * p = n * p + p
          OBVIOUS
        <5>2. PICK z \in Nat : z = n * p
          OBVIOUS
        <5>3. (e - y) + (z + p) <= e - a
          BY <1>3, <2>5, <5>2
        <5> QED BY <1>p, <3>1, <5>1, <5>2, <5>3
      <4>4. a < y
        BY <1>3, <2>5
      <4>5. Going(t, a, e, n + 1)
        BY <2>5, <2>7, <3>1, <3>2, <3>4, <4>1, <4>2, <4>3, <4>4 DEF Going
      <4> QED BY <1>1, <4>5
    <3> QED BY <2>8, <3>3, <3>4
  <2> QED BY <2>11, <2>12
<1> QED BY <1>5, <1>6

\* The first n iterations do.
LEMMA NarrowedRange ==
  ASSUME MemOK(mem), NEW a \in Nat, NEW e \in Nat, NEW m \in Nat, NEW s, Going(s, a, e, 0),
         NEW n \in 0 .. m
  PROVE  LET t == Narrowed(s, m)[n]
         IN  Refused(t, a, e) \/ Ended(t, a, e) \/ Going(t, a, e, n)
<1> DEFINE right(k) == LET t == Narrowed(s, m)[k]
                       IN  Refused(t, a, e) \/ Ended(t, a, e) \/ Going(t, a, e, k)
<1>0. \A k \in 0 .. m : Narrowed(s, m)[k] = IF k = 0 THEN s ELSE Narrow(Narrowed(s, m)[k - 1])
  BY NarrowedIs
<1>1. right(0)
  BY <1>0
<1>2. ASSUME NEW k \in 0 .. m, k # 0, right(k - 1) PROVE right(k)
  <2>1. PICK t : t = Narrowed(s, m)[k - 1]
    OBVIOUS
  <2>2. Narrowed(s, m)[k] = Narrow(t)
    BY <1>0, <1>2, <2>1
  <2>3. CASE Refused(t, a, e)
    <3>1. Narrow(t) = t
      BY <2>3 DEF Refused, Narrow
    <3> QED BY <2>2, <2>3, <3>1
  <2>4. CASE Ended(t, a, e)
    <3>1. Narrow(t) = t
      BY <2>4 DEF Ended, Narrow
    <3> QED BY <2>2, <2>4, <3>1
  <2>5. CASE Going(t, a, e, k - 1)
    <3>1. k - 1 \in Nat /\ (k - 1) + 1 = k
      BY <1>2
    <3> QED BY <2>2, <2>5, <3>1, NarrowIs
  <2> QED BY <1>2, <2>1, <2>3, <2>4, <2>5
<1> DEFINE bad == {k \in Nat : k \in 0 .. m /\ ~right(k)}
<1> HIDE DEF right
<1>3. bad = {}
  <2> SUFFICES ASSUME bad # {} PROVE FALSE
    OBVIOUS
  <2>1. PICK k \in bad : \A y \in bad : k <= y
    BY LeastOne
  <2>2. k \in 0 .. m /\ ~right(k) /\ k # 0
    BY <1>1, <2>1
  <2>3. k - 1 \in 0 .. m /\ ~(k <= k - 1) /\ k - 1 \in Nat
    BY <2>2
  <2>4. right(k - 1)
    BY <2>1, <2>3
  <2> QED BY <1>2, <2>2, <2>4
<1>4. right(n)
  BY <1>3
<1> QED BY <1>4 DEF right

\* range_perm() is the intersection of the permissions of the range.
LEMMA RangePermIs ==
  ASSUME MemOK(mem), NEW i, IterOK(mem, i), ~done(i), NEW sz \in Addresses
  PROVE  range_perm(i, sz) \cap {"P", "W", "U"} =
           IF i.va .. i.va + sz - 1 \subseteq Addresses
           THEN {q \in {"P", "W", "U"} :
                   \A va \in i.va .. i.va + sz - 1 : q \in Translation(va).perm}
           ELSE {}
<1>w. PICK w \in Nat \ {0} : w = Words /\ Addresses = 0 .. w - 1
  BY Sizes DEF Addresses, Words
<1>r. RegionOK(i)
  BY RegionIs
<1>a. PICK a \in Nat : a = i.va /\ a < w
  BY <1>r, <1>w DEF RegionOK
<1>e. PICK e \in Nat : e = a + sz /\ sz \in Nat
  BY <1>w
<1>y. PICK y \in Nat : y = Upto(last_va(i)) /\ a < y /\ y <= w /\ range_size(i) = y - a
  BY <1>r, <1>a, <1>w DEF RegionOK
<1>t. \A v \in Addresses : v >= a /\ v < y => Translation(v).perm = Translation(a).perm
  BY <1>r, <1>a, <1>y DEF RegionOK
<1>s. /\ perm(i) \cap {"P", "W", "U"} = Translation(a).perm
      /\ "P" \in perm(i) \/ perm(i) = {}
  BY <1>a, IterSays
<1>0. CASE sz = 0
  <2>1. i.va .. i.va + sz - 1 = {}
    BY <1>0, <1>a
  <2>2. range_perm(i, sz) = Flags
    <3>1. sz <= range_size(i) /\ ~(sz > 0)
      BY <1>0, <1>y
    <3>2. Flags # {}
      BY DEF Flags
    <3> QED BY <3>1, <3>2 DEF range_perm
  <2> QED BY <2>1, <2>2 DEF Flags
<1>1. ASSUME sz > 0 PROVE (i.va .. i.va + sz - 1 \subseteq Addresses <=> e <= w)
  <2>1. e - 1 \in a .. e - 1 /\ i.va .. i.va + sz - 1 = a .. e - 1
    BY <1>a, <1>e, <1>1
  <2>2. e - 1 \in 0 .. w - 1 <=> e <= w
    BY <1>e, <1>1
  <2>3. ASSUME e <= w, NEW v \in a .. e - 1 PROVE v \in 0 .. w - 1
    BY <2>3
  <2> QED BY <1>w, <2>1, <2>2, <2>3
<1>2. ASSUME sz > 0, e <= w
      PROVE {q \in {"P", "W", "U"} :
               \A va \in i.va .. i.va + sz - 1 : q \in Translation(va).perm} = Common(a, e)
  <2>1. ASSUME NEW v PROVE v \in i.va .. i.va + sz - 1 <=> v \in Addresses /\ v >= a /\ v < e
    BY <1>w, <1>a, <1>e, <1>2
  <2> QED BY <2>1 DEF Common
<1>3. ASSUME sz > 0, range_perm(i, sz) \cap {"P", "W", "U"} = Answer(a, e)
      PROVE  range_perm(i, sz) \cap {"P", "W", "U"} =
               IF i.va .. i.va + sz - 1 \subseteq Addresses
               THEN {q \in {"P", "W", "U"} :
                       \A va \in i.va .. i.va + sz - 1 : q \in Translation(va).perm}
               ELSE {}
  BY <1>1, <1>2, <1>3, <1>w DEF Answer
<1>b. Common(a, a) = {"P", "W", "U"}
  <2>1. \A v \in Addresses : ~(v >= a /\ v < a)
    BY <1>w
  <2> QED BY <2>1 DEF Common
<1>c. a \in Addresses /\ a <= a
  BY <1>w, <1>a
<1>z. Translation(a).perm \subseteq {"P", "W", "U"}
  BY <1>s
<1>4. CASE sz > 0 /\ (perm(i) = {} \/ sz <= range_size(i))
  <2>1. range_perm(i, sz) = perm(i)
    BY <1>4, RangePermDef
  <2>2. CASE sz <= range_size(i)
    <3>1. a < e /\ e <= y /\ e <= w
      BY <1>4, <1>e, <1>y, <2>2
    <3>2. \A v \in Addresses : v >= a /\ v < e => Translation(v).perm = Translation(a).perm
      BY <1>t, <1>w, <3>1
    <3>3. Common(a, e) = Common(a, a) \cap Translation(a).perm
      BY <1>c, <3>1, <3>2, CommonMore
    <3>4. Answer(a, e) = Translation(a).perm
      BY <1>b, <1>w, <1>z, <3>1, <3>3 DEF Answer
    <3> QED BY <1>3, <1>4, <1>s, <2>1, <3>4
  <2>3. CASE perm(i) = {}
    <3>1. Translation(a).perm = {}
      BY <1>s, <2>3
    <3>2. Common(a, e) = {}
      <4>1. a >= a /\ a < e
        BY <1>4, <1>e
      <4> QED BY <1>c, <3>1, <4>1 DEF Common
    <3>3. Answer(a, e) = {}
      BY <3>2 DEF Answer
    <3> QED BY <1>3, <1>4, <2>1, <2>3, <3>3
  <2> QED BY <1>4, <2>2, <2>3
<1>5. CASE sz > 0 /\ perm(i) # {} /\ ~(sz <= range_size(i))
  <2>p. PICK p \in Nat \ {0} : p = PAGESIZE
    BY WholePages
  <2>1. PICK s : s = First(i, sz)
    OBVIOUS
  <2>2. /\ IterOK(mem, s.i) /\ s.i.va = last_va(i) /\ (done(s.i) <=> last_va(i) = 0)
        /\ s.p = perm(i) /\ s.sz = sz - range_size(i)
    BY <2>1, NextRangeIs DEF First
  <2>3. s.sz = e - y /\ s.sz > 0 /\ s.sz + 0 * PAGESIZE <= e - a
    BY <1>5, <1>e, <1>y, <2>2, <2>p
  <2>4. last_va(i) \in Addresses /\ last_va(i) % PAGESIZE = 0
    BY <1>r DEF RegionOK
  <2>5. s.p \cap {"P", "W", "U"} = Common(a, y)
    <3>1. Common(a, y) = Common(a, a) \cap Translation(a).perm
      BY <1>c, <1>t, <1>y, CommonMore
    <3> QED BY <1>b, <1>s, <1>z, <2>2, <3>1
  <2>6. Going(s, a, e, 0)
    BY <1>5, <1>s, <1>y, <2>2, <2>3, <2>4, <2>5 DEF Going
  <2>7. PICK m \in Nat, n \in Nat :
          /\ n \in 0 .. m /\ m = 2 ^ (WORDBITS - PAGEOFFBITS)
          /\ n = sz \div PAGESIZE + 1 /\ n * p > sz
    <3>1. PICK m \in Nat : m = 2 ^ (WORDBITS - PAGEOFFBITS) /\ Words = p * m
      <4>1. PICK j \in 0 .. WORDBITS, k \in 0 .. WORDBITS :
              j = PAGEOFFBITS /\ k = WORDBITS - PAGEOFFBITS /\ j + k = WORDBITS
        BY WidthAssumption DEF VABITS
      <4>2. 2 ^ k \in Nat /\ 2 ^ (j + k) = 2 ^ j * 2 ^ k
        BY <4>1, PowerAssumption
      <4> QED BY <2>p, <4>1, <4>2 DEF Words, PAGESIZE
    <3>2. sz < p * m
      BY <1>w, <1>e, <3>1
    <3>3. sz \div p < m /\ sz \div p \in Nat
      BY <1>e, <3>2, Divide, DivideBelow
    <3>4. sz \div p + 1 \in 0 .. m
      BY <3>3
    <3>5. sz < p * (sz \div p + 1)
      <4>1. sz \div p + 1 \in Nat /\ sz \div p < sz \div p + 1
        BY <3>3
      <4> QED BY <1>e, <4>1, DivideBelow
    <3>6. ASSUME NEW x \in Nat PROVE p * x = x * p
      OBVIOUS
    <3>7. (sz \div p + 1) * p > sz
      <4>1. sz \div p + 1 \in Nat
        BY <3>3
      <4>2. PICK x \in Nat : x = sz \div p + 1
        BY <4>1
      <4>3. p * x \in Nat /\ sz < p * x /\ p * x = x * p
        BY <3>5, <3>6, <4>2
      <4> QED BY <1>e, <4>2, <4>3
    <3> QED BY <2>p, <3>1, <3>4, <3>7
  <2>8. PICK t : t = Narrowed(s, m)[n]
    OBVIOUS
  <2>9. range_perm(i, sz) = t.p
    BY <1>5, <2>1, <2>7, <2>8, RangePermDef
  <2>10. Refused(t, a, e) \/ Ended(t, a, e) \/ Going(t, a, e, n)
    BY <2>6, <2>7, <2>8, NarrowedRange
  <2>11. ~Going(t, a, e, n)
    <3>1. SUFFICES ASSUME Going(t, a, e, n) PROVE FALSE
      OBVIOUS
    <3>2. PICK x \in Nat : x = Upto(t.i.va)
      BY <1>w, <3>1 DEF Going, Upto
    <3>3. (e - x) + n * p <= e - a /\ e - x > 0
      BY <2>p, <3>1, <3>2 DEF Going
    <3>4. PICK z \in Nat : z = n * p
      OBVIOUS
    <3> QED BY <1>e, <2>7, <3>3, <3>4
  <2>12. t.p \cap {"P", "W", "U"} = Answer(a, e)
    BY <1>w, <2>10, <2>11 DEF Refused, Ended, Answer
  <2> QED BY <1>3, <1>5, <2>9, <2>12
<1>6. sz > 0 \/ sz = 0
  BY <1>e
<1> QED BY <1>0, <1>4, <1>5, <1>6

-----------------------------------------------------------------------------
(* Writing an entry.                                                       *)

\* Of the pages of m, l differs only in the entry at depth d of the walk of va.
Written(m, l, va, d) ==
  \A q \in DOMAIN m : \A x \in 0 .. Fan - 1 :
    <<q, x>> # <<Node(m, va, d), Index(va, Lev(d))>> => l[q][x] = m[q][x]

\* The other entries of walks are as they were.
LEMMA Unwritten ==
  ASSUME NEW m, NEW l, MemOK(m), Tree(m), NEW va \in Canon, NEW d \in 0 .. 3, Reached(m, va, d),
         Written(m, l, va, d), NEW vb \in Canon, NEW k \in 0 .. 3, Reached(m, vb, k),
         ~(k = d /\ Same(va, vb, d + 1))
  PROVE  EntryAt(l, Node(m, vb, k), vb, k) = Ent(m, vb, k)
<1>1. Node(m, vb, k) \in DOMAIN m /\ Index(vb, Lev(k)) \in 0 .. Fan - 1
  BY EntryIs
<1>2. <<Node(m, vb, k), Index(vb, Lev(k))>> # <<Node(m, va, d), Index(va, Lev(d))>>
  <2> SUFFICES ASSUME Node(m, vb, k) = Node(m, va, d), Index(vb, Lev(k)) = Index(va, Lev(d))
               PROVE  FALSE
    OBVIOUS
  <2>1. k = d /\ Same(va, vb, d)
    BY DEF Tree
  <2>2. Index(va, Lev(d)) = Index(vb, Lev(d))
    BY <2>1
  <2>3. Same(va, vb, d + 1)
    BY <2>1, <2>2, SameDown DEF Canon
  <2> QED BY <2>1, <2>3
<1> QED BY <1>1, <1>2 DEF Written, Ent, EntryAt

\* No walk changes above the entry.
LEMMA KeepsAbove ==
  ASSUME NEW m, NEW l, MemOK(m), Tree(m), NEW va \in Canon, NEW d \in 0 .. 3, Reached(m, va, d),
         Written(m, l, va, d), NEW vb \in Canon
  PROVE  /\ \A k \in 0 .. d : AlikeTo(m, vb, l, vb, k)
         /\ \A k \in 0 .. d - 1 : Reached(m, vb, k) => Ent(l, vb, k) = Ent(m, vb, k)
<1>1. ASSUME NEW k \in 0 .. d - 1, Reached(m, vb, k)
      PROVE  EntryAt(l, Node(m, vb, k), vb, k) = Ent(m, vb, k)
  <2>1. k \in 0 .. 3 /\ k # d
    OBVIOUS
  <2> QED BY <1>1, <2>1, Unwritten
<1>2. Alike(m, vb, l, vb, d)
  BY <1>1 DEF Alike
<1> QED BY <1>2, WalksAlike

\* A walk that does not come to the entry does not change at all.
LEMMA KeepsAll ==
  ASSUME NEW m, NEW l, MemOK(m), Tree(m), NEW va \in Canon, NEW d \in 0 .. 3, Reached(m, va, d),
         Written(m, l, va, d), NEW vb \in Canon, ~Same(va, vb, d + 1)
  PROVE  \A k \in 0 .. 3 : /\ AlikeTo(m, vb, l, vb, k)
                           /\ Reached(m, vb, k) => Ent(l, vb, k) = Ent(m, vb, k)
<1>1. ASSUME NEW k \in 0 .. 3, Reached(m, vb, k)
      PROVE  EntryAt(l, Node(m, vb, k), vb, k) = Ent(m, vb, k)
  BY <1>1, Unwritten
<1>2. 3 \in 0 .. 3 /\ 0 .. 3 - 1 \subseteq 0 .. 3
  OBVIOUS
<1>3. Alike(m, vb, l, vb, 3)
  BY <1>1, <1>2 DEF Alike
<1>4. \A k \in 0 .. 3 : AlikeTo(m, vb, l, vb, k)
  BY <1>2, <1>3, WalksAlike
<1>5. ASSUME NEW k \in 0 .. 3, Reached(m, vb, k) PROVE Ent(l, vb, k) = Ent(m, vb, k)
  <2>1. Node(l, vb, k) = Node(m, vb, k)
    BY <1>4, <1>5 DEF AlikeTo
  <2> QED BY <1>1, <1>5, <2>1 DEF Ent
<1> QED BY <1>4, <1>5

\* A walk that does not change translates as before.
LEMMA KeepsTranslation ==
  ASSUME NEW m, NEW l, NEW vb,
         \A k \in 0 .. 3 : /\ AlikeTo(m, vb, l, vb, k)
                           /\ Reached(m, vb, k) => Ent(l, vb, k) = Ent(m, vb, k)
  PROVE  \A d \in 0 .. 3 : Deepest(m, vb, d) =>
           Deepest(l, vb, d) /\ Trans(l, vb, d) = Trans(m, vb, d)
<1>1. SUFFICES ASSUME NEW d \in 0 .. 3, Deepest(m, vb, d)
               PROVE  Deepest(l, vb, d) /\ Trans(l, vb, d) = Trans(m, vb, d)
  OBVIOUS
<1>2. Reached(m, vb, d) /\ (d = 3 \/ ~Leads(Ent(m, vb, d)))
  BY <1>1 DEF Deepest
<1>3. Reached(l, vb, d) /\ Ent(l, vb, d) = Ent(m, vb, d)
  BY <1>2 DEF AlikeTo
<1>4. Deepest(l, vb, d)
  BY <1>2, <1>3 DEF Deepest
<1>5. ASSUME NEW k \in 0 .. d PROVE Ent(l, vb, k) = Ent(m, vb, k)
  <2>1. k \in 0 .. 3 /\ d \in 0 .. 4
    OBVIOUS
  <2>2. Reached(m, vb, k)
    BY <1>2, <2>1, WalkStep
  <2> QED BY <2>1, <2>2
<1>6. Allowed(l, vb, d) = Allowed(m, vb, d)
  BY <1>5 DEF Allowed
<1> QED BY <1>3, <1>4, <1>6 DEF Trans

\* A memory with the same walks, and entries of the right type, is as good.
LEMMA SameNodes ==
  ASSUME NEW m, NEW l, MemOK(m), Tree(m), DOMAIN l = DOMAIN m,
         \A n \in DOMAIN l : l[n] \in [0 .. Fan - 1 -> EntryType],
         \A vb \in Canon, k \in 0 .. 3 : AlikeTo(m, vb, l, vb, k)
  PROVE  MemOK(l) /\ Tree(l)
<1>1. ASSUME NEW vb \in Canon, NEW k \in 0 .. 3, Reached(l, vb, k)
      PROVE  Reached(m, vb, k) /\ Node(l, vb, k) = Node(m, vb, k)
  BY <1>1 DEF AlikeTo
<1>2. MemOK(l)
  BY <1>1 DEF MemOK
<1>3. Tree(l)
  BY <1>1 DEF Tree
<1> QED BY <1>2, <1>3

\* Then l is m with the entry a at the end of the walk of va.
Replaced(m, l, va, a) ==
  /\ MemOK(l) /\ Tree(l) /\ DOMAIN l = DOMAIN m
  /\ Reached(l, va, 3) /\ Ent(l, va, 3) = a /\ Place(l, va, 3) = Place(m, va, 3)
  /\ Written(m, l, va, 3)

\* try_map() sets the entry of a page.
LEMMA LeafWritten ==
  ASSUME NEW m, MemOK(m), Tree(m), NEW va \in Canon, Reached(m, va, 3), NEW a \in EntryType,
         NEW l, l = [m EXCEPT ![Node(m, va, 3)][Index(va, Lev(3))] = a]
  PROVE  Replaced(m, l, va, a)
<1>0. 3 \in 0 .. 3
  OBVIOUS
<1>1. PICK n, x : n = Node(m, va, 3) /\ x = Index(va, Lev(3))
  OBVIOUS
<1>2. n \in DOMAIN m /\ x \in 0 .. Fan - 1
  BY <1>0, <1>1, EntryIs
<1>3. l = [m EXCEPT ![n] = [m[n] EXCEPT ![x] = a]]
  BY <1>1
<1>4. m[n] \in [0 .. Fan - 1 -> EntryType]
  BY <1>2 DEF MemOK
<1>5. DOMAIN l = DOMAIN m /\ \A q \in DOMAIN m : q # n => l[q] = m[q]
  BY <1>3
<1>6. l[n] = [m[n] EXCEPT ![x] = a]
  BY <1>2, <1>3
<1>7. l[n] \in [0 .. Fan - 1 -> EntryType] /\ l[n][x] = a
      /\ \A y \in 0 .. Fan - 1 : y # x => l[n][y] = m[n][y]
  BY <1>2, <1>4, <1>6
<1>8. Written(m, l, va, 3)
  BY <1>1, <1>5, <1>7 DEF Written
<1>9. \A q \in DOMAIN l : l[q] \in [0 .. Fan - 1 -> EntryType]
  BY <1>5, <1>7 DEF MemOK
<1>10. \A vb \in Canon, k \in 0 .. 3 : AlikeTo(m, vb, l, vb, k)
  BY <1>0, <1>8, KeepsAbove
<1>11. MemOK(l) /\ Tree(l)
  BY <1>5, <1>9, <1>10, SameNodes
<1>12. Reached(l, va, 3) /\ Node(l, va, 3) = n
  BY <1>0, <1>1, <1>10 DEF AlikeTo
<1>13. Ent(l, va, 3) = a
  BY <1>1, <1>7, <1>12 DEF Ent, EntryAt
<1>14. PermTo(l, va, 3) = PermTo(m, va, 3)
  <2>1. \A k \in 0 .. 3 - 1 : Reached(m, va, k) => Ent(l, va, k) = Ent(m, va, k)
    BY <1>0, <1>8, KeepsAbove
  <2>2. \A k \in 0 .. 3 - 1 : k \in 0 .. 3 /\ 3 \in 0 .. 4
    OBVIOUS
  <2>3. \A k \in 0 .. 3 - 1 : Reached(m, va, k)
    BY <2>2, WalkStep
  <2> QED BY <2>1, <2>3 DEF PermTo
<1>15. Place(l, va, 3) = Place(m, va, 3)
  BY <1>1, <1>12, <1>14 DEF Place
<1> QED BY <1>5, <1>8, <1>11, <1>12, <1>13, <1>15 DEF Replaced

\* A page as NewPage is.
LEMMA ZeroedIs ==
  /\ Zeroed \in [0 .. Fan - 1 -> EntryType] /\ \A x \in 0 .. Fan - 1 : Zeroed[x] = Empty
  /\ Empty \in EntryType /\ Empty.perm = {} /\ ~Leads(Empty)
<1>1. Zeroed \in Page
  <2>1. [x \in 0 .. 2 ^ PAGEINDEXBITS - 1 |-> Empty] \in Page
    BY DEF Page
  <2> QED BY <2>1 DEF Zeroed
<1>2. Empty \in EntryType /\ Empty.perm = {} /\ ~Leads(Empty)
  BY DEF Empty, EntryType, Leads
<1> QED BY <1>1, <1>2 DEF Page, Fan

\* The entry of a page table page that try_map() has allocated.
Link(n) == [perm |-> {"P", "W", "U"}, pa |-> n]

\* try_map() links a new page table page n to the end of a walk.
Linked(m, va, d, n) ==
  [q \in DOMAIN m \cup {n} |->
     IF q = n THEN Zeroed
     ELSE IF q = Node(m, va, d) THEN [m[q] EXCEPT ![Index(va, Lev(d))] = Link(n)]
     ELSE m[q]]

\* Then l is m with the page n, which is empty, at the end of the walk of va.
Extended(m, l, va, d, n) ==
  /\ DOMAIN l = DOMAIN m \cup {n}
  /\ \A q \in DOMAIN l : l[q] \in [0 .. Fan - 1 -> EntryType]
  /\ Written(m, l, va, d)
  /\ \A vb \in Canon : Same(va, vb, d + 1) =>
       /\ Reached(m, vb, d) /\ Ent(m, vb, d) = Ent(m, va, d) /\ Deepest(m, vb, d)
       /\ Ent(l, vb, d) = Link(n) /\ Reached(l, vb, d + 1) /\ Node(l, vb, d + 1) = n
       /\ Ent(l, vb, d + 1) = Empty /\ Deepest(l, vb, d + 1)

\* It is.
LEMMA LinkWritten ==
  ASSUME NEW m, MemOK(m), Tree(m), NEW va \in Canon, NEW d \in 0 .. 2, Deepest(m, va, d),
         NEW n \in Nat, n \notin DOMAIN m, NEW l, l = Linked(m, va, d, n)
  PROVE  Extended(m, l, va, d, n)
<1>0. d \in 0 .. 3 /\ d + 1 \in 0 .. 3 /\ d \in 0 .. 2 /\ (d + 1) - 1 = d /\ d + 1 \in 1 .. 4
  OBVIOUS
<1>r. Reached(m, va, d)
  BY DEF Deepest
<1>1. PICK p, x : p = Node(m, va, d) /\ x = Index(va, Lev(d))
  OBVIOUS
<1>2. p \in DOMAIN m /\ x \in 0 .. Fan - 1 /\ p # n
  BY <1>0, <1>1, <1>r, EntryIs
<1>3. /\ DOMAIN l = DOMAIN m \cup {n} /\ l[n] = Zeroed
      /\ l[p] = [m[p] EXCEPT ![x] = Link(n)]
      /\ \A q \in DOMAIN m : q # p => l[q] = m[q]
  BY <1>1, <1>2 DEF Linked
<1>4. m[p] \in [0 .. Fan - 1 -> EntryType] /\ Link(n) \in EntryType
  BY <1>2 DEF MemOK, Link, EntryType, Flags
<1>5. l[p] \in [0 .. Fan - 1 -> EntryType] /\ l[p][x] = Link(n)
      /\ \A y \in 0 .. Fan - 1 : y # x => l[p][y] = m[p][y]
  BY <1>2, <1>3, <1>4
<1>6. Written(m, l, va, d)
  BY <1>1, <1>3, <1>5 DEF Written
<1>7. \A q \in DOMAIN l : l[q] \in [0 .. Fan - 1 -> EntryType]
  BY <1>3, <1>5, ZeroedIs DEF MemOK
<1>8. ASSUME NEW vb \in Canon, Same(va, vb, d + 1)
      PROVE  /\ Reached(m, vb, d) /\ Ent(m, vb, d) = Ent(m, va, d) /\ Deepest(m, vb, d)
             /\ Ent(l, vb, d) = Link(n) /\ Reached(l, vb, d + 1) /\ Node(l, vb, d + 1) = n
             /\ Ent(l, vb, d + 1) = Empty /\ Deepest(l, vb, d + 1)
  <2>1. va \in Nat /\ vb \in Nat
    BY CanonicalBlock DEF Canon
  <2>2. Same(va, vb, d) /\ Index(va, Lev(d)) = Index(vb, Lev(d))
    BY <1>0, <1>8, <2>1, SameUp
  <2>3. Reached(m, vb, d) /\ Node(m, vb, d) = p
    BY <1>0, <1>1, <1>r, <2>1, <2>2, SameWalk
  <2>4. Ent(m, vb, d) = Ent(m, va, d)
    BY <1>1, <2>2, <2>3 DEF Ent, EntryAt
  <2>5. Deepest(m, vb, d)
    BY <2>3, <2>4 DEF Deepest
  <2>6. AlikeTo(m, vb, l, vb, d)
    <3>1. \A k \in 0 .. d : AlikeTo(m, vb, l, vb, k)
      BY <1>0, <1>r, <1>6, KeepsAbove
    <3> QED BY <3>1
  <2>7. Reached(l, vb, d) /\ Node(l, vb, d) = p
    BY <2>3, <2>6 DEF AlikeTo
  <2>8. Ent(l, vb, d) = Link(n)
    BY <1>1, <1>5, <2>2, <2>7 DEF Ent, EntryAt
  <2>9. Leads(Link(n)) /\ Link(n).pa = n
    BY DEF Leads, Link
  <2>10. Reached(l, vb, d + 1) /\ Node(l, vb, d + 1) = n
    BY <1>0, <2>7, <2>8, <2>9, WalkStep
  <2>11. Index(vb, Lev(d + 1)) \in 0 .. Fan - 1
    BY <1>0, <2>1, BlockIndex
  <2>12. Ent(l, vb, d + 1) = Empty
    BY <1>3, <2>10, <2>11, ZeroedIs DEF Ent, EntryAt
  <2>13. Deepest(l, vb, d + 1)
    BY <2>10, <2>12, ZeroedIs DEF Deepest
  <2> QED BY <2>3, <2>4, <2>5, <2>8, <2>10, <2>12, <2>13
<1> QED BY <1>3, <1>6, <1>7, <1>8 DEF Extended

\* The memory is as good as before, and the vmiter goes down into the new page.
LEMMA LinkKeeps ==
  ASSUME NEW m, MemOK(m), Tree(m), NEW va \in Canon, NEW d \in 0 .. 2, Deepest(m, va, d),
         NEW n \in Nat, n \notin DOMAIN m, NEW l, Extended(m, l, va, d, n)
  PROVE  /\ MemOK(l) /\ Tree(l) /\ PermTo(l, va, d + 1) = PermTo(m, va, d)
<1>0. d \in 0 .. 3 /\ d + 1 \in 0 .. 3 /\ d + 1 \in 0 .. 4
  OBVIOUS
<1>r. Reached(m, va, d)
  BY DEF Deepest
<1>1. /\ DOMAIN l = DOMAIN m \cup {n}
      /\ \A q \in DOMAIN l : l[q] \in [0 .. Fan - 1 -> EntryType]
      /\ Written(m, l, va, d)
  BY DEF Extended
<1>w. Written(m, l, va, d)
  BY <1>1
<1>2. \A vb \in Canon : Same(va, vb, d + 1) =>
        /\ Ent(l, vb, d) = Link(n) /\ Reached(l, vb, d + 1) /\ Node(l, vb, d + 1) = n
        /\ Deepest(l, vb, d + 1)
  BY DEF Extended
<1>3. ASSUME NEW vb \in Canon, NEW k \in 0 .. 3, Reached(l, vb, k)
      PROVE  \/ /\ Reached(m, vb, k) /\ Node(l, vb, k) = Node(m, vb, k)
                /\ Node(l, vb, k) \in DOMAIN m
             \/ Same(va, vb, d + 1) /\ k = d + 1 /\ Node(l, vb, k) = n
  <2>1. CASE ~Same(va, vb, d + 1)
    <3>1. AlikeTo(m, vb, l, vb, k)
      BY <1>0, <1>1, <1>r, <2>1, KeepsAll
    <3> QED BY <1>3, <3>1 DEF AlikeTo, MemOK
  <2>2. CASE Same(va, vb, d + 1) /\ k \in 0 .. d
    <3>1. AlikeTo(m, vb, l, vb, k)
      BY <1>0, <1>1, <1>r, <2>2, KeepsAbove
    <3> QED BY <1>3, <3>1 DEF AlikeTo, MemOK
  <2>3. CASE Same(va, vb, d + 1) /\ k \notin 0 .. d
    <3>1. k <= d + 1
      BY <1>0, <1>2, <1>3, <2>3, DeepestOne
    <3>2. k = d + 1
      BY <2>3, <3>1
    <3> QED BY <1>2, <2>3, <3>2
  <2> QED BY <2>1, <2>2, <2>3
<1>4. MemOK(l)
  <2>1. DOMAIN l \subseteq Nat
    BY <1>1 DEF MemOK
  <2>2. \A vb \in Canon, k \in 0 .. 3 : Reached(l, vb, k) => Node(l, vb, k) \in DOMAIN l
    BY <1>1, <1>3
  <2> QED BY <1>1, <2>1, <2>2 DEF MemOK
<1>5. Tree(l)
  <2>1. ASSUME NEW vb \in Canon, NEW vc \in Canon, NEW j \in 0 .. 3, NEW k \in 0 .. 3,
               Reached(l, vb, j), Reached(l, vc, k), Node(l, vb, j) = Node(l, vc, k)
        PROVE  j = k /\ Same(vb, vc, k)
    <3>1. CASE Node(l, vb, j) = n
      <4>1. Same(va, vb, d + 1) /\ Same(va, vc, d + 1) /\ j = d + 1 /\ k = d + 1
        BY <1>3, <2>1, <3>1
      <4>2. Same(vb, vc, d + 1)
        BY <4>1 DEF Same
      <4> QED BY <4>1, <4>2
    <3>2. CASE Node(l, vb, j) # n
      <4>1. /\ Reached(m, vb, j) /\ Node(l, vb, j) = Node(m, vb, j)
            /\ Reached(m, vc, k) /\ Node(l, vc, k) = Node(m, vc, k)
        BY <1>3, <2>1, <3>2
      <4> QED BY <2>1, <4>1 DEF Tree
    <3> QED BY <3>1, <3>2
  <2> QED BY <2>1 DEF Tree
<1>6. PermTo(l, va, d + 1) = PermTo(m, va, d)
  <2>1. Ent(l, va, d) = Link(n)
    <3>1. Same(va, va, d + 1)
      BY DEF Same
    <3> QED BY <1>2, <3>1
  <2>2. \A k \in 0 .. d - 1 : Reached(m, va, k) => Ent(l, va, k) = Ent(m, va, k)
    BY <1>0, <1>w, <1>r, KeepsAbove
  <2>3. ASSUME NEW k \in 0 .. d - 1 PROVE Ent(l, va, k) = Ent(m, va, k)
    <3>1. d \in 0 .. 4 /\ k \in 0 .. d
      OBVIOUS
    <3>2. Reached(m, va, k)
      BY <1>r, <3>1, WalkStep
    <3> QED BY <2>2, <3>2
  <2>4. 0 .. (d + 1) - 1 = (0 .. d - 1) \cup {d}
    OBVIOUS
  <2>5. Link(n).perm = {"P", "W", "U"}
    BY DEF Link
  <2>6. ASSUME NEW q \in Flags
        PROVE  (q = "PS" \/ \A k \in 0 .. (d + 1) - 1 : q \in Ent(l, va, k).perm)
               <=> (q = "PS" \/ \A k \in 0 .. d - 1 : q \in Ent(m, va, k).perm)
    <3>1. q # "PS" => q \in Ent(l, va, d).perm
      BY <2>1, <2>5 DEF Flags
    <3> QED BY <2>3, <2>4, <3>1
  <2> QED BY <2>6 DEF PermTo
<1> QED BY <1>4, <1>5, <1>6

-----------------------------------------------------------------------------
(* try_map().                                                              *)

\* Page table pages are numbered in the order in which they were allocated.
Numbered(m) == \E c \in Nat : DOMAIN m = 0 .. c - 1

\* What try_map() may rely on, from its assertions and from the iterations before:
\* there is an entry, the permissions do not widen those above it, and a page table
\* page that is missing is missing.
ArgsType == [pa : Nat, perm : SUBSET {"P", "W", "U"}]
MapOK(m, i, a) ==
  /\ i.va % PAGESIZE = 0
  /\ \/ a.perm = {}
     \/ \E va \in Canon, d \in 0 .. 3 :
          /\ Deepest(m, va, d) /\ i = Place(m, va, d) /\ a.perm \subseteq PermTo(m, va, d)
          /\ d < 3 => "P" \notin Ent(m, va, d).perm

\* The inductive invariant of vmiter.
IterInv ==
  /\ MemOK(mem) /\ Tree(mem) /\ Numbered(mem)
  /\ IterOK(mem, it)
  /\ args \in ArgsType
  /\ op = "map" => MapOK(mem, it, args)
  /\ op \in {"idle", "map", "free"}

\* What try_map() does to its vmiter.
Lower(i, pp, ll) == [i EXCEPT !.pep = pp, !.lbits = ll]

\* The members of such a vmiter.
LEMMA Lowered ==
  ASSUME NEW p, NEW l, NEW q, NEW v, NEW pp, NEW ll
  PROVE  Lower([pep |-> p, lbits |-> l, perm |-> q, va |-> v], pp, ll)
         = [pep |-> pp, lbits |-> ll, perm |-> q, va |-> v]
<1>0. PICK i : i = [pep |-> p, lbits |-> l, perm |-> q, va |-> v]
  OBVIOUS
<1>1. PICK j : j = [i EXCEPT !.pep = pp, !.lbits = ll]
  OBVIOUS
<1>2. j.pep = pp /\ j.lbits = ll /\ j.perm = q /\ j.va = v
  BY <1>0, <1>1
<1>3. DOMAIN i = {"pep", "lbits", "perm", "va"}
  BY <1>0
<1>4. DOMAIN j = DOMAIN i
  BY <1>1, Zenon
<1>5. j = [z \in DOMAIN j |-> j[z]]
  BY <1>1
<1>6. j = [pep |-> pp, lbits |-> ll, perm |-> q, va |-> v]
  BY <1>2, <1>3, <1>4, <1>5
<1> QED BY <1>0, <1>1, <1>6 DEF Lower

\* An iteration of try_map() links a new page to the end of the walk.
Links(m, l, i, j, a, va, d, n) ==
  /\ Deepest(m, va, d) /\ i = Place(m, va, d) /\ va % PAGESIZE = 0
  /\ a.perm \subseteq PermTo(m, va, d) /\ "P" \notin Ent(m, va, d).perm
  /\ DOMAIN m = 0 .. n - 1 /\ n \notin DOMAIN m
  /\ l = Linked(m, va, d, n)
  /\ j = [pep |-> <<n, Index(va, Lev(d + 1))>>, lbits |-> Lev(d + 1),
          perm |-> PermTo(m, va, d), va |-> va]

\* It does.
LEMMA MapLevelIs ==
  ASSUME IterInv, MapLevel
  PROVE  \E va \in Canon, d \in 0 .. 2, n \in Nat : Links(mem, mem', it, it', args, va, d, n)
<1>1. MapOK(mem, it, args) /\ args.perm # {} /\ it.lbits > PAGEOFFBITS
  BY DEF IterInv, MapLevel, Missing
<1>2. PICK va \in Canon, d \in 0 .. 3 :
        /\ Deepest(mem, va, d) /\ it = Place(mem, va, d) /\ args.perm \subseteq PermTo(mem, va, d)
        /\ d < 3 => "P" \notin Ent(mem, va, d).perm
  BY <1>1 DEF MapOK
<1>3. it.lbits = Lev(d) /\ it.va = va /\ it.pep = <<Node(mem, va, d), Index(va, Lev(d))>>
  BY <1>2 DEF Place
<1>4. d \in 0 .. 2
  <2>1. d # 3
    <3>1. Lev(3) = PAGEOFFBITS /\ PAGEOFFBITS \in Nat
      BY Levels, WidthAssumption
    <3>2. ~(PAGEOFFBITS > PAGEOFFBITS)
      BY <3>1
    <3> QED BY <1>1, <1>3, <3>1, <3>2
  <2> QED BY <2>1
<1>5. PICK n \in Nat : DOMAIN mem = 0 .. n - 1
  BY DEF IterInv, Numbered
<1>6. Cardinality(Used) = n /\ n \notin DOMAIN mem
  <2>1. Cardinality(0 .. n - 1) = IF 0 > n - 1 THEN 0 ELSE (n - 1) - 0 + 1
    BY FS_Interval
  <2>2. Cardinality(0 .. n - 1) = n
    BY <2>1
  <2> QED BY <1>5, <2>2 DEF Used
<1>7. mem' = Linked(mem, va, d, n)
  <2>1. PICK p, x : p = Node(mem, va, d) /\ x = Index(va, Lev(d)) /\ it.pep[1] = p /\ it.pep[2] = x
    BY <1>3
  <2>2. Cardinality(Used) = n
    BY <1>6
  <2>3. mem' = [m \in Used \cup {n} |->
                  IF m = n THEN NewPage
                  ELSE IF m = p THEN [mem[m] EXCEPT ![x] = [perm |-> {"P", "W", "U"}, pa |-> n]]
                  ELSE mem[m]]
    BY <2>1, <2>2 DEF MapLevel
  <2> QED BY <2>1, <2>3 DEF Linked, Link, NewPage, Used
<1>8. Lev(d) - PAGEINDEXBITS = Lev(d + 1)
  <2>1. d + 1 \in 1 .. 3 /\ (d + 1) - 1 = d
    BY <1>4
  <2> QED BY <2>1, Levels
<1>9. it' = [pep |-> <<n, Index(va, Lev(d + 1))>>, lbits |-> Lev(d + 1),
             perm |-> PermTo(mem, va, d), va |-> va]
  <2>1. it' = Lower(it, <<n, Index(va, Lev(d + 1))>>, Lev(d + 1))
    BY <1>3, <1>6, <1>8 DEF MapLevel, Lower
  <2>2. it = [pep |-> <<Node(mem, va, d), Index(va, Lev(d))>>, lbits |-> Lev(d),
              perm |-> PermTo(mem, va, d), va |-> va]
    BY <1>2 DEF Place
  <2> QED BY <2>1, <2>2, Lowered
<1>10. va % PAGESIZE = 0
  BY <1>1, <1>3 DEF MapOK
<1>11. "P" \notin Ent(mem, va, d).perm
  BY <1>2, <1>4
<1>12. Links(mem, mem', it, it', args, va, d, n)
  BY <1>2, <1>5, <1>6, <1>7, <1>9, <1>10, <1>11 DEF Links
<1> QED BY <1>4, <1>12

\* What a linked page is for, the vmiter and the next iteration.
LEMMA LinksKeep ==
  ASSUME NEW m, NEW l, NEW i, NEW j, NEW a, NEW va \in Canon, NEW d \in 0 .. 2, NEW n \in Nat,
         MemOK(m), Tree(m), Links(m, l, i, j, a, va, d, n)
  PROVE  /\ Extended(m, l, va, d, n)
         /\ MemOK(l) /\ Tree(l) /\ Numbered(l) /\ IterOK(l, j) /\ MapOK(l, j, a)
<1>0. /\ Deepest(m, va, d) /\ i = Place(m, va, d) /\ va % PAGESIZE = 0
      /\ a.perm \subseteq PermTo(m, va, d)
      /\ DOMAIN m = 0 .. n - 1 /\ n \notin DOMAIN m
      /\ l = Linked(m, va, d, n)
      /\ j = [pep |-> <<n, Index(va, Lev(d + 1))>>, lbits |-> Lev(d + 1),
              perm |-> PermTo(m, va, d), va |-> va]
  BY DEF Links
<1>1. Extended(m, l, va, d, n)
  BY <1>0, LinkWritten
<1>2. MemOK(l) /\ Tree(l) /\ PermTo(l, va, d + 1) = PermTo(m, va, d)
  BY <1>0, <1>1, LinkKeeps
<1>3. Numbered(l)
  <2>1. DOMAIN l = 0 .. (n + 1) - 1 /\ n + 1 \in Nat
    BY <1>0, <1>1 DEF Extended
  <2> QED BY <2>1 DEF Numbered
<1>4. Deepest(l, va, d + 1) /\ Node(l, va, d + 1) = n /\ Ent(l, va, d + 1) = Empty
  <2>1. Same(va, va, d + 1)
    BY DEF Same
  <2> QED BY <1>1, <2>1 DEF Extended
<1>5. j = Place(l, va, d + 1) /\ d + 1 \in 0 .. 3
  BY <1>0, <1>2, <1>4 DEF Place
<1>6. IterOK(l, j)
  BY <1>4, <1>5 DEF IterOK
<1>7. MapOK(l, j, a)
  <2>1. j.va = va
    BY <1>0
  <2>2. "P" \notin Ent(l, va, d + 1).perm
    BY <1>4 DEF Empty
  <2> QED BY <1>0, <1>2, <1>4, <1>5, <2>1, <2>2 DEF MapOK
<1> QED BY <1>1, <1>2, <1>3, <1>6, <1>7

\* try_map() sets an entry of a page, if it changes the page table.
Sets(m, l, i, a, va) ==
  /\ Reached(m, va, 3) /\ i = Place(m, va, 3) /\ va % PAGESIZE = 0
  /\ a \in EntryType /\ a.perm \subseteq PermTo(m, va, 3) \cap {"P", "W", "U"}
  /\ l = [m EXCEPT ![Node(m, va, 3)][Index(va, Lev(3))] = a]

\* It does.
LEMMA MapEntryIs ==
  ASSUME IterInv, MapEntry
  PROVE  mem' = mem \/ \E va \in Canon : Sets(mem, mem', it, args, va)
<1>0. MapOK(mem, it, args) /\ args \in ArgsType /\ IterOK(mem, it)
  BY DEF IterInv, MapEntry
<1>1. CASE it.lbits # PAGEOFFBITS
  BY <1>1 DEF MapEntry
<1>2. CASE it.lbits = PAGEOFFBITS
  <2>0. PAGEOFFBITS = Lev(3) /\ 3 \in 0 .. 3
    BY Levels
  <2>1. PICK va \in Canon, d \in 0 .. 3 : Deepest(mem, va, d) /\ it = Place(mem, va, d)
    <3>1. PAGEOFFBITS # noncanonical_lbits /\ PAGEOFFBITS # done_lbits
      BY <2>0, Levels
    <3>2. it # End /\ \A va : it # Hole(va)
      BY <1>2, <3>1 DEF End, Hole
    <3> QED BY <1>0, <3>2 DEF IterOK
  <2>2. it.lbits = Lev(d) /\ it.va = va /\ it.pep = <<Node(mem, va, d), Index(va, Lev(d))>>
    BY <2>1 DEF Place
  <2>3. d = 3
    <3>1. \A k \in 0 .. 3, j \in 0 .. 3 : Lev(j) < Lev(k) <=> k < j
      BY Levels
    <3>2. ~(Lev(3) < Lev(d))
      <4>1. Lev(3) \in Nat
        BY Levels
      <4> QED BY <1>2, <2>0, <2>2, <4>1
    <3>3. ~(d < 3)
      BY <2>0, <3>1, <3>2
    <3> QED BY <3>3
  <2>4. Reached(mem, va, 3) /\ it = Place(mem, va, 3)
    BY <2>1, <2>3 DEF Deepest
  <2>5. va % PAGESIZE = 0
    BY <1>0, <2>2 DEF MapOK
  <2>6. args \in EntryType
    BY <1>0 DEF ArgsType, EntryType, Flags
  <2>7. args.perm \subseteq PermTo(mem, va, 3)
    <3>1. ASSUME NEW v, NEW k, it = Place(mem, v, k) PROVE it.perm = PermTo(mem, v, k)
      BY <3>1 DEF Place
    <3> QED BY <1>0, <2>4, <3>1 DEF MapOK
  <2>8. mem' = [mem EXCEPT ![Node(mem, va, 3)][Index(va, Lev(3))] = args]
    BY <1>2, <2>2, <2>3 DEF MapEntry
  <2>9. args.perm \subseteq {"P", "W", "U"}
    BY <1>0 DEF ArgsType
  <2>10. Sets(mem, mem', it, args, va)
    BY <2>4, <2>5, <2>6, <2>7, <2>8, <2>9 DEF Sets
  <2> QED BY <2>10
<1> QED BY <1>1, <1>2

-----------------------------------------------------------------------------
(* The invariant of vmiter.                                                *)

\* Both memories the system may start with: page q leads at most to page q + 1, from its
\* first entry.
Starts(m) ==
  /\ \E c \in Nat \ {0} : DOMAIN m = 0 .. c - 1
  /\ \A q \in DOMAIN m : m[q] \in [0 .. Fan - 1 -> EntryType]
  /\ \A q \in DOMAIN m, x \in 0 .. Fan - 1 :
       Leads(m[q][x]) => x = 0 /\ m[q][x].pa = q + 1 /\ q + 1 \in DOMAIN m

\* Such a memory is a page table.
LEMMA StartsOK ==
  ASSUME NEW m, Starts(m)
  PROVE  MemOK(m) /\ Tree(m) /\ Numbered(m)
<1> DEFINE straight(va, k) == /\ Node(m, va, k) = k /\ k \in DOMAIN m
                              /\ \A j \in 0 .. k - 1 : Index(va, Lev(j)) = 0
<1>0. DOMAIN m \subseteq Nat /\ 0 \in DOMAIN m /\ Numbered(m)
  BY DEF Starts, Numbered
<1>1. ASSUME NEW va \in Canon PROVE straight(va, 0)
  <2>1. 0 .. 0 - 1 = {}
    OBVIOUS
  <2> QED BY <1>0, <2>1, WalkStep DEF ROOT
<1>2. ASSUME NEW va \in Canon, NEW k \in 0 .. 2, Reached(m, va, k) => straight(va, k),
             Reached(m, va, k + 1)
      PROVE  straight(va, k + 1)
  <2>1. Reached(m, va, k) /\ Leads(Ent(m, va, k)) /\ Node(m, va, k + 1) = Ent(m, va, k).pa
    BY <1>2, WalkStep
  <2>2. straight(va, k)
    BY <1>2, <2>1
  <2>3. Index(va, Lev(k)) \in 0 .. Fan - 1
    <3>1. va \in Nat /\ k \in 0 .. 3
      BY CanonicalBlock DEF Canon
    <3> QED BY <3>1, BlockIndex
  <2>4. Ent(m, va, k) = m[k][Index(va, Lev(k))]
    BY <2>2 DEF Ent, EntryAt
  <2>5. Index(va, Lev(k)) = 0 /\ Ent(m, va, k).pa = k + 1 /\ k + 1 \in DOMAIN m
    BY <2>1, <2>2, <2>3, <2>4 DEF Starts
  <2>6. 0 .. (k + 1) - 1 = (0 .. k - 1) \cup {k}
    OBVIOUS
  <2> QED BY <2>1, <2>2, <2>5, <2>6
<1>3. ASSUME NEW va \in Canon, NEW k \in 0 .. 3, Reached(m, va, k) PROVE straight(va, k)
  <2> HIDE DEF straight
  <2>0. 0 \in 0 .. 2 /\ 1 \in 0 .. 2 /\ 2 \in 0 .. 2 /\ 0 + 1 = 1 /\ 1 + 1 = 2 /\ 2 + 1 = 3
    OBVIOUS
  <2>1. Reached(m, va, 1) => straight(va, 1)
    BY <1>1, <1>2, <2>0
  <2>2. Reached(m, va, 2) => straight(va, 2)
    BY <1>2, <2>0, <2>1
  <2>3. Reached(m, va, 3) => straight(va, 3)
    BY <1>2, <2>0, <2>2
  <2>4. k = 0 \/ k = 1 \/ k = 2 \/ k = 3
    OBVIOUS
  <2> QED BY <1>1, <1>3, <2>1, <2>2, <2>3, <2>4
<1>4. MemOK(m)
  BY <1>0, <1>3 DEF MemOK, Starts
<1>5. Tree(m)
  <2>1. ASSUME NEW va \in Canon, NEW vb \in Canon, NEW j \in 0 .. 3, NEW k \in 0 .. 3,
               Reached(m, va, j), Reached(m, vb, k), Node(m, va, j) = Node(m, vb, k)
        PROVE  j = k /\ Same(va, vb, k)
    <3>1. j = k
      BY <1>3, <2>1
    <3>2. ASSUME NEW i \in 0 .. k - 1 PROVE Index(va, Lev(i)) = Index(vb, Lev(i))
      BY <1>3, <2>1, <3>1
    <3>3. ASSUME NEW i \in 0 .. 2, i < k, Same(va, vb, i) PROVE Same(va, vb, i + 1)
      <4>1. i \in 0 .. k - 1 /\ i \in 0 .. 3
        BY <3>3
      <4> QED BY <3>2, <3>3, <4>1, SameDown DEF Canon
    <3>4. Same(va, vb, 0)
      BY DEF Same
    <3>5. 0 \in 0 .. 2 /\ 1 \in 0 .. 2 /\ 2 \in 0 .. 2 /\ 0 + 1 = 1 /\ 1 + 1 = 2 /\ 2 + 1 = 3
      OBVIOUS
    <3>6. 0 < k => Same(va, vb, 1)
      BY <3>3, <3>4, <3>5
    <3>7. 1 < k => Same(va, vb, 2)
      <4>1. 1 < k => 0 < k
        OBVIOUS
      <4> QED BY <3>3, <3>5, <3>6, <4>1
    <3>8. 2 < k => Same(va, vb, 3)
      <4>1. 2 < k => 1 < k
        OBVIOUS
      <4> QED BY <3>3, <3>5, <3>7, <4>1
    <3>9. k = 0 \/ (k = 1 /\ 0 < k) \/ (k = 2 /\ 1 < k) \/ (k = 3 /\ 2 < k)
      OBVIOUS
    <3> QED BY <3>1, <3>4, <3>6, <3>7, <3>8, <3>9
  <2> QED BY <2>1 DEF Tree
<1> QED BY <1>0, <1>4, <1>5

\* The system starts with one.
LEMMA InitStarts ==
  ASSUME Init
  PROVE  Starts(mem)
<1>f. Fan \in Nat \ {0}
  BY Sizes
<1>1. CASE mem = [n \in {ROOT} |-> Zeroed]
  <2>1. DOMAIN mem = 0 .. 1 - 1 /\ 1 \in Nat \ {0}
    BY <1>1 DEF ROOT
  <2>2. \A q \in DOMAIN mem : mem[q] = Zeroed
    BY <1>1
  <2> QED BY <2>1, <2>2, ZeroedIs DEF Starts
<1>2. CASE mem = Large
  <2> DEFINE Leaf == [perm |-> {"P", "W", "PS"}, pa |-> 0]
             To(n) == IF n = 2 THEN Leaf ELSE [perm |-> {"P", "W", "U"}, pa |-> n + 1]
  <2>1. mem = [n \in 0 .. 2 |-> [Zeroed EXCEPT ![0] = To(n)]]
    BY <1>2 DEF Large
  <2>2. \A n \in 0 .. 2 : To(n) \in EntryType /\ (Leads(To(n)) => n # 2 /\ To(n).pa = n + 1)
    BY DEF EntryType, Flags, Leads
  <2> HIDE DEF To
  <2>3. DOMAIN mem = 0 .. 3 - 1 /\ 3 \in Nat \ {0} /\ DOMAIN mem = 0 .. 2
    BY <2>1
  <2>4. 0 \in 0 .. Fan - 1
    BY <1>f
  <2>5. ASSUME NEW q \in 0 .. 2
        PROVE  /\ mem[q] \in [0 .. Fan - 1 -> EntryType] /\ mem[q][0] = To(q)
               /\ \A x \in 0 .. Fan - 1 : x # 0 => mem[q][x] = Empty
    BY <2>1, <2>2, <2>4, ZeroedIs
  <2>6. ASSUME NEW q \in 0 .. 2, NEW x \in 0 .. Fan - 1, Leads(mem[q][x])
        PROVE  x = 0 /\ mem[q][x].pa = q + 1 /\ q + 1 \in 0 .. 2
    <3>1. x = 0
      BY <2>5, <2>6, ZeroedIs
    <3>2. Leads(To(q)) /\ mem[q][x] = To(q)
      BY <2>5, <2>6, <3>1
    <3>3. q # 2 /\ To(q).pa = q + 1
      BY <2>2, <3>2
    <3> QED BY <3>1, <3>2, <3>3
  <2> QED BY <2>3, <2>5, <2>6 DEF Starts
<1> QED BY <1>1, <1>2 DEF Init

\* The invariant holds at the start.
LEMMA IterInit == Init => IterInv
<1> SUFFICES ASSUME Init PROVE IterInv
  OBVIOUS
<1>1. MemOK(mem) /\ Tree(mem) /\ Numbered(mem)
  BY InitStarts, StartsOK
<1>2. 0 \in Addresses
  BY Sizes DEF Addresses, Words
<1>3. IterOK(mem, it)
  BY <1>1, <1>2, ConstructIs DEF Init
<1>4. args \in ArgsType
  BY DEF Init, NoArgs, ArgsType
<1> QED BY <1>1, <1>3, <1>4 DEF IterInv, Init

\* What the types of a vmiter are.
LEMMA IterTypes ==
  ASSUME MemOK(mem), NEW i, IterOK(mem, i)
  PROVE  /\ i.va \in Addresses /\ i.perm \subseteq Flags
         /\ i.lbits \in Lbits \cup {noncanonical_lbits, done_lbits}
         /\ i.pep = zero_pe <=> i.lbits \notin Lbits
         /\ i.pep # zero_pe => i.pep[1] \in Used /\ i.pep[2] = Index(i.va, i.lbits)
<1>0. \A k \in 0 .. 3 : Lev(k) \in Lbits
  BY Levels
<1>h. noncanonical_lbits \notin Lbits /\ done_lbits \notin Lbits
  <2>1. ASSUME NEW k \in 0 .. 3 PROVE Lev(k) # noncanonical_lbits /\ Lev(k) # done_lbits
    <3>1. Lev(k) \in Nat /\ Lev(k) < noncanonical_lbits /\ Lev(k) < done_lbits
          /\ noncanonical_lbits \in Nat /\ done_lbits \in Nat
      BY Levels
    <3> QED BY <3>1
  <2> QED BY <2>1, Levels
<1>1. CASE \E va \in Canon, d \in 0 .. 3 : Deepest(mem, va, d) /\ i = Place(mem, va, d)
  <2>1. PICK va \in Canon, d \in 0 .. 3 : Deepest(mem, va, d) /\ i = Place(mem, va, d)
    BY <1>1
  <2>2. /\ i.pep = <<Node(mem, va, d), Index(va, Lev(d))>> /\ i.lbits = Lev(d)
        /\ i.perm = PermTo(mem, va, d) /\ i.va = va
    BY <2>1 DEF Place
  <2>3. Reached(mem, va, d)
    BY <2>1 DEF Deepest
  <2>4. i.pep # zero_pe /\ Node(mem, va, d) \in Used
    BY <2>1, <2>3, PlaceEntry, EntryIs DEF Used
  <2>5. va \in Addresses /\ PermTo(mem, va, d) \subseteq Flags
    BY DEF Canon, PermTo
  <2> QED BY <1>0, <2>2, <2>4, <2>5
<1>2. CASE \E va \in Addresses \ Canon : i = Hole(va)
  <2>1. PICK va \in Addresses \ Canon : i = Hole(va)
    BY <1>2
  <2>2. i.pep = zero_pe /\ i.lbits = noncanonical_lbits /\ i.perm = {} /\ i.va = va
    BY <2>1 DEF Hole
  <2> QED BY <1>h, <2>2
<1>3. CASE i = End
  <2>1. i.pep = zero_pe /\ i.lbits = done_lbits /\ i.perm = {} /\ i.va = 0
    BY <1>3 DEF End
  <2>2. 0 \in Addresses
    BY Sizes DEF Addresses, Words
  <2> QED BY <1>h, <2>1, <2>2
<1> QED BY <1>1, <1>2, <1>3 DEF IterOK

\* try_map()'s assertions are what its loop needs.
LEMMA TryMapOK ==
  ASSUME MemOK(mem), NEW i, IterOK(mem, i), i.va % PAGESIZE = 0, NEW a, a.perm \subseteq i.perm,
         i.lbits > PAGEOFFBITS /\ a.perm # {} => "P" \notin Entry(i.pep).perm
  PROVE  MapOK(mem, i, a)
<1>1. SUFFICES ASSUME a.perm # {}
               PROVE  \E va \in Canon, d \in 0 .. 3 :
                        /\ Deepest(mem, va, d) /\ i = Place(mem, va, d)
                        /\ a.perm \subseteq PermTo(mem, va, d)
                        /\ d < 3 => "P" \notin Ent(mem, va, d).perm
  BY DEF MapOK
<1>2. PICK va \in Canon, d \in 0 .. 3 : Deepest(mem, va, d) /\ i = Place(mem, va, d)
  <2>1. i # End /\ \A va : i # Hole(va)
    BY <1>1 DEF End, Hole
  <2> QED BY <2>1 DEF IterOK
<1>3. i.lbits = Lev(d) /\ i.perm = PermTo(mem, va, d) /\ Reached(mem, va, d)
  BY <1>2 DEF Place, Deepest
<1>4. Entry(i.pep) = Ent(mem, va, d)
  BY <1>2, <1>3, PlaceEntry
<1>5. d < 3 => i.lbits > PAGEOFFBITS
  <2>1. Lev(3) = PAGEOFFBITS /\ (Lev(3) < Lev(d) <=> d < 3)
    BY Levels
  <2>2. Lev(3) \in Nat /\ Lev(d) \in Nat
    BY Levels
  <2> QED BY <1>3, <2>1, <2>2
<1> QED BY <1>1, <1>2, <1>3, <1>4, <1>5

\* The invariant of vmiter is inductive.
LEMMA IterNext == IterInv /\ [Next]_vars => IterInv'
<1> SUFFICES ASSUME IterInv, [Next]_vars PROVE IterInv'
  OBVIOUS
<1>0. /\ MemOK(mem) /\ Tree(mem) /\ Numbered(mem) /\ IterOK(mem, it) /\ args \in ArgsType
      /\ op = "map" => MapOK(mem, it, args)
      /\ op \in {"idle", "map", "free"}
  BY DEF IterInv
<1>a. 0 \in Addresses
  BY Sizes DEF Addresses, Words
<1>i. ASSUME MemOK(mem'), Tree(mem'), Numbered(mem'), IterOK(mem', it'), args' \in ArgsType,
             op' = "map" => MapOK(mem', it', args'), op' \in {"idle", "map", "free"}
      PROVE  IterInv'
  BY <1>i DEF IterInv
<1> DEFINE moved == \E i : IterOK(mem, i) /\ Move(i)
<1>m. ASSUME moved PROVE IterInv'
  <2>1. PICK i : IterOK(mem, i) /\ Move(i)
    BY <1>m
  <2>2. mem' = mem /\ it' = i /\ args' = args /\ op' = op /\ op = "idle"
    BY <2>1 DEF Move
  <2> QED BY <1>0, <1>i, <2>1, <2>2
<1>1. CASE Find
  <2>1. PICK va \in Vas : Move(find(it, va))
    BY <1>1 DEF Find
  <2>2. va \in Addresses
    BY WidthAssumption
  <2>3. IterOK(mem, find(it, va))
    BY <1>0, <2>2, ConstructIs
  <2> QED BY <1>m, <2>1, <2>3
<1>2. CASE Construct
  <2>1. PICK va \in Vas : Move(vmiter(va))
    BY <1>2 DEF Construct
  <2>2. va \in Addresses
    BY WidthAssumption
  <2>3. IterOK(mem, vmiter(va))
    BY <1>0, <2>2, ConstructIs
  <2> QED BY <1>m, <2>1, <2>3
<1>3. CASE Next1
  <2>1. IterOK(mem, next(it)) /\ Move(next(it))
    BY <1>0, <1>3, NextIs DEF Next1
  <2> QED BY <1>m, <2>1
<1>4. CASE NextRange
  <2>1. IterOK(mem, next_range(it)) /\ Move(next_range(it))
    BY <1>0, <1>4, NextRangeIs DEF NextRange
  <2> QED BY <1>m, <2>1
<1>5. CASE TryMap
  <2>1. PICK a \in Frames, p \in PermArgs :
          /\ p \subseteq it.perm
          /\ it.lbits > PAGEOFFBITS /\ p # {} => "P" \notin Entry(it.pep).perm
          /\ args' = [pa |-> IF p = {} THEN 0 ELSE a, perm |-> p]
    BY <1>5 DEF TryMap
  <2>2. a \in Nat /\ p \subseteq {"P", "W", "U"}
    BY WidthAssumption
  <2>3. args' \in ArgsType /\ args'.perm = p
    BY <2>1, <2>2 DEF ArgsType
  <2>4. it.va % PAGESIZE = 0 /\ mem' = mem /\ it' = it /\ op' = "map"
    BY <1>5 DEF TryMap
  <2>5. MapOK(mem, it, args')
    <3>1. args'.perm \subseteq it.perm
          /\ (it.lbits > PAGEOFFBITS /\ args'.perm # {} => "P" \notin Entry(it.pep).perm)
      BY <2>1, <2>3
    <3> QED BY <1>0, <2>4, <3>1, TryMapOK
  <2> QED BY <1>0, <1>i, <2>3, <2>4, <2>5
<1>6. CASE MapLevel
  <2>1. PICK va \in Canon, d \in 0 .. 2, n \in Nat : Links(mem, mem', it, it', args, va, d, n)
    BY <1>6, MapLevelIs
  <2>2. MemOK(mem') /\ Tree(mem') /\ Numbered(mem') /\ IterOK(mem', it') /\ MapOK(mem', it', args)
    BY <1>0, <2>1, LinksKeep
  <2>3. args' = args /\ op' = op
    BY <1>6 DEF MapLevel
  <2> QED BY <1>0, <1>i, <2>2, <2>3
<1>7. CASE MapFails
  <2>1. mem' = mem /\ it' = it /\ op' = "idle" /\ args' = NoArgs
    BY <1>7 DEF MapFails
  <2>2. NoArgs \in ArgsType
    BY DEF NoArgs, ArgsType
  <2> QED BY <1>0, <1>i, <2>1, <2>2
<1>8. CASE MapEntry
  <2>1. it' = it /\ op' = "idle" /\ args' = NoArgs
    BY <1>8 DEF MapEntry
  <2>2. NoArgs \in ArgsType
    BY DEF NoArgs, ArgsType
  <2>3. CASE mem' = mem
    BY <1>0, <1>i, <2>1, <2>2, <2>3
  <2>4. CASE \E va \in Canon : Sets(mem, mem', it, args, va)
    <3>1. PICK va \in Canon : Sets(mem, mem', it, args, va)
      BY <2>4
    <3>2. /\ Reached(mem, va, 3) /\ it = Place(mem, va, 3) /\ args \in EntryType
          /\ mem' = [mem EXCEPT ![Node(mem, va, 3)][Index(va, Lev(3))] = args]
      BY <3>1 DEF Sets
    <3>3. /\ MemOK(mem') /\ Tree(mem') /\ DOMAIN mem' = DOMAIN mem /\ Reached(mem', va, 3)
          /\ Place(mem', va, 3) = Place(mem, va, 3)
      <4>1. Replaced(mem, mem', va, args)
        BY <1>0, <3>2, LeafWritten
      <4> QED BY <4>1 DEF Replaced
    <3>4. Numbered(mem')
      BY <1>0, <3>3 DEF Numbered
    <3>5. IterOK(mem', it')
      <4>1. Deepest(mem', va, 3) /\ it' = Place(mem', va, 3) /\ 3 \in 0 .. 3
        BY <2>1, <3>2, <3>3 DEF Deepest
      <4> QED BY <4>1 DEF IterOK
    <3> QED BY <1>i, <2>1, <2>2, <3>3, <3>4, <3>5
  <2> QED BY <1>8, <2>3, <2>4, MapEntryIs
<1>9. CASE PtStart
  <2>1. mem' = mem /\ it' = vmiter(0) /\ op' = "free" /\ args' = args
    BY <1>9 DEF PtStart
  <2>2. IterOK(mem, vmiter(0))
    BY <1>0, <1>a, ConstructIs
  <2> QED BY <1>0, <1>i, <2>1, <2>2
<1>10. CASE PtStop \/ PtDown \/ PtSkip \/ PtNext \/ Done \/ UNCHANGED vars
  <2>1. mem' = mem /\ it' = it /\ op' = op /\ args' = args
    BY <1>10 DEF PtStop, PtDown, PtSkip, PtNext, Done, vars
  <2> QED BY <1>0, <1>i, <2>1
<1> QED BY <1>1, <1>2, <1>3, <1>4, <1>5, <1>6, <1>7, <1>8, <1>9, <1>10 DEF Next

-----------------------------------------------------------------------------
(* What a step of try_map() does to translations.                          *)

\* A new page table page changes no translation.
LEMMA LinkTranslates ==
  ASSUME NEW m, NEW l, MemOK(m), Tree(m), NEW va \in Canon, NEW d \in 0 .. 2,
         Deepest(m, va, d), NEW n, Extended(m, l, va, d, n), "P" \notin Ent(m, va, d).perm,
         NEW vb \in Canon
  PROVE  \E j \in 0 .. 3, k \in 0 .. 3 :
           Deepest(m, vb, j) /\ Deepest(l, vb, k) /\ Trans(l, vb, k) = Trans(m, vb, j)
<1>0. d \in 0 .. 3 /\ d + 1 \in 0 .. 3
  OBVIOUS
<1>1. CASE Same(va, vb, d + 1)
  <2>1. /\ Ent(m, vb, d) = Ent(m, va, d) /\ Deepest(m, vb, d)
        /\ Ent(l, vb, d + 1) = Empty /\ Deepest(l, vb, d + 1)
    BY <1>1 DEF Extended
  <2>2. "P" \notin Allowed(m, vb, d)
    <3>1. d \in 0 .. d
      OBVIOUS
    <3> QED BY <2>1, <3>1 DEF Allowed
  <2>3. "P" \notin Allowed(l, vb, d + 1)
    <3>1. d + 1 \in 0 .. d + 1
      OBVIOUS
    <3> QED BY <2>1, <3>1 DEF Allowed, Empty
  <2>4. Trans(l, vb, d + 1) = Trans(m, vb, d)
    BY <2>2, <2>3 DEF Trans
  <2> QED BY <1>0, <2>1, <2>4
<1>2. CASE ~Same(va, vb, d + 1)
  <2>1. Written(m, l, va, d) /\ Reached(m, va, d)
    BY DEF Extended, Deepest
  <2>2. \A k \in 0 .. 3 : /\ AlikeTo(m, vb, l, vb, k)
                          /\ Reached(m, vb, k) => Ent(l, vb, k) = Ent(m, vb, k)
    BY <1>0, <1>2, <2>1, KeepsAll
  <2>3. PICK j \in 0 .. 3 : Deepest(m, vb, j)
    BY DeepestOne
  <2>4. Deepest(l, vb, j) /\ Trans(l, vb, j) = Trans(m, vb, j)
    BY <2>2, <2>3, KeepsTranslation
  <2> QED BY <2>3, <2>4
<1> QED BY <1>1, <1>2

\* An entry changes the translation of its own page only, to what try_map() was asked for.
LEMMA SetTranslates ==
  ASSUME NEW m, NEW l, MemOK(m), Tree(m), NEW i, NEW a \in ArgsType, NEW va \in Canon,
         Sets(m, l, i, a, va), NEW vb \in PageAddresses
  PROVE  \/ \E j \in 0 .. 3 : Deepest(m, vb, j) /\ Deepest(l, vb, j) /\ Trans(l, vb, j) = Trans(m, vb, j)
         \/ vb = va /\ Deepest(l, vb, 3)
              /\ Trans(l, vb, 3) = IF "P" \in a.perm THEN a ELSE Nowhere
<1>0. /\ Reached(m, va, 3) /\ va % PAGESIZE = 0
      /\ a \in EntryType /\ a.perm \subseteq PermTo(m, va, 3) /\ a.perm \subseteq {"P", "W", "U"}
      /\ l = [m EXCEPT ![Node(m, va, 3)][Index(va, Lev(3))] = a]
  BY DEF Sets
<1>1. /\ Written(m, l, va, 3) /\ Reached(l, va, 3) /\ Ent(l, va, 3) = a
      /\ Place(l, va, 3) = Place(m, va, 3)
  <2>1. Replaced(m, l, va, a)
    BY <1>0, LeafWritten
  <2> QED BY <2>1 DEF Replaced
<1>b. vb \in Canon /\ vb % PAGESIZE = 0 /\ vb \in Nat /\ va \in Nat /\ 3 \in 0 .. 3
  BY CanonicalBlock DEF PageAddresses, Canon
<1>2. CASE vb = va
  <2>1. PermTo(l, va, 3) = PermTo(m, va, 3)
    BY <1>1 DEF Place
  <2>2. Allowed(l, va, 3) = a.perm
    <3>1. ASSUME NEW q \in a.perm PROVE q \in Allowed(l, va, 3)
      <4>1. q \in PermTo(l, va, 3) /\ q \in {"P", "W", "U"}
        BY <1>0, <2>1, <3>1
      <4>2. \A k \in 0 .. 3 - 1 : q \in Ent(l, va, k).perm
        BY <4>1 DEF PermTo
      <4>3. q \in Ent(l, va, 3).perm
        BY <1>1, <3>1
      <4>4. \A k \in 0 .. 3 : k = 3 \/ k \in 0 .. 3 - 1
        OBVIOUS
      <4>5. \A k \in 0 .. 3 : q \in Ent(l, va, k).perm
        BY <4>2, <4>3, <4>4
      <4> QED BY <4>1, <4>5 DEF Allowed
    <3>2. ASSUME NEW q \in Allowed(l, va, 3) PROVE q \in a.perm
      BY <1>1, <1>b, <3>2 DEF Allowed
    <3> QED BY <3>1, <3>2
  <2>3. a = [perm |-> a.perm, pa |-> a.pa] /\ a.pa \in Nat
    BY DEF ArgsType
  <2>4. va % Size(3) = 0
    BY <1>0, Sizes
  <2>5. Trans(l, va, 3) = IF "P" \in a.perm THEN [perm |-> a.perm, pa |-> a.pa + 0] ELSE Nowhere
    BY <1>1, <2>2, <2>4 DEF Trans
  <2>6. Trans(l, va, 3) = IF "P" \in a.perm THEN a ELSE Nowhere
    <3>1. a.pa + 0 = a.pa
      BY <2>3
    <3> QED BY <2>3, <2>5, <3>1
  <2>7. Deepest(l, va, 3)
    BY <1>1 DEF Deepest
  <2> QED BY <1>2, <2>6, <2>7
<1>3. CASE vb # va
  <2>1. ~Same(va, vb, 3 + 1)
    <3>1. SUFFICES ASSUME Same(va, vb, 3 + 1) PROVE vb = va
      BY <1>3
    <3>2. PICK p \in Nat \ {0} : p = PAGESIZE /\ p = Size(3)
      BY Sizes
    <3>3. vb \div p = va \div p
      <4>1. (3 + 1) - 1 = 3 /\ 3 + 1 # 0
        OBVIOUS
      <4> QED BY <3>1, <3>2, <4>1 DEF Same, Block
    <3>4. va = p * (va \div p) + (va % p) /\ vb = p * (vb \div p) + (vb % p)
      BY <1>b, Divide
    <3>5. va % p = 0 /\ vb % p = 0
      BY <1>0, <1>b, <3>2
    <3> QED BY <3>3, <3>4, <3>5
  <2>2. \A k \in 0 .. 3 : /\ AlikeTo(m, vb, l, vb, k)
                          /\ Reached(m, vb, k) => Ent(l, vb, k) = Ent(m, vb, k)
    <3>1. Reached(m, va, 3) /\ Written(m, l, va, 3) /\ vb \in Canon /\ 3 \in 0 .. 3
      BY <1>0, <1>1, <1>b
    <3> QED BY <2>1, <3>1, KeepsAll
  <2>3. PICK j \in 0 .. 3 : Deepest(m, vb, j)
    BY DeepestOne
  <2>4. Deepest(l, vb, j) /\ Trans(l, vb, j) = Trans(m, vb, j)
    BY <2>2, <2>3, KeepsTranslation
  <2> QED BY <2>3, <2>4
<1> QED BY <1>2, <1>3

\* The step of MapsOnlyItsPage.
MapStep ==
  mem' = mem \/ \A va \in PageAddresses :
    \/ Translation(va)' = Translation(va)
    \/ op = "map" /\ op' = "idle" /\ va = it.va
         /\ Translation(va)' = IF "P" \in args.perm THEN args ELSE [perm |-> {}, pa |-> -1]

\* Every step is one.
LEMMA NextMapStep ==
  ASSUME IterInv, IterInv', TransRight, TransRight', Next
  PROVE  MapStep
<1>0. MemOK(mem) /\ Tree(mem) /\ args \in ArgsType /\ MemOK(mem')
  BY DEF IterInv
<1>c. \A va \in PageAddresses : va \in Canon
  BY DEF PageAddresses, Canon
<1>t. /\ \A va \in Canon, d \in 0 .. 3 : Deepest(mem, va, d) => Translation(va) = Trans(mem, va, d)
      /\ \A va \in Canon, d \in 0 .. 3 : Deepest(mem', va, d) => Translation(va)' = Trans(mem', va, d)
  BY <1>0 DEF TransRight
<1>1. CASE MapLevel
  <2>1. PICK va \in Canon, d \in 0 .. 2, n \in Nat : Links(mem, mem', it, it', args, va, d, n)
    BY <1>1, MapLevelIs
  <2>2. Extended(mem, mem', va, d, n)
    BY <1>0, <2>1, LinksKeep
  <2>3. Deepest(mem, va, d) /\ "P" \notin Ent(mem, va, d).perm
    BY <2>1 DEF Links
  <2>4. ASSUME NEW vb \in PageAddresses PROVE Translation(vb)' = Translation(vb)
    <3>1. PICK j \in 0 .. 3, k \in 0 .. 3 :
            Deepest(mem, vb, j) /\ Deepest(mem', vb, k) /\ Trans(mem', vb, k) = Trans(mem, vb, j)
      BY <1>0, <1>c, <2>2, <2>3, LinkTranslates
    <3> QED BY <1>c, <1>t, <3>1
  <2> QED BY <2>4 DEF MapStep
<1>2. CASE MapEntry
  <2>1. CASE mem' = mem
    BY <2>1 DEF MapStep
  <2>2. CASE \E va \in Canon : Sets(mem, mem', it, args, va)
    <3>1. PICK va \in Canon : Sets(mem, mem', it, args, va)
      BY <2>2
    <3>2. it.va = va /\ op = "map" /\ op' = "idle"
      BY <1>2, <3>1 DEF Sets, Place, MapEntry
    <3>3. ASSUME NEW vb \in PageAddresses
          PROVE  \/ Translation(vb)' = Translation(vb)
                 \/ vb = va /\ Translation(vb)' = IF "P" \in args.perm THEN args ELSE Nowhere
      <4>1. \/ \E j \in 0 .. 3 : Deepest(mem, vb, j) /\ Deepest(mem', vb, j)
                                 /\ Trans(mem', vb, j) = Trans(mem, vb, j)
            \/ vb = va /\ Deepest(mem', vb, 3)
                 /\ Trans(mem', vb, 3) = IF "P" \in args.perm THEN args ELSE Nowhere
        BY <1>0, <3>1, SetTranslates
      <4>2. 3 \in 0 .. 3
        OBVIOUS
      <4> QED BY <1>c, <1>t, <4>1, <4>2
    <3> QED BY <3>2, <3>3 DEF MapStep, Nowhere
  <2> QED BY <1>2, <2>1, <2>2, MapEntryIs
<1>3. CASE ~MapLevel /\ ~MapEntry
  <2>1. mem' = mem
    BY <1>3 DEF Next, Find, Construct, Next1, NextRange, Move, TryMap, MapFails, PtStart, PtStop,
                PtDown, PtSkip, PtNext, Done, vars
  <2> QED BY <2>1 DEF MapStep
<1> QED BY <1>1, <1>2, <1>3

\* try_map() changes the mapping of its page and no other: src/pset3/k-vmiter.cc, try_map().
THEOREM TryMapMapsOnlyItsPage == Spec => MapsOnlyItsPage
<1>1. Init => IterInv
  BY IterInit
<1>2. IterInv /\ [Next]_vars => IterInv'
  BY IterNext
<1>3. TransRight
  BY TranslationIs
<1>4. IterInv /\ IterInv' /\ TransRight /\ TransRight' /\ [Next]_vars => [MapStep]_vars
  BY NextMapStep
<1> QED BY <1>1, <1>2, <1>3, <1>4, PTL DEF Spec, MapsOnlyItsPage, MapStep

-----------------------------------------------------------------------------
(* ptiter: from an entry to the next one.                                  *)

\* The next entry of a page table page is for the addresses from v on.
NextEntry(va, v, d) ==
  /\ v \in Canon /\ va <= v /\ Block(va, d) < Block(v, d)
  /\ Same(va, v, d) /\ Index(v, Lev(d)) = Index(va, Lev(d)) + 1

\* An address that is not canonical.
LEMMA HoleAddress ==
  \E x \in Addresses : ~va_is_canonical(x)
<1>1. VA_LOWMAX \in Nat /\ VA_HIGHMIN \in Addresses /\ VA_LOWMAX + 1 < VA_HIGHMIN
  BY WholePages
<1>2. PICK w \in Nat : Addresses = 0 .. w - 1
  BY Sizes DEF Addresses, Words
<1>3. VA_LOWMAX + 1 \in Addresses
  BY <1>1, <1>2
<1>4. ~va_is_canonical(VA_LOWMAX + 1)
  BY <1>1, <1>2 DEF va_is_canonical
<1> QED BY <1>3, <1>4

\* In a page below the root, the next address is in the page unless the entry was its last.
LEMMA SkipBelow ==
  ASSUME NEW va \in Canon, NEW d \in 1 .. 2, NEW e, e = EndOf(va, Lev(d)),
         Block(e, d - 1) = Block(va, d - 1)
  PROVE  va_is_canonical(e) /\ NextEntry(va, e, d)
<1>0. d \in 0 .. 3 /\ d \in 1 .. 3 /\ d - 1 \in 0 .. 3 /\ d \in 1 .. 4 /\ d + 1 \in 1 .. 4
      /\ (d + 1) - 1 = d
  OBVIOUS
<1>a. Addresses \subseteq Nat /\ va \in Addresses
  BY Sizes DEF Addresses, Words, Canon
<1>1. /\ e \in Addresses
      /\ e = 0 \/ (e > va /\ Block(e, d) = Block(va, d) + 1)
      /\ \A v \in Addresses : v >= va /\ (e = 0 \/ v < e) => Block(v, d) = Block(va, d)
  BY <1>0, <1>a, EndOfIs
<1>n. e \in Nat /\ va \in Nat
  BY <1>a, <1>1
<1>2. Same(va, e, d) /\ Same(e, va, d)
  BY DEF Same
<1>3. va_is_canonical(e)
  BY <1>0, <1>1, <1>2, <1>a, CanonicalSame DEF Canon
<1>4. e # 0
  <2>1. SUFFICES ASSUME e = 0 PROVE FALSE
    OBVIOUS
  <2>2. PICK x \in Addresses : ~va_is_canonical(x)
    BY HoleAddress
  <2>3. CASE x >= va
    <3>1. Block(x, d) = Block(va, d)
      BY <1>1, <2>1, <2>3
    <3>2. Same(va, x, d + 1)
      BY <1>0, <3>1 DEF Same
    <3> QED BY <1>0, <1>a, <2>2, <3>2, CanonicalSame DEF Canon
  <2>4. CASE x < va
    <3>1. x \in Nat /\ 0 <= x /\ x <= va
      BY <1>a, <2>4
    <3>2. Size(d - 1) \in Nat \ {0}
      BY <1>0, Sizes
    <3>3. Block(0, d - 1) <= Block(x, d - 1) /\ Block(x, d - 1) <= Block(va, d - 1)
      BY <1>n, <3>1, <3>2, DivideOrder DEF Block
    <3>4. Block(0, d - 1) \in Nat /\ Block(x, d - 1) \in Nat /\ Block(va, d - 1) \in Nat
      BY <1>0, <1>n, <3>1, BlockIndex
    <3>5. Block(x, d - 1) = Block(va, d - 1)
      BY <2>1, <3>3, <3>4
    <3>6. Same(va, x, d)
      BY <3>5 DEF Same
    <3> QED BY <1>0, <1>a, <2>2, <3>6, CanonicalSame DEF Canon
  <2>5. x >= va \/ x < va
    BY <1>a
  <2> QED BY <2>3, <2>4, <2>5
<1>5. Block(e, d) = Block(va, d) + 1 /\ Block(e, d) \in Nat /\ Block(va, d) \in Nat
  BY <1>0, <1>1, <1>4, <1>n, BlockIndex
<1>6. Index(e, Lev(d)) = Index(va, Lev(d)) + 1
  <2>1. /\ Block(va, d) = Fan * Block(va, d - 1) + Index(va, Lev(d))
        /\ Block(e, d) = Fan * Block(e, d - 1) + Index(e, Lev(d))
    BY <1>0, <1>n, BlockIndex
  <2>2. Index(va, Lev(d)) \in 0 .. Fan - 1 /\ Index(e, Lev(d)) \in 0 .. Fan - 1
    BY <1>0, <1>n, BlockIndex
  <2>3. Block(va, d - 1) \in Nat /\ Fan \in Nat
    BY <1>0, <1>n, BlockIndex, Sizes
  <2>4. PICK q \in Nat : q = Fan * Block(va, d - 1)
    BY <2>3
  <2>5. Block(va, d) = q + Index(va, Lev(d)) /\ Block(e, d) = q + Index(e, Lev(d))
    BY <2>1, <2>4
  <2> QED BY <1>5, <2>2, <2>5
<1>7. va <= e /\ Block(va, d) < Block(e, d)
  BY <1>1, <1>4, <1>5, <1>n
<1> QED BY <1>1, <1>2, <1>3, <1>6, <1>7 DEF NextEntry, Canon

\* A quotient and a remainder of a number and the next.
LEMMA NextQuotient ==
  ASSUME NEW n \in Nat \ {0}, NEW x \in Nat, (x + 1) \div n = x \div n
  PROVE  (x + 1) % n = (x % n) + 1
<1>1. PICK y \in Nat : y = x + 1
  OBVIOUS
<1>2. /\ x = n * (x \div n) + (x % n) /\ y = n * (y \div n) + (y % n)
      /\ x \div n \in Nat /\ x % n \in 0 .. n - 1 /\ y % n \in 0 .. n - 1
  BY Divide
<1>3. PICK q \in Nat : q = n * (x \div n)
  BY <1>2
<1>4. x = q + (x % n) /\ y = q + (y % n)
  BY <1>1, <1>2, <1>3
<1> QED BY <1>1, <1>2, <1>4

\* In the root, the next entry is for the next addresses that are canonical, and there is
\* one unless the address space is at its end.
LEMMA SkipRoot ==
  ASSUME NEW va \in Canon, NEW e, e = EndOf(va, Lev(0))
  PROVE  /\ Block(e, 0) \div Fan # Block(va, 0) \div Fan => e = 0
         /\ Block(e, 0) \div Fan = Block(va, 0) \div Fan =>
              NextEntry(va, IF va_is_canonical(e) THEN e ELSE VA_HIGHMIN, 0)
<1>0. 0 \in 0 .. 3 /\ 0 .. 3 \subseteq Nat
  OBVIOUS
<1>s. PICK f \in Nat \ {0}, h \in Nat \ {0}, s \in Nat :
        f = Fan /\ h = Half /\ s = Spaces /\ f = 2 * h /\ s > 1
  BY Sizes
<1>a. Addresses \subseteq Nat /\ va \in Addresses
  BY Sizes DEF Addresses, Words, Canon
<1>1. /\ e \in Addresses
      /\ e = 0 \/ (e > va /\ Block(e, 0) = Block(va, 0) + 1)
  BY <1>0, <1>a, EndOfIs
<1>n. e \in Nat /\ va \in Nat
  BY <1>a, <1>1
<1>2. PICK b \in Nat, c \in Nat, g \in Nat :
        b = Block(va, 0) /\ c = Block(e, 0) /\ g = f * s
  BY <1>0, <1>n, BlockIndex
<1>3. /\ b < g /\ c < g
      /\ b < h \/ b >= g - h
      /\ va_is_canonical(e) <=> c < h \/ c >= g - h
  BY <1>a, <1>1, <1>2, <1>s, CanonicalBlock DEF Canon
<1>4. g = f * (s - 1) + f /\ s - 1 \in Nat \ {0} /\ f * (s - 1) \in Nat
  BY <1>2, <1>s
<1>5. PICK r \in Nat : r = f * (s - 1) /\ g = r + f /\ r >= f
  <2>1. f * (s - 1) >= f * 1
    BY <1>4
  <2>2. PICK r \in Nat : r = f * (s - 1)
    BY <1>4
  <2> QED BY <1>4, <2>1, <2>2
<1>6. ASSUME NEW x \in Nat, x < f PROVE x \div f = 0 /\ x % f = x
  <2>1. x \in 0 .. f - 1 /\ f * 0 + x = x
    BY <1>6
  <2>2. (f * 0 + x) \div f = 0 /\ (f * 0 + x) % f = x
    BY <2>1, DivideOnce
  <2> QED BY <2>1, <2>2
<1>7. ASSUME NEW x \in Nat, x >= r, x < g PROVE x \div f = s - 1 /\ x % f = x - r
  <2>1. x - r \in 0 .. f - 1 /\ r + (x - r) = x
    BY <1>5, <1>7
  <2>2. (f * (s - 1) + (x - r)) \div f = s - 1 /\ (f * (s - 1) + (x - r)) % f = x - r
    BY <1>4, <2>1, DivideOnce
  <2> QED BY <1>5, <2>1, <2>2
<1>8. b < h => b < f /\ b + 1 < f
  <2>1. CASE h = 1
    BY <1>s, <2>1
  <2>2. CASE h # 1
    BY <1>s, <2>2
  <2> QED BY <2>1, <2>2
<1>9. ASSUME e # 0 PROVE c \div f = b \div f
  <2>1. c = b + 1
    BY <1>1, <1>2, <1>9
  <2>2. CASE b < h
    BY <1>6, <1>8, <2>1, <2>2
  <2>3. CASE b >= g - h
    <3>1. b >= r /\ c >= r
      BY <1>5, <1>s, <2>1, <2>3
    <3> QED BY <1>3, <1>7, <3>1
  <2> QED BY <1>3, <2>2, <2>3
<1>10. ASSUME c \div f = b \div f PROVE e # 0
  <2>1. SUFFICES ASSUME e = 0 PROVE FALSE
    OBVIOUS
  <2>2. c = 0
    <3>1. PICK z \in Nat \ {0} : z = Size(0)
      BY <1>0, Sizes
    <3>2. z * 0 + 0 = 0 /\ 0 \in 0 .. z - 1
      OBVIOUS
    <3>3. (z * 0 + 0) \div z = 0
      BY <3>2, DivideOnce
    <3> QED BY <1>2, <2>1, <3>1, <3>2, <3>3 DEF Block
  <2>3. b = g - 1
    <3>1. Words = Size(0) * (Block(va, 0) + 1)
      BY <1>0, <1>a, <2>1, EndOfIs
    <3>2. PICK z \in Nat \ {0} : z = Size(0)
      BY <1>0, Sizes
    <3>3. z * (b + 1) = z * g
      BY <1>2, <1>s, <3>1, <3>2, Sizes
    <3>4. ASSUME NEW x \in Nat, NEW y \in Nat, z * x = z * y PROVE x = y
      BY <3>4
    <3>5. b + 1 = g
      BY <3>3, <3>4
    <3> QED BY <3>5
  <2>4. b \div f = s - 1 /\ c \div f = 0
    <3>1. b >= r /\ b < g
      BY <1>5, <1>s, <2>3
    <3>2. c < f
      BY <1>s, <2>2
    <3>3. c \div f = 0
      BY <1>6, <3>2
    <3> QED BY <1>7, <3>1, <3>3
  <2> QED BY <1>10, <1>s, <2>4
<1>11. ASSUME c \div f = b \div f
       PROVE  NextEntry(va, IF va_is_canonical(e) THEN e ELSE VA_HIGHMIN, 0)
  <2>1. e # 0 /\ e > va /\ c = b + 1
    BY <1>1, <1>2, <1>10, <1>11
  <2>2. Same(va, e, 0) /\ Same(va, VA_HIGHMIN, 0)
    BY DEF Same
  <2>i. \A x \in Nat : Index(x, Lev(0)) = Block(x, 0) % f
    BY <1>0, <1>s, BlockIndex
  <2>3. CASE va_is_canonical(e)
    <3>1. c % f = (b % f) + 1
      BY <1>11, <2>1, NextQuotient
    <3>2. Index(e, Lev(0)) = Index(va, Lev(0)) + 1
      BY <1>2, <1>n, <2>i, <3>1
    <3>3. va <= e /\ Block(va, 0) < Block(e, 0)
      BY <1>2, <1>n, <2>1
    <3> QED BY <1>1, <2>2, <2>3, <3>2, <3>3 DEF NextEntry, Canon
  <2>4. CASE ~va_is_canonical(e)
    <3>1. b = h - 1 /\ b < f
      BY <1>3, <1>8, <2>1, <2>4
    <3>2. PICK u \in Nat : u = VA_HIGHMIN /\ u \in Addresses /\ va_is_canonical(u)
      <4>1. VA_HIGHMIN \in Addresses
        BY WholePages
      <4>2. VA_HIGHMIN \in Nat
        BY <1>a, <4>1
      <4>3. VA_HIGHMIN >= VA_HIGHMIN
        BY <4>2
      <4> QED BY <4>1, <4>2, <4>3 DEF va_is_canonical
    <3>3. Block(u, 0) = g - h
      <4>1. PICK z \in Nat \ {0} : z = Size(0)
        BY <1>0, Sizes
      <4>2. u = z * g - z * h
        BY <1>2, <1>s, <3>2, <4>1, Sizes
      <4>k. g - h \in Nat
        BY <1>5, <1>s
      <4>3. PICK k \in Nat : k = g - h
        BY <4>k
      <4>4. ASSUME NEW x \in Nat, NEW y \in Nat, NEW w \in Nat, w = x - y
            PROVE  z * x - z * y = z * w + 0
        BY <4>4
      <4>5. u = z * k + 0 /\ 0 \in 0 .. z - 1
        BY <4>2, <4>3, <4>4
      <4>6. (z * k + 0) \div z = k
        BY <4>5, DivideOnce
      <4> QED BY <4>1, <4>3, <4>5, <4>6 DEF Block
    <3>4. PICK k \in Nat : k = g - h /\ k >= r /\ k < g /\ k - r = h
      BY <1>5, <1>s
    <3>5. k % f = h
      BY <1>7, <3>4
    <3>6. Index(u, Lev(0)) = Index(va, Lev(0)) + 1
      <4>1. b % f = h - 1
        BY <1>6, <3>1
      <4> QED BY <1>2, <1>n, <1>s, <2>i, <3>3, <3>4, <3>5, <4>1
    <3>7. Block(va, 0) < Block(u, 0)
      BY <1>2, <1>5, <1>s, <3>1, <3>3, <3>4
    <3>8. va <= u
      <4>1. Size(0) \in Nat \ {0}
        BY <1>0, Sizes
      <4>2. u <= va => Block(u, 0) <= Block(va, 0)
        BY <1>n, <4>1, DivideOrder DEF Block
      <4> QED BY <1>2, <1>n, <3>3, <3>4, <3>7, <4>2
    <3>9. NextEntry(va, u, 0)
      BY <2>2, <3>2, <3>6, <3>7, <3>8 DEF NextEntry, Canon
    <3> QED BY <2>4, <3>2, <3>9
  <2> QED BY <2>3, <2>4
<1> QED BY <1>2, <1>s, <1>9, <1>11

-----------------------------------------------------------------------------
(* The invariant of ptiter.                                                *)

\* A ptiter is at depth d of the walk of its address, and will stop at depth s: at 2, the
\* entries of the pages of the last depth, unless it goes up to a page whose entries it
\* has passed.
PitAt(m, t, d, s) ==
  /\ DOMAIN t = {"pep", "lbits", "va", "stop_lbits", "skip", "at"}
  /\ t.va \in Canon /\ d <= s
  /\ t.lbits = Lev(d) /\ t.stop_lbits = Lev(s)
  /\ Reached(m, t.va, d) /\ t.pep = <<Node(m, t.va, d), Index(t.va, Lev(d))>>
  /\ s < 2 => Reached(m, t.va, s + 1)
  /\ t.skip \in BOOLEAN /\ (t.skip => s = 2)
  /\ t.at \in {"loop", "visit"}
  /\ t.at = "visit" => d = s /\ Leads(Ent(m, t.va, d)) /\ ~t.skip

\* A page f that has been freed is the page at depth k of the walk of some address u: one
\* before v, or v, if f is deeper than lim.
Past(m, f, v, lim) ==
  \E u \in Canon, k \in 1 .. 3 :
    /\ Reached(m, u, k) /\ f = Node(m, u, k)
    /\ \/ Block(u, k - 1) < Block(v, k - 1)
       \/ Block(u, k - 1) = Block(v, k - 1) /\ k > lim
Limit(t, d, s) == IF t.skip THEN d ELSE s + 1
Walking(m, t, F) ==
  \E d \in 0 .. 2, s \in 0 .. 2 : PitAt(m, t, d, s) /\ \A f \in F : Past(m, f, t.va, Limit(t, d, s))

\* The walk is over.
WalkOver(m, t, F) ==
  /\ t.at = "done" /\ t.lbits = done_lbits
  /\ t.pep[1] \in DOMAIN m /\ t.pep[2] \in 0 .. Fan - 1
  /\ F \subseteq DOMAIN m

\* The inductive invariant of ptiter.
PtInv ==
  /\ op # "free" => pit = NoPtiter /\ freed = {}
  /\ op = "free" => Walking(mem, pit, freed) \/ WalkOver(mem, pit, freed)

\* Where a ptiter is, from its level.
LEMMA PitLevel ==
  ASSUME NEW m, NEW t, NEW d \in 0 .. 2, NEW s \in 0 .. 2, PitAt(m, t, d, s)
  PROVE  /\ d \in 0 .. 3 /\ s \in 0 .. 3 /\ t.va \in Nat /\ t.va \in Addresses
         /\ t.lbits = t.stop_lbits <=> d = s
         /\ t.lbits = initial_lbits <=> d = 0
<1>1. t.va \in Nat /\ t.va \in Addresses
  BY CanonicalBlock DEF PitAt, Canon
<1>2. d \in 0 .. 3 /\ s \in 0 .. 3 /\ 0 \in 0 .. 3
  OBVIOUS
<1>3. t.lbits = Lev(d) /\ t.stop_lbits = Lev(s) /\ initial_lbits = Lev(0)
  BY Levels DEF PitAt
<1>4. \A k \in 0 .. 3, j \in 0 .. 3 : Lev(k) = Lev(j) => k = j
  <2>1. ASSUME NEW k \in 0 .. 3, NEW j \in 0 .. 3, Lev(k) = Lev(j) PROVE k = j
    <3>1. Lev(k) \in Nat /\ (Lev(j) < Lev(k) <=> k < j) /\ (Lev(k) < Lev(j) <=> j < k)
      BY Levels
    <3>2. ~(k < j) /\ ~(j < k)
      BY <2>1, <3>1
    <3> QED BY <3>2
  <2> QED BY <2>1
<1> QED BY <1>1, <1>2, <1>3, <1>4

\* Its entry is the entry of the walk.
LEMMA PitEntry ==
  ASSUME MemOK(mem), NEW t, NEW d \in 0 .. 2, NEW s \in 0 .. 2, PitAt(mem, t, d, s)
  PROVE  Entry(t.pep) = Ent(mem, t.va, d) /\ t.pep[1] = Node(mem, t.va, d)
         /\ t.pep[2] = Index(t.va, Lev(d)) /\ Node(mem, t.va, d) \in DOMAIN mem
         /\ Index(t.va, Lev(d)) \in 0 .. Fan - 1
<1>1. d \in 0 .. 3 /\ t.va \in Canon /\ Reached(mem, t.va, d)
      /\ t.pep = <<Node(mem, t.va, d), Index(t.va, Lev(d))>>
  BY DEF PitAt
<1>2. Entry(Place(mem, t.va, d).pep) = Ent(mem, t.va, d)
  BY <1>1, PlaceEntry
<1>3. Place(mem, t.va, d).pep = t.pep
  BY <1>1 DEF Place
<1>4. Node(mem, t.va, d) \in DOMAIN mem /\ Index(t.va, Lev(d)) \in 0 .. Fan - 1
  BY <1>1, EntryIs
<1> QED BY <1>1, <1>2, <1>3, <1>4

\* It leaves a page below the root when the next address is in another block of the page
\* above, and the root when it is in another half of the addresses.
LEMMA LeavesIs ==
  ASSUME NEW d \in 0 .. 2, NEW s \in 0 .. 2, PitAt(mem, pit, d, s), NEW e \in Nat
  PROVE  /\ d # 0 => (LeavesPage(e) <=> Block(e, d - 1) # Block(pit.va, d - 1))
         /\ d = 0 => (LeavesPage(e) <=> Block(e, 0) \div Fan # Block(pit.va, 0) \div Fan)
<1>0. pit.lbits = Lev(d) /\ pit.va \in Nat
  BY PitLevel DEF PitAt
<1>1. ASSUME d # 0 PROVE LeavesPage(e) <=> Block(e, d - 1) # Block(pit.va, d - 1)
  <2>1. d \in 1 .. 3
    BY <1>1
  <2>2. pit.lbits + PAGEINDEXBITS = Lev(d - 1)
    BY <1>0, <2>1, Levels
  <2> QED BY <2>2 DEF LeavesPage, Block, Size
<1>2. ASSUME d = 0
      PROVE  LeavesPage(e) <=> Block(e, 0) \div Fan # Block(pit.va, 0) \div Fan
  <2>1. PICK j \in 0 .. WORDBITS, k \in 0 .. WORDBITS :
          j = initial_lbits /\ k = PAGEINDEXBITS /\ j + k <= WORDBITS
    BY WidthAssumption DEF VABITS, initial_lbits
  <2>2. 2 ^ (j + k) = 2 ^ j * 2 ^ k
    BY <2>1, PowerAssumption
  <2>3. 2 ^ (pit.lbits + PAGEINDEXBITS) = Size(0) * Fan
    BY <1>0, <1>2, <2>1, <2>2, Levels DEF Size, Fan
  <2>4. Size(0) \in Nat \ {0} /\ Fan \in Nat \ {0}
    <3>1. 0 \in 0 .. 3
      OBVIOUS
    <3> QED BY <3>1, Sizes
  <2>5. \A x \in Nat : x \div (Size(0) * Fan) = Block(x, 0) \div Fan
    BY <2>4, DivideTwice DEF Block
  <2> QED BY <1>0, <2>3, <2>5 DEF LeavesPage
<1> QED BY <1>1, <1>2

\* A page at an address before v stays so when v moves on to the next entry at depth d.
LEMMA PastNext ==
  ASSUME NEW m, NEW f, NEW v \in Canon, NEW w, NEW d \in 0 .. 2, NextEntry(v, w, d),
         NEW lim \in Nat, lim >= d, Past(m, f, v, lim), NEW lin
  PROVE  Past(m, f, w, lin)
<1>0. w \in Canon /\ v <= w /\ Block(v, d) < Block(w, d)
  BY DEF NextEntry
<1>n. v \in Nat /\ w \in Nat
  BY <1>0, CanonicalBlock DEF Canon
<1>1. PICK u \in Canon, k \in 1 .. 3 :
        /\ Reached(m, u, k) /\ f = Node(m, u, k)
        /\ \/ Block(u, k - 1) < Block(v, k - 1)
           \/ Block(u, k - 1) = Block(v, k - 1) /\ k > lim
  BY DEF Past
<1>2. k - 1 \in 0 .. 3 /\ d \in 0 .. 3
  OBVIOUS
<1>3. u \in Nat
  BY CanonicalBlock DEF Canon
<1>4. Block(u, k - 1) \in Nat /\ Block(v, k - 1) \in Nat /\ Block(w, k - 1) \in Nat
      /\ Block(v, d) \in Nat /\ Block(w, d) \in Nat
  BY <1>2, <1>3, <1>n, BlockIndex
<1>5. Block(v, k - 1) <= Block(w, k - 1)
  <2>1. Size(k - 1) \in Nat \ {0}
    BY <1>2, Sizes
  <2> QED BY <1>0, <1>n, <2>1, DivideOrder DEF Block
<1>6. Block(u, k - 1) < Block(w, k - 1)
  <2>1. CASE Block(u, k - 1) < Block(v, k - 1)
    BY <1>4, <1>5, <2>1
  <2>2. CASE Block(u, k - 1) = Block(v, k - 1) /\ k > lim
    <3>1. Block(v, k - 1) # Block(w, k - 1)
      <4>1. SUFFICES ASSUME Block(v, k - 1) = Block(w, k - 1) PROVE FALSE
        OBVIOUS
      <4>2. Same(v, w, k)
        BY <4>1 DEF Same
      <4>3. d + 1 \in 0 .. k /\ k \in 0 .. 4 /\ (d + 1) - 1 = d /\ d + 1 # 0
        BY <2>2
      <4>4. Same(v, w, d + 1)
        BY <1>n, <4>2, <4>3, SameUp
      <4>5. Block(v, d) = Block(w, d)
        BY <4>3, <4>4 DEF Same
      <4> QED BY <1>0, <1>4, <4>5
    <3> QED BY <1>4, <1>5, <2>2, <3>1
  <2> QED BY <1>1, <2>1, <2>2
<1> QED BY <1>1, <1>6 DEF Past

\* A page that is deeper than lim is deeper than a smaller limit.
LEMMA PastLess ==
  ASSUME NEW m, NEW f, NEW v, NEW lim \in Nat, NEW lin \in Nat, lin <= lim, Past(m, f, v, lim)
  PROVE  Past(m, f, v, lin)
<1>1. \A k \in 1 .. 3 : k > lim => k > lin
  OBVIOUS
<1> QED BY <1>1 DEF Past

\* The steps of ptiter keep its invariant.
LEMMA PtStopKeeps ==
  ASSUME MemOK(mem), Walking(mem, pit, freed), PtStop
  PROVE  Walking(mem, pit', freed')
<1>1. PICK d \in 0 .. 2, s \in 0 .. 2 :
        PitAt(mem, pit, d, s) /\ \A f \in freed : Past(mem, f, pit.va, Limit(pit, d, s))
  BY DEF Walking
<1>2. pit' = [pit EXCEPT !.at = "visit"] /\ freed' = freed
  BY DEF PtStop
<1>3. Leads(Ent(mem, pit.va, d)) /\ ~pit.skip /\ d = s
  BY <1>1, PitEntry, PitLevel DEF PtStop, Descends, Stops
<1>4. PICK t : t = pit'
  OBVIOUS
<1>5. /\ DOMAIN t = DOMAIN pit /\ t.at = "visit" /\ t.pep = pit.pep /\ t.lbits = pit.lbits
      /\ t.va = pit.va /\ t.stop_lbits = pit.stop_lbits /\ t.skip = pit.skip
  BY <1>1, <1>2, <1>4 DEF PitAt
<1>6. PitAt(mem, t, d, s)
  BY <1>1, <1>3, <1>5 DEF PitAt
<1>7. Limit(t, d, s) = Limit(pit, d, s)
  BY <1>5 DEF Limit
<1> QED BY <1>1, <1>2, <1>4, <1>5, <1>6, <1>7 DEF Walking

\* It goes down into the page its entry leads to.
LEMMA PtDownKeeps ==
  ASSUME MemOK(mem), Walking(mem, pit, freed), PtDown
  PROVE  Walking(mem, pit', freed')
<1>1. PICK d \in 0 .. 2, s \in 0 .. 2 :
        PitAt(mem, pit, d, s) /\ \A f \in freed : Past(mem, f, pit.va, Limit(pit, d, s))
  BY DEF Walking
<1>2. /\ freed' = freed /\ pit.at = "loop"
      /\ pit' = [pit EXCEPT !.lbits = pit.lbits - PAGEINDEXBITS,
                            !.pep = <<Entry(pit.pep).pa, Index(pit.va, pit.lbits - PAGEINDEXBITS)>>]
  BY DEF PtDown, InLoop
<1>3. Leads(Ent(mem, pit.va, d)) /\ ~pit.skip /\ d # s /\ Entry(pit.pep) = Ent(mem, pit.va, d)
  BY <1>1, PitEntry, PitLevel DEF PtDown, Descends, Stops
<1>4. d + 1 \in 0 .. 2 /\ d + 1 <= s /\ d + 1 \in 1 .. 3 /\ (d + 1) - 1 = d /\ d \in 0 .. 3
  <2>1. d <= s
    BY <1>1 DEF PitAt
  <2> QED BY <1>3, <2>1
<1>5. pit.lbits - PAGEINDEXBITS = Lev(d + 1)
  BY <1>1, <1>4, Levels DEF PitAt
<1>6. Reached(mem, pit.va, d + 1) /\ Node(mem, pit.va, d + 1) = Ent(mem, pit.va, d).pa
  BY <1>1, <1>3, <1>4, WalkStep DEF PitAt
<1>7. PICK t : t = pit'
  OBVIOUS
<1>8. DOMAIN t = DOMAIN pit
  BY <1>2, <1>7, Zenon
<1>9. /\ t.at = pit.at /\ t.lbits = Lev(d + 1)
      /\ t.pep = <<Node(mem, pit.va, d + 1), Index(pit.va, Lev(d + 1))>>
      /\ t.va = pit.va /\ t.stop_lbits = pit.stop_lbits /\ t.skip = pit.skip
  <2>1. DOMAIN pit = {"pep", "lbits", "va", "stop_lbits", "skip", "at"}
    BY <1>1 DEF PitAt
  <2> QED BY <1>2, <1>3, <1>5, <1>6, <1>7, <2>1
<1>10. PitAt(mem, t, d + 1, s)
  BY <1>1, <1>2, <1>4, <1>6, <1>8, <1>9 DEF PitAt
<1>11. Limit(t, d + 1, s) = Limit(pit, d, s)
  BY <1>3, <1>9 DEF Limit
<1> QED BY <1>1, <1>2, <1>4, <1>7, <1>9, <1>10, <1>11 DEF Walking

\* The kernel frees the page, and the ptiter will go on behind its entry.
LEMMA PtNextKeeps ==
  ASSUME MemOK(mem), Walking(mem, pit, freed), PtNext
  PROVE  Walking(mem, pit', freed')
<1>1. PICK d \in 0 .. 2, s \in 0 .. 2 :
        PitAt(mem, pit, d, s) /\ \A f \in freed : Past(mem, f, pit.va, Limit(pit, d, s))
  BY DEF Walking
<1>2. /\ freed' = freed \cup {Entry(pit.pep).pa} /\ pit.at = "visit"
      /\ pit' = [pit EXCEPT !.skip = TRUE, !.stop_lbits = PAGEOFFBITS + PAGEINDEXBITS, !.at = "loop"]
  BY DEF PtNext
<1>3. /\ Leads(Ent(mem, pit.va, d)) /\ ~pit.skip /\ d = s /\ Entry(pit.pep) = Ent(mem, pit.va, d)
      /\ pit.va \in Canon /\ Reached(mem, pit.va, d)
  BY <1>1, <1>2, PitEntry DEF PitAt
<1>4. Reached(mem, pit.va, d + 1) /\ Node(mem, pit.va, d + 1) = Ent(mem, pit.va, d).pa
  <2>1. d \in 0 .. 3
    OBVIOUS
  <2> QED BY <1>3, <2>1, WalkStep
<1>5. PICK t : t = pit'
  OBVIOUS
<1>6. DOMAIN t = DOMAIN pit
  BY <1>2, <1>5, Zenon
<1>7. /\ t.at = "loop" /\ t.lbits = pit.lbits /\ t.pep = pit.pep
      /\ t.va = pit.va /\ t.stop_lbits = Lev(2) /\ t.skip = TRUE
  <2>1. DOMAIN pit = {"pep", "lbits", "va", "stop_lbits", "skip", "at"}
    BY <1>1 DEF PitAt
  <2> QED BY <1>2, <1>5, <2>1, Levels
<1>8. PitAt(mem, t, d, 2)
  <2>1. d <= 2 /\ ~(2 < 2) /\ t.at # "visit" /\ t.at \in {"loop", "visit"}
    BY <1>7
  <2>2. t.skip \in BOOLEAN
    BY <1>7
  <2>3. /\ DOMAIN t = {"pep", "lbits", "va", "stop_lbits", "skip", "at"} /\ t.va \in Canon
        /\ t.lbits = Lev(d) /\ t.pep = <<Node(mem, t.va, d), Index(t.va, Lev(d))>>
        /\ t.stop_lbits = Lev(2) /\ Reached(mem, t.va, d)
    BY <1>1, <1>6, <1>7 DEF PitAt
  <2> QED BY <2>1, <2>2, <2>3 DEF PitAt
<1>9. Limit(t, d, 2) = d /\ Limit(pit, d, s) = d + 1
  BY <1>3, <1>7 DEF Limit
<1>10. ASSUME NEW f \in freed' PROVE Past(mem, f, pit.va, d)
  <2>1. CASE f \in freed
    <3>1. Past(mem, f, pit.va, d + 1)
      BY <1>1, <1>9, <2>1
    <3>2. d + 1 \in Nat /\ d \in Nat /\ d <= d + 1
      OBVIOUS
    <3> QED BY <3>1, <3>2, PastLess
  <2>2. CASE f = Node(mem, pit.va, d + 1)
    <3>1. d + 1 \in 1 .. 3 /\ d + 1 > d
      OBVIOUS
    <3> QED BY <1>3, <1>4, <2>2, <3>1 DEF Past
  <2> QED BY <1>2, <1>3, <1>4, <1>10, <2>1, <2>2
<1>11. 2 \in 0 .. 2
  OBVIOUS
<1> QED BY <1>5, <1>7, <1>8, <1>9, <1>10, <1>11 DEF Walking

\* It goes on to the next entry, or up to the page above, or it is done.
LEMMA PtSkipKeeps ==
  ASSUME MemOK(mem), Walking(mem, pit, freed), PtSkip
  PROVE  Walking(mem, pit', freed') \/ WalkOver(mem, pit', freed')
<1>1. PICK d \in 0 .. 2, s \in 0 .. 2 :
        PitAt(mem, pit, d, s) /\ \A f \in freed : Past(mem, f, pit.va, Limit(pit, d, s))
  BY DEF Walking
<1>p. /\ DOMAIN pit = {"pep", "lbits", "va", "stop_lbits", "skip", "at"}
      /\ pit.va \in Canon /\ Reached(mem, pit.va, d) /\ d <= s /\ pit.skip \in BOOLEAN
      /\ pit.lbits = Lev(d) /\ pit.stop_lbits = Lev(s) /\ (pit.skip => s = 2)
      /\ s < 2 => Reached(mem, pit.va, s + 1)
  BY <1>1 DEF PitAt
<1>q. /\ d \in 0 .. 3 /\ pit.va \in Nat /\ pit.va \in Addresses
      /\ pit.lbits = initial_lbits <=> d = 0
      /\ pit.pep[1] = Node(mem, pit.va, d) /\ pit.pep[2] = Index(pit.va, Lev(d))
      /\ Node(mem, pit.va, d) \in DOMAIN mem /\ Index(pit.va, Lev(d)) \in 0 .. Fan - 1
  BY <1>1, PitLevel, PitEntry
<1>e. PICK e : e = EndOf(pit.va, pit.lbits) /\ e = EndOf(pit.va, Lev(d)) /\ e \in Nat
  <2>1. EndOf(pit.va, Lev(d)) \in Addresses
    BY <1>q, EndOfIs
  <2>2. EndOf(pit.va, Lev(d)) \in Nat
    BY <2>1, Sizes DEF Addresses, Words
  <2> QED BY <1>p, <2>2
<1>2. /\ freed' = freed /\ pit.at = "loop" /\ ~Descends
      /\ pit' = IF LeavesPage(e) /\ e = 0 /\ pit.lbits = initial_lbits
                THEN [pit EXCEPT !.lbits = done_lbits, !.at = "done"]
                ELSE IF LeavesPage(e)
                THEN [pit EXCEPT !.stop_lbits = StopAbove(pit.lbits), !.lbits = initial_lbits,
                                 !.pep = <<ROOT, Index(pit.va, initial_lbits)>>, !.skip = FALSE]
                ELSE [pit EXCEPT !.pep = <<@[1], @[2] + 1>>, !.skip = FALSE,
                                 !.va = IF va_is_canonical(e) THEN e ELSE VA_HIGHMIN]
  BY <1>e DEF PtSkip, InLoop
<1>l. /\ d # 0 => (LeavesPage(e) <=> Block(e, d - 1) # Block(pit.va, d - 1))
      /\ d = 0 => (LeavesPage(e) <=> Block(e, 0) \div Fan # Block(pit.va, 0) \div Fan)
  BY <1>1, <1>e, LeavesIs
<1>t. PICK t : t = pit'
  OBVIOUS
<1>3. CASE LeavesPage(e) /\ e = 0 /\ d = 0
  <2>1. t = [pit EXCEPT !.lbits = done_lbits, !.at = "done"]
    BY <1>2, <1>3, <1>q, <1>t
  <2>2. t.lbits = done_lbits /\ t.at = "done" /\ t.pep = pit.pep
    BY <1>p, <2>1
  <2>3. freed \subseteq DOMAIN mem
    <3>1. ASSUME NEW f \in freed PROVE f \in DOMAIN mem
      <4>1. PICK u \in Canon, k \in 1 .. 3 : Reached(mem, u, k) /\ f = Node(mem, u, k)
        BY <1>1 DEF Past
      <4>2. k \in 0 .. 3
        OBVIOUS
      <4> QED BY <4>1, <4>2, EntryIs
    <3> QED BY <3>1
  <2> QED BY <1>2, <1>q, <1>t, <2>2, <2>3 DEF WalkOver
<1>4. CASE LeavesPage(e) /\ ~(e = 0 /\ d = 0)
  <2>1. d \in 1 .. 2
    <3>1. d = 0 => e = 0
      BY <1>4, <1>e, <1>l, <1>p, SkipRoot
    <3>2. d # 0
      BY <1>4, <3>1
    <3> QED BY <3>2
  <2>2. t = [pit EXCEPT !.stop_lbits = StopAbove(pit.lbits), !.lbits = initial_lbits,
                        !.pep = <<ROOT, Index(pit.va, initial_lbits)>>, !.skip = FALSE]
    BY <1>2, <1>4, <1>q, <1>t
  <2>3. DOMAIN t = DOMAIN pit
    BY <2>2, Zenon
  <2>4. /\ t.stop_lbits = StopAbove(pit.lbits) /\ t.lbits = initial_lbits /\ t.skip = FALSE
        /\ t.pep = <<ROOT, Index(pit.va, initial_lbits)>> /\ t.va = pit.va /\ t.at = "loop"
    BY <1>2, <1>p, <2>2
  <2>5. StopAbove(pit.lbits) = Lev(d - 1) /\ d - 1 \in 0 .. 2 /\ (d - 1) + 1 = d
    <3>1. d \in 1 .. 3
      BY <2>1
    <3>2. Lev(d) + PAGEINDEXBITS = Lev(d - 1)
      BY <3>1, Levels
    <3> QED BY <1>p, <2>1, <3>2 DEF StopAbove
  <2>6. PitAt(mem, t, 0, d - 1)
    <3>1. Lev(0) = initial_lbits /\ Node(mem, pit.va, 0) = ROOT /\ Reached(mem, pit.va, 0)
      BY Levels, WalkStep
    <3>2. 0 <= d - 1
      BY <2>1
    <3> QED BY <1>p, <2>3, <2>4, <2>5, <3>1, <3>2 DEF PitAt
  <2>7. Limit(t, 0, d - 1) = d
    BY <2>4, <2>5 DEF Limit
  <2>8. Limit(pit, d, s) \in Nat /\ d <= Limit(pit, d, s) /\ d \in Nat
    BY <1>p DEF Limit
  <2>9. \A f \in freed : Past(mem, f, pit.va, d)
    BY <1>1, <2>8, PastLess
  <2>10. 0 \in 0 .. 2
    OBVIOUS
  <2>11. Walking(mem, t, freed)
    BY <2>4, <2>5, <2>6, <2>7, <2>9, <2>10 DEF Walking
  <2> QED BY <1>2, <1>t, <2>11
<1>5. CASE ~LeavesPage(e)
  <2>1. PICK w : w = IF va_is_canonical(e) THEN e ELSE VA_HIGHMIN
    OBVIOUS
  <2>2. NextEntry(pit.va, w, d)
    <3>1. CASE d = 0
      BY <1>5, <1>e, <1>l, <1>p, <2>1, <3>1, SkipRoot
    <3>2. CASE d # 0
      <4>1. d \in 1 .. 2 /\ Block(e, d - 1) = Block(pit.va, d - 1)
        BY <1>5, <1>l, <3>2
      <4> QED BY <1>e, <1>p, <2>1, <4>1, SkipBelow
    <3> QED BY <3>1, <3>2
  <2>3. t = [pit EXCEPT !.pep = <<@[1], @[2] + 1>>, !.skip = FALSE, !.va = w]
    BY <1>2, <1>5, <1>t, <2>1
  <2>4. DOMAIN t = DOMAIN pit
    BY <2>3, Zenon
  <2>5. /\ t.pep = <<pit.pep[1], pit.pep[2] + 1>> /\ t.skip = FALSE /\ t.va = w
        /\ t.lbits = pit.lbits /\ t.stop_lbits = pit.stop_lbits /\ t.at = "loop"
    BY <1>2, <1>p, <2>3
  <2>6. /\ w \in Canon /\ Same(pit.va, w, d) /\ Index(w, Lev(d)) = Index(pit.va, Lev(d)) + 1
        /\ w \in Nat
    BY <2>2, CanonicalBlock DEF NextEntry, Canon
  <2>7. Reached(mem, w, d) /\ Node(mem, w, d) = Node(mem, pit.va, d)
    BY <1>p, <1>q, <2>6, SameWalk
  <2>8. s = 2
    <3>1. SUFFICES ASSUME s < 2, ~pit.skip PROVE FALSE
      BY <1>p
    <3>2. Reached(mem, pit.va, s + 1) /\ d + 1 \in 0 .. s + 1 /\ s + 1 \in 0 .. 4
      BY <1>p, <3>1
    <3>3. Leads(Ent(mem, pit.va, d))
      <4>1. Reached(mem, pit.va, d + 1)
        BY <3>2, WalkStep
      <4> QED BY <1>q, <4>1, WalkStep
    <3>4. Entry(pit.pep) = Ent(mem, pit.va, d)
      BY <1>1, PitEntry
    <3> QED BY <1>2, <3>1, <3>3, <3>4 DEF Descends
  <2>9. PitAt(mem, t, d, 2)
    <3>1. d <= 2 /\ ~(2 < 2) /\ t.at # "visit" /\ t.at \in {"loop", "visit"}
      BY <2>5
    <3>2. t.skip \in BOOLEAN
      BY <2>5
    <3>3. t.pep = <<Node(mem, w, d), Index(w, Lev(d))>>
      BY <1>q, <2>5, <2>6, <2>7
    <3>4. /\ DOMAIN t = {"pep", "lbits", "va", "stop_lbits", "skip", "at"} /\ t.va \in Canon
          /\ t.lbits = Lev(d) /\ t.stop_lbits = Lev(2) /\ Reached(mem, t.va, d)
      BY <1>p, <2>4, <2>5, <2>6, <2>7, <2>8
    <3> QED BY <2>5, <3>1, <3>2, <3>3, <3>4 DEF PitAt
  <2>10. Limit(pit, d, s) \in Nat /\ Limit(pit, d, s) >= d
    BY <1>p DEF Limit
  <2>11. \A f \in freed : Past(mem, f, w, Limit(t, d, 2))
    BY <1>1, <1>p, <2>2, <2>10, PastNext
  <2>12. 2 \in 0 .. 2
    OBVIOUS
  <2>13. Walking(mem, t, freed)
    BY <2>5, <2>9, <2>11, <2>12 DEF Walking
  <2> QED BY <1>2, <1>t, <2>13
<1> QED BY <1>3, <1>4, <1>5

\* A ptiter starts at the root's first entry.
LEMMA PtStarts ==
  ASSUME NEW m
  PROVE  Walking(m, NoPtiter, {})
<1>1. 0 \in Canon
  <2>1. 0 \in Addresses /\ VA_LOWMAX \in Nat
    BY Sizes, WholePages DEF Addresses, Words
  <2>2. va_is_canonical(0)
    BY <2>1 DEF va_is_canonical
  <2> QED BY <2>1, <2>2 DEF Canon
<1>2. Index(0, Lev(0)) = 0
  <2>0. 0 \in 0 .. 3 /\ 0 \in Nat
    OBVIOUS
  <2>1. PICK z \in Nat \ {0}, f \in Nat \ {0} : z = Size(0) /\ f = Fan
    BY <2>0, Sizes
  <2>2. z * 0 + 0 = 0 /\ 0 \in 0 .. z - 1 /\ f * 0 + 0 = 0 /\ 0 \in 0 .. f - 1
    OBVIOUS
  <2>3. (z * 0 + 0) \div z = 0 /\ (f * 0 + 0) % f = 0
    BY <2>2, DivideOnce
  <2>4. Index(0, Lev(0)) = Block(0, 0) % Fan
    BY <2>0, BlockIndex
  <2> QED BY <2>1, <2>2, <2>3, <2>4 DEF Block
<1>3. PICK t : t = NoPtiter
  OBVIOUS
<1>4. /\ DOMAIN t = {"pep", "lbits", "va", "stop_lbits", "skip", "at"}
      /\ t.pep = <<ROOT, 0>> /\ t.lbits = initial_lbits /\ t.va = 0
      /\ t.stop_lbits = PAGEOFFBITS + PAGEINDEXBITS /\ t.skip = FALSE /\ t.at = "loop"
  BY <1>3 DEF NoPtiter
<1>5. /\ Lev(0) = initial_lbits /\ Lev(2) = PAGEOFFBITS + PAGEINDEXBITS
      /\ Node(m, 0, 0) = ROOT /\ Reached(m, 0, 0)
  BY Levels, WalkStep
<1>6. PitAt(m, t, 0, 2)
  <2>1. t.skip \in BOOLEAN
    BY <1>4
  <2>2. 0 <= 2 /\ ~(2 < 2) /\ t.at # "visit" /\ t.at \in {"loop", "visit"}
    BY <1>4
  <2>3. t.pep = <<Node(m, t.va, 0), Index(t.va, Lev(0))>>
    BY <1>2, <1>4, <1>5
  <2> QED BY <1>1, <1>4, <1>5, <2>1, <2>2, <2>3 DEF PitAt
<1>7. 0 \in 0 .. 2 /\ 2 \in 0 .. 2
  OBVIOUS
<1> QED BY <1>3, <1>6, <1>7 DEF Walking

\* The invariant of ptiter is inductive, as long as the page table is one.
LEMMA PtInvNext == IterInv /\ PtInv /\ [Next]_vars => PtInv'
<1> SUFFICES ASSUME IterInv, PtInv, [Next]_vars PROVE PtInv'
  OBVIOUS
<1>m. MemOK(mem)
  BY DEF IterInv
<1>w. ASSUME mem' = mem, op' = "free", Walking(mem, pit', freed') \/ WalkOver(mem, pit', freed')
      PROVE  PtInv'
  BY <1>w DEF PtInv
<1>1. CASE Find \/ Construct \/ Next1 \/ NextRange \/ TryMap \/ MapLevel \/ MapFails \/ MapEntry
  <2>1. op # "free" /\ op' # "free" /\ pit' = pit /\ freed' = freed
    BY <1>1 DEF Find, Construct, Next1, NextRange, Move, TryMap, MapLevel, MapFails, MapEntry
  <2> QED BY <2>1 DEF PtInv
<1>2. CASE PtStart
  <2>1. op = "idle" /\ op' = "free" /\ pit' = pit /\ freed' = freed /\ mem' = mem
    BY <1>2 DEF PtStart
  <2>2. pit = NoPtiter /\ freed = {}
    BY <2>1 DEF PtInv
  <2> QED BY <1>w, <2>1, <2>2, PtStarts
<1>3. CASE PtStop \/ PtDown \/ PtSkip \/ PtNext
  <2>1. op = "free" /\ op' = "free" /\ mem' = mem /\ pit.at # "done"
    BY <1>3 DEF PtStop, PtDown, PtSkip, PtNext, InLoop
  <2>2. Walking(mem, pit, freed)
    BY <2>1 DEF PtInv, WalkOver
  <2>3. CASE PtStop
    BY <1>m, <1>w, <2>1, <2>2, <2>3, PtStopKeeps
  <2>4. CASE PtDown
    BY <1>m, <1>w, <2>1, <2>2, <2>4, PtDownKeeps
  <2>5. CASE PtSkip
    BY <1>m, <1>w, <2>1, <2>2, <2>5, PtSkipKeeps
  <2>6. CASE PtNext
    BY <1>m, <1>w, <2>1, <2>2, <2>6, PtNextKeeps
  <2> QED BY <1>3, <2>3, <2>4, <2>5, <2>6
<1>4. CASE Done \/ UNCHANGED vars
  <2>1. mem' = mem /\ op' = op /\ pit' = pit /\ freed' = freed
    BY <1>4 DEF Done, vars
  <2> QED BY <2>1 DEF PtInv
<1> QED BY <1>1, <1>2, <1>3, <1>4 DEF Next

\* What the invariants say of the variables' types.
LEMMA TypesOK == IterInv /\ PtInv => TypeOK
<1> SUFFICES ASSUME IterInv, PtInv PROVE TypeOK
  OBVIOUS
<1>m. MemOK(mem) /\ IterOK(mem, it) /\ op \in {"idle", "map", "free"}
  BY DEF IterInv
<1>1. \A m \in Used, x \in 0 .. 2 ^ PAGEINDEXBITS - 1 :
        mem[m][x].perm \subseteq Flags /\ (Leads(mem[m][x]) => mem[m][x].pa \in Nat)
  <2>1. ASSUME NEW m \in DOMAIN mem, NEW x \in 0 .. Fan - 1 PROVE mem[m][x] \in EntryType
    BY <1>m DEF MemOK
  <2>2. \A y \in EntryType : y.perm \subseteq Flags /\ y.pa \in Nat
    BY DEF EntryType
  <2> QED BY <2>1, <2>2 DEF Used, Fan
<1>2. /\ it.va \in Addresses /\ it.perm \subseteq Flags
      /\ it.lbits \in Lbits \cup {noncanonical_lbits, done_lbits}
      /\ it.pep = zero_pe <=> it.lbits \notin Lbits
      /\ it.pep # zero_pe => it.pep[1] \in Used /\ it.pep[2] = Index(it.va, it.lbits)
  BY <1>m, IterTypes
<1>3. ASSUME NEW t, NEW F, Walking(mem, t, F)
      PROVE  /\ t.lbits \in Lbits \cup {done_lbits}
             /\ t.pep[1] \in Used /\ t.pep[2] \in 0 .. 2 ^ PAGEINDEXBITS - 1
             /\ F \subseteq Used
  <2>1. PICK d \in 0 .. 2, s \in 0 .. 2 :
          PitAt(mem, t, d, s) /\ \A f \in F : Past(mem, f, t.va, Limit(t, d, s))
    BY <1>3 DEF Walking
  <2>2. t.lbits = Lev(d) /\ d \in 0 .. 3
    BY <2>1 DEF PitAt
  <2>3. Lev(d) \in Lbits
    BY <2>2, Levels
  <2>4. t.pep[1] \in DOMAIN mem /\ t.pep[2] \in 0 .. Fan - 1
    BY <1>m, <2>1, PitEntry
  <2>5. ASSUME NEW f \in F PROVE f \in DOMAIN mem
    <3>1. PICK u \in Canon, k \in 1 .. 3 : Reached(mem, u, k) /\ f = Node(mem, u, k)
      BY <2>1 DEF Past
    <3>2. k \in 0 .. 3
      OBVIOUS
    <3> QED BY <1>m, <3>1, <3>2, EntryIs
  <2> QED BY <2>2, <2>3, <2>4, <2>5 DEF Used, Fan
<1>4. /\ pit.lbits \in Lbits \cup {done_lbits}
      /\ pit.pep[1] \in Used /\ pit.pep[2] \in 0 .. 2 ^ PAGEINDEXBITS - 1
      /\ freed \subseteq Used
  <2>1. CASE op # "free"
    <3>1. pit = NoPtiter /\ freed = {}
      BY <2>1 DEF PtInv
    <3> QED BY <1>3, <3>1, PtStarts
  <2>2. CASE Walking(mem, pit, freed)
    BY <1>3, <2>2
  <2>3. CASE WalkOver(mem, pit, freed)
    BY <2>3 DEF WalkOver, Used, Fan
  <2> QED BY <2>1, <2>2, <2>3 DEF PtInv
<1> QED BY <1>m, <1>1, <1>2, <1>4 DEF TypeOK

\* What the invariants say of vmiter.
LEMMA AgreesOK == IterInv /\ PtInv => IteratorAgrees
<1> SUFFICES ASSUME IterInv, PtInv PROVE IteratorAgrees
  OBVIOUS
<1>m. MemOK(mem) /\ IterOK(mem, it)
  BY DEF IterInv
<1>1. TypeOK
  BY TypesOK
<1>2. IteratorRight
  BY <1>m, IterSays DEF IteratorRight
<1>3. RangePermRight
  <2>1. SUFFICES ASSUME ~done(it), NEW sz \in Spans
        PROVE  LET range == it.va .. it.va + sz - 1
               IN  range_perm(it, sz) \cap {"P", "W", "U"} =
                     IF range \subseteq Addresses
                     THEN {q \in {"P", "W", "U"} : \A va \in range : q \in Translation(va).perm}
                     ELSE {}
    BY DEF RangePermRight
  <2>2. sz \in Addresses
    BY WidthAssumption
  <2> QED BY <1>m, <2>1, <2>2, RangePermIs
<1>4. NextSkipsNothing
  <2>1. SUFFICES ASSUME ~done(it)
        PROVE  /\ \A v \in Between(next(it).va) : Translation(v).perm = {}
               /\ next(it).va > it.va \/ done(next(it))
               /\ next_range(it).va > it.va \/ done(next_range(it))
    BY DEF NextSkipsNothing
  <2>2. /\ next(it).va > it.va \/ done(next(it))
        /\ \A v \in PageAddresses : v > it.va /\ (v < next(it).va \/ next(it).va = 0) =>
             Translation(v).perm = {}
    BY <1>m, <2>1, NextIs
  <2>3. next_range(it).va > it.va \/ done(next_range(it))
    BY <1>m, <2>1, NextRangeIs
  <2> QED BY <2>2, <2>3 DEF Between
<1> QED BY <1>1, <1>2, <1>3, <1>4 DEF IteratorAgrees

\* And of ptiter.
LEMMA NoUseOK == IterInv /\ PtInv => NoUseAfterFree
<1> SUFFICES ASSUME IterInv, PtInv, op = "free", pit.at \in {"visit", "loop"}
             PROVE  /\ pit.at = "visit" => Entry(pit.pep).pa \notin freed \cup {ROOT}
                    /\ pit.at = "loop" /\ ~pit.skip => pit.pep[1] \notin freed
  BY DEF NoUseAfterFree
<1>m. MemOK(mem) /\ Tree(mem)
  BY DEF IterInv
<1>1. Walking(mem, pit, freed)
  BY DEF PtInv, WalkOver
<1>2. PICK d \in 0 .. 2, s \in 0 .. 2 :
        PitAt(mem, pit, d, s) /\ \A f \in freed : Past(mem, f, pit.va, Limit(pit, d, s))
  BY <1>1 DEF Walking
<1>3. /\ pit.va \in Canon /\ Reached(mem, pit.va, d) /\ d <= s /\ d \in 0 .. 3
      /\ Entry(pit.pep) = Ent(mem, pit.va, d) /\ pit.pep[1] = Node(mem, pit.va, d)
  BY <1>m, <1>2, PitEntry DEF PitAt
<1>4. ASSUME NEW f \in freed, ~pit.skip, NEW j \in 0 .. 3, j <= s + 1,
             Reached(mem, pit.va, j), f = Node(mem, pit.va, j)
      PROVE  FALSE
  <2>1. Past(mem, f, pit.va, s + 1)
    BY <1>2, <1>4 DEF Limit
  <2>2. PICK u \in Canon, k \in 1 .. 3 :
          /\ Reached(mem, u, k) /\ f = Node(mem, u, k)
          /\ \/ Block(u, k - 1) < Block(pit.va, k - 1)
             \/ Block(u, k - 1) = Block(pit.va, k - 1) /\ k > s + 1
    BY <2>1 DEF Past
  <2>3. j = k /\ Same(pit.va, u, k)
    <3>1. k \in 0 .. 3
      OBVIOUS
    <3> QED BY <1>m, <1>3, <1>4, <2>2, <3>1 DEF Tree
  <2>4. Block(pit.va, k - 1) = Block(u, k - 1)
    <3>1. k # 0
      OBVIOUS
    <3> QED BY <2>3, <3>1 DEF Same
  <2>5. Block(u, k - 1) \in Nat
    <3>1. u \in Nat /\ k - 1 \in 0 .. 3
      BY CanonicalBlock DEF Canon
    <3> QED BY <3>1, BlockIndex
  <2>6. k > s + 1
    BY <2>2, <2>4, <2>5
  <2> QED BY <1>4, <2>3, <2>6
<1>5. ASSUME pit.at = "visit" PROVE Entry(pit.pep).pa \notin freed \cup {ROOT}
  <2>1. d = s /\ Leads(Ent(mem, pit.va, d)) /\ ~pit.skip
    BY <1>2, <1>5 DEF PitAt
  <2>2. Reached(mem, pit.va, d + 1) /\ Node(mem, pit.va, d + 1) = Entry(pit.pep).pa
    BY <1>3, <2>1, WalkStep
  <2>3. d + 1 \in 0 .. 3 /\ d + 1 <= s + 1 /\ d + 1 # 0 /\ 0 \in 0 .. 3
    BY <2>1
  <2>4. Entry(pit.pep).pa # ROOT
    <3>1. Reached(mem, pit.va, 0) /\ Node(mem, pit.va, 0) = ROOT
      BY WalkStep
    <3> QED BY <1>m, <1>3, <2>2, <2>3, <3>1 DEF Tree
  <2> QED BY <1>4, <2>1, <2>2, <2>3, <2>4
<1>6. ASSUME pit.at = "loop", ~pit.skip PROVE pit.pep[1] \notin freed
  <2>1. d <= s + 1
    BY <1>3
  <2> QED BY <1>3, <1>4, <1>6, <2>1
<1> QED BY <1>5, <1>6

\* The invariants hold.
LEMMA InvariantsHold == Spec => [](IterInv /\ PtInv)
<1>1. Init => IterInv /\ PtInv
  <2>1. Init => PtInv
    BY DEF Init, PtInv
  <2> QED BY <2>1, IterInit
<1>2. IterInv /\ PtInv /\ [Next]_vars => (IterInv /\ PtInv)'
  BY IterNext, PtInvNext
<1> QED BY <1>1, <1>2, PTL DEF Spec

\* After any moves, and in the middle of a try_map(), a vmiter says what the processor
\* finds: of its address, of a range, and of what next() passes by; src/pset3/k-vmiter.cc
\* and .hh.
THEOREM VmiterAgrees == Spec => []IteratorAgrees
<1>1. IterInv /\ PtInv => IteratorAgrees
  BY AgreesOK
<1> QED BY <1>1, InvariantsHold, PTL

\* A ptiter reads no page, and gives none to be freed, that has been freed:
\* src/pset3/k-vmiter.cc, ptiter::down() and next().
THEOREM PtiterNoUseAfterFree == Spec => []NoUseAfterFree
<1>1. IterInv /\ PtInv => NoUseAfterFree
  BY NoUseOK
<1> QED BY <1>1, InvariantsHold, PTL
=============================================================================
