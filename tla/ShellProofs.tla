---------------------------- MODULE ShellProofs -----------------------------
(***************************************************************************)
(* The shell's loop loses no character but those of an interrupted read,   *)
(* whatever the buffer cuts, and prompts once for each line; its           *)
(* tokenizer, parsers and unquoting give every line its tokens, commands   *)
(* and words: for every script of text and every BUFSIZ.                   *)
(*                                                                         *)
(* The tokenizer, the loops of the parsers, str() and FlattenSeq() are     *)
(* recursive functions.  Each is first shown to be what its definition     *)
(* says (Recursion): a rank falls with each step.  What it computes is     *)
(* then shown for an argument from what it computes for those of lesser    *)
(* rank (RankInduction).                                                   *)
(***************************************************************************)
EXTENDS Shell, SequenceTheorems, WellFoundedInduction, TLAPS

\* A set of numbers that is not empty has a least one.
LEMMA LeastOne ==
  ASSUME NEW S \in SUBSET Nat, S # {}
  PROVE  \E x \in S : \A y \in S : x <= y
<1>1. PICK x \in S : \A y \in S : ~(<<y, x>> \in OpToRel(<, Nat))
  BY NatLessThanWellFounded, WFMin
<1>2. \A y \in S : ~(y < x)
  BY <1>1, Zenon DEF OpToRel
<1>3. \A y \in S : x <= y
  BY <1>2
<1> QED BY <1>3

-----------------------------------------------------------------------------
(* FlattenSeq().                                                           *)

\* g is the function FlattenSeq() defines for the first n members of s.
Flattens(g, s, n) ==
  g = [i \in 1 .. n |-> IF i = 1 THEN s[i] ELSE g[i - 1] \o s[i]]

\* The function FlattenSeq() uses.
Flat(s) == CHOOSE g : Flattens(g, s, Len(s))

\* The function for n members can be made one longer.
LEMMA FlattensMore ==
  ASSUME NEW s, NEW n \in Nat, NEW g, Flattens(g, s, n)
  PROVE  \E h : Flattens(h, s, n + 1)
<1> DEFINE last == IF n + 1 = 1 THEN s[n + 1] ELSE g[n] \o s[n + 1]
           h == [i \in 1 .. n + 1 |-> IF i = n + 1 THEN last ELSE g[i]]
<1>1. \A i \in 1 .. n : g[i] = IF i = 1 THEN s[i] ELSE g[i - 1] \o s[i]
  BY DEF Flattens
<1>2. \A i \in 1 .. n + 1 : h[i] = IF i = n + 1 THEN last ELSE g[i]
  OBVIOUS
<1>3. ASSUME NEW i \in 1 .. n + 1
      PROVE  h[i] = IF i = 1 THEN s[i] ELSE h[i - 1] \o s[i]
  <2>1. CASE i = n + 1
    <3>1. CASE i = 1
      BY <1>2, <2>1, <3>1
    <3>2. CASE i # 1
      <4>1. i - 1 \in 1 .. n + 1 /\ i - 1 # n + 1 /\ i - 1 = n
        BY <2>1, <3>2
      <4>2. h[i - 1] = g[n]
        BY <1>2, <4>1
      <4>3. h[i] = g[n] \o s[i]
        BY <1>2, <2>1, <3>2
      <4> QED BY <3>2, <4>2, <4>3
    <3> QED BY <3>1, <3>2
  <2>2. CASE i # n + 1
    <3>1. i \in 1 .. n
      BY <2>2
    <3>2. h[i] = IF i = 1 THEN s[i] ELSE g[i - 1] \o s[i]
      BY <1>1, <1>2, <2>2, <3>1
    <3>3. CASE i = 1
      BY <3>2, <3>3
    <3>4. CASE i # 1
      <4>1. i - 1 \in 1 .. n + 1 /\ i - 1 # n + 1
        BY <3>1, <3>4
      <4>2. h[i - 1] = g[i - 1]
        BY <1>2, <4>1
      <4> QED BY <3>2, <3>4, <4>2
    <3> QED BY <3>3, <3>4
  <2> QED BY <2>1, <2>2
<1>4. h = [i \in 1 .. n + 1 |-> IF i = 1 THEN s[i] ELSE h[i - 1] \o s[i]]
  <2> HIDE DEF last
  <2>1. h = [i \in 1 .. n + 1 |-> h[i]]
    OBVIOUS
  <2> HIDE DEF h
  <2> QED BY <1>3, <2>1
<1> HIDE DEF h
<1> QED BY <1>4 DEF Flattens

\* There is such a function for every length.
LEMMA FlattensSome ==
  ASSUME NEW s, NEW n \in Nat
  PROVE  \E g : Flattens(g, s, n)
<1> DEFINE bad == {k \in Nat : ~\E g : Flattens(g, s, k)}
<1> SUFFICES ASSUME bad # {} PROVE FALSE
  OBVIOUS
<1>1. PICK k \in bad : \A y \in bad : k <= y
  BY LeastOne
<1>2. ~\E g : Flattens(g, s, k)
  BY <1>1
<1>3. CASE k = 0
  <2> DEFINE g == [i \in 1 .. k |-> 0]
  <2>1. 1 .. k = {}
    BY <1>3
  <2>2. g = [i \in 1 .. k |-> IF i = 1 THEN s[i] ELSE g[i - 1] \o s[i]]
    BY <2>1
  <2> QED BY <1>2, <2>2 DEF Flattens
<1>4. CASE k # 0
  <2>1. k - 1 \in Nat /\ k - 1 < k /\ (k - 1) + 1 = k
    BY <1>4
  <2>2. PICK g : Flattens(g, s, k - 1)
    BY <1>1, <2>1
  <2>3. \E h : Flattens(h, s, (k - 1) + 1)
    BY <2>1, <2>2, FlattensMore
  <2> QED BY <1>2, <2>1, <2>3
<1> QED BY <1>3, <1>4

\* The function FlattenSeq() uses is what its definition says.
LEMMA FlatDef ==
  ASSUME NEW s, Len(s) \in Nat
  PROVE  /\ \A i \in 1 .. Len(s) : Flat(s)[i] = IF i = 1 THEN s[i] ELSE Flat(s)[i - 1] \o s[i]
         /\ FlattenSeq(s) = IF Len(s) = 0 THEN s ELSE Flat(s)[Len(s)]
<1>1. Flattens(Flat(s), s, Len(s))
  BY FlattensSome DEF Flat
<1>2. \A i \in 1 .. Len(s) : Flat(s)[i] = IF i = 1 THEN s[i] ELSE Flat(s)[i - 1] \o s[i]
  BY <1>1 DEF Flattens
<1>3. FlattenSeq(s) = IF Len(s) = 0 THEN s ELSE Flat(s)[Len(s)]
  BY DEF FlattenSeq, Flat, Flattens
<1> QED BY <1>2, <1>3

\* The members up to the i-th are a sequence over W if they all are.
LEMMA FlatType ==
  ASSUME NEW W, NEW s \in Seq(Seq(W))
  PROVE  \A i \in 1 .. Len(s) : Flat(s)[i] \in Seq(W)
<1>0. Len(s) \in Nat /\ \A i \in 1 .. Len(s) : s[i] \in Seq(W)
  BY LenProperties, ElementOfSeq
<1> DEFINE bad == {k \in Nat : k \in 1 .. Len(s) /\ Flat(s)[k] \notin Seq(W)}
<1> SUFFICES ASSUME bad # {} PROVE FALSE
  OBVIOUS
<1>1. PICK k \in bad : \A y \in bad : k <= y
  BY LeastOne
<1>2. k \in Nat /\ k \in 1 .. Len(s) /\ Flat(s)[k] \notin Seq(W)
  BY <1>1
<1>3. Flat(s)[k] = IF k = 1 THEN s[k] ELSE Flat(s)[k - 1] \o s[k]
  BY <1>0, <1>2, FlatDef
<1>4. k # 1
  BY <1>0, <1>2, <1>3
<1>5. k - 1 \in Nat /\ k - 1 \in 1 .. Len(s) /\ ~(k <= k - 1)
  BY <1>0, <1>2, <1>4
<1>6. Flat(s)[k - 1] \in Seq(W)
  BY <1>1, <1>5
<1>7. Flat(s)[k - 1] \o s[k] \in Seq(W)
  BY <1>0, <1>2, <1>6, ConcatProperties
<1> QED BY <1>2, <1>3, <1>4, <1>7

\* A further line leaves what is before it as it was.
LEMMA FlatPrefix ==
  ASSUME NEW s \in Seq(Seq(STRING)), NEW b \in Seq(STRING)
  PROVE  \A i \in 1 .. Len(s) : Flat(Append(s, b))[i] = Flat(s)[i]
<1> DEFINE t == Append(s, b)
<1>0. /\ Len(s) \in Nat /\ Len(t) = Len(s) + 1 /\ Len(t) \in Nat
      /\ \A i \in 1 .. Len(s) : t[i] = s[i]
  BY LenProperties, AppendProperties
<1> HIDE DEF t
<1> DEFINE bad == {k \in Nat : k \in 1 .. Len(s) /\ Flat(t)[k] # Flat(s)[k]}
<1> SUFFICES ASSUME bad # {} PROVE FALSE
  BY DEF t
<1>1. PICK k \in bad : \A y \in bad : k <= y
  BY LeastOne
<1>2. k \in Nat /\ k \in 1 .. Len(s) /\ Flat(t)[k] # Flat(s)[k]
  BY <1>1
<1>3. Flat(s)[k] = IF k = 1 THEN s[k] ELSE Flat(s)[k - 1] \o s[k]
  BY <1>0, <1>2, FlatDef
<1>4. Flat(t)[k] = IF k = 1 THEN t[k] ELSE Flat(t)[k - 1] \o t[k]
  <2>1. k \in 1 .. Len(t)
    BY <1>0, <1>2
  <2> QED BY <1>0, <2>1, FlatDef
<1>5. t[k] = s[k]
  BY <1>0, <1>2
<1>6. k # 1
  BY <1>2, <1>3, <1>4, <1>5
<1>7. k - 1 \in Nat /\ k - 1 \in 1 .. Len(s) /\ ~(k <= k - 1)
  BY <1>0, <1>2, <1>6
<1>8. Flat(t)[k - 1] = Flat(s)[k - 1]
  BY <1>1, <1>7
<1> QED BY <1>2, <1>3, <1>4, <1>5, <1>6, <1>8

\* What FlattenSeq() gives is a sequence over the same set.
LEMMA FlattenType ==
  ASSUME NEW W, NEW s \in Seq(Seq(W))
  PROVE  FlattenSeq(s) \in Seq(W)
<1>0. Len(s) \in Nat
  BY LenProperties
<1>1. FlattenSeq(s) = IF Len(s) = 0 THEN s ELSE Flat(s)[Len(s)]
  BY <1>0, FlatDef
<1>2. CASE Len(s) = 0
  <2>1. s = <<>>
    BY <1>2, EmptySeq
  <2> QED BY <1>1, <1>2, <2>1, EmptySeq
<1>3. CASE Len(s) # 0
  <2>1. Len(s) \in 1 .. Len(s)
    BY <1>0, <1>3
  <2> QED BY <1>1, <1>3, <2>1, FlatType
<1> QED BY <1>2, <1>3

\* A further line comes last.
LEMMA FlattenAppend ==
  ASSUME NEW s \in Seq(Seq(STRING)), NEW b \in Seq(STRING)
  PROVE  FlattenSeq(Append(s, b)) = FlattenSeq(s) \o b
<1> DEFINE t == Append(s, b)
<1>0. /\ Len(s) \in Nat /\ Len(t) = Len(s) + 1 /\ Len(t) \in Nat
      /\ t[Len(s) + 1] = b
  BY LenProperties, AppendProperties
<1>p. \A i \in 1 .. Len(s) : Flat(t)[i] = Flat(s)[i]
  BY FlatPrefix
<1> HIDE DEF t
<1>1. FlattenSeq(s) = IF Len(s) = 0 THEN s ELSE Flat(s)[Len(s)]
  BY <1>0, FlatDef
<1>2. FlattenSeq(t) = Flat(t)[Len(t)]
  BY <1>0, FlatDef
<1>3. Flat(t)[Len(t)] = IF Len(t) = 1 THEN t[Len(t)] ELSE Flat(t)[Len(t) - 1] \o t[Len(t)]
  <2>1. Len(t) \in 1 .. Len(t)
    BY <1>0
  <2> QED BY <1>0, <2>1, FlatDef
<1>4. t[Len(t)] = b
  BY <1>0
<1>5. CASE Len(s) = 0
  <2>1. s = <<>>
    BY <1>5, EmptySeq
  <2>2. Len(t) = 1
    BY <1>0, <1>5
  <2>3. <<>> \o b = b
    BY ConcatEmptySeq
  <2>4. FlattenSeq(t) = b
    BY <1>2, <1>3, <1>4, <2>2
  <2>5. FlattenSeq(s) = <<>>
    BY <1>1, <1>5, <2>1
  <2> QED BY <2>3, <2>4, <2>5 DEF t
<1>6. CASE Len(s) # 0
  <2>1. Len(t) # 1 /\ Len(t) - 1 = Len(s) /\ Len(s) \in 1 .. Len(s)
    BY <1>0, <1>6
  <2>2. Flat(t)[Len(s)] = Flat(s)[Len(s)]
    BY <1>p, <2>1
  <2>3. FlattenSeq(t) = Flat(s)[Len(s)] \o b
    BY <1>2, <1>3, <1>4, <2>1, <2>2
  <2> QED BY <1>1, <1>6, <2>3 DEF t
<1> QED BY <1>5, <1>6

\* No lines, no characters.
LEMMA FlattenNone == FlattenSeq(<<>>) = <<>>
BY DEF FlattenSeq

\* Sequences may be put together in any order.
LEMMA Regroup ==
  ASSUME NEW W, NEW s \in Seq(W), NEW t \in Seq(W), NEW u \in Seq(W)
  PROVE  (s \o t) \o u = s \o (t \o u)
BY ConcatAssociative

Groups(s, t, u) == (s \o t) \o u = s \o (t \o u)
\* The same, by name.
LEMMA Grouping ==
  ASSUME NEW W, NEW s \in Seq(W), NEW t \in Seq(W), NEW u \in Seq(W)
  PROVE  Groups(s, t, u)
BY Regroup DEF Groups

\* What comes first stays first.
LEMMA FlattenCons ==
  ASSUME NEW W, NEW x \in Seq(W), NEW Y \in Seq(Seq(W))
  PROVE  FlattenSeq(<<x>> \o Y) = x \o FlattenSeq(Y)
<1> DEFINE t == <<x>> \o Y
<1>0. /\ t \in Seq(Seq(W)) /\ Len(t) = 1 + Len(Y) /\ Len(Y) \in Nat
      /\ t[1] = x /\ \A i \in 1 .. Len(Y) : t[i + 1] = Y[i] /\ Y[i] \in Seq(W)
  <2>1. <<x>> \in Seq(Seq(W)) /\ Len(<<x>>) = 1 /\ <<x>>[1] = x
    OBVIOUS
  <2>2. Len(Y) \in Nat /\ \A i \in 1 .. Len(Y) : Y[i] \in Seq(W)
    BY LenProperties, ElementOfSeq
  <2>3. /\ t \in Seq(Seq(W)) /\ Len(t) = Len(<<x>>) + Len(Y)
        /\ \A i \in 1 .. Len(<<x>>) + Len(Y) : t[i] = IF i <= Len(<<x>>) THEN <<x>>[i] ELSE Y[i - Len(<<x>>)]
    BY <2>1, ConcatProperties
  <2> DEFINE one == <<x>>
  <2> HIDE DEF t, one
  <2>4. \A i \in 1 .. 1 + Len(Y) : t[i] = IF i <= 1 THEN x ELSE Y[i - 1]
    BY <2>1, <2>3 DEF one
  <2>5. t[1] = x
    BY <2>2, <2>4
  <2>6. ASSUME NEW i \in 1 .. Len(Y) PROVE t[i + 1] = Y[i]
    <3>1. i + 1 \in 1 .. 1 + Len(Y) /\ ~(i + 1 <= 1) /\ i + 1 - 1 = i
      BY <2>2
    <3> QED BY <2>4, <3>1
  <2> QED BY <2>1, <2>2, <2>3, <2>5, <2>6
<1>1. Len(t) \in Nat /\ Len(t) # 0
  BY <1>0
<1> HIDE DEF t
<1>2. /\ \A i \in 1 .. Len(t) : Flat(t)[i] = IF i = 1 THEN t[i] ELSE Flat(t)[i - 1] \o t[i]
      /\ FlattenSeq(t) = Flat(t)[Len(t)]
  BY <1>1, FlatDef
<1>3. /\ \A i \in 1 .. Len(Y) : Flat(Y)[i] = IF i = 1 THEN Y[i] ELSE Flat(Y)[i - 1] \o Y[i]
      /\ FlattenSeq(Y) = IF Len(Y) = 0 THEN Y ELSE Flat(Y)[Len(Y)]
  BY <1>0, FlatDef
<1>4. \A i \in 1 .. Len(Y) : Flat(Y)[i] \in Seq(W)
  BY FlatType
<1>5. Flat(t)[1] = x
  BY <1>0, <1>1, <1>2
<1>6. \A i \in 1 .. Len(Y) : Flat(t)[i + 1] = x \o Flat(Y)[i]
  <2> DEFINE bad == {k \in Nat : k \in 1 .. Len(Y) /\ Flat(t)[k + 1] # x \o Flat(Y)[k]}
  <2>0. \A k \in 1 .. Len(Y) : k \in Nat
    BY <1>0
  <2> SUFFICES ASSUME bad # {} PROVE FALSE
    BY <2>0
  <2>1. PICK k \in bad : \A y \in bad : k <= y
    BY LeastOne
  <2>2. k \in Nat /\ k \in 1 .. Len(Y) /\ Flat(t)[k + 1] # x \o Flat(Y)[k]
    BY <2>1
  <2>3. k + 1 \in 1 .. Len(t) /\ k + 1 # 1 /\ (k + 1) - 1 = k
    BY <1>0, <2>2
  <2>4. Flat(t)[k + 1] = Flat(t)[k] \o Y[k]
    BY <1>0, <1>2, <2>2, <2>3
  <2>5. CASE k = 1
    BY <1>3, <1>5, <2>2, <2>4, <2>5
  <2>6. CASE k # 1
    <3>1. k - 1 \in Nat /\ k - 1 \in 1 .. Len(Y) /\ ~(k <= k - 1) /\ (k - 1) + 1 = k
      BY <1>0, <2>2, <2>6
    <3>2. Flat(t)[k] = x \o Flat(Y)[k - 1]
      BY <2>1, <3>1
    <3>3. Flat(Y)[k] = Flat(Y)[k - 1] \o Y[k]
      BY <1>3, <2>2, <2>6
    <3> DEFINE m == Flat(Y)[k - 1]
               z == Y[k]
    <3>4. x \in Seq(W) /\ m \in Seq(W) /\ z \in Seq(W)
      BY <1>0, <1>4, <2>2, <3>1
    <3> HIDE DEF m, z, bad
    <3>5. (x \o m) \o z = x \o (m \o z)
      BY <3>4, Regroup
    <3> QED BY <2>2, <2>4, <3>2, <3>3, <3>5 DEF m, z
  <2> QED BY <2>5, <2>6
<1>7. CASE Len(Y) = 0
  <2>1. Y = <<>> /\ Len(t) = 1
    BY <1>0, <1>7, EmptySeq
  <2>2. x \o <<>> = x
    BY ConcatEmptySeq
  <2> QED BY <1>2, <1>3, <1>5, <1>7, <2>1, <2>2 DEF t
<1>8. CASE Len(Y) # 0
  <2>1. Len(Y) \in 1 .. Len(Y) /\ Len(t) = Len(Y) + 1
    BY <1>0, <1>8
  <2> QED BY <1>2, <1>3, <1>6, <1>8, <2>1 DEF t
<1> QED BY <1>7, <1>8

-----------------------------------------------------------------------------
(* Recursion.                                                              *)

\* What holds of a member of D if it holds of all members of smaller rank holds of all.
LEMMA RankInduction ==
  ASSUME NEW D, NEW rank, \A x \in D : rank[x] \in Nat, NEW G,
         \A x \in D : (\A y \in D : rank[y] < rank[x] => y \in G) => x \in G
  PROVE  \A x \in D : x \in G
<1> DEFINE bad == {n \in Nat : \E x \in D : x \notin G /\ rank[x] = n}
<1> SUFFICES ASSUME NEW z \in D, z \notin G PROVE FALSE
  OBVIOUS
<1>1. rank[z] \in bad
  OBVIOUS
<1>2. PICK n \in bad : \A m \in bad : n <= m
  BY <1>1, LeastOne
<1>3. PICK x \in D : x \notin G /\ rank[x] = n
  BY <1>2
<1>4. ASSUME NEW y \in D, rank[y] < rank[x] PROVE y \in G
  <2> SUFFICES ASSUME y \notin G PROVE FALSE
    OBVIOUS
  <2>1. rank[y] \in bad
    OBVIOUS
  <2> HIDE DEF bad
  <2>2. n <= rank[y] /\ n \in Nat /\ rank[y] \in Nat
    BY <1>2, <1>3, <2>1
  <2> QED BY <1>3, <1>4, <2>2
<1> QED BY <1>3, <1>4

\* f calls itself, at most once, until it is at a member of Stop; unless its argument is
\* in Plain it puts `pre` before the result of that call.
Calls(f, D, Stop, base, Plain, pre, nxt) ==
  f = [x \in D |-> IF x \in Stop THEN base[x]
                   ELSE IF x \in Plain THEN f[nxt[x]] ELSE pre[x] \o f[nxt[x]]]

\* A function that calls itself with arguments of smaller rank only exists.
LEMMA Recursion ==
  ASSUME NEW D, NEW Stop, NEW base, NEW Plain, NEW pre, NEW nxt, NEW rank, NEW N \in Nat,
         \A x \in D : rank[x] \in 0 .. N,
         \A x \in D : x \notin Stop => nxt[x] \in D /\ rank[nxt[x]] < rank[x]
  PROVE  \E f : Calls(f, D, Stop, base, Plain, pre, nxt)
<1> DEFINE Below(n) == {x \in D : rank[x] < n}
           Val(f, x) == IF x \in Stop THEN base[x]
                        ELSE IF x \in Plain THEN f[nxt[x]] ELSE pre[x] \o f[nxt[x]]
           Is(f, n) == f = [x \in Below(n) |-> Val(f, x)]
           bad == {n \in Nat : ~\E f : Is(f, n)}
<1>1. bad = {}
  <2> SUFFICES ASSUME bad # {} PROVE FALSE
    OBVIOUS
  <2>1. PICK n \in bad : \A m \in bad : n <= m
    BY LeastOne
  <2>2. n \in Nat /\ ~\E f : Is(f, n)
    BY <2>1
  <2>3. n # 0
    <3> SUFFICES ASSUME n = 0 PROVE FALSE
      OBVIOUS
    <3>1. Below(n) = {}
      OBVIOUS
    <3> DEFINE g == [x \in Below(n) |-> 0]
    <3>2. Is(g, n)
      BY <3>1
    <3> QED BY <2>2, <3>2
  <2>4. n - 1 \in Nat /\ ~(n <= n - 1)
    BY <2>2, <2>3
  <2>5. PICK f : Is(f, n - 1)
    BY <2>1, <2>4
  <2> DEFINE g == [x \in Below(n) |-> Val(f, x)]
  <2>6. ASSUME NEW x \in Below(n), x \notin Stop PROVE f[nxt[x]] = g[nxt[x]]
    <3>1. nxt[x] \in D /\ rank[nxt[x]] < rank[x] /\ rank[x] < n
      BY <2>6
    <3>2. nxt[x] \in Below(n - 1) /\ nxt[x] \in Below(n)
      BY <3>1, <2>2
    <3> HIDE DEF Below, Val
    <3>3. f[nxt[x]] = Val(f, nxt[x]) /\ g[nxt[x]] = Val(f, nxt[x])
      BY <2>5, <3>2
    <3> QED BY <3>3
  <2>7. Is(g, n)
    <3>1. ASSUME NEW x \in Below(n) PROVE g[x] = Val(g, x)
      <4>1. g[x] = Val(f, x)
        OBVIOUS
      <4> HIDE DEF g
      <4> QED BY <2>6, <4>1
    <3>2. g = [x \in Below(n) |-> g[x]]
      OBVIOUS
    <3> HIDE DEF g, Below, Val
    <3> QED BY <3>1, <3>2
  <2> QED BY <2>2, <2>7
<1>2. PICK f : Is(f, N + 1)
  <2> HIDE DEF Is
  <2>1. N + 1 \in Nat
    OBVIOUS
  <2>2. N + 1 \notin bad
    BY <1>1, Zenon
  <2> QED BY <2>1, <2>2, Zenon
<1>3. Below(N + 1) = D
  OBVIOUS
<1> HIDE DEF Below
<1> QED BY <1>2, <1>3 DEF Calls

-----------------------------------------------------------------------------
(* The tokenizer.                                                          *)

\* From p on there is a first position that is not in C, or the end.
LEMMA FirstNot ==
  ASSUME NEW p \in Nat, NEW end \in Nat, p <= end, NEW C
  PROVE  \E q \in p .. end : (q = end \/ q \notin C) /\ \A k \in p .. q - 1 : k \in C
<1> DEFINE S == {q \in Nat : q \in p .. end /\ (q = end \/ q \notin C)}
<1>1. end \in S
  OBVIOUS
<1>2. PICK q \in S : \A r \in S : q <= r
  <2>1. S \in SUBSET Nat
    OBVIOUS
  <2> HIDE DEF S
  <2> QED BY <1>1, <2>1, LeastOne
<1>3. ASSUME NEW k \in p .. q - 1 PROVE k \in C
  <2>1. k \in Nat /\ k \in p .. end /\ ~(q <= k)
    BY <1>2
  <2> QED BY <1>2, <2>1
<1> QED BY <1>2, <1>3

\* Blanks from p up to q.
Blanks(s, p, q) == \A k \in p .. q - 1 : isspace(At(s, k))

\* SkipWhile() of blanks.
LEMMA SkipSpace ==
  ASSUME NEW s, NEW p \in Nat, NEW end \in Nat, p <= end
  PROVE  /\ SkipWhile(s, p, end, isspace) \in p .. end
         /\ \/ SkipWhile(s, p, end, isspace) = end
            \/ ~isspace(At(s, SkipWhile(s, p, end, isspace)))
         /\ Blanks(s, p, SkipWhile(s, p, end, isspace))
<1> DEFINE C == {k \in p .. end : isspace(At(s, k))}
           P(q) == (q = end \/ ~isspace(At(s, q))) /\ \A k \in p .. q - 1 : isspace(At(s, k))
<1>1. \E q \in p .. end : (q = end \/ q \notin C) /\ \A k \in p .. q - 1 : k \in C
  <2> HIDE DEF C
  <2> QED BY FirstNot
<1>2. \E q \in p .. end : P(q)
  BY <1>1
<1>3. SkipWhile(s, p, end, isspace) = CHOOSE q \in p .. end : P(q)
  BY DEF SkipWhile
<1> HIDE DEF P
<1>4. SkipWhile(s, p, end, isspace) \in p .. end /\ P(SkipWhile(s, p, end, isspace))
  BY <1>2, <1>3, Zenon
<1> QED BY <1>4 DEF P, Blanks

\* SkipWhile() of digits.
LEMMA SkipDigit ==
  ASSUME NEW s, NEW p \in Nat, NEW end \in Nat, p <= end
  PROVE  /\ SkipWhile(s, p, end, isdigit) \in p .. end
         /\ \/ SkipWhile(s, p, end, isdigit) = end
            \/ ~isdigit(At(s, SkipWhile(s, p, end, isdigit)))
         /\ \A k \in p .. SkipWhile(s, p, end, isdigit) - 1 : isdigit(At(s, k))
<1> DEFINE C == {k \in p .. end : isdigit(At(s, k))}
           P(q) == (q = end \/ ~isdigit(At(s, q))) /\ \A k \in p .. q - 1 : isdigit(At(s, k))
<1>1. \E q \in p .. end : (q = end \/ q \notin C) /\ \A k \in p .. q - 1 : k \in C
  <2> HIDE DEF C
  <2> QED BY FirstNot
<1>2. \E q \in p .. end : P(q)
  BY <1>1
<1>3. SkipWhile(s, p, end, isdigit) = CHOOSE q \in p .. end : P(q)
  BY DEF SkipWhile
<1> HIDE DEF P
<1>4. SkipWhile(s, p, end, isdigit) \in p .. end /\ P(SkipWhile(s, p, end, isdigit))
  BY <1>2, <1>3, Zenon
<1> QED BY <1>4 DEF P

\* Between p and q are blanks and, if q is the end, a comment.
Gap(s, p, q, end) ==
  \A k \in p .. q - 1 : isspace(At(s, k)) \/ (q = end /\ \E j \in p .. k : At(s, j) = "#")

\* What skip_shell_space() comes to is the end, or neither blank nor a comment.
LEMMA SkipFacts ==
  ASSUME NEW s, NEW p \in Nat, NEW end \in Nat, p <= end
  PROVE  /\ skip_shell_space(s, p, end) \in p .. end
         /\ skip_shell_space(s, p, end) # end =>
              /\ ~isspace(At(s, skip_shell_space(s, p, end)))
              /\ At(s, skip_shell_space(s, p, end)) # "#"
              /\ Blanks(s, p, skip_shell_space(s, p, end))
         /\ Gap(s, p, skip_shell_space(s, p, end), end)
<1> DEFINE q == SkipWhile(s, p, end, isspace)
           r == skip_shell_space(s, p, end)
<1>1. q \in p .. end /\ (q = end \/ ~isspace(At(s, q))) /\ Blanks(s, p, q)
  BY SkipSpace
<1>2. r = IF q # end /\ At(s, q) = "#" THEN end ELSE q
  BY DEF skip_shell_space
<1> HIDE DEF q, r
<1>3. CASE q # end /\ At(s, q) = "#"
  <2>1. ASSUME NEW k \in p .. end - 1, ~isspace(At(s, k)) PROVE \E j \in p .. k : At(s, j) = "#"
    <3>1. ~(k \in p .. q - 1)
      BY <1>1, <2>1 DEF Blanks
    <3>2. q \in p .. k
      BY <1>1, <3>1
    <3> QED BY <1>3, <3>2
  <2>2. r = end
    BY <1>2, <1>3
  <2>3. Gap(s, p, end, end)
    BY <2>1 DEF Gap
  <2> QED BY <2>2, <2>3 DEF r
<1>4. CASE ~(q # end /\ At(s, q) = "#")
  <2>1. r = q
    BY <1>2, <1>4
  <2>2. Gap(s, p, q, end)
    BY <1>1 DEF Gap, Blanks
  <2> QED BY <1>1, <1>4, <2>1, <2>2 DEF r
<1> QED BY <1>3, <1>4

-----------------------------------------------------------------------------
(* Words.                                                                  *)

\* The states of the loop over a word, and the function WordEnd() defines.
Marks == Quotes \cup {NUL}
WordStates(from, end) == [at : from .. end, curquote : Marks, quoted : BOOLEAN]
IsScan(scan, s, from, end) ==
  scan = [w \in [at : from .. end, curquote : Quotes \cup {NUL}, quoted : BOOLEAN] |->
            IF WordOver(s, end, w) THEN w ELSE scan[WordStep(s, end, w)]]
Scan(s, from, end) == CHOOSE scan : IsScan(scan, s, from, end)
WordStart(from) == [at |-> from, curquote |-> NUL, quoted |-> FALSE]

\* A step of the loop: one character, or two, the first of them a backslash.
LEMMA WordStepIn ==
  ASSUME NEW s, NEW from \in Nat, NEW end \in Nat, NEW w \in WordStates(from, end),
         ~WordOver(s, end, w)
  PROVE  /\ WordStep(s, end, w) \in WordStates(from, end)
         /\ w.at < WordStep(s, end, w).at
         /\ \/ WordStep(s, end, w).at = w.at + 1
            \/ /\ WordStep(s, end, w).at = w.at + 2 /\ w.at + 1 # end
               /\ At(s, w.at) = "\\" /\ WordStep(s, end, w).quoted
         /\ w.at \in Nat /\ w.at < end
<1> DEFINE v == WordStep(s, end, w)
<1>1. w.at \in from .. end /\ w.curquote \in Marks /\ w.quoted \in BOOLEAN
  BY DEF WordStates
<1>2. w.at # end
  BY DEF WordOver
<1>3. w.at \in Nat /\ w.at + 1 \in from .. end /\ (w.at + 1 # end => w.at + 2 \in from .. end)
      /\ w.at < w.at + 1 /\ w.at < w.at + 2 /\ w.at < end
  BY <1>1, <1>2
<1>4. NUL \in Marks
  BY DEF Marks
<1>5. CASE At(s, w.at) \in Quotes /\ w.curquote = NUL
  <2>1. At(s, w.at) \in Marks
    BY <1>5 DEF Marks
  <2>2. v = [at |-> w.at + 1, curquote |-> At(s, w.at), quoted |-> TRUE]
    BY <1>5 DEF WordStep
  <2> QED BY <1>3, <2>1, <2>2 DEF WordStates
<1>6. CASE ~(At(s, w.at) \in Quotes /\ w.curquote = NUL) /\ At(s, w.at) = w.curquote
  <2>1. v = [at |-> w.at + 1, curquote |-> NUL, quoted |-> w.quoted]
    BY <1>6 DEF WordStep
  <2> QED BY <1>1, <1>3, <1>4, <2>1 DEF WordStates
<1>7. CASE /\ ~(At(s, w.at) \in Quotes /\ w.curquote = NUL) /\ At(s, w.at) # w.curquote
           /\ At(s, w.at) = "\\" /\ w.at + 1 # end /\ w.curquote # "'"
  <2>1. v = [at |-> w.at + 2, curquote |-> w.curquote, quoted |-> TRUE]
    BY <1>7 DEF WordStep
  <2> QED BY <1>1, <1>3, <1>7, <2>1 DEF WordStates
<1>8. CASE /\ ~(At(s, w.at) \in Quotes /\ w.curquote = NUL) /\ At(s, w.at) # w.curquote
           /\ ~(At(s, w.at) = "\\" /\ w.at + 1 # end /\ w.curquote # "'")
  <2>1. v = [at |-> w.at + 1, curquote |-> w.curquote, quoted |-> w.quoted]
    BY <1>8 DEF WordStep
  <2> QED BY <1>1, <1>3, <2>1 DEF WordStates
<1> QED BY <1>5, <1>6, <1>7, <1>8

\* The function exists.
LEMMA ScanDef ==
  ASSUME NEW s, NEW from \in Nat, NEW end \in Nat
  PROVE  /\ \A w \in WordStates(from, end) :
              Scan(s, from, end)[w] =
                IF WordOver(s, end, w) THEN w ELSE Scan(s, from, end)[WordStep(s, end, w)]
         /\ WordEnd(s, from, end) = Scan(s, from, end)[WordStart(from)]
<1> DEFINE D == WordStates(from, end)
           Stop == {w \in D : WordOver(s, end, w)}
           base == [w \in D |-> w]
           nxt == [w \in D |-> WordStep(s, end, w)]
           rank == [w \in D |-> end - w.at]
<1>1. \A w \in D : rank[w] \in 0 .. end
  BY DEF WordStates
<1>2. \A w \in D : w \notin Stop => nxt[w] \in D /\ rank[nxt[w]] < rank[w]
  <2> SUFFICES ASSUME NEW w \in D, w \notin Stop PROVE nxt[w] \in D /\ rank[nxt[w]] < rank[w]
    OBVIOUS
  <2> DEFINE v == WordStep(s, end, w)
  <2>1. v \in D /\ w.at < v.at
    BY WordStepIn
  <2>2. v.at \in Nat /\ w.at \in Nat
    BY <2>1 DEF WordStates
  <2>3. nxt[w] = v /\ rank[v] = end - v.at /\ rank[w] = end - w.at
    BY <2>1
  <2> HIDE DEF D, nxt, rank, v
  <2> QED BY <2>1, <2>2, <2>3
<1>3. \E f : Calls(f, D, Stop, base, D, base, nxt)
  <2> HIDE DEF D, Stop, base, nxt, rank
  <2> QED BY <1>1, <1>2, Recursion
<1>4. PICK f : f = [w \in D |-> IF w \in Stop THEN base[w] ELSE f[nxt[w]]]
  <2> HIDE DEF D, Stop, base, nxt
  <2> QED BY <1>3 DEF Calls
<1>5. \A w \in D : f[w] = IF WordOver(s, end, w) THEN w ELSE f[WordStep(s, end, w)]
  <2> SUFFICES ASSUME NEW w \in D
               PROVE f[w] = IF WordOver(s, end, w) THEN w ELSE f[WordStep(s, end, w)]
    OBVIOUS
  <2>1. f[w] = IF w \in Stop THEN base[w] ELSE f[nxt[w]]
    <3> HIDE DEF D, Stop, base, nxt
    <3> QED BY <1>4
  <2>2. (w \in Stop <=> WordOver(s, end, w)) /\ base[w] = w /\ nxt[w] = WordStep(s, end, w)
    OBVIOUS
  <2> HIDE DEF D, Stop, base, nxt
  <2> QED BY <2>1, <2>2
<1>6. f = [w \in D |-> f[w]]
  <2> HIDE DEF D, Stop, base, nxt
  <2> QED BY <1>4
<1>7. IsScan(f, s, from, end)
  <2> HIDE DEF Stop, base, nxt, rank
  <2>1. f = [w \in D |-> IF WordOver(s, end, w) THEN w ELSE f[WordStep(s, end, w)]]
    <3> HIDE DEF D
    <3> QED BY <1>5, <1>6
  <2> QED BY <2>1 DEF IsScan, WordStates, Marks
<1>8. IsScan(Scan(s, from, end), s, from, end)
  BY <1>7, Zenon DEF Scan
<1>9. WordEnd(s, from, end) = Scan(s, from, end)[WordStart(from)]
  BY DEF WordEnd, Scan, IsScan, WordStart
<1> QED BY <1>8, <1>9 DEF IsScan, WordStates, Marks

\* A quote, or a backslash with something to escape.
Escapes(s, p, end) == At(s, p) \in Quotes \/ (At(s, p) = "\\" /\ p + 1 < end)
\* Within quotes the word is known to be quoted.
Fair(w) == w.curquote = NUL \/ w.quoted

\* A step of the loop marks the word as quoted if what it passes is.
LEMMA WordStepMarks ==
  ASSUME NEW s, NEW from \in Nat, NEW end \in Nat, NEW w \in WordStates(from, end),
         ~WordOver(s, end, w), Fair(w)
  PROVE  /\ Fair(WordStep(s, end, w))
         /\ WordStep(s, end, w).quoted <=> w.quoted \/ Escapes(s, w.at, end)
<1> DEFINE v == WordStep(s, end, w)
<1>1. w.at \in from .. end /\ w.curquote \in Marks /\ w.quoted \in BOOLEAN
  BY DEF WordStates
<1>2. w.at # end
  BY DEF WordOver
<1>3. w.at + 1 < end <=> w.at + 1 # end
  BY <1>1, <1>2
<1>4. NUL \notin Quotes /\ "\\" \notin Quotes /\ NUL # "\\" /\ "'" \in Quotes
  BY DEF NUL, Quotes
<1>5. CASE At(s, w.at) \in Quotes /\ w.curquote = NUL
  <2>1. v = [at |-> w.at + 1, curquote |-> At(s, w.at), quoted |-> TRUE]
    BY <1>5 DEF WordStep
  <2> QED BY <1>5, <2>1 DEF Fair, Escapes
<1>6. CASE ~(At(s, w.at) \in Quotes /\ w.curquote = NUL) /\ At(s, w.at) = w.curquote
  <2>1. v = [at |-> w.at + 1, curquote |-> NUL, quoted |-> w.quoted]
    BY <1>6 DEF WordStep
  <2>2. w.quoted \/ ~Escapes(s, w.at, end)
    BY <1>4, <1>6 DEF Fair, Escapes
  <2>3. v.curquote = NUL /\ v.quoted = w.quoted
    BY <2>1
  <2> QED BY <2>2, <2>3 DEF Fair
<1>7. CASE /\ ~(At(s, w.at) \in Quotes /\ w.curquote = NUL) /\ At(s, w.at) # w.curquote
           /\ At(s, w.at) = "\\" /\ w.at + 1 # end /\ w.curquote # "'"
  <2>1. v = [at |-> w.at + 2, curquote |-> w.curquote, quoted |-> TRUE]
    BY <1>7 DEF WordStep
  <2> QED BY <1>3, <1>7, <2>1 DEF Fair, Escapes
<1>8. CASE /\ ~(At(s, w.at) \in Quotes /\ w.curquote = NUL) /\ At(s, w.at) # w.curquote
           /\ ~(At(s, w.at) = "\\" /\ w.at + 1 # end /\ w.curquote # "'")
  <2>1. v = [at |-> w.at + 1, curquote |-> w.curquote, quoted |-> w.quoted]
    BY <1>8 DEF WordStep
  <2>2. w.quoted \/ ~Escapes(s, w.at, end)
    BY <1>3, <1>4, <1>8 DEF Fair, Escapes
  <2>3. v.curquote = w.curquote /\ v.quoted = w.quoted
    BY <2>1
  <2> QED BY <2>2, <2>3 DEF Fair
<1> QED BY <1>5, <1>6, <1>7, <1>8

\* What the loop over a word comes to from state w on.
ScanRight(s, from, end, w, r) ==
  /\ r \in WordStates(from, end) /\ w.at <= r.at /\ WordOver(s, end, r)
  /\ Fair(w) => (r.quoted <=> w.quoted \/ \E k \in w.at .. r.at - 1 : Escapes(s, k, end))

\* The loop over a word ends, and marks the word iff it passes a quote or an escape.
LEMMA ScanFacts ==
  ASSUME NEW s, NEW from \in Nat, NEW end \in Nat
  PROVE  \A w \in WordStates(from, end) :
           ScanRight(s, from, end, w, Scan(s, from, end)[w])
<1> DEFINE D == WordStates(from, end)
           F == Scan(s, from, end)
           G == {w \in D : ScanRight(s, from, end, w, F[w])}
           rank == [w \in D |-> end - w.at]
<1>1. \A w \in D : rank[w] \in Nat /\ w.at \in Nat /\ rank[w] = end - w.at
  BY DEF WordStates
<1>2. ASSUME NEW w \in D, \A y \in D : rank[y] < rank[w] => y \in G PROVE w \in G
  <2>1. F[w] = IF WordOver(s, end, w) THEN w ELSE F[WordStep(s, end, w)]
    BY ScanDef
  <2>2. CASE WordOver(s, end, w)
    <3>1. F[w] = w
      BY <2>1, <2>2
    <3>2. w.at .. w.at - 1 = {} /\ w.at <= w.at
      BY <1>1
    <3>3. ScanRight(s, from, end, w, w)
      BY <2>2, <3>2 DEF ScanRight
    <3> QED BY <3>1, <3>3
  <2>3. CASE ~WordOver(s, end, w)
    <3> DEFINE v == WordStep(s, end, w)
               r == F[w]
    <3>1. /\ v \in D /\ w.at < v.at /\ w.at \in Nat /\ w.at < end
          /\ v.at = w.at + 1 \/ (v.at = w.at + 2 /\ v.quoted)
      BY <2>3, WordStepIn
    <3>2. Fair(w) => Fair(v) /\ (v.quoted <=> w.quoted \/ Escapes(s, w.at, end))
      BY <2>3, WordStepMarks
    <3>3. r = F[v]
      BY <2>1, <2>3
    <3> HIDE DEF F, v, D
    <3>4. rank[v] < rank[w]
      BY <1>1, <3>1
    <3>5. ScanRight(s, from, end, v, r)
      BY <1>2, <3>1, <3>3, <3>4
    <3> HIDE DEF r
    <3>6. r \in D /\ v.at <= r.at /\ WordOver(s, end, r) /\ r.at \in Nat /\ v.at \in Nat
      BY <1>1, <3>1, <3>5 DEF ScanRight, D
    <3>7. w.at <= r.at
      BY <3>1, <3>6
    <3>8. ASSUME Fair(w)
          PROVE  r.quoted <=> w.quoted \/ \E k \in w.at .. r.at - 1 : Escapes(s, k, end)
      <4>1. r.quoted <=> v.quoted \/ \E k \in v.at .. r.at - 1 : Escapes(s, k, end)
        BY <3>2, <3>5, <3>8 DEF ScanRight
      <4>2. w.at \in w.at .. r.at - 1 /\ v.at .. r.at - 1 \subseteq w.at .. r.at - 1
        BY <3>1, <3>6
      <4>3. CASE v.at = w.at + 1
        <5>1. \A k \in w.at .. r.at - 1 : k = w.at \/ k \in v.at .. r.at - 1
          BY <3>1, <3>6, <4>3
        <5> QED BY <3>2, <3>8, <4>1, <4>2, <5>1
      <4>4. CASE v.at = w.at + 2 /\ v.quoted
        BY <3>2, <3>8, <4>1, <4>2, <4>4
      <4> QED BY <3>1, <4>3, <4>4
    <3>9. ScanRight(s, from, end, w, r)
      BY <3>6, <3>7, <3>8 DEF ScanRight, D
    <3> QED BY <3>9 DEF r
  <2> QED BY <2>2, <2>3
<1>3. \A w \in D : w \in G
  <2> HIDE DEF D, G, rank
  <2>1. \A w \in D : rank[w] \in Nat
    BY <1>1
  <2> QED BY <1>2, <2>1, RankInduction
<1> QED BY <1>3

-----------------------------------------------------------------------------
(* Tokens.                                                                 *)

\* A word is not empty, and marked as quoted if it is.
LEMMA WordFacts ==
  ASSUME NEW s, NEW at \in Nat, NEW end \in Nat, at < end,
         ~isspace(At(s, at)), ~isshellspecial(At(s, at))
  PROVE  /\ WordEnd(s, at, end) \in WordStates(at, end)
         /\ at < WordEnd(s, at, end).at /\ WordOver(s, end, WordEnd(s, at, end))
         /\ WordEnd(s, at, end).quoted
              <=> \E k \in at .. WordEnd(s, at, end).at - 1 : Escapes(s, k, end)
<1> DEFINE w == WordStart(at)
           v == WordStep(s, end, w)
           r == WordEnd(s, at, end)
<1>1. w \in WordStates(at, end) /\ w.at = at /\ w.curquote = NUL /\ ~w.quoted
  BY DEF WordStart, WordStates, Marks
<1>2. Fair(w) /\ ~WordOver(s, end, w)
  BY <1>1 DEF Fair, WordOver
<1>3. v \in WordStates(at, end) /\ w.at < v.at
  BY <1>1, <1>2, WordStepIn
<1>4. r = Scan(s, at, end)[w] /\ r = Scan(s, at, end)[v]
  BY <1>1, <1>2, ScanDef
<1> HIDE DEF w, v, r
<1>5. ScanRight(s, at, end, w, r) /\ ScanRight(s, at, end, v, r)
  BY <1>1, <1>3, <1>4, ScanFacts
<1>6. r \in WordStates(at, end) /\ v.at <= r.at /\ WordOver(s, end, r)
  BY <1>5 DEF ScanRight
<1>7. r.at \in Nat /\ v.at \in Nat /\ at < r.at
  BY <1>1, <1>3, <1>6 DEF WordStates
<1>8. r.quoted <=> \E k \in at .. r.at - 1 : Escapes(s, k, end)
  BY <1>1, <1>2, <1>5 DEF ScanRight
<1> QED BY <1>6, <1>7, <1>8 DEF r

\* A redirection is not empty, and < and > begin one.
LEMMA RedirectFacts ==
  ASSUME NEW s, NEW at \in Nat, NEW end \in Nat, at < end
  PROVE  /\ \/ RedirectEnd(s, at, end) = NotRedirect
            \/ RedirectEnd(s, at, end) \in at + 1 .. end
         /\ At(s, at) \in {"<", ">"} => RedirectEnd(s, at, end) # NotRedirect
<1>0. at <= end
  OBVIOUS
<1> DEFINE p == SkipWhile(s, at, end, isdigit)
           q == SkipWhile(s, p + 1, end, isdigit)
           r == RedirectEnd(s, at, end)
<1>1. /\ p \in at .. end /\ (p = end \/ ~isdigit(At(s, p)))
      /\ \A k \in at .. p - 1 : isdigit(At(s, k))
  BY <1>0, SkipDigit
<1>2. r = IF p = end \/ At(s, p) \notin {"<", ">"} THEN NotRedirect
          ELSE IF p + 1 # end /\ At(s, p + 1) = ">" THEN p + 2 ELSE q
  BY DEF RedirectEnd
<1>3. p # end => q \in p + 1 .. end
  <2> SUFFICES ASSUME p # end PROVE q \in p + 1 .. end
    OBVIOUS
  <2>1. p + 1 \in Nat /\ p + 1 <= end
    BY <1>1
  <2> HIDE DEF p
  <2> QED BY <2>1, SkipDigit
<1> HIDE DEF p, q
<1>4. At(s, at) \in {"<", ">"} => p = at
  <2>1. At(s, at) \in {"<", ">"} => ~isdigit(At(s, at))
    BY DEF isdigit
  <2>2. p # at => at \in at .. p - 1
    BY <1>1
  <2> QED BY <1>1, <2>1, <2>2
<1> HIDE DEF r
<1>5. CASE p = end \/ At(s, p) \notin {"<", ">"}
  <2>1. r = NotRedirect
    BY <1>2, <1>5
  <2>2. At(s, at) \notin {"<", ">"}
    BY <1>4, <1>5
  <2> QED BY <2>1, <2>2 DEF r
<1>6. CASE ~(p = end \/ At(s, p) \notin {"<", ">"})
  <2>1. r = IF p + 1 # end /\ At(s, p + 1) = ">" THEN p + 2 ELSE q
    BY <1>2, <1>6
  <2>2. (p + 1 # end => p + 2 \in at + 1 .. end) /\ (q \in p + 1 .. end => q \in at + 1 .. end)
    BY <1>1, <1>6
  <2>3. r \in at + 1 .. end
    BY <1>3, <1>6, <2>1, <2>2
  <2>4. r # NotRedirect
    BY <2>3 DEF NotRedirect
  <2> QED BY <2>3, <2>4 DEF r
<1> QED BY <1>5, <1>6

\* What is right about a token at position `at`.
TokenRight(s, at, end, t) ==
  /\ \E len \in Nat, type \in TokenTypes, quoted \in BOOLEAN :
       t = [s |-> at, len |-> len, end |-> end, type |-> type, quoted |-> quoted]
  /\ at + t.len <= end
  /\ at = end => t.len = 0 /\ t.type = "EOL"
  /\ at # end => t.len > 0 /\ t.type # "EOL"
  /\ t.type # "OTHER"
  /\ t.type = "NORMAL" => (t.quoted <=> \E k \in at .. at + t.len - 1 : Escapes(s, k, end))

\* Where a token may begin.
TokenStart(s, at, end) ==
  at \in Nat /\ at <= end /\ (at # end => ~isspace(At(s, at)) /\ At(s, at) # "#")

\* operator++ finds a token where one may begin, and what it says of it is right.
LEMMA TokenFacts ==
  ASSUME NEW s, NEW at, NEW end \in Nat, TokenStart(s, at, end)
  PROVE  TokenRight(s, at, end, TokenAt(s, at, end))
<1> DEFINE tok(type, q, quoted) ==
             [s |-> at, len |-> q - at, end |-> end, type |-> type, quoted |-> quoted]
           t == TokenAt(s, at, end)
<1>0. at \in Nat /\ at <= end /\ (at # end => ~isspace(At(s, at)) /\ At(s, at) # "#")
  BY DEF TokenStart
<1>1. ASSUME NEW type \in TokenTypes, NEW q \in at + 1 .. end, NEW quoted \in BOOLEAN, at # end,
             type # "EOL", type # "OTHER",
             type = "NORMAL" => (quoted <=> \E k \in at .. q - 1 : Escapes(s, k, end))
      PROVE  TokenRight(s, at, end, tok(type, q, quoted))
  <2>1. q - at \in Nat /\ at + (q - at) = q /\ q - at > 0 /\ q <= end
    BY <1>0, <1>1
  <2> DEFINE u == tok(type, q, quoted)
  <2>2. u.len = q - at /\ u.type = type /\ u.quoted = quoted
    OBVIOUS
  <2>3. \E l \in Nat, ty \in TokenTypes, qd \in BOOLEAN :
          u = [s |-> at, len |-> l, end |-> end, type |-> ty, quoted |-> qd]
    BY <2>1
  <2> HIDE DEF u
  <2>4. at + u.len = q
    BY <2>1, <2>2
  <2>5. u.type = "NORMAL" => (u.quoted <=> \E k \in at .. at + u.len - 1 : Escapes(s, k, end))
    <3>1. at + u.len - 1 = q - 1
      BY <1>0, <1>1, <2>2, <2>4
    <3> QED BY <1>1, <2>2, <3>1, Zenon
  <2>6. /\ at + u.len <= end /\ (at = end => u.len = 0 /\ u.type = "EOL")
        /\ (at # end => u.len > 0 /\ u.type # "EOL") /\ u.type # "OTHER"
    BY <1>1, <2>1, <2>2, <2>4
  <2>7. TokenRight(s, at, end, u)
    BY <2>3, <2>5, <2>6, Zenon DEF TokenRight
  <2> QED BY <2>7 DEF u
<1>2. CASE at = end
  <2>1. t = tok("EOL", at, FALSE)
    BY <1>2 DEF TokenAt
  <2>2. at - at = 0 /\ at + 0 <= end /\ 0 \in Nat
    BY <1>0, <1>2
  <2>3. "EOL" \in TokenTypes /\ FALSE \in BOOLEAN
    BY DEF TokenTypes
  <2>4. t = [s |-> at, len |-> 0, end |-> end, type |-> "EOL", quoted |-> FALSE]
    BY <2>1, <2>2
  <2>5. t.len = 0 /\ t.type = "EOL"
    BY <2>4
  <2>6. \E l \in Nat, ty \in TokenTypes, qd \in BOOLEAN :
          t = [s |-> at, len |-> l, end |-> end, type |-> ty, quoted |-> qd]
    BY <2>2, <2>3, <2>4
  <2> HIDE DEF t
  <2>7. TokenRight(s, at, end, t)
    BY <1>2, <2>2, <2>5, <2>6 DEF TokenRight
  <2> QED BY <2>7 DEF t
<1>3. CASE at # end /\ RedirectEnd(s, at, end) # NotRedirect
  <2>1. t = tok("REDIRECT_OP", RedirectEnd(s, at, end), FALSE)
    BY <1>3 DEF TokenAt
  <2>2. at < end
    BY <1>0, <1>3
  <2>3. RedirectEnd(s, at, end) \in at + 1 .. end
    BY <1>0, <1>3, <2>2, RedirectFacts
  <2> HIDE DEF tok
  <2>4. "REDIRECT_OP" \in TokenTypes
    BY DEF TokenTypes
  <2> QED BY <1>1, <1>3, <2>1, <2>3, <2>4
<1>4. CASE at # end /\ RedirectEnd(s, at, end) = NotRedirect /\ IsDouble(s, at, end)
  <2>1. t = tok(IF At(s, at) = "&" THEN "AND" ELSE "OR", at + 2, FALSE)
    BY <1>4 DEF TokenAt
  <2>2. at + 2 \in at + 1 .. end
    BY <1>0, <1>4 DEF IsDouble
  <2> HIDE DEF tok
  <2>3. "AND" \in TokenTypes /\ "OR" \in TokenTypes
    BY DEF TokenTypes
  <2>4. CASE At(s, at) = "&"
    BY <1>1, <1>4, <2>1, <2>2, <2>3, <2>4
  <2>5. CASE At(s, at) # "&"
    BY <1>1, <1>4, <2>1, <2>2, <2>3, <2>5
  <2> QED BY <2>4, <2>5
<1>5. CASE /\ at # end /\ RedirectEnd(s, at, end) = NotRedirect /\ ~IsDouble(s, at, end)
           /\ isshellspecial(At(s, at))
  <2>1. t = tok(OneCharType(At(s, at)), at + 1, FALSE)
    BY <1>5 DEF TokenAt
  <2>2. at + 1 \in at + 1 .. end /\ at < end
    BY <1>0, <1>5
  <2>3. At(s, at) \notin {"<", ">", "#"}
    BY <1>0, <1>5, <2>2, RedirectFacts
  <2>4. OneCharType(At(s, at)) \in {"SEQUENCE", "BACKGROUND", "PIPE", "LPAREN", "RPAREN"}
    BY <1>5, <2>3 DEF isshellspecial, OneCharType
  <2>5. OneCharType(At(s, at)) \in TokenTypes \ {"EOL", "OTHER", "NORMAL"}
    BY <2>4 DEF TokenTypes
  <2> HIDE DEF tok
  <2> QED BY <1>1, <1>5, <2>1, <2>2, <2>5
<1>6. CASE /\ at # end /\ RedirectEnd(s, at, end) = NotRedirect /\ ~IsDouble(s, at, end)
           /\ ~isshellspecial(At(s, at))
  <2> DEFINE w == WordEnd(s, at, end)
  <2>1. t = tok("NORMAL", w.at, w.quoted)
    BY <1>6 DEF TokenAt
  <2>2. at < end /\ ~isspace(At(s, at))
    BY <1>0, <1>6
  <2>3. /\ w \in WordStates(at, end) /\ at < w.at
        /\ w.quoted <=> \E k \in at .. w.at - 1 : Escapes(s, k, end)
    BY <1>0, <1>6, <2>2, WordFacts
  <2>4. w.at \in at + 1 .. end /\ w.quoted \in BOOLEAN
    BY <1>0, <2>3 DEF WordStates
  <2>5. "NORMAL" \in TokenTypes
    BY DEF TokenTypes
  <2> HIDE DEF tok, w
  <2> QED BY <1>1, <1>6, <2>1, <2>3, <2>4, <2>5
<1> QED BY <1>2, <1>3, <1>4, <1>5, <1>6

\* t is the token after position p.
TokenAfter(s, p, end, t) ==
  /\ p <= t.s /\ TokenStart(s, t.s, end) /\ t = TokenAt(s, t.s, end)
  /\ TokenRight(s, t.s, end, t)
  /\ Gap(s, p, t.s, end) /\ (t.s # end => Blanks(s, p, t.s))

\* The members of a token.
LEMMA TokenFields ==
  ASSUME NEW s, NEW at, NEW end, NEW t, TokenRight(s, at, end, t)
  PROVE  t.s = at /\ t.end = end /\ t.len \in Nat /\ t.type \in TokenTypes /\ t.quoted \in BOOLEAN
<1>1. PICK len \in Nat, type \in TokenTypes, quoted \in BOOLEAN :
        t = [s |-> at, len |-> len, end |-> end, type |-> type, quoted |-> quoted]
  BY Zenon DEF TokenRight
<1> QED BY <1>1

\* A token is one of its region.
LEMMA TokenInRegion ==
  ASSUME NEW s, NEW at \in Nat, NEW end \in Nat, NEW t, TokenRight(s, at, end, t),
         NEW first \in Nat, first <= at
  PROVE  t \in TokensIn(first, end)
<1>1. PICK len \in Nat, type \in TokenTypes, quoted \in BOOLEAN :
        t = [s |-> at, len |-> len, end |-> end, type |-> type, quoted |-> quoted]
  BY Zenon DEF TokenRight
<1>2. t.len = len /\ t.s = at
  BY <1>1
<1>3. at + len <= end
  BY <1>2 DEF TokenRight
<1>4. at \in first .. end /\ len \in 0 .. end
  BY <1>1, <1>3
<1> QED BY <1>1, <1>2, <1>3, <1>4 DEF TokensIn

\* So it does after blanks and a comment.
LEMMA TokenFromFacts ==
  ASSUME NEW s, NEW p \in Nat, NEW end \in Nat, p <= end
  PROVE  TokenAfter(s, p, end, TokenFrom(s, p, end))
<1> DEFINE q == skip_shell_space(s, p, end)
           t == TokenFrom(s, p, end)
<1>1. /\ q \in p .. end /\ Gap(s, p, q, end)
      /\ q # end => ~isspace(At(s, q)) /\ At(s, q) # "#" /\ Blanks(s, p, q)
  BY SkipFacts
<1>2. t = TokenAt(s, q, end)
  BY DEF TokenFrom
<1> HIDE DEF q, t
<1>3. TokenStart(s, q, end)
  BY <1>1 DEF TokenStart
<1>4. TokenRight(s, q, end, t)
  BY <1>2, <1>3, TokenFacts
<1>5. t.s = q
  BY <1>4, TokenFields
<1>6. TokenAfter(s, p, end, t)
  BY <1>1, <1>2, <1>3, <1>4, <1>5 DEF TokenAfter
<1> QED BY <1>6 DEF t

\* The token after another.
LEMMA AdvanceFacts ==
  ASSUME NEW s, NEW first \in Nat, NEW last \in Nat, NEW t \in TokensIn(first, last)
  PROVE  /\ t.s \in first .. last /\ t.len \in Nat /\ t.s + t.len \in first .. last
         /\ t.end = last
         /\ TokenAfter(s, t.s + t.len, last, Advance(s, t))
         /\ Advance(s, t) \in TokensIn(first, last)
<1>1. t.s \in first .. last /\ t.len \in 0 .. last /\ t.end = last /\ t.s + t.len <= last
  BY DEF TokensIn
<1>2. t.len \in Nat /\ t.s + t.len \in first .. last /\ t.s + t.len \in Nat
  BY <1>1
<1> DEFINE u == Advance(s, t)
<1>3. TokenAfter(s, t.s + t.len, last, u)
  BY <1>1, <1>2, TokenFromFacts DEF Advance
<1> HIDE DEF u
<1>4. TokenRight(s, u.s, last, u) /\ u.s \in Nat /\ t.s + t.len <= u.s
  BY <1>3 DEF TokenAfter, TokenStart
<1>5. first <= u.s
  BY <1>2, <1>4
<1>6. u \in TokensIn(first, last)
  BY <1>4, <1>5, TokenInRegion
<1> QED BY <1>1, <1>2, <1>3, <1>6 DEF u

\* The function Tokens() defines.
IsTokens(from, s, first, last) ==
  from = [t \in TokensIn(first, last) |-> IF t.s = last THEN <<>> ELSE <<t>> \o from[Advance(s, t)]]
TokenList(s, first, last) == CHOOSE from : IsTokens(from, s, first, last)

\* A token after one that is not at the end is nearer to the end.
TokenRank(last, t) == IF t.s = last THEN 0 ELSE 1 + (last - (t.s + t.len))

\* The rank of a token is a number, and falls with each token.
LEMMA TokenRankFacts ==
  ASSUME NEW s, NEW first \in Nat, NEW last \in Nat, NEW t \in TokensIn(first, last)
  PROVE  /\ TokenRank(last, t) \in 0 .. last + 1
         /\ t.s # last => TokenRank(last, Advance(s, t)) < TokenRank(last, t)
<1> DEFINE u == Advance(s, t)
<1>1. /\ t.s \in first .. last /\ t.len \in Nat /\ t.s + t.len \in first .. last
      /\ TokenAfter(s, t.s + t.len, last, u)
  BY AdvanceFacts
<1> HIDE DEF u
<1>2. TokenRank(last, t) \in 0 .. last + 1
  BY <1>1 DEF TokenRank
<1>3. ASSUME t.s # last PROVE TokenRank(last, u) < TokenRank(last, t)
  <2>1. u.s \in Nat /\ t.s + t.len <= u.s /\ TokenRight(s, u.s, last, u)
    BY <1>1 DEF TokenAfter, TokenStart
  <2>2. u.len \in Nat /\ (u.s # last => u.len > 0) /\ u.s + u.len <= last
    BY <2>1, TokenFields DEF TokenRight
  <2>3. CASE u.s = last
    BY <1>1, <1>3, <2>3 DEF TokenRank
  <2>4. CASE u.s # last
    BY <1>1, <1>3, <2>1, <2>2, <2>4 DEF TokenRank
  <2> QED BY <2>3, <2>4
<1> QED BY <1>2, <1>3 DEF u

\* The function exists.
LEMMA TokensDef ==
  ASSUME NEW s, NEW first \in Nat, NEW last \in Nat
  PROVE  /\ \A t \in TokensIn(first, last) :
              TokenList(s, first, last)[t] =
                IF t.s = last THEN <<>> ELSE <<t>> \o TokenList(s, first, last)[Advance(s, t)]
         /\ Tokens(s, first, last) = TokenList(s, first, last)[Tokenizer(s, first, last)]
<1> DEFINE D == TokensIn(first, last)
           Stop == {t \in D : t.s = last}
           base == [t \in D |-> <<>>]
           pre == [t \in D |-> <<t>>]
           nxt == [t \in D |-> Advance(s, t)]
           rank == [t \in D |-> TokenRank(last, t)]
<1>1. \A t \in D : rank[t] \in 0 .. last + 1
  <2> SUFFICES ASSUME NEW t \in D PROVE TokenRank(last, t) \in 0 .. last + 1
    OBVIOUS
  <2> QED BY TokenRankFacts
<1>2. \A t \in D : t \notin Stop => nxt[t] \in D /\ rank[nxt[t]] < rank[t]
  <2> SUFFICES ASSUME NEW t \in D, t \notin Stop PROVE nxt[t] \in D /\ rank[nxt[t]] < rank[t]
    OBVIOUS
  <2>1. Advance(s, t) \in D /\ TokenRank(last, Advance(s, t)) < TokenRank(last, t)
    BY AdvanceFacts, TokenRankFacts
  <2> HIDE DEF D
  <2> QED BY <2>1
<1>3. \E f : Calls(f, D, Stop, base, {}, pre, nxt)
  <2>1. last + 1 \in Nat
    OBVIOUS
  <2> HIDE DEF D, Stop, base, pre, nxt, rank
  <2> QED BY <1>1, <1>2, <2>1, Recursion
<1>4. PICK f : f = [t \in D |-> IF t \in Stop THEN base[t] ELSE pre[t] \o f[nxt[t]]]
  <2> HIDE DEF D, Stop, base, pre, nxt
  <2> QED BY <1>3 DEF Calls
<1>5. \A t \in D : f[t] = IF t.s = last THEN <<>> ELSE <<t>> \o f[Advance(s, t)]
  <2> SUFFICES ASSUME NEW t \in D
               PROVE  f[t] = IF t.s = last THEN <<>> ELSE <<t>> \o f[Advance(s, t)]
    OBVIOUS
  <2>1. f[t] = IF t \in Stop THEN base[t] ELSE pre[t] \o f[nxt[t]]
    <3> HIDE DEF D, Stop, base, pre, nxt
    <3> QED BY <1>4
  <2>2. (t \in Stop <=> t.s = last) /\ base[t] = <<>> /\ pre[t] = <<t>> /\ nxt[t] = Advance(s, t)
    <3> HIDE DEF D
    <3> QED OBVIOUS
  <2> HIDE DEF D, Stop, base, pre, nxt
  <2> QED BY <2>1, <2>2
<1>6. IsTokens(f, s, first, last)
  <2>1. f = [t \in D |-> f[t]]
    <3> HIDE DEF D, Stop, base, pre, nxt
    <3> QED BY <1>4
  <2> HIDE DEF Stop, base, pre, nxt, rank
  <2>2. f = [t \in D |-> IF t.s = last THEN <<>> ELSE <<t>> \o f[Advance(s, t)]]
    <3> HIDE DEF D
    <3> QED BY <1>5, <2>1
  <2> QED BY <2>2 DEF IsTokens
<1>7. IsTokens(TokenList(s, first, last), s, first, last)
  BY <1>6, Zenon DEF TokenList
<1>8. Tokens(s, first, last) = TokenList(s, first, last)[Tokenizer(s, first, last)]
  BY DEF Tokens, TokenList, IsTokens
<1> QED BY <1>7, <1>8 DEF IsTokens

-----------------------------------------------------------------------------
(* The tokens of a region.                                                 *)

\* A sequence with one more member in front.
LEMMA ConsFacts ==
  ASSUME NEW S, NEW x \in S, NEW M \in Seq(S)
  PROVE  /\ <<x>> \o M \in Seq(S) /\ Len(<<x>> \o M) = 1 + Len(M) /\ Len(M) \in Nat
         /\ (<<x>> \o M)[1] = x /\ \A i \in 1 .. Len(M) : (<<x>> \o M)[i + 1] = M[i]
<1>1. <<x>> \in Seq(S) /\ Len(<<x>>) = 1 /\ <<x>>[1] = x
  OBVIOUS
<1>2. Len(M) \in Nat
  BY LenProperties
<1>3. /\ <<x>> \o M \in Seq(S) /\ Len(<<x>> \o M) = Len(<<x>>) + Len(M)
      /\ \A i \in 1 .. Len(<<x>>) + Len(M) :
           (<<x>> \o M)[i] = IF i <= Len(<<x>>) THEN <<x>>[i] ELSE M[i - Len(<<x>>)]
  BY <1>1, ConcatProperties
<1> DEFINE L == <<x>> \o M
           one == <<x>>
<1> HIDE DEF L, one
<1>4. \A i \in 1 .. 1 + Len(M) : L[i] = IF i <= 1 THEN x ELSE M[i - 1]
  BY <1>1, <1>3 DEF L
<1>5. L[1] = x
  BY <1>2, <1>4
<1>6. ASSUME NEW i \in 1 .. Len(M) PROVE L[i + 1] = M[i]
  <2>1. i + 1 \in 1 .. 1 + Len(M) /\ ~(i + 1 <= 1) /\ i + 1 - 1 = i
    BY <1>2
  <2> QED BY <1>4, <2>1
<1> QED BY <1>1, <1>2, <1>3, <1>5, <1>6 DEF L

\* L is the tokens from token t on, which operator++ gives one after another.
Chained(s, first, last, t, L) ==
  /\ L \in Seq(TokensIn(first, last))
  /\ t.s = last => L = <<>>
  /\ t.s # last => Len(L) > 0 /\ L[1] = t
  /\ \A i \in 1 .. Len(L) : L[i].s # last /\ TokenRight(s, L[i].s, last, L[i])
  /\ \A i \in 1 .. Len(L) - 1 : L[i + 1] = Advance(s, L[i])
  /\ Len(L) > 0 => Advance(s, L[Len(L)]).s = last

\* One more token.
LEMMA ChainStep ==
  ASSUME NEW s, NEW first \in Nat, NEW last \in Nat, NEW t \in TokensIn(first, last), t.s # last,
         TokenRight(s, t.s, last, t), NEW M, Chained(s, first, last, Advance(s, t), M)
  PROVE  Chained(s, first, last, t, <<t>> \o M)
<1> DEFINE L == <<t>> \o M
           u == Advance(s, t)
<1>1. /\ M \in Seq(TokensIn(first, last)) /\ (u.s = last => M = <<>>)
      /\ u.s # last => Len(M) > 0 /\ M[1] = u
      /\ \A i \in 1 .. Len(M) : M[i].s # last /\ TokenRight(s, M[i].s, last, M[i])
      /\ \A i \in 1 .. Len(M) - 1 : M[i + 1] = Advance(s, M[i])
      /\ Len(M) > 0 => Advance(s, M[Len(M)]).s = last
  BY DEF Chained
<1>2. /\ L \in Seq(TokensIn(first, last)) /\ Len(L) = 1 + Len(M) /\ Len(M) \in Nat
      /\ L[1] = t /\ \A i \in 1 .. Len(M) : L[i + 1] = M[i]
  BY <1>1, ConsFacts
<1> HIDE DEF L
<1>3. ASSUME NEW i \in 1 .. Len(L) PROVE L[i].s # last /\ TokenRight(s, L[i].s, last, L[i])
  <2>1. CASE i = 1
    BY <1>2, <2>1
  <2>2. CASE i # 1
    <3>1. i - 1 \in 1 .. Len(M) /\ (i - 1) + 1 = i
      BY <1>2, <2>2
    <3>2. L[i] = M[i - 1]
      BY <1>2, <3>1
    <3> QED BY <1>1, <3>1, <3>2
  <2> QED BY <2>1, <2>2
<1>e. Len(M) = 0 => u.s = last
  BY <1>1
<1>4. ASSUME NEW i \in 1 .. Len(L) - 1 PROVE L[i + 1] = Advance(s, L[i])
  <2>1. L[i + 1] = M[i] /\ i \in 1 .. Len(M)
    BY <1>2
  <2>2. CASE i = 1
    <3>1. M # <<>>
      BY <1>2, <2>1, <2>2
    <3> QED BY <1>1, <1>2, <2>1, <2>2, <3>1
  <2>3. CASE i # 1
    <3>1. i - 1 \in 1 .. Len(M) /\ i - 1 \in 1 .. Len(M) - 1 /\ (i - 1) + 1 = i
      BY <1>2, <2>1, <2>3
    <3>2. L[i] = M[i - 1] /\ M[i] = Advance(s, M[i - 1])
      BY <1>1, <1>2, <3>1
    <3> QED BY <2>1, <3>2
  <2> QED BY <2>2, <2>3
<1>5. Advance(s, L[Len(L)]).s = last
  <2>1. CASE Len(M) = 0
    <3>1. L[Len(L)] = t
      BY <1>2, <2>1
    <3> QED BY <1>e, <2>1, <3>1
  <2>2. CASE Len(M) # 0
    <3>1. Len(M) \in 1 .. Len(M) /\ Len(M) > 0 /\ Len(M) + 1 = Len(L)
      BY <1>2, <2>2
    <3>2. L[Len(L)] = M[Len(M)]
      BY <1>2, <3>1
    <3> QED BY <1>1, <3>1, <3>2
  <2> QED BY <2>1, <2>2
<1>6. Len(L) > 0
  BY <1>2
<1>7. Chained(s, first, last, t, L)
  BY <1>2, <1>3, <1>4, <1>5, <1>6 DEF Chained
<1> QED BY <1>7 DEF L

\* The tokens from a token on.
LEMMA ChainFacts ==
  ASSUME NEW s, NEW first \in Nat, NEW last \in Nat
  PROVE  \A t \in TokensIn(first, last) :
           TokenRight(s, t.s, last, t) => Chained(s, first, last, t, TokenList(s, first, last)[t])
<1> DEFINE D == TokensIn(first, last)
           F == TokenList(s, first, last)
           rank == [t \in D |-> TokenRank(last, t)]
           G == {t \in D : TokenRight(s, t.s, last, t) => Chained(s, first, last, t, F[t])}
<1>1. \A t \in D : rank[t] \in Nat
  <2> SUFFICES ASSUME NEW t \in D PROVE TokenRank(last, t) \in Nat
    OBVIOUS
  <2>1. TokenRank(last, t) \in 0 .. last + 1
    BY TokenRankFacts
  <2> QED BY <2>1
<1>2. ASSUME NEW t \in D, \A u \in D : rank[u] < rank[t] => u \in G PROVE t \in G
  <2> SUFFICES ASSUME TokenRight(s, t.s, last, t) PROVE Chained(s, first, last, t, F[t])
    OBVIOUS
  <2> DEFINE u == Advance(s, t)
  <2>1. F[t] = IF t.s = last THEN <<>> ELSE <<t>> \o F[u]
    BY TokensDef
  <2>2. CASE t.s = last
    <3>1. F[t] = <<>> /\ <<>> \in Seq(D) /\ Len(<<>>) = 0
      BY <2>1, <2>2, EmptySeq
    <3> HIDE DEF F, D, G, u
    <3>2. Len(F[t]) = 0 /\ F[t] \in Seq(D)
      BY <3>1
    <3>3. ~(Len(F[t]) > 0) /\ 1 .. Len(F[t]) = {} /\ 1 .. Len(F[t]) - 1 = {}
      BY <3>2
    <3> QED BY <2>2, <3>1, <3>2, <3>3 DEF Chained, D
  <2>3. CASE t.s # last
    <3>1. u \in D /\ TokenAfter(s, t.s + t.len, last, u) /\ TokenRank(last, u) < TokenRank(last, t)
      BY <2>3, AdvanceFacts, TokenRankFacts
    <3>2. TokenRight(s, u.s, last, u)
      BY <3>1 DEF TokenAfter
    <3>3. rank[u] < rank[t]
      <4> HIDE DEF u, D
      <4> QED BY <3>1
    <3>4. u \in G
      <4> HIDE DEF u, D, G, rank
      <4> QED BY <1>2, <3>1, <3>3
    <3>5. Chained(s, first, last, u, F[u])
      <4> HIDE DEF u, D, F
      <4> QED BY <3>2, <3>4
    <3>6. Chained(s, first, last, t, <<t>> \o F[u])
      <4> HIDE DEF F, rank, G
      <4> QED BY <2>3, <3>5, ChainStep
    <3> HIDE DEF F, u, rank, G
    <3> QED BY <2>1, <2>3, <3>6
  <2> QED BY <2>2, <2>3
<1>3. \A t \in D : t \in G
  <2> HIDE DEF D, G, rank
  <2> QED BY <1>1, <1>2, RankInduction
<1> HIDE DEF D
<1> QED BY <1>3 DEF D

\* The tokens of a region.
LEMMA TokensFacts ==
  ASSUME NEW s, NEW first \in Nat, NEW last \in Nat, first <= last
  PROVE  /\ TokenAfter(s, first, last, Tokenizer(s, first, last))
         /\ Tokenizer(s, first, last) \in TokensIn(first, last)
         /\ Chained(s, first, last, Tokenizer(s, first, last), Tokens(s, first, last))
<1> DEFINE t == Tokenizer(s, first, last)
<1>1. TokenAfter(s, first, last, t)
  BY TokenFromFacts DEF Tokenizer
<1> HIDE DEF t
<1>2. t.s \in Nat /\ first <= t.s /\ TokenRight(s, t.s, last, t)
  BY <1>1 DEF TokenAfter, TokenStart
<1>3. t \in TokensIn(first, last)
  BY <1>2, TokenInRegion
<1>4. Tokens(s, first, last) = TokenList(s, first, last)[t]
  BY TokensDef DEF t
<1>5. Chained(s, first, last, t, Tokens(s, first, last))
  BY <1>2, <1>3, <1>4, ChainFacts
<1> QED BY <1>1, <1>3, <1>5 DEF t

\* What is between two tokens of a line, as Cover() has it.
LEMMA GapFacts ==
  ASSUME NEW line \in Seq(STRING), NEW e \in Nat, NEW u, TokenAfter(line, e, Len(line), u), NEW k,
         k \in DOMAIN SubSeq(line, e + 1, u.s)
  PROVE  \/ isspace(SubSeq(line, e + 1, u.s)[k])
         \/ u.s = Len(line) /\ \E j \in 1 .. k : SubSeq(line, e + 1, u.s)[j] = "#"
<1> DEFINE gap == SubSeq(line, e + 1, u.s)
<1>1. e <= u.s /\ u.s \in Nat /\ u.s <= Len(line) /\ Gap(line, e, u.s, Len(line)) /\ Len(line) \in Nat
  BY LenProperties DEF TokenAfter, TokenStart
<1>2. \A i \in e + 1 .. u.s : line[i] \in STRING
  <2>1. \A i \in e + 1 .. u.s : i \in 1 .. Len(line)
    BY <1>1
  <2> QED BY <2>1, ElementOfSeq
<1>3. /\ gap \in Seq(STRING) /\ Len(gap) = IF e + 1 <= u.s THEN u.s - (e + 1) + 1 ELSE 0
      /\ \A i \in 1 .. u.s - (e + 1) + 1 : gap[i] = line[(e + 1) + i - 1]
  <2>1. e + 1 \in Int /\ u.s \in Int
    BY <1>1
  <2> QED BY <1>2, <2>1, SubSeqProperties
<1>4. DOMAIN gap = 1 .. Len(gap)
  BY <1>3, LenProperties
<1> HIDE DEF gap
<1>5. DOMAIN gap = 1 .. u.s - e
  BY <1>1, <1>3, <1>4
<1>6. ASSUME NEW i \in 1 .. u.s - e PROVE gap[i] = At(line, e + i - 1)
  <2>1. i \in 1 .. u.s - (e + 1) + 1 /\ (e + 1) + i - 1 = e + i /\ e + i - 1 < Len(line)
        /\ (e + i - 1) + 1 = e + i
    BY <1>1
  <2>2. gap[i] = line[e + i]
    BY <1>3, <2>1
  <2> QED BY <2>1, <2>2 DEF At
<1>7. k \in 1 .. u.s - e
  BY <1>5 DEF gap
<1>8. e + k - 1 \in e .. u.s - 1
  BY <1>1, <1>7
<1>9. CASE isspace(At(line, e + k - 1))
  BY <1>6, <1>7, <1>9 DEF gap
<1>10. CASE ~isspace(At(line, e + k - 1))
  <2>1. u.s = Len(line) /\ \E j \in e .. e + k - 1 : At(line, j) = "#"
    BY <1>1, <1>8, <1>10 DEF Gap
  <2>2. PICK j \in e .. e + k - 1 : At(line, j) = "#"
    BY <2>1
  <2>3. j - e + 1 \in 1 .. k /\ j - e + 1 \in 1 .. u.s - e /\ e + (j - e + 1) - 1 = j
    BY <1>1, <1>7
  <2>4. gap[j - e + 1] = "#"
    BY <1>6, <2>2, <2>3
  <2> QED BY <2>1, <2>3, <2>4 DEF gap
<1> QED BY <1>9, <1>10

\* The tokens of any line are right.
LEMMA CoverFacts ==
  ASSUME NEW line \in Seq(STRING)
  PROVE  Cover(line, Tokens(line, 0, Len(line)))
<1> DEFINE last == Len(line)
           L == Tokens(line, 0, last)
           t == Tokenizer(line, 0, last)
           startOf(i) == IF i > Len(L) THEN Len(line) ELSE L[i].s
           endOf(i) == IF i = 0 THEN 0 ELSE L[i].s + L[i].len
<1>0. last \in Nat /\ 0 \in Nat /\ 0 <= last
  BY LenProperties
<1>1. TokenAfter(line, 0, last, t) /\ Chained(line, 0, last, t, L)
  BY <1>0, TokensFacts
<1> HIDE DEF L, t
<1>2. /\ L \in Seq(TokensIn(0, last)) /\ Len(L) \in Nat
      /\ t.s = last => L = <<>>
      /\ t.s # last => Len(L) > 0 /\ L[1] = t
      /\ \A i \in 1 .. Len(L) : L[i] \in TokensIn(0, last)
      /\ \A i \in 1 .. Len(L) : L[i].s # last /\ TokenRight(line, L[i].s, last, L[i])
      /\ \A i \in 1 .. Len(L) - 1 : L[i + 1] = Advance(line, L[i])
      /\ Len(L) > 0 => Advance(line, L[Len(L)]).s = last
  BY <1>1, LenProperties, ElementOfSeq DEF Chained
<1>3. ASSUME NEW i \in 1 .. Len(L)
      PROVE  /\ L[i].len > 0 /\ L[i].type # "OTHER"
             /\ L[i].type = "NORMAL" =>
                  (L[i].quoted <=>
                     \E p \in L[i].s .. endOf(i) - 1 :
                       At(line, p) \in Quotes \/ (At(line, p) = "\\" /\ p + 1 < Len(line)))
  <2>1. L[i].s # last /\ TokenRight(line, L[i].s, last, L[i])
    BY <1>2
  <2>2. i # 0
    BY <1>2
  <2>3. /\ L[i].len > 0 /\ L[i].type # "OTHER"
        /\ L[i].type = "NORMAL" =>
             (L[i].quoted <=> \E p \in L[i].s .. L[i].s + L[i].len - 1 : Escapes(line, p, last))
    BY <2>1, Zenon DEF TokenRight
  <2>4. endOf(i) = L[i].s + L[i].len
    BY <2>2
  <2>5. (\E p \in L[i].s .. L[i].s + L[i].len - 1 : Escapes(line, p, last))
          <=> (\E p \in L[i].s .. endOf(i) - 1 :
                 At(line, p) \in Quotes \/ (At(line, p) = "\\" /\ p + 1 < Len(line)))
    <3> HIDE DEF endOf, last
    <3>1. \A p : Escapes(line, p, last)
                  <=> At(line, p) \in Quotes \/ (At(line, p) = "\\" /\ p + 1 < last)
      BY Zenon DEF Escapes
    <3>2. last = Len(line)
      BY DEF last
    <3>3. L[i].s .. L[i].s + L[i].len - 1 = L[i].s .. endOf(i) - 1
      <4>1. L[i].s \in 0 .. last /\ L[i].len \in Nat
        BY <1>0, <1>2, AdvanceFacts
      <4>2. L[i].s \in Int /\ L[i].len \in Int
        BY <1>0, <4>1
      <4>3. \A a, b \in Int : a + b - 1 = (a + b) - 1
        OBVIOUS
      <4>4. L[i].s + L[i].len - 1 = endOf(i) - 1
        BY <2>4, <4>2, <4>3
      <4> QED BY <4>4, Zenon
    <3> DEFINE R == L[i].s .. endOf(i) - 1
    <3> HIDE DEF R
    <3>4. (\E p \in R : Escapes(line, p, last))
            <=> (\E p \in R : At(line, p) \in Quotes \/ (At(line, p) = "\\" /\ p + 1 < last))
      BY <3>1, Zenon
    <3> QED BY <3>2, <3>3, <3>4, Zenon DEF R
  <2> HIDE DEF endOf
  <2> QED BY <2>3, <2>5, Zenon
<1>4. ASSUME NEW i \in 0 .. Len(L)
      PROVE  \E u : /\ TokenAfter(line, endOf(i), last, u) /\ startOf(i + 1) = u.s
                    /\ endOf(i) \in Nat
                    /\ u.s = last => i = Len(L)
  <2>1. CASE i = 0
    <3>1. CASE t.s = last
      <4>1. Len(L) = 0
        BY <1>2, <3>1, EmptySeq
      <4>2. startOf(i + 1) = t.s
        BY <2>1, <3>1, <4>1
      <4> QED BY <1>0, <1>1, <2>1, <4>1, <4>2
    <3>2. CASE t.s # last
      <4>1. startOf(i + 1) = t.s
        BY <1>2, <2>1, <3>2
      <4> QED BY <1>0, <1>1, <2>1, <3>2, <4>1
    <3> QED BY <3>1, <3>2
  <2>2. CASE i # 0
    <3> DEFINE u == Advance(line, L[i])
    <3>1. i \in 1 .. Len(L) /\ L[i] \in TokensIn(0, last)
      BY <1>2, <2>2
    <3>2. L[i].s + L[i].len \in 0 .. last /\ TokenAfter(line, L[i].s + L[i].len, last, u)
      BY <1>0, <3>1, AdvanceFacts
    <3>3. endOf(i) \in Nat /\ TokenAfter(line, endOf(i), last, u)
      BY <2>2, <3>2
    <3>4. CASE i = Len(L)
      <4>1. u.s = last /\ i + 1 > Len(L)
        BY <1>2, <3>1, <3>4
      <4>2. startOf(i + 1) = u.s
        BY <4>1
      <4> QED BY <3>3, <3>4, <4>2
    <3>5. CASE i # Len(L)
      <4>1. i \in 1 .. Len(L) - 1 /\ i + 1 \in 1 .. Len(L) /\ ~(i + 1 > Len(L))
        BY <1>2, <3>1, <3>5
      <4>2. L[i + 1] = u /\ u.s # last
        BY <1>2, <4>1
      <4>3. startOf(i + 1) = u.s
        BY <4>1, <4>2
      <4> QED BY <3>3, <4>2, <4>3
    <3> QED BY <3>4, <3>5
  <2> QED BY <2>1, <2>2
<1>5. ASSUME NEW i \in 0 .. Len(L)
      PROVE  /\ endOf(i) <= startOf(i + 1)
             /\ \A k \in DOMAIN SubSeq(line, endOf(i) + 1, startOf(i + 1)) :
                  \/ isspace(SubSeq(line, endOf(i) + 1, startOf(i + 1))[k])
                  \/ /\ i = Len(L)
                     /\ \E j \in 1 .. k : SubSeq(line, endOf(i) + 1, startOf(i + 1))[j] = "#"
  <2>1. PICK u : /\ TokenAfter(line, endOf(i), last, u) /\ startOf(i + 1) = u.s
                 /\ endOf(i) \in Nat
                 /\ u.s = last => i = Len(L)
    BY <1>4
  <2>2. endOf(i) <= u.s
    BY <2>1 DEF TokenAfter
  <2> DEFINE e == endOf(i)
             f == startOf(i + 1)
  <2> HIDE DEF e, f
  <2>3. TokenAfter(line, e, last, u) /\ e \in Nat /\ f = u.s /\ (u.s = last => i = Len(L))
    BY <2>1 DEF e, f
  <2>4. ASSUME NEW k \in DOMAIN SubSeq(line, e + 1, f)
        PROVE  \/ isspace(SubSeq(line, e + 1, f)[k])
               \/ (i = Len(L) /\ \E j \in 1 .. k : SubSeq(line, e + 1, f)[j] = "#")
    <3>1. k \in DOMAIN SubSeq(line, e + 1, u.s)
      BY <2>3
    <3>2. \/ isspace(SubSeq(line, e + 1, u.s)[k])
          \/ u.s = Len(line) /\ \E j \in 1 .. k : SubSeq(line, e + 1, u.s)[j] = "#"
      BY <2>3, <3>1, GapFacts
    <3> QED BY <2>3, <3>2
  <2> QED BY <2>1, <2>2, <2>4 DEF e, f
<1>6. Cover(line, L)
  BY <1>3, <1>5, Zenon DEF Cover
<1> QED BY <1>6 DEF L

-----------------------------------------------------------------------------
(* str().                                                                  *)

\* The states of the loop of str(), what it does in one, and the function it defines.
StrStates(t) == [pos : 0 .. t.len + 1, curquote : Quotes \cup {NUL}]
StrNext(s, t, w) ==
  LET ch == At(s, t.s + w.pos) IN
  IF ch \in Quotes /\ w.curquote = NUL THEN [pos |-> w.pos + 1, curquote |-> ch]
  ELSE IF ch = w.curquote THEN [pos |-> w.pos + 1, curquote |-> NUL]
  ELSE IF ch = "\\" /\ At(s, t.s + w.pos + 1) # NUL /\ w.curquote # "'"
  THEN [pos |-> w.pos + 2, curquote |-> w.curquote]
  ELSE [pos |-> w.pos + 1, curquote |-> w.curquote]
StrPlain(s, t, w) ==
  LET ch == At(s, t.s + w.pos) IN (ch \in Quotes /\ w.curquote = NUL) \/ ch = w.curquote
StrChar(s, t, w) ==
  LET ch == At(s, t.s + w.pos) IN
  IF ch = "\\" /\ At(s, t.s + w.pos + 1) # NUL /\ w.curquote # "'"
  THEN <<At(s, t.s + w.pos + 1)>> ELSE <<ch>>
StrCall(build, s, t, w) ==
  LET ch == At(s, t.s + w.pos)
      after == At(s, t.s + w.pos + 1)
      Go(n, curquote) == build[[pos |-> w.pos + n, curquote |-> curquote]]
  IN IF w.pos = t.len THEN <<>>
     ELSE IF w.pos > t.len THEN <<Overrun>>
     ELSE IF ch \in Quotes /\ w.curquote = NUL THEN Go(1, ch)
     ELSE IF ch = w.curquote THEN Go(1, NUL)
     ELSE IF ch = "\\" /\ after # NUL /\ w.curquote # "'"
     THEN <<after>> \o Go(2, w.curquote)
     ELSE <<ch>> \o Go(1, w.curquote)
IsBuild(build, s, t) ==
  build = [w \in [pos : 0 .. t.len + 1, curquote : Quotes \cup {NUL}] |-> StrCall(build, s, t, w)]
Build(s, t) == CHOOSE build : IsBuild(build, s, t)

\* A step of the loop.
LEMMA StrNextIn ==
  ASSUME NEW s, NEW t, t.len \in Nat, NEW w \in StrStates(t), w.pos < t.len
  PROVE  StrNext(s, t, w) \in StrStates(t) /\ w.pos < StrNext(s, t, w).pos /\ w.pos \in Nat
<1>1. w.pos \in 0 .. t.len + 1 /\ w.curquote \in Quotes \cup {NUL}
  BY DEF StrStates
<1>2. /\ w.pos \in Nat /\ w.pos + 1 \in 0 .. t.len + 1 /\ w.pos + 2 \in 0 .. t.len + 1
      /\ w.pos < w.pos + 1 /\ w.pos < w.pos + 2
  BY <1>1
<1> DEFINE ch == At(s, t.s + w.pos)
<1> HIDE DEF ch
<1>3. StrNext(s, t, w) =
        IF ch \in Quotes /\ w.curquote = NUL THEN [pos |-> w.pos + 1, curquote |-> ch]
        ELSE IF ch = w.curquote THEN [pos |-> w.pos + 1, curquote |-> NUL]
        ELSE IF ch = "\\" /\ At(s, t.s + w.pos + 1) # NUL /\ w.curquote # "'"
        THEN [pos |-> w.pos + 2, curquote |-> w.curquote]
        ELSE [pos |-> w.pos + 1, curquote |-> w.curquote]
  BY DEF StrNext, ch
<1>4. \A p \in 0 .. t.len + 1, q \in Quotes \cup {NUL} :
        /\ [pos |-> p, curquote |-> q] \in StrStates(t) /\ [pos |-> p, curquote |-> q].pos = p
  BY DEF StrStates
<1>5. CASE ch \in Quotes /\ w.curquote = NUL
  BY <1>2, <1>3, <1>4, <1>5
<1>6. CASE ~(ch \in Quotes /\ w.curquote = NUL) /\ ch = w.curquote
  BY <1>2, <1>3, <1>4, <1>6
<1>7. CASE ~(ch \in Quotes /\ w.curquote = NUL) /\ ch # w.curquote
  BY <1>1, <1>2, <1>3, <1>4, <1>7
<1> QED BY <1>5, <1>6, <1>7

\* The function exists.
LEMMA StrDef ==
  ASSUME NEW s, NEW t, t.len \in Nat
  PROVE  /\ \A w \in StrStates(t) :
              Build(s, t)[w] =
                IF w.pos = t.len THEN <<>>
                ELSE IF w.pos > t.len THEN <<Overrun>>
                ELSE IF StrPlain(s, t, w) THEN Build(s, t)[StrNext(s, t, w)]
                ELSE StrChar(s, t, w) \o Build(s, t)[StrNext(s, t, w)]
         /\ str(s, t) = IF t.quoted THEN Build(s, t)[[pos |-> 0, curquote |-> NUL]]
                        ELSE SubSeq(s, t.s + 1, t.s + t.len)
<1> DEFINE D == StrStates(t)
           Stop == {w \in D : w.pos >= t.len}
           base == [w \in D |-> IF w.pos = t.len THEN <<>> ELSE <<Overrun>>]
           Plain == {w \in D : StrPlain(s, t, w)}
           pre == [w \in D |-> StrChar(s, t, w)]
           nxt == [w \in D |-> StrNext(s, t, w)]
           rank == [w \in D |-> t.len + 1 - w.pos]
<1>1. \A w \in D : rank[w] \in 0 .. t.len + 1 /\ w.pos \in Nat /\ rank[w] = t.len + 1 - w.pos
  BY DEF StrStates
<1>2. ASSUME NEW w \in D, w \notin Stop PROVE nxt[w] \in D /\ rank[nxt[w]] < rank[w]
  <2>1. w.pos < t.len
    BY <1>1, <1>2
  <2> DEFINE v == StrNext(s, t, w)
  <2>2. v \in D /\ w.pos < v.pos
    BY <2>1, StrNextIn
  <2>3. nxt[w] = v
    OBVIOUS
  <2> HIDE DEF D, nxt, rank, v
  <2> QED BY <1>1, <2>2, <2>3
<1>3. \E f : Calls(f, D, Stop, base, Plain, pre, nxt)
  <2>1. t.len + 1 \in Nat
    OBVIOUS
  <2> HIDE DEF D, Stop, base, Plain, pre, nxt, rank
  <2> QED BY <1>1, <1>2, <2>1, Recursion
<1>4. PICK f : f = [w \in D |-> IF w \in Stop THEN base[w]
                                ELSE IF w \in Plain THEN f[nxt[w]] ELSE pre[w] \o f[nxt[w]]]
  <2> HIDE DEF D, Stop, base, Plain, pre, nxt
  <2> QED BY <1>3 DEF Calls
<1>5. ASSUME NEW w \in D
      PROVE  f[w] = IF w.pos = t.len THEN <<>>
                    ELSE IF w.pos > t.len THEN <<Overrun>>
                    ELSE IF StrPlain(s, t, w) THEN f[StrNext(s, t, w)]
                    ELSE StrChar(s, t, w) \o f[StrNext(s, t, w)]
  <2>1. f[w] = IF w \in Stop THEN base[w] ELSE IF w \in Plain THEN f[nxt[w]] ELSE pre[w] \o f[nxt[w]]
    <3> HIDE DEF D, Stop, base, Plain, pre, nxt
    <3> QED BY <1>4
  <2>2. /\ w \in Stop <=> w.pos >= t.len
        /\ base[w] = IF w.pos = t.len THEN <<>> ELSE <<Overrun>>
        /\ (w \in Plain <=> StrPlain(s, t, w)) /\ pre[w] = StrChar(s, t, w)
        /\ nxt[w] = StrNext(s, t, w)
    <3> HIDE DEF D
    <3> QED OBVIOUS
  <2>3. w.pos >= t.len <=> w.pos = t.len \/ w.pos > t.len
    BY <1>1
  <2> HIDE DEF D, Stop, base, Plain, pre, nxt
  <2> QED BY <2>1, <2>2, <2>3
<1>6. ASSUME NEW w \in D, NEW g
      PROVE  StrCall(g, s, t, w) =
               IF w.pos = t.len THEN <<>>
               ELSE IF w.pos > t.len THEN <<Overrun>>
               ELSE IF StrPlain(s, t, w) THEN g[StrNext(s, t, w)]
               ELSE StrChar(s, t, w) \o g[StrNext(s, t, w)]
  BY DEF StrCall, StrPlain, StrChar, StrNext
<1>7. IsBuild(f, s, t)
  <2>1. f = [w \in D |-> f[w]]
    <3> HIDE DEF D, Stop, base, Plain, pre, nxt
    <3> QED BY <1>4
  <2> HIDE DEF Stop, base, Plain, pre, nxt, rank
  <2>2. f = [w \in D |-> StrCall(f, s, t, w)]
    <3>1. \A w \in D : f[w] = StrCall(f, s, t, w)
      BY <1>5, <1>6
    <3> HIDE DEF D
    <3> QED BY <2>1, <3>1
  <2> QED BY <2>2 DEF IsBuild, StrStates
<1>8. IsBuild(Build(s, t), s, t)
  BY <1>7, Zenon DEF Build
<1>9. \A w \in D : Build(s, t)[w] =
        IF w.pos = t.len THEN <<>>
        ELSE IF w.pos > t.len THEN <<Overrun>>
        ELSE IF StrPlain(s, t, w) THEN Build(s, t)[StrNext(s, t, w)]
        ELSE StrChar(s, t, w) \o Build(s, t)[StrNext(s, t, w)]
  <2>1. \A w \in D : Build(s, t)[w] = StrCall(Build(s, t), s, t, w)
    BY <1>8 DEF IsBuild, StrStates
  <2> QED BY <1>6, <2>1
<1>10. str(s, t) = IF t.quoted THEN Build(s, t)[[pos |-> 0, curquote |-> NUL]]
                   ELSE SubSeq(s, t.s + 1, t.s + t.len)
  BY DEF str, Build, IsBuild, StrCall
<1> QED BY <1>9, <1>10

-----------------------------------------------------------------------------
(* The reader of words.                                                    *)

\* The function WordsOf() defines.
IsReads(read, line, n) ==
  read = [i \in 0 .. n |-> IF i = 0 THEN NoWords ELSE ReadChar(read[i - 1], line[i])]
Reads(line) == CHOOSE read : IsReads(read, line, Len(line))

\* A backslash at the end of the line stands for itself.
Close(line, i) ==
  IF i = Len(line) /\ Reads(line)[i].esc THEN AddChar(Reads(line)[i], "\\") ELSE Reads(line)[i]

\* The function for n characters can be made one longer.
LEMMA ReadsMore ==
  ASSUME NEW line, NEW n \in Nat, NEW g, IsReads(g, line, n)
  PROVE  \E h : IsReads(h, line, n + 1)
<1> DEFINE last == ReadChar(g[n], line[n + 1])
           h == [i \in 0 .. n + 1 |-> IF i = n + 1 THEN last ELSE g[i]]
<1>1. \A i \in 0 .. n : g[i] = IF i = 0 THEN NoWords ELSE ReadChar(g[i - 1], line[i])
  BY DEF IsReads
<1>2. \A i \in 0 .. n + 1 : h[i] = IF i = n + 1 THEN last ELSE g[i]
  OBVIOUS
<1> HIDE DEF h
<1>3. ASSUME NEW i \in 0 .. n + 1
      PROVE  h[i] = IF i = 0 THEN NoWords ELSE ReadChar(h[i - 1], line[i])
  <2>1. CASE i = n + 1
    <3>1. i # 0 /\ i - 1 \in 0 .. n + 1 /\ i - 1 # n + 1 /\ i - 1 = n
      BY <2>1
    <3>2. h[i - 1] = g[n] /\ h[i] = last
      BY <1>2, <2>1, <3>1
    <3> QED BY <2>1, <3>1, <3>2
  <2>2. CASE i = 0
    BY <1>1, <1>2, <2>2
  <2>3. CASE i # n + 1 /\ i # 0
    <3>1. i \in 0 .. n /\ i - 1 \in 0 .. n + 1 /\ i - 1 # n + 1
      BY <2>3
    <3>2. h[i - 1] = g[i - 1] /\ h[i] = g[i]
      BY <1>2, <2>3, <3>1
    <3> QED BY <1>1, <2>3, <3>1, <3>2
  <2> QED BY <2>1, <2>2, <2>3
<1>4. h = [i \in 0 .. n + 1 |-> h[i]]
  BY DEF h
<1> QED BY <1>3, <1>4 DEF IsReads

\* The function exists.
LEMMA ReadsDef ==
  ASSUME NEW line, Len(line) \in Nat
  PROVE  /\ Reads(line)[0] = NoWords
         /\ \A i \in 1 .. Len(line) : Reads(line)[i] = ReadChar(Reads(line)[i - 1], line[i])
<1> DEFINE bad == {k \in Nat : ~\E g : IsReads(g, line, k)}
<1>1. bad = {}
  <2> SUFFICES ASSUME bad # {} PROVE FALSE
    OBVIOUS
  <2>1. PICK k \in bad : \A y \in bad : k <= y
    BY LeastOne
  <2>2. ~\E g : IsReads(g, line, k)
    BY <2>1
  <2>3. CASE k = 0
    <3> DEFINE g == [i \in 0 .. k |-> NoWords]
    <3>1. \A i \in 0 .. k : i = 0
      BY <2>3
    <3>2. g = [i \in 0 .. k |-> IF i = 0 THEN NoWords ELSE ReadChar(g[i - 1], line[i])]
      BY <3>1
    <3> QED BY <2>2, <3>2 DEF IsReads
  <2>4. CASE k # 0
    <3>1. k - 1 \in Nat /\ k - 1 < k /\ (k - 1) + 1 = k
      BY <2>4
    <3>2. PICK g : IsReads(g, line, k - 1)
      BY <2>1, <3>1
    <3>3. \E h : IsReads(h, line, (k - 1) + 1)
      BY <3>1, <3>2, ReadsMore
    <3> QED BY <2>2, <3>1, <3>3
  <2> QED BY <2>3, <2>4
<1>2. \E g : IsReads(g, line, Len(line))
  BY <1>1
<1>3. IsReads(Reads(line), line, Len(line))
  BY <1>2, Zenon DEF Reads
<1> DEFINE R == Reads(line)
<1> HIDE DEF R
<1>4. \A i \in 0 .. Len(line) : R[i] = IF i = 0 THEN NoWords ELSE ReadChar(R[i - 1], line[i])
  BY <1>3 DEF IsReads, R
<1>5. R[0] = NoWords /\ \A i \in 1 .. Len(line) : R[i] = ReadChar(R[i - 1], line[i])
  BY <1>4
<1> QED BY <1>5 DEF R

\* What the reader does with a character: an escaped one,
LEMMA ReadEscaped ==
  ASSUME NEW words, NEW word, NEW q, NEW ch
  PROVE  ReadChar(Reader(words, word, TRUE, q, TRUE), ch) = Reader(words, Append(word, ch), TRUE, q, FALSE)
<1> DEFINE w == Reader(words, word, TRUE, q, TRUE)
<1>1. w.words = words /\ w.word = word /\ w.quote = q /\ w.esc = TRUE
  BY DEF Reader
<1> HIDE DEF w
<1>2. ReadChar(w, ch) = AddChar(w, ch)
  BY <1>1, Zenon DEF ReadChar
<1> QED BY <1>1, <1>2 DEF AddChar, w

\* (What kinds of characters there are.)
LEMMA CharKinds ==
  /\ NUL \notin Quotes /\ "\\" \notin Quotes /\ "\\" # NUL /\ ~isspace("\\") /\ ~isspace(NUL)
  /\ (\A c \in Quotes : ~isspace(c)) /\ Marks = Quotes \cup {NUL} /\ "'" \in Quotes
BY DEF NUL, Quotes, isspace, Marks

\* a backslash,
LEMMA ReadBackslash ==
  ASSUME NEW words, NEW word, NEW in, NEW q \in Marks, q # "'"
  PROVE  ReadChar(Reader(words, word, in, q, FALSE), "\\") = Reader(words, word, TRUE, q, TRUE)
<1> DEFINE w == Reader(words, word, in, q, FALSE)
<1>1. w.words = words /\ w.word = word /\ w.in = in /\ w.quote = q /\ w.esc = FALSE
  BY DEF Reader
<1> HIDE DEF w
<1> QED BY <1>1, CharKinds DEF ReadChar, w

\* an opening quote,
LEMMA ReadQuote ==
  ASSUME NEW words, NEW word, NEW in, NEW ch \in Quotes
  PROVE  ReadChar(Reader(words, word, in, NUL, FALSE), ch) = Reader(words, word, TRUE, ch, FALSE)
<1> DEFINE w == Reader(words, word, in, NUL, FALSE)
<1>1. w.words = words /\ w.word = word /\ w.in = in /\ w.quote = NUL /\ w.esc = FALSE
  BY DEF Reader
<1> HIDE DEF w
<1> QED BY <1>1, CharKinds DEF ReadChar, w

\* a closing quote,
LEMMA ReadUnquote ==
  ASSUME NEW words, NEW word, NEW in, NEW q \in Quotes
  PROVE  ReadChar(Reader(words, word, in, q, FALSE), q) = Reader(words, word, in, NUL, FALSE)
<1> DEFINE w == Reader(words, word, in, q, FALSE)
<1>1. w.words = words /\ w.word = word /\ w.in = in /\ w.quote = q /\ w.esc = FALSE
  BY DEF Reader
<1> HIDE DEF w
<1> QED BY <1>1, CharKinds DEF ReadChar, w

\* a blank after a word or between words,
LEMMA ReadBlank ==
  ASSUME NEW words, NEW word, NEW ch, isspace(ch)
  PROVE  /\ ReadChar(Reader(words, word, TRUE, NUL, FALSE), ch)
              = Reader(Append(words, word), <<>>, FALSE, NUL, FALSE)
         /\ ReadChar(Reader(words, word, FALSE, NUL, FALSE), ch)
              = Reader(words, word, FALSE, NUL, FALSE)
<1>1. ReadChar(Reader(words, word, TRUE, NUL, FALSE), ch)
        = Reader(Append(words, word), <<>>, FALSE, NUL, FALSE)
  <2> DEFINE w == Reader(words, word, TRUE, NUL, FALSE)
  <2>1. w.words = words /\ w.word = word /\ w.in = TRUE /\ w.quote = NUL /\ w.esc = FALSE
    BY DEF Reader
  <2> HIDE DEF w
  <2>2. ReadChar(w, ch) = Reader(Append(words, word), <<>>, FALSE, NUL, FALSE)
    BY <2>1, CharKinds DEF ReadChar
  <2> QED BY <2>2 DEF w
<1>2. ReadChar(Reader(words, word, FALSE, NUL, FALSE), ch) = Reader(words, word, FALSE, NUL, FALSE)
  <2> DEFINE w == Reader(words, word, FALSE, NUL, FALSE)
  <2>1. w.words = words /\ w.word = word /\ w.in = FALSE /\ w.quote = NUL /\ w.esc = FALSE
    BY DEF Reader
  <2> HIDE DEF w
  <2>2. ReadChar(w, ch) = w
    BY <2>1, CharKinds DEF ReadChar
  <2> QED BY <2>2 DEF w
<1> QED BY <1>1, <1>2

\* and any other.
Takes(words, word, in, q, ch) ==
  ReadChar(Reader(words, word, in, q, FALSE), ch) = Reader(words, Append(word, ch), TRUE, q, FALSE)

\* Any other character is taken into the word.
LEMMA ReadOther ==
  ASSUME NEW words, NEW word, NEW in, NEW q \in Marks, NEW ch, ch # q, ~(ch = "\\" /\ q # "'"),
         ~(ch \in Quotes /\ q = NUL), ~(isspace(ch) /\ q = NUL)
  PROVE  Takes(words, word, in, q, ch)
<1> DEFINE w == Reader(words, word, in, q, FALSE)
<1>1. w.words = words /\ w.word = word /\ w.in = in /\ w.quote = q /\ w.esc = FALSE
  BY DEF Reader
<1> HIDE DEF w
<1>2. ReadChar(w, ch) = AddChar(w, ch)
  BY <1>1, CharKinds DEF ReadChar
<1> QED BY <1>1, <1>2 DEF AddChar, Takes, w

\* What words are made of.
WordChars(line) == {At(line, k) : k \in Nat} \cup {Overrun}

\* str() gives a sequence of characters.
LEMMA StrType ==
  ASSUME NEW s, NEW t, t.len \in Nat, t.s \in Nat
  PROVE  \A w \in StrStates(t) : Build(s, t)[w] \in Seq(WordChars(s))
<1> DEFINE D == StrStates(t)
           B == Build(s, t)
           V == WordChars(s)
           G == {w \in D : B[w] \in Seq(V)}
           rank == [w \in D |-> t.len + 1 - w.pos]
<1>1. \A w \in D : rank[w] \in Nat /\ w.pos \in Nat /\ rank[w] = t.len + 1 - w.pos
  BY DEF StrStates
<1>2. ASSUME NEW w \in D, \A y \in D : rank[y] < rank[w] => y \in G PROVE w \in G
  <2> DEFINE v == StrNext(s, t, w)
             c == StrChar(s, t, w)
  <2>1. B[w] = IF w.pos = t.len THEN <<>>
               ELSE IF w.pos > t.len THEN <<Overrun>>
               ELSE IF StrPlain(s, t, w) THEN B[v] ELSE c \o B[v]
    BY StrDef
  <2>2. <<>> \in Seq(V) /\ <<Overrun>> \in Seq(V)
    <3>1. Overrun \in V
      BY DEF WordChars
    <3> HIDE DEF V
    <3> QED BY <3>1
  <2>3. c \in Seq(V)
    <3>1. t.s + w.pos \in Nat /\ t.s + w.pos + 1 \in Nat
      BY <1>1
    <3>2. At(s, t.s + w.pos) \in V /\ At(s, t.s + w.pos + 1) \in V
      BY <3>1 DEF WordChars
    <3>3. c = <<At(s, t.s + w.pos)>> \/ c = <<At(s, t.s + w.pos + 1)>>
      BY DEF StrChar
    <3> HIDE DEF V, c
    <3>4. \A x \in V : <<x>> \in Seq(V)
      OBVIOUS
    <3>5. <<At(s, t.s + w.pos)>> \in Seq(V) /\ <<At(s, t.s + w.pos + 1)>> \in Seq(V)
      BY <3>2, <3>4
    <3> QED BY <3>3, <3>5, Zenon
  <2>4. ASSUME w.pos < t.len PROVE B[v] \in Seq(V)
    <3>1. v \in D /\ w.pos < v.pos
      BY <2>4, StrNextIn
    <3> HIDE DEF D, B, V, v, rank
    <3>2. rank[v] < rank[w]
      BY <1>1, <3>1
    <3> QED BY <1>2, <3>1, <3>2
  <2>5. w.pos = t.len \/ w.pos > t.len \/ w.pos < t.len
    BY <1>1
  <2> HIDE DEF D, B, V, v, c, rank
  <2>6. w.pos < t.len => c \o B[v] \in Seq(V)
    BY <2>3, <2>4, ConcatProperties
  <2> QED BY <2>1, <2>2, <2>4, <2>5, <2>6
<1>3. \A w \in D : w \in G
  <2> HIDE DEF D, G, rank
  <2> QED BY <1>1, <1>2, RankInduction
<1> QED BY <1>3

\* A sequence to which something is added before another comes to its end.
Moves(a, c, b) == Append(a, c) \o b = a \o (<<c>> \o b)

\* Adding a member at the end and then others is adding it in front of the others.
LEMMA AppendConcat ==
  ASSUME NEW V, NEW a \in Seq(V), NEW c \in V, NEW b \in Seq(V)
  PROVE  Moves(a, c, b) /\ Append(a, c) \in Seq(V)
<1>1. <<c>> \in Seq(V) /\ Append(a, c) = a \o <<c>>
  BY AppendIsConcat
<1>2. (a \o <<c>>) \o b = a \o (<<c>> \o b)
  BY <1>1, ConcatAssociative
<1> QED BY <1>1, <1>2, AppendProperties DEF Moves

\* A part of a sequence that is one longer.
LEMMA SubSeqMore ==
  ASSUME NEW V, NEW s \in Seq(V), NEW from \in Nat, NEW at \in Nat, from <= at, at < Len(s)
  PROVE  /\ SubSeq(s, from + 1, at + 1) = Append(SubSeq(s, from + 1, at), s[at + 1])
         /\ SubSeq(s, from + 1, at) \in Seq(V)
<1> DEFINE a == SubSeq(s, from + 1, at)
           b == SubSeq(s, from + 1, at + 1)
           c == Append(a, s[at + 1])
<1>0. Len(s) \in Nat
  BY LenProperties
<1>1. \A i \in from + 1 .. at + 1 : s[i] \in V
  <2>1. \A i \in from + 1 .. at + 1 : i \in 1 .. Len(s)
    BY <1>0
  <2> QED BY <2>1, ElementOfSeq
<1>2. at + 1 \in from + 1 .. at + 1
  OBVIOUS
<1>3. /\ a \in Seq(V) /\ Len(a) = at - from
      /\ \A i \in 1 .. at - from : a[i] = s[from + i]
  <2>1. from + 1 \in Int /\ at \in Int /\ \A i \in from + 1 .. at : s[i] \in V
    BY <1>1
  <2>2. /\ a \in Seq(V) /\ Len(a) = IF from + 1 <= at THEN at - (from + 1) + 1 ELSE 0
        /\ \A i \in 1 .. at - (from + 1) + 1 : a[i] = s[(from + 1) + i - 1]
    BY <2>1, SubSeqProperties
  <2> HIDE DEF a
  <2>3. Len(a) = at - from /\ at - (from + 1) + 1 = at - from
    BY <2>2
  <2>4. \A i \in 1 .. at - from : (from + 1) + i - 1 = from + i
    OBVIOUS
  <2> QED BY <2>2, <2>3, <2>4
<1>4. /\ b \in Seq(V) /\ Len(b) = at + 1 - from
      /\ \A i \in 1 .. at + 1 - from : b[i] = s[from + i]
  <2>1. from + 1 \in Int /\ at + 1 \in Int
    OBVIOUS
  <2>2. /\ b \in Seq(V) /\ Len(b) = IF from + 1 <= at + 1 THEN (at + 1) - (from + 1) + 1 ELSE 0
        /\ \A i \in 1 .. (at + 1) - (from + 1) + 1 : b[i] = s[(from + 1) + i - 1]
    BY <1>1, <2>1, SubSeqProperties
  <2> HIDE DEF b
  <2>3. Len(b) = at + 1 - from /\ (at + 1) - (from + 1) + 1 = at + 1 - from
    BY <2>2
  <2>4. \A i \in 1 .. at + 1 - from : (from + 1) + i - 1 = from + i
    OBVIOUS
  <2> QED BY <2>2, <2>3, <2>4
<1>5. /\ c \in Seq(V) /\ Len(c) = Len(a) + 1 /\ c[Len(a) + 1] = s[at + 1]
      /\ \A i \in 1 .. Len(a) : c[i] = a[i]
  <2> HIDE DEF a
  <2> QED BY <1>1, <1>2, <1>3, AppendProperties
<1> HIDE DEF a, b, c
<1>6. ASSUME NEW i \in 1 .. Len(b) PROVE b[i] = c[i]
  <2>1. CASE i = Len(a) + 1
    <3>1. i \in 1 .. at + 1 - from /\ from + i = at + 1
      BY <1>3, <1>4, <2>1
    <3> QED BY <1>4, <1>5, <2>1, <3>1
  <2>2. CASE i # Len(a) + 1
    <3>1. i \in 1 .. Len(a) /\ i \in 1 .. at + 1 - from /\ i \in 1 .. at - from
      BY <1>3, <1>4, <2>2
    <3> QED BY <1>3, <1>4, <1>5, <3>1
  <2> QED BY <2>1, <2>2
<1>7. Len(b) = Len(c)
  BY <1>3, <1>4, <1>5
<1>8. b = c
  BY <1>4, <1>5, <1>6, <1>7, SeqEqual
<1> QED BY <1>3, <1>8 DEF a, b, c

\* In state w of the loop over a word the reader of words has its beginning: what str()
\* has given so far.
Follows(s, t, words, w) ==
  \E word \in Seq(WordChars(s)), in \in BOOLEAN :
    /\ Close(s, w.at) = Reader(words, word, in, w.curquote, FALSE)
    /\ w.at # t.s => in = TRUE
    /\ w.at = t.s => w.curquote = NUL
    /\ w.quoted = FALSE => word = SubSeq(s, t.s + 1, w.at)
    /\ word \o Build(s, t)[[pos |-> w.at - t.s, curquote |-> w.curquote]]
         = Build(s, t)[[pos |-> 0, curquote |-> NUL]]

\* Lines of text.
Text(s) == s \in Seq(STRING) /\ \A i \in 1 .. Len(s) : s[i] # NUL

\* A line of text has no NUL before its end.
LEMMA TextFacts ==
  ASSUME NEW s, Text(s)
  PROVE  /\ s \in Seq(STRING) /\ Len(s) \in Nat
         /\ \A k \in Nat : /\ k < Len(s) => At(s, k) = s[k + 1] /\ At(s, k) # NUL
                           /\ ~(k < Len(s)) => At(s, k) = NUL
<1>1. s \in Seq(STRING) /\ Len(s) \in Nat
  BY LenProperties DEF Text
<1>2. ASSUME NEW k \in Nat, k < Len(s) PROVE At(s, k) = s[k + 1] /\ At(s, k) # NUL
  <2>1. k + 1 \in 1 .. Len(s)
    BY <1>1, <1>2
  <2> QED BY <1>2, <2>1 DEF At, Text
<1> QED BY <1>1, <1>2 DEF At

\* The reader of words takes a character.
LEMMA CloseStep ==
  ASSUME NEW s, Text(s), NEW k \in Nat, k < Len(s)
  PROVE  /\ Close(s, k) = Reads(s)[k]
         /\ Reads(s)[k + 1] = ReadChar(Close(s, k), At(s, k))
         /\ Reads(s)[k + 1].esc = FALSE => Close(s, k + 1) = Reads(s)[k + 1]
         /\ k + 1 # Len(s) => Close(s, k + 1) = Reads(s)[k + 1]
         /\ k + 1 = Len(s) /\ Reads(s)[k + 1].esc = TRUE
              => Close(s, k + 1) = AddChar(Reads(s)[k + 1], "\\")
<1>1. Len(s) \in Nat /\ At(s, k) = s[k + 1]
  BY TextFacts
<1>2. k + 1 \in 1 .. Len(s) /\ k + 1 - 1 = k /\ k # Len(s)
  BY <1>1
<1>3. Reads(s)[k + 1] = ReadChar(Reads(s)[k], s[k + 1])
  BY <1>1, <1>2, ReadsDef
<1>4. Close(s, k) = Reads(s)[k]
  BY <1>2 DEF Close
<1> QED BY <1>1, <1>3, <1>4, Zenon DEF Close

\* A step of the loop over a word, of str() and of the reader of words.
LEMMA FollowStep ==
  ASSUME NEW s, Text(s), NEW t, t.s \in Nat, t.len \in Nat, t.s + t.len <= Len(s), NEW words,
         NEW w \in WordStates(t.s, Len(s)), ~WordOver(s, Len(s), w), Fair(w),
         WordStep(s, Len(s), w).at <= t.s + t.len, Follows(s, t, words, w)
  PROVE  Follows(s, t, words, WordStep(s, Len(s), w))
<1> DEFINE N == Len(s)
           v == WordStep(s, N, w)
           V == WordChars(s)
           B == Build(s, t)
           ch == At(s, w.at)
           q == w.curquote
           here == [pos |-> w.at - t.s, curquote |-> q]
           next == [pos |-> v.at - t.s, curquote |-> v.curquote]
           start == [pos |-> 0, curquote |-> NUL]
<1>1. s \in Seq(STRING) /\ N \in Nat
  BY TextFacts
<1>2. /\ v \in WordStates(t.s, N) /\ w.at < v.at /\ w.at \in Nat /\ w.at < N
      /\ v.at = w.at + 1 \/ v.at = w.at + 2
  BY <1>1, WordStepIn
<1>3. /\ w.at \in t.s .. N /\ v.at \in t.s .. N /\ v.at \in Nat /\ q \in Marks /\ v.curquote \in Marks
      /\ w.quoted \in BOOLEAN /\ v.quoted \in BOOLEAN
  BY <1>1, <1>2 DEF WordStates
<1>4. v.at # t.s /\ v.at <= t.s + t.len /\ ~(v.at = t.s)
  BY <1>2, <1>3
<1>5. /\ here \in StrStates(t) /\ next \in StrStates(t) /\ start \in StrStates(t)
      /\ here.pos = w.at - t.s /\ here.curquote = q /\ here.pos < t.len
      /\ here.pos # t.len /\ ~(here.pos > t.len)
      /\ t.s + here.pos = w.at /\ t.s + here.pos + 1 = w.at + 1
  <2>1. /\ w.at - t.s \in 0 .. t.len + 1 /\ v.at - t.s \in 0 .. t.len + 1 /\ 0 \in 0 .. t.len + 1
        /\ w.at - t.s < t.len /\ w.at - t.s # t.len /\ ~(w.at - t.s > t.len)
        /\ t.s + (w.at - t.s) = w.at /\ t.s + (w.at - t.s) + 1 = w.at + 1
    <3> HIDE DEF v, N
    <3>1. t.s <= w.at /\ w.at < v.at /\ v.at <= t.s + t.len /\ v.at \in Nat /\ w.at \in Nat
      BY <1>1, <1>2, <1>3, <1>4
    <3> DEFINE a == t.s
               n == t.len
               x == w.at
               y == v.at
    <3>2. a \in Nat /\ n \in Nat /\ x \in Nat /\ y \in Nat /\ a <= x /\ x < y /\ y <= a + n
      BY <3>1
    <3> HIDE DEF a, n, x, y
    <3>3. /\ x - a \in 0 .. n + 1 /\ y - a \in 0 .. n + 1 /\ 0 \in 0 .. n + 1
          /\ x - a < n /\ x - a # n /\ ~(x - a > n)
          /\ a + (x - a) = x /\ a + (x - a) + 1 = x + 1
      BY <3>2
    <3> QED BY <3>3 DEF a, n, x, y
  <2> HIDE DEF v, q
  <2> QED BY <1>3, <2>1 DEF StrStates, Marks
<1>6. ch # NUL /\ (At(s, w.at + 1) # NUL <=> w.at + 1 # N) /\ ch \in V /\ At(s, w.at + 1) \in V
      /\ ch = s[w.at + 1]
  <2>1. w.at + 1 \in Nat /\ (w.at + 1 < N <=> w.at + 1 # N)
    BY <1>1, <1>2
  <2>2. ch \in V /\ At(s, w.at + 1) \in V
    BY <1>2, <2>1 DEF WordChars
  <2>3. ch # NUL /\ ch = s[w.at + 1] /\ (At(s, w.at + 1) # NUL <=> w.at + 1 < N)
    BY <1>2, <2>1, TextFacts
  <2> QED BY <2>1, <2>2, <2>3
<1>7. StrNext(s, t, here) = next
  <2>1. StrNext(s, t, here) =
          IF ch \in Quotes /\ q = NUL THEN [pos |-> w.at - t.s + 1, curquote |-> ch]
          ELSE IF ch = q THEN [pos |-> w.at - t.s + 1, curquote |-> NUL]
          ELSE IF ch = "\\" /\ w.at + 1 # N /\ q # "'"
          THEN [pos |-> w.at - t.s + 2, curquote |-> q]
          ELSE [pos |-> w.at - t.s + 1, curquote |-> q]
    <3> HIDE DEF here
    <3> QED BY <1>5, <1>6 DEF StrNext
  <2>2. v = IF ch \in Quotes /\ q = NUL THEN [at |-> w.at + 1, curquote |-> ch, quoted |-> TRUE]
            ELSE IF ch = q THEN [at |-> w.at + 1, curquote |-> NUL, quoted |-> w.quoted]
            ELSE IF ch = "\\" /\ w.at + 1 # N /\ q # "'"
            THEN [at |-> w.at + 2, curquote |-> q, quoted |-> TRUE]
            ELSE [at |-> w.at + 1, curquote |-> q, quoted |-> w.quoted]
    BY DEF WordStep
  <2>3. (w.at + 1) - t.s = w.at - t.s + 1 /\ (w.at + 2) - t.s = w.at - t.s + 2
    BY <1>2
  <2> HIDE DEF v, ch, q, N
  <2>4. CASE ch \in Quotes /\ q = NUL
    <3>1. v = [at |-> w.at + 1, curquote |-> ch, quoted |-> TRUE]
      BY <2>2, <2>4
    <3>2. v.at = w.at + 1 /\ v.curquote = ch
      BY <3>1
    <3> QED BY <2>1, <2>3, <2>4, <3>2
  <2>5. CASE ~(ch \in Quotes /\ q = NUL) /\ ch = q
    <3>1. v = [at |-> w.at + 1, curquote |-> NUL, quoted |-> w.quoted]
      BY <2>2, <2>5
    <3>2. v.at = w.at + 1 /\ v.curquote = NUL
      BY <3>1
    <3> QED BY <2>1, <2>3, <2>5, <3>2
  <2>6. CASE ~(ch \in Quotes /\ q = NUL) /\ ch # q /\ ch = "\\" /\ w.at + 1 # N /\ q # "'"
    <3>1. v = [at |-> w.at + 2, curquote |-> q, quoted |-> TRUE]
      BY <2>2, <2>6
    <3>2. v.at = w.at + 2 /\ v.curquote = q
      BY <3>1
    <3> QED BY <2>1, <2>3, <2>6, <3>2
  <2>7. CASE ~(ch \in Quotes /\ q = NUL) /\ ch # q /\ ~(ch = "\\" /\ w.at + 1 # N /\ q # "'")
    <3>1. v = [at |-> w.at + 1, curquote |-> q, quoted |-> w.quoted]
      BY <2>2, <2>7
    <3>2. v.at = w.at + 1 /\ v.curquote = q
      BY <3>1
    <3> QED BY <2>1, <2>3, <2>7, <3>2
  <2> QED BY <2>4, <2>5, <2>6, <2>7
<1>8. B[here] = IF (ch \in Quotes /\ q = NUL) \/ ch = q THEN B[next]
                ELSE IF ch = "\\" /\ w.at + 1 # N /\ q # "'"
                THEN <<At(s, w.at + 1)>> \o B[next] ELSE <<ch>> \o B[next]
  <2>1. B[here] = IF StrPlain(s, t, here) THEN B[StrNext(s, t, here)]
                  ELSE StrChar(s, t, here) \o B[StrNext(s, t, here)]
    <3> HIDE DEF here
    <3> QED BY <1>5, StrDef
  <2>2. StrPlain(s, t, here) <=> (ch \in Quotes /\ q = NUL) \/ ch = q
    <3> HIDE DEF here
    <3> QED BY <1>5 DEF StrPlain
  <2>3. StrChar(s, t, here) = IF ch = "\\" /\ w.at + 1 # N /\ q # "'"
                              THEN <<At(s, w.at + 1)>> ELSE <<ch>>
    <3> HIDE DEF here
    <3> QED BY <1>5, <1>6 DEF StrChar
  <2> HIDE DEF here, next, B, ch, q, N
  <2> QED BY <1>7, <2>1, <2>2, <2>3
<1>9. B[here] \in Seq(V) /\ B[next] \in Seq(V)
  <2> HIDE DEF here, next
  <2> QED BY <1>5, StrType
<1>10. PICK word \in Seq(V), in \in BOOLEAN :
         /\ Close(s, w.at) = Reader(words, word, in, q, FALSE)
         /\ w.at # t.s => in = TRUE
         /\ w.at = t.s => q = NUL
         /\ w.quoted = FALSE => word = SubSeq(s, t.s + 1, w.at)
         /\ word \o B[here] = B[start]
  BY DEF Follows
<1>11. /\ Reads(s)[w.at + 1] = ReadChar(Reader(words, word, in, q, FALSE), ch)
       /\ Reads(s)[w.at + 1].esc = FALSE => Close(s, w.at + 1) = Reads(s)[w.at + 1]
       /\ w.at + 1 # N => Close(s, w.at + 1) = Reads(s)[w.at + 1]
       /\ w.at + 1 = N /\ Reads(s)[w.at + 1].esc = TRUE
            => Close(s, w.at + 1) = AddChar(Reads(s)[w.at + 1], "\\")
  <2> DEFINE at == w.at
  <2>1. at \in Nat /\ at < Len(s)
    BY <1>2
  <2> HIDE DEF at
  <2>2. /\ Reads(s)[at + 1] = ReadChar(Close(s, at), At(s, at))
        /\ Reads(s)[at + 1].esc = FALSE => Close(s, at + 1) = Reads(s)[at + 1]
        /\ at + 1 # Len(s) => Close(s, at + 1) = Reads(s)[at + 1]
        /\ at + 1 = Len(s) /\ Reads(s)[at + 1].esc = TRUE
             => Close(s, at + 1) = AddChar(Reads(s)[at + 1], "\\")
    BY <2>1, CloseStep
  <2>3. Close(s, at) = Reader(words, word, in, q, FALSE)
    BY <1>10 DEF at
  <2> QED BY <2>2, <2>3 DEF at
<1>12. ASSUME NEW x \in Seq(V),
              Close(s, v.at) = Reader(words, x, TRUE, v.curquote, FALSE),
              v.quoted = FALSE => x = SubSeq(s, t.s + 1, v.at),
              x \o B[next] = B[start]
       PROVE  Follows(s, t, words, v)
  BY <1>4, <1>12 DEF Follows
<1>w. word \in Seq(V)
  OBVIOUS
<1>13. \A e : Reader(words, word, e, q, FALSE).esc = FALSE
  BY DEF Reader
<1> HIDE DEF N, V, B, ch, q, here, next, start
<1>14. CASE ch \in Quotes /\ q = NUL
  <2>1. v = [at |-> w.at + 1, curquote |-> ch, quoted |-> TRUE]
    BY <1>14 DEF WordStep, ch, q
  <2>2. v.at = w.at + 1 /\ v.curquote = ch /\ v.quoted # FALSE
    BY <2>1
  <2> HIDE DEF v
  <2>3. Reads(s)[w.at + 1] = Reader(words, word, TRUE, ch, FALSE)
    BY <1>11, <1>14, ReadQuote
  <2>4. Reads(s)[w.at + 1].esc = FALSE
    BY <2>3 DEF Reader
  <2>5. Close(s, v.at) = Reader(words, word, TRUE, v.curquote, FALSE)
    BY <1>11, <2>2, <2>3, <2>4
  <2>6. word \o B[next] = B[start]
    BY <1>8, <1>10, <1>14
  <2> QED BY <1>12, <2>2, <2>5, <2>6 DEF v, N
<1>15. CASE ~(ch \in Quotes /\ q = NUL) /\ ch = q
  <2>1. v = [at |-> w.at + 1, curquote |-> NUL, quoted |-> w.quoted]
    BY <1>15 DEF WordStep, ch, q
  <2>2. v.at = w.at + 1 /\ v.curquote = NUL /\ v.quoted = w.quoted
    BY <2>1
  <2> HIDE DEF v
  <2>3. q # NUL
    BY <1>6, <1>15
  <2>4. w.quoted # FALSE /\ in = TRUE
    BY <1>10, <2>3 DEF Fair, q
  <2>5. Reads(s)[w.at + 1] = Reader(words, word, in, NUL, FALSE)
    <3>1. q \in Quotes
      BY <1>3, <2>3, CharKinds
    <3>2. ReadChar(Reader(words, word, in, q, FALSE), q) = Reader(words, word, in, NUL, FALSE)
      BY <3>1, ReadUnquote
    <3> QED BY <1>11, <1>15, <3>2
  <2>6. Reads(s)[w.at + 1].esc = FALSE
    BY <2>5 DEF Reader
  <2>7. Close(s, v.at) = Reader(words, word, TRUE, v.curquote, FALSE)
    BY <1>11, <2>2, <2>4, <2>5, <2>6
  <2>8. word \o B[next] = B[start]
    BY <1>8, <1>10, <1>15
  <2> QED BY <1>12, <2>2, <2>4, <2>7, <2>8 DEF v, N
<1>16. CASE ~(ch \in Quotes /\ q = NUL) /\ ch # q /\ ch = "\\" /\ w.at + 1 # N /\ q # "'"
  <2> DEFINE after == At(s, w.at + 1)
  <2> HIDE DEF after
  <2>1. v = [at |-> w.at + 2, curquote |-> q, quoted |-> TRUE]
    BY <1>16 DEF WordStep, ch, q, N
  <2>2. v.at = w.at + 2 /\ v.curquote = q /\ v.quoted # FALSE
    BY <2>1
  <2> HIDE DEF v
  <2>3. Reads(s)[w.at + 1] = Reader(words, word, TRUE, q, TRUE)
    BY <1>3, <1>11, <1>16, ReadBackslash
  <2>4. Close(s, w.at + 1) = Reader(words, word, TRUE, q, TRUE)
    BY <1>11, <1>16, <2>3
  <2>5. w.at + 1 \in Nat /\ w.at + 1 < N /\ (w.at + 1) + 1 = w.at + 2 /\ after # NUL
    BY <1>1, <1>2, <1>6, <1>16 DEF after
  <2>6. /\ Reads(s)[w.at + 2] = ReadChar(Close(s, w.at + 1), after)
        /\ Reads(s)[w.at + 2].esc = FALSE => Close(s, w.at + 2) = Reads(s)[w.at + 2]
    <3>1. /\ Reads(s)[(w.at + 1) + 1] = ReadChar(Close(s, w.at + 1), after)
          /\ Reads(s)[(w.at + 1) + 1].esc = FALSE => Close(s, (w.at + 1) + 1) = Reads(s)[(w.at + 1) + 1]
      BY <2>5, CloseStep DEF N, after
    <3> QED BY <2>5, <3>1
  <2>7. Reads(s)[w.at + 2] = Reader(words, Append(word, after), TRUE, q, FALSE)
    <3>1. ReadChar(Reader(words, word, TRUE, q, TRUE), after) = Reader(words, Append(word, after), TRUE, q, FALSE)
      BY ReadEscaped
    <3> QED BY <2>4, <2>6, <3>1
  <2>8. Reads(s)[w.at + 2].esc = FALSE
    BY <2>7 DEF Reader
  <2>9. Close(s, v.at) = Reader(words, Append(word, after), TRUE, v.curquote, FALSE)
    BY <2>2, <2>6, <2>7, <2>8
  <2>10. B[here] = <<after>> \o B[next]
    BY <1>8, <1>16 DEF after
  <2>11. Append(word, after) \o B[next] = B[start] /\ Append(word, after) \in Seq(V)
    <3>1. after \in V
      BY <1>6 DEF after
    <3>2. Moves(word, after, B[next]) /\ Append(word, after) \in Seq(V)
      BY <1>9, <1>w, <3>1, AppendConcat
    <3> QED BY <1>10, <2>10, <3>2 DEF Moves
  <2> QED BY <1>12, <2>2, <2>9, <2>11 DEF v, N
<1>17. CASE ~(ch \in Quotes /\ q = NUL) /\ ch # q /\ ~(ch = "\\" /\ w.at + 1 # N /\ q # "'")
  <2>1. v = [at |-> w.at + 1, curquote |-> q, quoted |-> w.quoted]
    BY <1>17 DEF WordStep, ch, q, N
  <2>2. v.at = w.at + 1 /\ v.curquote = q /\ v.quoted = w.quoted
    BY <2>1
  <2>e. ~(isspace(ch) /\ q = NUL)
    BY DEF WordOver, ch, q
  <2> HIDE DEF v
  <2>3. Close(s, w.at + 1) = Reader(words, Append(word, ch), TRUE, q, FALSE)
    <3>1. CASE ch = "\\" /\ q # "'"
      <4>1. w.at + 1 = N
        BY <1>17, <3>1
      <4>2. Reads(s)[w.at + 1] = Reader(words, word, TRUE, q, TRUE)
        BY <1>3, <1>11, <3>1, ReadBackslash
      <4>3. Reads(s)[w.at + 1].esc = TRUE
        BY <4>2 DEF Reader
      <4>4. Close(s, w.at + 1) = AddChar(Reader(words, word, TRUE, q, TRUE), "\\")
        BY <1>11, <4>1, <4>2, <4>3
      <4>5. AddChar(Reader(words, word, TRUE, q, TRUE), "\\") = Reader(words, Append(word, "\\"), TRUE, q, FALSE)
        BY DEF AddChar, Reader
      <4> QED BY <3>1, <4>4, <4>5
    <3>2. CASE ~(ch = "\\" /\ q # "'")
      <4>0. ~(ch \in Quotes /\ q = NUL) /\ ch # q /\ q \in Marks
        BY <1>3, <1>17
      <4>1. Takes(words, word, in, q, ch)
        BY <2>e, <3>2, <4>0, ReadOther
      <4>3. Reads(s)[w.at + 1] = Reader(words, Append(word, ch), TRUE, q, FALSE)
        BY <1>11, <4>1 DEF Takes
      <4>2. Reads(s)[w.at + 1].esc = FALSE
        BY <4>3 DEF Reader
      <4> QED BY <1>11, <4>2, <4>3
    <3> QED BY <3>1, <3>2
  <2>4. B[here] = <<ch>> \o B[next]
    BY <1>8, <1>17
  <2>5. Append(word, ch) \o B[next] = B[start] /\ Append(word, ch) \in Seq(V)
    <3>1. Moves(word, ch, B[next]) /\ Append(word, ch) \in Seq(V)
      BY <1>6, <1>9, <1>w, AppendConcat
    <3> QED BY <1>10, <2>4, <3>1 DEF Moves
  <2>6. ASSUME v.quoted = FALSE PROVE Append(word, ch) = SubSeq(s, t.s + 1, v.at)
    <3>1. word = SubSeq(s, t.s + 1, w.at)
      BY <1>10, <2>2, <2>6
    <3>2. t.s <= w.at /\ w.at < Len(s)
      BY <1>2, <1>3 DEF N
    <3>3. SubSeq(s, t.s + 1, w.at + 1) = Append(SubSeq(s, t.s + 1, w.at), s[w.at + 1])
      BY <1>1, <1>2, <3>2, SubSeqMore
    <3> QED BY <1>6, <2>2, <3>1, <3>3
  <2> QED BY <1>12, <2>2, <2>3, <2>5, <2>6 DEF v, N
<1> QED BY <1>14, <1>15, <1>16, <1>17

\* The loop over a word, str() and the reader come to the same end.
LEMMA FollowFacts ==
  ASSUME NEW s, Text(s), NEW t, t.s \in Nat, t.len \in Nat, t.s + t.len <= Len(s), NEW words
  PROVE  \A w \in WordStates(t.s, Len(s)) :
           /\ Fair(w) /\ Follows(s, t, words, w) /\ Scan(s, t.s, Len(s))[w].at = t.s + t.len
           => Follows(s, t, words, Scan(s, t.s, Len(s))[w])
<1> DEFINE N == Len(s)
           D == WordStates(t.s, N)
           F == Scan(s, t.s, N)
           Hyp(w) == Fair(w) /\ Follows(s, t, words, w) /\ F[w].at = t.s + t.len
           G == {w \in D : Hyp(w) => Follows(s, t, words, F[w])}
           rank == [w \in D |-> N - w.at]
<1>0. N \in Nat
  BY TextFacts
<1>1. \A w \in D : rank[w] \in Nat /\ w.at \in Nat /\ rank[w] = N - w.at
  BY <1>0 DEF WordStates
<1>2. ASSUME NEW w \in D, \A y \in D : rank[y] < rank[w] => y \in G PROVE w \in G
  <2> SUFFICES ASSUME Hyp(w) PROVE Follows(s, t, words, F[w])
    OBVIOUS
  <2> DEFINE v == WordStep(s, N, w)
  <2>1. F[w] = IF WordOver(s, N, w) THEN w ELSE F[v]
    BY <1>0, ScanDef
  <2>2. CASE WordOver(s, N, w)
    <3> HIDE DEF F, D, v
    <3> QED BY <2>1, <2>2
  <2>3. CASE ~WordOver(s, N, w)
    <3>1. v \in D /\ w.at < v.at
      BY <1>0, <2>3, WordStepIn
    <3>2. Fair(v)
      BY <1>0, <2>3, WordStepMarks
    <3>3. F[w] = F[v]
      <4> HIDE DEF F, D, v
      <4> QED BY <2>1, <2>3
    <3>4. v.at <= F[v].at
      BY <1>0, <3>1, ScanFacts DEF ScanRight
    <3>5. v.at <= t.s + t.len
      <4> HIDE DEF F, D, v
      <4> QED BY <3>3, <3>4
    <3>6. Follows(s, t, words, v)
      <4> HIDE DEF F
      <4> QED BY <1>0, <2>3, <3>5, FollowStep
    <3> HIDE DEF F, D, v, rank
    <3>7. rank[v] < rank[w]
      BY <1>0, <1>1, <3>1
    <3>8. Hyp(v) /\ v \in G
      BY <1>2, <3>1, <3>2, <3>3, <3>6, <3>7
    <3> QED BY <3>3, <3>8
  <2> QED BY <2>2, <2>3
<1>3. \A w \in D : w \in G
  <2> HIDE DEF D, G, rank
  <2>1. \A w \in D : rank[w] \in Nat
    BY <1>1
  <2> QED BY <1>2, <2>1, RankInduction
<1> QED BY <1>3

\* A line of words: no operators and no comments in it.
Plainly(s) == Text(s) /\ \A i \in DOMAIN s : ~isshellspecial(s[i])

\* A line of words has no operator in any place.
LEMMA PlainFacts ==
  ASSUME NEW s, Plainly(s)
  PROVE  Text(s) /\ Len(s) \in Nat /\ \A k \in Nat : k < Len(s) => ~isshellspecial(At(s, k))
<1>1. Text(s)
  BY DEF Plainly
<1>2. s \in Seq(STRING) /\ Len(s) \in Nat /\ DOMAIN s = 1 .. Len(s)
  BY <1>1, TextFacts, LenProperties
<1>3. ASSUME NEW k \in Nat, k < Len(s) PROVE ~isshellspecial(At(s, k))
  <2>1. k + 1 \in DOMAIN s /\ At(s, k) = s[k + 1]
    BY <1>1, <1>2, <1>3, TextFacts
  <2> QED BY <2>1 DEF Plainly
<1> QED BY <1>1, <1>2, <1>3

\* Its tokens are words.
LEMMA WordTokens ==
  ASSUME NEW s, Plainly(s), NEW at \in Nat, at < Len(s)
  PROVE  /\ TokenAt(s, at, Len(s)).s = at /\ TokenAt(s, at, Len(s)).type = "NORMAL"
         /\ TokenAt(s, at, Len(s)).len = WordEnd(s, at, Len(s)).at - at
         /\ TokenAt(s, at, Len(s)).quoted = WordEnd(s, at, Len(s)).quoted
<1> DEFINE N == Len(s)
           w == WordEnd(s, at, N)
           p == SkipWhile(s, at, N, isdigit)
<1>1. N \in Nat /\ \A k \in Nat : k < N => ~isshellspecial(At(s, k))
  BY PlainFacts
<1>2. RedirectEnd(s, at, N) = NotRedirect
  <2>1. at <= N
    BY <1>1
  <2>2. p \in at .. N
    BY <1>1, <2>1, SkipDigit
  <2> HIDE DEF p
  <2>3. p # N => p \in Nat /\ p < N
    BY <1>1, <2>2
  <2>4. p = N \/ At(s, p) \notin {"<", ">"}
    BY <1>1, <2>3 DEF isshellspecial
  <2> QED BY <2>4 DEF RedirectEnd, p
<1>3. ~isshellspecial(At(s, at)) /\ at # N
  BY <1>1
<1>4. ~IsDouble(s, at, N)
  BY <1>3 DEF IsDouble, isshellspecial
<1>5. TokenAt(s, at, N) = [s |-> at, len |-> w.at - at, end |-> N, type |-> "NORMAL", quoted |-> w.quoted]
  <2> HIDE DEF N
  <2> QED BY <1>2, <1>3, <1>4 DEF TokenAt
<1> HIDE DEF N, w, p
<1>6. TokenAt(s, at, N).s = at /\ TokenAt(s, at, N).type = "NORMAL" /\ TokenAt(s, at, N).len = w.at - at
      /\ TokenAt(s, at, N).quoted = w.quoted
  BY <1>5
<1> QED BY <1>6 DEF N, w

\* str() of a token is made of characters.
LEMMA StrIn ==
  ASSUME NEW s, Text(s), NEW t, t.s \in Nat, t.len \in Nat, t.s + t.len <= Len(s)
  PROVE  str(s, t) \in Seq(WordChars(s))
<1> DEFINE V == WordChars(s)
           start == [pos |-> 0, curquote |-> NUL]
<1>1. str(s, t) = IF t.quoted THEN Build(s, t)[start] ELSE SubSeq(s, t.s + 1, t.s + t.len)
  BY StrDef
<1>2. start \in StrStates(t)
  BY DEF StrStates
<1>3. Build(s, t)[start] \in Seq(V)
  <2> HIDE DEF start
  <2> QED BY <1>2, StrType
<1>4. SubSeq(s, t.s + 1, t.s + t.len) \in Seq(V)
  <2>1. Len(s) \in Nat
    BY TextFacts
  <2>2. t.s + 1 \in Int /\ t.s + t.len \in Int
    OBVIOUS
  <2>3. ASSUME NEW i \in t.s + 1 .. t.s + t.len PROVE s[i] \in V
    <3>1. i - 1 \in Nat /\ i - 1 < Len(s) /\ (i - 1) + 1 = i
      BY <2>1
    <3>2. At(s, i - 1) = s[i]
      BY <3>1, TextFacts
    <3> QED BY <3>1, <3>2 DEF WordChars
  <2> HIDE DEF V
  <2> QED BY <2>2, <2>3, SubSeqProperties
<1> HIDE DEF V, start
<1>5. str(s, t) \in Seq(V)
  BY <1>1, <1>3, <1>4
<1> QED BY <1>5 DEF V

\* The reader between words.
Between(words) == Reader(words, <<>>, FALSE, NUL, FALSE)

\* The reader reads a token.
LEMMA WordRead ==
  ASSUME NEW s, Plainly(s), NEW at \in Nat, at < Len(s), ~isspace(At(s, at)), NEW t,
         t = TokenAt(s, at, Len(s)), NEW words, Close(s, at) = Between(words)
  PROVE  \E q \in Marks :
           /\ Close(s, at + t.len) = Reader(words, str(s, t), TRUE, q, FALSE)
           /\ at + t.len = Len(s) \/ (q = NUL /\ isspace(At(s, at + t.len)))
<1> DEFINE N == Len(s)
           r == WordEnd(s, at, N)
           B == Build(s, t)
           V == WordChars(s)
           w == WordStart(at)
           start == [pos |-> 0, curquote |-> NUL]
<1>1. N \in Nat /\ Text(s) /\ \A k \in Nat : k < N => ~isshellspecial(At(s, k))
  BY PlainFacts
<1>2. t.s = at /\ t.len = r.at - at /\ t.quoted = r.quoted
  BY WordTokens
<1>3. r \in WordStates(at, N) /\ at < r.at /\ WordOver(s, N, r)
  BY <1>1, WordFacts
<1> HIDE DEF r
<1>4. r.at \in at .. N /\ r.curquote \in Marks /\ r.quoted \in BOOLEAN
  BY <1>3 DEF WordStates
<1>5. /\ t.s \in Nat /\ t.len \in Nat /\ t.s + t.len <= Len(s) /\ r.at = t.s + t.len /\ r.at \in Nat
      /\ r.at # t.s /\ t.len # 0 /\ r.at - t.s = t.len
  BY <1>1, <1>2, <1>3, <1>4
<1>6. w \in WordStates(at, N) /\ w.at = at /\ w.curquote = NUL /\ w.quoted = FALSE /\ Fair(w)
  BY <1>1 DEF WordStart, WordStates, Marks, Fair
<1>7. r = Scan(s, at, N)[w]
  BY <1>1, ScanDef DEF r
<1>8. start \in StrStates(t)
  BY <1>5 DEF StrStates
<1>9. B[start] \in Seq(V)
  <2> HIDE DEF start
  <2> QED BY <1>5, <1>8, StrType
<1>10. Follows(s, t, words, w)
  <2> DEFINE e == <<>>
  <2>1. e \in Seq(V) /\ e \o B[start] = B[start]
    <3> HIDE DEF B, V, start
    <3> QED BY <1>9, ConcatEmptySeq
  <2>2. w.at - t.s = 0 /\ [pos |-> w.at - t.s, curquote |-> w.curquote] = start
    BY <1>2, <1>6
  <2>3. SubSeq(s, t.s + 1, w.at) = e
    <3>1. t.s + 1 \in Int /\ w.at \in Int /\ w.at < t.s + 1 /\ s \in Seq(STRING)
      BY <1>1, <1>2, <1>6, TextFacts
    <3> QED BY <3>1, SubSeqEmpty
  <2>4. Close(s, w.at) = Reader(words, e, FALSE, w.curquote, FALSE)
    BY <1>6 DEF Between
  <2>5. w.at = t.s
    BY <1>2, <1>6
  <2> HIDE DEF e, start, B, V, w
  <2>6. \E word \in Seq(V), in \in BOOLEAN :
          /\ Close(s, w.at) = Reader(words, word, in, w.curquote, FALSE)
          /\ w.at # t.s => in = TRUE
          /\ w.at = t.s => w.curquote = NUL
          /\ w.quoted = FALSE => word = SubSeq(s, t.s + 1, w.at)
          /\ word \o B[[pos |-> w.at - t.s, curquote |-> w.curquote]] = B[start]
    <3> USE <2>1
    <3> WITNESS e \in Seq(V), FALSE \in BOOLEAN
    <3> QED BY <1>6, <2>1, <2>2, <2>3, <2>4, <2>5
  <2> QED BY <2>6 DEF Follows, V, B, start, w
<1>11. Follows(s, t, words, r)
  <2>1. /\ \A x \in WordStates(t.s, Len(s)) :
           /\ Fair(x) /\ Follows(s, t, words, x) /\ Scan(s, t.s, Len(s))[x].at = t.s + t.len
           => Follows(s, t, words, Scan(s, t.s, Len(s))[x])
    BY <1>1, <1>5, FollowFacts
  <2> HIDE DEF w
  <2> QED BY <1>2, <1>5, <1>6, <1>7, <1>10, <2>1
<1>12. PICK word \in Seq(V), in \in BOOLEAN :
         /\ Close(s, r.at) = Reader(words, word, in, r.curquote, FALSE)
         /\ r.at # t.s => in = TRUE
         /\ r.quoted = FALSE => word = SubSeq(s, t.s + 1, r.at)
         /\ word \o B[[pos |-> r.at - t.s, curquote |-> r.curquote]] = B[start]
  BY <1>11 DEF Follows
<1>13. word = B[start]
  <2> DEFINE x == [pos |-> r.at - t.s, curquote |-> r.curquote]
  <2>1. x \in StrStates(t) /\ x.pos = t.len
    <3>1. t.len \in 0 .. t.len + 1
      BY <1>5
    <3> QED BY <1>4, <1>5, <3>1 DEF StrStates, Marks
  <2> HIDE DEF x
  <2>2. B[x] = <<>>
    BY <1>5, <2>1, StrDef
  <2>3. word \o <<>> = word
    BY ConcatEmptySeq
  <2> QED BY <1>12, <2>2, <2>3 DEF x
<1>14. str(s, t) = word
  <2>1. str(s, t) = IF t.quoted THEN B[start] ELSE SubSeq(s, t.s + 1, t.s + t.len)
    BY <1>5, StrDef
  <2> HIDE DEF B, start
  <2>2. CASE t.quoted = TRUE
    BY <1>13, <2>1, <2>2
  <2>3. CASE t.quoted = FALSE
    <3>1. word = SubSeq(s, t.s + 1, r.at)
      BY <1>2, <1>12, <2>3
    <3> QED BY <1>5, <2>1, <2>3, <3>1
  <2> QED BY <1>2, <1>4, <2>2, <2>3
<1>15. Close(s, at + t.len) = Reader(words, str(s, t), TRUE, r.curquote, FALSE)
  BY <1>2, <1>5, <1>12, <1>14
<1>16. at + t.len = Len(s) \/ (r.curquote = NUL /\ isspace(At(s, at + t.len)))
  <2>1. r.at = N \/ (r.curquote = NUL /\ (isspace(At(s, r.at)) \/ isshellspecial(At(s, r.at))))
    BY <1>3 DEF WordOver
  <2>2. r.at # N => ~isshellspecial(At(s, r.at))
    BY <1>1, <1>4, <1>5
  <2> QED BY <1>2, <1>5, <2>1, <2>2
<1> QED BY <1>4, <1>15, <1>16

\* The reader passes blanks.
LEMMA BlankRead ==
  ASSUME NEW s, Text(s), NEW p \in Nat, NEW r \in Nat, p <= r, r <= Len(s), Blanks(s, p, r),
         NEW words, Close(s, p) = Between(words)
  PROVE  Close(s, r) = Between(words)
<1> DEFINE D == p .. r
           rank == [k \in D |-> k]
           G == {k \in D : Close(s, k) = Between(words)}
<1>1. \A k \in D : rank[k] \in Nat
  OBVIOUS
<1>2. ASSUME NEW k \in D, \A y \in D : rank[y] < rank[k] => y \in G PROVE k \in G
  <2>1. CASE k = p
    BY <2>1
  <2>2. CASE k # p
    <3> DEFINE j == k - 1
    <3>1. j \in D /\ j < k /\ rank[j] = j /\ rank[k] = k /\ j \in Nat /\ j + 1 = k /\ j \in p .. r - 1
      BY <2>2
    <3>2. j \in G
      <4> HIDE DEF D, G, rank, j
      <4> QED BY <1>2, <3>1
    <3>3. Close(s, j) = Between(words) /\ isspace(At(s, j))
      BY <3>1, <3>2 DEF Blanks
    <3>4. Len(s) \in Nat
      BY TextFacts
    <3>5. j < Len(s)
      BY <3>1, <3>4
    <3> HIDE DEF j
    <3>6. /\ Reads(s)[j + 1] = ReadChar(Close(s, j), At(s, j))
          /\ Reads(s)[j + 1].esc = FALSE => Close(s, j + 1) = Reads(s)[j + 1]
      BY <3>1, <3>5, CloseStep
    <3>7. ReadChar(Between(words), At(s, j)) = Between(words)
      BY <3>3, ReadBlank DEF Between
    <3>8. Between(words).esc = FALSE
      BY DEF Between, Reader
    <3>9. Close(s, k) = Between(words)
      BY <3>1, <3>3, <3>6, <3>7, <3>8
    <3> QED BY <3>9
  <2> QED BY <2>1, <2>2
<1>3. \A k \in D : k \in G
  <2> HIDE DEF D, G, rank
  <2> QED BY <1>1, <1>2, RankInduction
<1>4. r \in D
  OBVIOUS
<1> QED BY <1>3, <1>4

\* There are only blanks between the tokens of a line of words.
LEMMA PlainGap ==
  ASSUME NEW s, Plainly(s), NEW p \in Nat, NEW r \in Nat, r <= Len(s), Gap(s, p, r, Len(s))
  PROVE  Blanks(s, p, r)
<1>1. Len(s) \in Nat /\ \A k \in Nat : k < Len(s) => ~isshellspecial(At(s, k))
  BY PlainFacts
<1>2. ASSUME NEW k \in p .. r - 1 PROVE isspace(At(s, k))
  <2>1. ASSUME NEW j \in p .. k PROVE At(s, j) # "#"
    <3>1. j \in Nat /\ j < Len(s)
      BY <1>1
    <3> QED BY <1>1, <3>1 DEF isshellspecial
  <2> QED BY <2>1 DEF Gap
<1> QED BY <1>2 DEF Blanks

\* The strings of tokens, and what the reader has read in the end.
Strings(s, L) == [i \in DOMAIN L |-> str(s, L[i])]
AllWords(s) == LET c == Close(s, Len(s)) IN IF c.in THEN Append(c.words, c.word) ELSE c.words

\* The words of a line are those the reader has read in the end.
LEMMA AllWordsOf ==
  ASSUME NEW s, Len(s) \in Nat
  PROVE  WordsOf(s) = AllWords(s)
<1> DEFINE all == Reads(s)[Len(s)]
           end == IF all.esc THEN AddChar(all, "\\") ELSE all
<1>1. WordsOf(s) = IF end.in THEN Append(end.words, end.word) ELSE end.words
  BY DEF WordsOf, Reads, IsReads
<1>2. Close(s, Len(s)) = end
  BY DEF Close
<1> HIDE DEF end
<1> QED BY <1>1, <1>2 DEF AllWords

\* What f makes of each member of a sequence.
Mapped(f, L) == [i \in DOMAIN L |-> f[L[i]]]
Splits(f, A, B) == Mapped(f, A \o B) = Mapped(f, A) \o Mapped(f, B)
Sends(f, D, W) == \A u \in D : f[u] \in W

\* A function applied to each member gives a sequence of the same length.
LEMMA MapType ==
  ASSUME NEW D, NEW W, NEW f, Sends(f, D, W), NEW A \in Seq(D)
  PROVE  /\ Mapped(f, A) \in Seq(W) /\ Len(Mapped(f, A)) = Len(A) /\ Len(A) \in Nat
         /\ \A i \in 1 .. Len(A) : A[i] \in D /\ Mapped(f, A)[i] = f[A[i]]
<1> DEFINE a == Mapped(f, A)
<1>1. DOMAIN A = 1 .. Len(A) /\ Len(A) \in Nat /\ \A i \in 1 .. Len(A) : A[i] \in D
  BY LenProperties, ElementOfSeq
<1>2. a = [i \in 1 .. Len(A) |-> f[A[i]]]
  BY <1>1 DEF Mapped
<1> HIDE DEF a
<1>3. \A i \in 1 .. Len(A) : a[i] = f[A[i]] /\ a[i] \in W
  BY <1>1, <1>2 DEF Sends
<1>4. a \in [1 .. Len(A) -> W]
  BY <1>2, <1>3
<1>5. a \in Seq(W) /\ Len(a) = Len(A)
  BY <1>1, <1>4
<1> QED BY <1>1, <1>3, <1>5 DEF a

\* It may be applied to the parts of a sequence instead.
LEMMA MapConcat ==
  ASSUME NEW D, NEW W, NEW f, Sends(f, D, W), NEW A \in Seq(D), NEW B \in Seq(D)
  PROVE  Splits(f, A, B)
<1> DEFINE L == A \o B
           a == Mapped(f, A)
           b == Mapped(f, B)
           c == a \o b
           d == Mapped(f, L)
<1>1. /\ a \in Seq(W) /\ Len(a) = Len(A) /\ Len(A) \in Nat
      /\ \A i \in 1 .. Len(A) : A[i] \in D /\ a[i] = f[A[i]]
  BY MapType
<1>2. /\ b \in Seq(W) /\ Len(b) = Len(B) /\ Len(B) \in Nat
      /\ \A i \in 1 .. Len(B) : B[i] \in D /\ b[i] = f[B[i]]
  BY MapType
<1>3. /\ L \in Seq(D) /\ Len(L) = Len(A) + Len(B)
      /\ \A i \in 1 .. Len(A) + Len(B) : L[i] = IF i <= Len(A) THEN A[i] ELSE B[i - Len(A)]
  BY ConcatProperties
<1> HIDE DEF L
<1>l. L \in Seq(D)
  BY <1>3
<1>4. d \in Seq(W) /\ Len(d) = Len(L) /\ \A i \in 1 .. Len(L) : d[i] = f[L[i]]
  BY <1>l, MapType
<1> HIDE DEF a, b, d
<1>5. /\ c \in Seq(W) /\ Len(c) = Len(a) + Len(b)
      /\ \A i \in 1 .. Len(a) + Len(b) : c[i] = IF i <= Len(a) THEN a[i] ELSE b[i - Len(a)]
  <2>1. a \in Seq(W) /\ b \in Seq(W)
    BY <1>1, <1>2
  <2> QED BY <2>1, ConcatProperties
<1> HIDE DEF c
<1>6. ASSUME NEW i \in 1 .. Len(d) PROVE d[i] = c[i]
  <2>0. i \in 1 .. Len(A) + Len(B) /\ i \in 1 .. Len(a) + Len(b) /\ i \in 1 .. Len(L)
    BY <1>1, <1>2, <1>3, <1>4
  <2>1. CASE i <= Len(A)
    <3>1. i \in 1 .. Len(A)
      BY <1>1, <2>1
    <3>2. L[i] = A[i] /\ c[i] = a[i]
      BY <1>1, <1>3, <1>5, <2>0, <2>1
    <3> QED BY <1>1, <1>4, <2>0, <3>1, <3>2
  <2>2. CASE ~(i <= Len(A))
    <3>1. i - Len(A) \in 1 .. Len(B)
      BY <1>1, <1>2, <2>0, <2>2
    <3>2. L[i] = B[i - Len(A)] /\ c[i] = b[i - Len(A)]
      BY <1>1, <1>3, <1>5, <2>0, <2>2
    <3> QED BY <1>2, <1>4, <2>0, <3>1, <3>2
  <2> QED BY <2>1, <2>2
<1>7. d = c
  <2>1. Len(d) = Len(c)
    BY <1>1, <1>2, <1>3, <1>4, <1>5
  <2> QED BY <1>4, <1>5, <1>6, <2>1, SeqEqual
<1> QED BY <1>7 DEF Splits, L, a, b, c, d

\* The strings of tokens, one by one.
Conses(s, t, M) == Strings(s, <<t>> \o M) = <<str(s, t)>> \o Strings(s, M)

\* The strings of tokens with one in front are its string and those of the others.
LEMMA StringsCons ==
  ASSUME NEW s, Text(s), NEW first \in Nat, NEW t \in TokensIn(first, Len(s)),
         NEW M \in Seq(TokensIn(first, Len(s)))
  PROVE  /\ Conses(s, t, M)
         /\ Strings(s, M) \in Seq(Seq(WordChars(s))) /\ str(s, t) \in Seq(WordChars(s))
<1> DEFINE D == TokensIn(first, Len(s))
           W == Seq(WordChars(s))
           f == [u \in D |-> str(s, u)]
           one == <<t>>
<1>0. Len(s) \in Nat
  BY TextFacts
<1>1. ASSUME NEW u \in D PROVE str(s, u) \in W
  <2>1. u.s \in first .. Len(s) /\ u.len \in Nat /\ u.s + u.len \in first .. Len(s)
    BY <1>0, AdvanceFacts
  <2>2. u.s \in Nat /\ u.len \in Nat /\ u.s + u.len <= Len(s)
    BY <1>0, <2>1
  <2> QED BY <2>2, StrIn
<1>2. t \in D /\ M \in Seq(D)
  OBVIOUS
<1> HIDE DEF D, W
<1>3. \A u \in D : f[u] = str(s, u) /\ f[u] \in W
  BY <1>1
<1> HIDE DEF f
<1>s. Sends(f, D, W)
  BY <1>3 DEF Sends
<1>4. ASSUME NEW L \in Seq(D) PROVE Mapped(f, L) = Strings(s, L)
  <2>1. \A i \in DOMAIN L : L[i] \in D
    BY LenProperties, ElementOfSeq
  <2> QED BY <1>3, <2>1 DEF Mapped, Strings
<1>5. one \in Seq(D) /\ DOMAIN one = {1} /\ one[1] = t
  BY <1>2
<1>6. Strings(s, one) = <<str(s, t)>>
  <2>1. Strings(s, one) = [i \in {1} |-> str(s, t)]
    BY <1>5 DEF Strings
  <2>2. <<str(s, t)>> = [i \in {1} |-> str(s, t)]
    OBVIOUS
  <2> QED BY <2>1, <2>2
<1> HIDE DEF one
<1>7. Splits(f, one, M)
  BY <1>2, <1>5, <1>s, MapConcat
<1>8. one \o M \in Seq(D)
  BY <1>2, <1>5, ConcatProperties
<1>9. Strings(s, one \o M) = Strings(s, one) \o Strings(s, M)
  <2>1. Mapped(f, one \o M) = Mapped(f, one) \o Mapped(f, M)
    BY <1>7 DEF Splits
  <2>2. /\ Mapped(f, one \o M) = Strings(s, one \o M) /\ Mapped(f, one) = Strings(s, one)
        /\ Mapped(f, M) = Strings(s, M)
    BY <1>2, <1>4, <1>5, <1>8
  <2> QED BY <2>1, <2>2
<1>10. Conses(s, t, M)
  BY <1>6, <1>9 DEF Conses, one
<1>11. Strings(s, M) \in Seq(W)
  BY <1>2, <1>4, <1>s, MapType
<1>12. str(s, t) \in W
  BY <1>1, <1>2
<1> QED BY <1>10, <1>11, <1>12 DEF W

\* t is what the tokenizer finds at its position.
IsToken(s, last, t) ==
  TokenStart(s, t.s, last) /\ t = TokenAt(s, t.s, last) /\ TokenRight(s, t.s, last, t)

\* From token t on the reader's words are the strings of the tokens.
ReadsFrom(s, first, t) ==
  \A words \in Seq(Seq(WordChars(s))) :
    Close(s, t.s) = Between(words) =>
      AllWords(s) = words \o Strings(s, TokenList(s, first, Len(s))[t])

\* A token at the end.
LEMMA ArgsNone ==
  ASSUME NEW s, Text(s), NEW first \in Nat, NEW t \in TokensIn(first, Len(s)), t.s = Len(s)
  PROVE  ReadsFrom(s, first, t)
<1> DEFINE L == TokenList(s, first, Len(s))[t]
           none == <<>>
<1>0. Len(s) \in Nat
  BY TextFacts
<1>1. L = none
  <2>1. L = IF t.s = Len(s) THEN <<>> ELSE <<t>> \o TokenList(s, first, Len(s))[Advance(s, t)]
    BY <1>0, TokensDef, Zenon
  <2> HIDE DEF L
  <2> QED BY <2>1
<1> HIDE DEF L
<1>2. Strings(s, none) = none
  BY DEF Strings
<1> SUFFICES ASSUME NEW words \in Seq(Seq(WordChars(s))), Close(s, t.s) = Between(words)
             PROVE  AllWords(s) = words \o Strings(s, L)
  BY DEF ReadsFrom, L
<1>3. AllWords(s) = words
  <2>1. Between(words).in = FALSE /\ Between(words).words = words
    BY DEF Between, Reader
  <2> QED BY <2>1 DEF AllWords
<1>4. words \o none = words
  BY ConcatEmptySeq
<1> QED BY <1>1, <1>2, <1>3, <1>4

\* A token and those after it.
LEMMA ArgsStep ==
  ASSUME NEW s, Plainly(s), NEW first \in Nat, NEW t \in TokensIn(first, Len(s)), t.s # Len(s),
         IsToken(s, Len(s), t), ReadsFrom(s, first, Advance(s, t))
  PROVE  ReadsFrom(s, first, t)
<1> DEFINE N == Len(s)
           W == Seq(WordChars(s))
           u == Advance(s, t)
           F == TokenList(s, first, N)
           e == t.s + t.len
<1>0. Text(s) /\ N \in Nat
  BY PlainFacts
<1>1. /\ t.s \in first .. N /\ e \in first .. N /\ u \in TokensIn(first, N)
      /\ TokenAfter(s, e, N, u)
  BY <1>0, AdvanceFacts
<1>2. t.s \in Nat /\ t.s < N /\ ~isspace(At(s, t.s)) /\ t = TokenAt(s, t.s, N) /\ e \in Nat /\ e <= N
  BY <1>0, <1>1 DEF IsToken, TokenStart
<1>3. u.s \in Nat /\ e <= u.s /\ u.s <= N /\ Gap(s, e, u.s, N) /\ TokenRight(s, u.s, N, u)
  BY <1>1 DEF TokenAfter, TokenStart
<1>4. Blanks(s, e, u.s)
  <2> HIDE DEF e, u
  <2> QED BY <1>2, <1>3, PlainGap
<1>5. F[t] = <<t>> \o F[u]
  BY <1>0, TokensDef
<1>u. u.s = N => F[u] = <<>>
  <2> HIDE DEF u
  <2>1. u \in TokensIn(first, N)
    BY <1>1
  <2>2. F[u] = IF u.s = N THEN <<>> ELSE <<u>> \o F[Advance(s, u)]
    BY <1>0, <2>1, TokensDef
  <2> QED BY <2>2
<1>6. F[u] \in Seq(TokensIn(first, N))
  BY <1>0, <1>1, <1>3, ChainFacts DEF Chained
<1>7. /\ Conses(s, t, F[u]) /\ Strings(s, F[u]) \in Seq(W) /\ str(s, t) \in W
  <2> HIDE DEF F, u
  <2> QED BY <1>0, <1>6, StringsCons
<1> SUFFICES ASSUME NEW words \in Seq(W), Close(s, t.s) = Between(words)
             PROVE  AllWords(s) = words \o Strings(s, F[t])
  BY DEF ReadsFrom
<1>8. PICK q \in Marks : /\ Close(s, e) = Reader(words, str(s, t), TRUE, q, FALSE)
                         /\ e = N \/ (q = NUL /\ isspace(At(s, e)))
  BY <1>2, WordRead
<1> DEFINE x == str(s, t)
           more == Append(words, x)
<1>9. more \in Seq(W) /\ Moves(words, x, Strings(s, F[u]))
  <2> HIDE DEF F, u, W, x
  <2>1. x \in W
    BY <1>7 DEF x
  <2> QED BY <1>7, <2>1, AppendConcat
<1> HIDE DEF F, u, W, e, N, x, more
<1>10. AllWords(s) = more \o Strings(s, F[u])
  <2>1. CASE e = N
    <3>1. u.s = N
      BY <1>2, <1>3, <2>1
    <3>2. F[u] = <<>>
      BY <1>u, <3>1
    <3>3. AllWords(s) = more
      <4>1. Close(s, N) = Reader(words, x, TRUE, q, FALSE)
        BY <1>8, <2>1 DEF x
      <4>2. /\ Reader(words, x, TRUE, q, FALSE).in = TRUE /\ Reader(words, x, TRUE, q, FALSE).words = words
            /\ Reader(words, x, TRUE, q, FALSE).word = x
        BY DEF Reader
      <4> QED BY <4>1, <4>2 DEF AllWords, N, more
    <3>4. Strings(s, <<>>) = <<>>
      BY DEF Strings
    <3>5. more \o <<>> = more
      BY <1>9, ConcatEmptySeq
    <3> QED BY <3>2, <3>3, <3>4, <3>5
  <2>2. CASE e # N
    <3>1. q = NUL /\ isspace(At(s, e)) /\ e < N
      BY <1>0, <1>2, <1>8, <2>2
    <3>2. /\ Reads(s)[e + 1] = ReadChar(Close(s, e), At(s, e))
          /\ Reads(s)[e + 1].esc = FALSE => Close(s, e + 1) = Reads(s)[e + 1]
      BY <1>0, <1>2, <3>1, CloseStep DEF N
    <3>3. ReadChar(Reader(words, x, TRUE, NUL, FALSE), At(s, e)) = Between(more)
      <4>1. ReadChar(Reader(words, x, TRUE, NUL, FALSE), At(s, e))
              = Reader(Append(words, x), <<>>, FALSE, NUL, FALSE)
        BY <3>1, ReadBlank
      <4> QED BY <4>1 DEF Between, more
    <3>4. Between(more).esc = FALSE
      BY DEF Between, Reader
    <3>5. Close(s, e + 1) = Between(more)
      BY <1>8, <3>1, <3>2, <3>3, <3>4 DEF x
    <3>6. e + 1 \in Nat /\ e + 1 <= u.s
      <4>1. e # u.s
        <5>1. u.s # N => ~isspace(At(s, u.s))
          BY <1>1 DEF TokenAfter, TokenStart
        <5> QED BY <2>2, <3>1, <5>1
      <4> QED BY <1>2, <1>3, <4>1
    <3>7. Blanks(s, e + 1, u.s)
      <4>1. \A k \in e + 1 .. u.s - 1 : k \in e .. u.s - 1
        BY <1>2, <1>3
      <4> QED BY <1>4, <4>1 DEF Blanks
    <3>8. Close(s, u.s) = Between(more)
      BY <1>0, <1>3, <3>5, <3>6, <3>7, BlankRead DEF N
    <3> QED BY <1>9, <3>8 DEF ReadsFrom, u, F, N, W
  <2> QED BY <2>1, <2>2
<1>11. words \o Strings(s, F[t]) = words \o (<<x>> \o Strings(s, F[u]))
  BY <1>5, <1>7 DEF Conses, x
<1> QED BY <1>9, <1>10, <1>11 DEF Moves, more

\* From any token on, the strings of the tokens are the words the reader reads.
LEMMA ArgsChain ==
  ASSUME NEW s, Plainly(s), NEW first \in Nat
  PROVE  \A t \in TokensIn(first, Len(s)) : IsToken(s, Len(s), t) => ReadsFrom(s, first, t)
<1> DEFINE N == Len(s)
           D == TokensIn(first, N)
           rank == [t \in D |-> TokenRank(N, t)]
           G == {t \in D : IsToken(s, N, t) => ReadsFrom(s, first, t)}
<1>0. N \in Nat /\ Text(s)
  BY PlainFacts
<1>1. \A t \in D : rank[t] \in Nat
  <2> SUFFICES ASSUME NEW t \in D PROVE TokenRank(N, t) \in Nat
    OBVIOUS
  <2>1. TokenRank(N, t) \in 0 .. N + 1
    BY <1>0, TokenRankFacts
  <2> QED BY <1>0, <2>1
<1>2. ASSUME NEW t \in D, \A u \in D : rank[u] < rank[t] => u \in G PROVE t \in G
  <2> SUFFICES ASSUME IsToken(s, N, t) PROVE ReadsFrom(s, first, t)
    OBVIOUS
  <2> DEFINE u == Advance(s, t)
  <2>1. CASE t.s = N
    BY <1>0, <2>1, ArgsNone
  <2>2. CASE t.s # N
    <3>1. u \in D /\ TokenAfter(s, t.s + t.len, N, u) /\ TokenRank(N, u) < TokenRank(N, t)
      BY <1>0, <2>2, AdvanceFacts, TokenRankFacts
    <3>2. IsToken(s, N, u)
      BY <3>1 DEF TokenAfter, IsToken
    <3>3. rank[u] < rank[t]
      <4> HIDE DEF u, D
      <4> QED BY <3>1
    <3>4. u \in G
      <4> HIDE DEF u, D, G, rank
      <4> QED BY <1>2, <3>1, <3>3
    <3>5. ReadsFrom(s, first, u)
      <4> HIDE DEF u, D
      <4> QED BY <3>2, <3>4
    <3> QED BY <2>2, <3>5, ArgsStep
  <2> QED BY <2>1, <2>2
<1>3. \A t \in D : t \in G
  <2> HIDE DEF D, G, rank
  <2> QED BY <1>1, <1>2, RankInduction
<1> HIDE DEF D
<1> QED BY <1>3 DEF D

\* The arguments of a line of words are its words.
LEMMA ArgsWords ==
  ASSUME NEW s, Plainly(s)
  PROVE  Args(s) = WordsOf(s)
<1> DEFINE N == Len(s)
           first == skip_shell_space(s, 0, N)
           t == Tokenizer(s, first, N)
           none == <<>>
<1>0. Text(s) /\ N \in Nat /\ 0 \in Nat /\ 0 <= N
  BY PlainFacts
<1>1. first \in 0 .. N /\ Gap(s, 0, first, N)
  BY <1>0, SkipFacts
<1>2. Args(s) = Strings(s, Tokens(s, first, N))
  BY DEF Args, Strings, CommandLine, Parser
<1> HIDE DEF first
<1>3. first \in Nat /\ first <= N
  BY <1>0, <1>1
<1>4. TokenAfter(s, first, N, t) /\ t \in TokensIn(first, N)
  BY <1>0, <1>3, TokensFacts
<1>5. Tokens(s, first, N) = TokenList(s, first, N)[t]
  BY <1>0, <1>3, TokensDef
<1> HIDE DEF t
<1>6. IsToken(s, N, t) /\ t.s \in Nat /\ first <= t.s /\ t.s <= N /\ Gap(s, first, t.s, N)
  BY <1>4 DEF TokenAfter, TokenStart, IsToken
<1>7. Close(s, 0) = Between(none)
  <2>1. Reads(s)[0] = NoWords
    BY <1>0, ReadsDef
  <2>2. NoWords.esc = FALSE /\ NoWords = Between(none)
    BY DEF NoWords, Between, Reader
  <2> QED BY <2>1, <2>2 DEF Close
<1>8. Close(s, first) = Between(none)
  <2>1. Blanks(s, 0, first)
    BY <1>0, <1>1, <1>3, PlainGap
  <2> QED BY <1>0, <1>3, <1>7, <2>1, BlankRead
<1>9. Close(s, t.s) = Between(none)
  <2>1. Blanks(s, first, t.s)
    BY <1>3, <1>6, PlainGap
  <2> QED BY <1>0, <1>3, <1>6, <1>8, <2>1, BlankRead
<1>10. ReadsFrom(s, first, t)
  BY <1>3, <1>4, <1>6, ArgsChain
<1>11. none \in Seq(Seq(WordChars(s)))
  OBVIOUS
<1> HIDE DEF none
<1>12. AllWords(s) = none \o Strings(s, Tokens(s, first, N))
  BY <1>5, <1>9, <1>10, <1>11 DEF ReadsFrom
<1>13. Strings(s, Tokens(s, first, N)) \in Seq(Seq(WordChars(s)))
  <2>1. Tokens(s, first, N) \in Seq(TokensIn(first, N))
    BY <1>0, <1>3, TokensFacts DEF Chained
  <2> QED BY <1>0, <1>3, <1>4, <2>1, StringsCons
<1>14. none \o Strings(s, Tokens(s, first, N)) = Strings(s, Tokens(s, first, N))
  BY <1>13, ConcatEmptySeq DEF none
<1> QED BY <1>0, <1>2, <1>12, <1>14, AllWordsOf

\* A line that is run has an argument.
LEMMA ArgsSome ==
  ASSUME NEW s \in Seq(STRING), ~NoArgs(s)
  PROVE  Args(s) # <<>>
<1> DEFINE N == Len(s)
           first == skip_shell_space(s, 0, N)
           t == Tokenizer(s, first, N)
           L == Tokens(s, first, N)
<1>0. N \in Nat /\ 0 \in Nat /\ 0 <= N /\ N <= N
  BY LenProperties
<1>1. Args(s) = Strings(s, L)
  BY DEF Args, Strings, CommandLine, Parser
<1>2. skip_shell_space(s, N, N) = N
  <2>1. skip_shell_space(s, N, N) \in N .. N
    BY <1>0, SkipFacts
  <2> QED BY <1>0, <2>1
<1>3. NoArgs(s) <=> first = N
  BY <1>2 DEF NoArgs, SameRegion, CommandLine, EndOf, Parser
<1>4. first \in 0 .. N /\ ~isspace(At(s, first)) /\ At(s, first) # "#"
  BY <1>0, <1>3, SkipFacts
<1> HIDE DEF first
<1>5. first \in Nat /\ first < N /\ first <= N
  BY <1>0, <1>3, <1>4
<1>6. TokenAfter(s, first, N, t) /\ Chained(s, first, N, t, L)
  BY <1>0, <1>5, TokensFacts
<1>7. t.s # N
  <2>1. t.s \in Nat /\ first <= t.s /\ Gap(s, first, t.s, N)
    BY <1>6 DEF TokenAfter, TokenStart
  <2> SUFFICES ASSUME t.s = N PROVE FALSE
    OBVIOUS
  <2>2. first \in first .. t.s - 1 /\ \A j \in first .. first : j = first
    BY <1>5, <2>1
  <2>3. isspace(At(s, first)) \/ \E j \in first .. first : At(s, j) = "#"
    BY <2>1, <2>2 DEF Gap
  <2> QED BY <1>4, <2>2, <2>3
<1>8. Len(L) > 0 /\ L \in Seq(TokensIn(first, N))
  BY <1>6, <1>7 DEF Chained
<1> HIDE DEF L
<1>9. DOMAIN L = 1 .. Len(L) /\ 1 \in DOMAIN L
  BY <1>8, LenProperties
<1>10. DOMAIN Strings(s, L) = DOMAIN L
  BY DEF Strings
<1>11. DOMAIN <<>> = {}
  OBVIOUS
<1> QED BY <1>1, <1>9, <1>10, <1>11

-----------------------------------------------------------------------------
(* The same tokens in a smaller region.                                    *)

\* Blanks and comments.
LEMMA SkipLocal ==
  ASSUME NEW s, NEW p \in Nat, NEW c \in Nat, NEW e \in Nat, p <= c, c <= e
  PROVE  /\ skip_shell_space(s, p, e) < c => skip_shell_space(s, p, c) = skip_shell_space(s, p, e)
         /\ c <= skip_shell_space(s, p, e) => skip_shell_space(s, p, c) = c
<1> DEFINE q == SkipWhile(s, p, e, isspace)
           x == SkipWhile(s, p, c, isspace)
           r == skip_shell_space(s, p, e)
           y == skip_shell_space(s, p, c)
<1>0. p <= e
  OBVIOUS
<1>1. q \in p .. e /\ (q = e \/ ~isspace(At(s, q))) /\ Blanks(s, p, q)
  BY <1>0, SkipSpace
<1>2. x \in p .. c /\ (x = c \/ ~isspace(At(s, x))) /\ Blanks(s, p, x)
  BY SkipSpace
<1>3. /\ r = IF q # e /\ At(s, q) = "#" THEN e ELSE q
      /\ y = IF x # c /\ At(s, x) = "#" THEN c ELSE x
  BY DEF skip_shell_space
<1> HIDE DEF q, x, r, y
<1>4. q < c => x = q
  <2> SUFFICES ASSUME q < c, x # q PROVE FALSE
    OBVIOUS
  <2>1. CASE x < q
    <3>1. x \in p .. q - 1 /\ x # c
      BY <1>1, <1>2, <2>1
    <3> QED BY <1>1, <1>2, <3>1 DEF Blanks
  <2>2. CASE ~(x < q)
    <3>1. q \in p .. x - 1 /\ q # e
      BY <1>1, <1>2, <2>2
    <3> QED BY <1>1, <1>2, <3>1 DEF Blanks
  <2> QED BY <2>1, <2>2
<1>5. c <= q => x = c
  <2> SUFFICES ASSUME c <= q, x # c PROVE FALSE
    OBVIOUS
  <2>1. x \in p .. q - 1
    BY <1>1, <1>2
  <2> QED BY <1>1, <1>2, <2>1 DEF Blanks
<1>6. q \in Nat /\ x \in Nat
  BY <1>1, <1>2
<1>7. ASSUME r < c PROVE y = r
  <2>1. r = q
    BY <1>3, <1>6, <1>7
  <2>2. x = q /\ q # e /\ q # c
    BY <1>4, <1>6, <1>7, <2>1
  <2>3. At(s, q) # "#"
    BY <1>3, <2>1, <2>2
  <2> QED BY <1>3, <2>1, <2>2, <2>3
<1>8. ASSUME c <= r PROVE y = c
  <2>1. CASE q < c
    <3>1. x = q /\ q # c /\ q # r
      BY <1>4, <1>6, <1>8, <2>1
    <3>2. At(s, q) = "#"
      BY <1>3, <3>1
    <3> QED BY <1>3, <3>1, <3>2
  <2>2. CASE ~(q < c)
    <3>1. x = c
      BY <1>5, <1>6, <2>2
    <3> QED BY <1>3, <3>1
  <2> QED BY <2>1, <2>2
<1> QED BY <1>7, <1>8 DEF r, y

\* Digits.
LEMMA DigitLocal ==
  ASSUME NEW s, NEW p \in Nat, NEW c \in Nat, NEW e \in Nat, p <= c, c <= e
  PROVE  /\ SkipWhile(s, p, e, isdigit) < c => SkipWhile(s, p, c, isdigit) = SkipWhile(s, p, e, isdigit)
         /\ c <= SkipWhile(s, p, e, isdigit) => SkipWhile(s, p, c, isdigit) = c
<1> DEFINE q == SkipWhile(s, p, e, isdigit)
           x == SkipWhile(s, p, c, isdigit)
<1>0. p <= e
  OBVIOUS
<1>1. q \in p .. e /\ (q = e \/ ~isdigit(At(s, q))) /\ \A k \in p .. q - 1 : isdigit(At(s, k))
  BY <1>0, SkipDigit
<1>2. x \in p .. c /\ (x = c \/ ~isdigit(At(s, x))) /\ \A k \in p .. x - 1 : isdigit(At(s, k))
  BY SkipDigit
<1> HIDE DEF q, x
<1>3. q < c => x = q
  <2> SUFFICES ASSUME q < c, x # q PROVE FALSE
    OBVIOUS
  <2>1. CASE x < q
    <3>1. x \in p .. q - 1 /\ x # c
      BY <1>1, <1>2, <2>1
    <3> QED BY <1>1, <1>2, <3>1
  <2>2. CASE ~(x < q)
    <3>1. q \in p .. x - 1 /\ q # e
      BY <1>1, <1>2, <2>2
    <3> QED BY <1>1, <1>2, <3>1
  <2> QED BY <2>1, <2>2
<1>4. c <= q => x = c
  <2> SUFFICES ASSUME c <= q, x # c PROVE FALSE
    OBVIOUS
  <2>1. x \in p .. q - 1
    BY <1>1, <1>2
  <2> QED BY <1>1, <1>2, <2>1
<1> QED BY <1>3, <1>4 DEF q, x

\* Redirections.
LEMMA RedirectLocal ==
  ASSUME NEW s, NEW at \in Nat, NEW c \in Nat, NEW e \in Nat, at < c, c <= e,
         RedirectEnd(s, at, e) = NotRedirect \/ RedirectEnd(s, at, e) <= c
  PROVE  RedirectEnd(s, at, c) = RedirectEnd(s, at, e)
<1> DEFINE p == SkipWhile(s, at, e, isdigit)
           x == SkipWhile(s, at, c, isdigit)
           q == SkipWhile(s, p + 1, e, isdigit)
           y == SkipWhile(s, p + 1, c, isdigit)
           r == RedirectEnd(s, at, e)
           z == RedirectEnd(s, at, c)
<1>0. at <= c /\ at <= e
  OBVIOUS
<1>1. p \in at .. e
  BY <1>0, SkipDigit
<1>2. (p < c => x = p) /\ (c <= p => x = c)
  BY <1>0, DigitLocal
<1>3. r = IF p = e \/ At(s, p) \notin {"<", ">"} THEN NotRedirect
          ELSE IF p + 1 # e /\ At(s, p + 1) = ">" THEN p + 2 ELSE q
  BY DEF RedirectEnd
<1>4. x = p => z = IF p = c \/ At(s, p) \notin {"<", ">"} THEN NotRedirect
                   ELSE IF p + 1 # c /\ At(s, p + 1) = ">" THEN p + 2 ELSE y
  BY DEF RedirectEnd
<1>5. x = c => z = NotRedirect
  BY DEF RedirectEnd
<1>6. p < c => q \in p + 1 .. e /\ (q < c => y = q) /\ (c <= q => y = c)
  <2> SUFFICES ASSUME p < c PROVE q \in p + 1 .. e /\ (q < c => y = q) /\ (c <= q => y = c)
    OBVIOUS
  <2>1. p + 1 \in Nat /\ p + 1 <= c /\ p + 1 <= e
    BY <1>1
  <2> HIDE DEF p
  <2>2. q \in p + 1 .. e
    BY <2>1, SkipDigit
  <2>3. (q < c => y = q) /\ (c <= q => y = c)
    BY <2>1, DigitLocal
  <2> QED BY <2>2, <2>3
<1> HIDE DEF p, x, q, y, r, z
<1>7. r = NotRedirect \/ r <= c
  BY DEF r
<1>8. CASE p = e \/ At(s, p) \notin {"<", ">"}
  <2>1. r = NotRedirect
    BY <1>3, <1>8
  <2>2. CASE p < c
    <3>1. p # c /\ p # e /\ x = p
      BY <1>1, <1>2, <2>2
    <3> QED BY <1>4, <1>8, <2>1, <3>1 DEF r, z
  <2>3. CASE ~(p < c)
    <3>1. x = c
      BY <1>1, <1>2, <2>3
    <3> QED BY <1>5, <2>1, <3>1 DEF r, z
  <2> QED BY <2>2, <2>3
<1>9. CASE ~(p = e \/ At(s, p) \notin {"<", ">"})
  <2>1. r = IF p + 1 # e /\ At(s, p + 1) = ">" THEN p + 2 ELSE q
    BY <1>3, <1>9
  <2>2. p < c
    <3> SUFFICES ASSUME ~(p < c) PROVE FALSE
      OBVIOUS
    <3>1. p + 1 <= e /\ p + 1 \in Nat
      BY <1>1, <1>9
    <3>2. q \in p + 1 .. e
      BY <3>1, SkipDigit DEF q
    <3>3. r \in Nat /\ r > c
      BY <1>1, <2>1, <3>2
    <3> QED BY <1>7, <3>3 DEF NotRedirect
  <2>3. p # c /\ x = p
    BY <1>1, <1>2, <2>2
  <2>4. z = IF p + 1 # c /\ At(s, p + 1) = ">" THEN p + 2 ELSE y
    BY <1>4, <1>9, <2>3
  <2>5. q \in p + 1 .. e /\ (q < c => y = q) /\ (c <= q => y = c)
    BY <1>6, <2>2
  <2>6. r \in Nat /\ r <= c
    <3>1. r \in Nat
      BY <1>1, <2>1, <2>5
    <3> QED BY <1>7, <3>1 DEF NotRedirect
  <2>7. CASE p + 1 # e /\ At(s, p + 1) = ">"
    <3>1. r = p + 2 /\ p + 1 # c
      BY <1>1, <2>1, <2>6, <2>7
    <3> QED BY <2>4, <2>7, <3>1 DEF r, z
  <2>8. CASE ~(p + 1 # e /\ At(s, p + 1) = ">")
    <3>1. r = q /\ y = q
      BY <2>1, <2>5, <2>6, <2>8
    <3>2. ~(p + 1 # c /\ At(s, p + 1) = ">")
      BY <1>1, <2>2, <2>8
    <3> QED BY <2>4, <3>1, <3>2 DEF r, z
  <2> QED BY <2>7, <2>8
<1> QED BY <1>8, <1>9

\* Words.
LEMMA WordLocal ==
  ASSUME NEW s, NEW from \in Nat, NEW c \in Nat, NEW e \in Nat, c <= e
  PROVE  \A w \in WordStates(from, c) :
           Scan(s, from, e)[w].at <= c => Scan(s, from, c)[w] = Scan(s, from, e)[w]
<1> DEFINE D == WordStates(from, c)
           F == Scan(s, from, e)
           H == Scan(s, from, c)
           G == {w \in D : F[w].at <= c => H[w] = F[w]}
           rank == [w \in D |-> c - w.at]
<1>1. \A w \in D : rank[w] \in Nat /\ w.at \in Nat /\ rank[w] = c - w.at /\ w.at <= c
  BY DEF WordStates
<1>2. ASSUME NEW w \in D, \A y \in D : rank[y] < rank[w] => y \in G PROVE w \in G
  <2> SUFFICES ASSUME F[w].at <= c PROVE H[w] = F[w]
    OBVIOUS
  <2> DEFINE v == WordStep(s, e, w)
             x == WordStep(s, c, w)
  <2>0. w \in WordStates(from, e)
    BY DEF WordStates
  <2>1. F[w] = IF WordOver(s, e, w) THEN w ELSE F[v]
    BY <2>0, ScanDef
  <2>2. H[w] = IF WordOver(s, c, w) THEN w ELSE H[x]
    BY ScanDef
  <2>3. CASE WordOver(s, e, w)
    <3>1. w.at = e => w.at = c
      BY <1>1
    <3>2. WordOver(s, c, w)
      BY <2>3, <3>1 DEF WordOver
    <3> HIDE DEF F, H, v, x
    <3> QED BY <2>1, <2>2, <2>3, <3>2
  <2>4. CASE ~WordOver(s, e, w)
    <3>1. v \in WordStates(from, e) /\ w.at < v.at
      BY <2>0, <2>4, WordStepIn
    <3>2. F[w] = F[v]
      <4> HIDE DEF F, H, v, x
      <4> QED BY <2>1, <2>4
    <3>3. v.at <= F[v].at /\ F[v] \in WordStates(from, e)
      BY <3>1, ScanFacts DEF ScanRight
    <3>4. v.at <= c /\ w.at < c /\ v.at \in Nat
      <4>1. v.at \in Nat /\ F[v].at \in Nat
        BY <3>1, <3>3 DEF WordStates
      <4> HIDE DEF F, v
      <4> QED BY <1>1, <3>1, <3>2, <3>3, <4>1
    <3>5. ~WordOver(s, c, w)
      BY <1>1, <2>4, <3>4 DEF WordOver
    <3>6. x = v
      <4>1. CASE w.at + 1 = e
        <5>1. c = e
          BY <1>1, <3>4, <4>1
        <5> QED BY <5>1
      <4>2. CASE w.at + 1 # e /\ w.at + 1 # c
        BY <4>2 DEF WordStep
      <4>3. CASE w.at + 1 # e /\ w.at + 1 = c
        <5>1. v.at # w.at + 2
          BY <1>1, <3>4, <4>3
        <5> DEFINE ch == At(s, w.at)
        <5>2. ~(~(ch \in Quotes /\ w.curquote = NUL) /\ ch # w.curquote /\ ch = "\\" /\ w.curquote # "'")
          <6> SUFFICES ASSUME ~(ch \in Quotes /\ w.curquote = NUL) /\ ch # w.curquote /\ ch = "\\" /\ w.curquote # "'"
                       PROVE FALSE
            OBVIOUS
          <6>1. v = [at |-> w.at + 2, curquote |-> w.curquote, quoted |-> TRUE]
            BY <4>3 DEF WordStep
          <6> QED BY <5>1, <6>1
        <5> QED BY <5>2 DEF WordStep
      <4> QED BY <4>1, <4>2, <4>3
    <3>7. v \in D
      BY <3>1, <3>4 DEF WordStates
    <3> HIDE DEF F, H, v, x, D, rank
    <3>8. rank[v] < rank[w]
      BY <1>1, <3>1, <3>4, <3>7
    <3>9. v \in G
      BY <1>2, <3>7, <3>8
    <3>10. H[w] = H[v]
      BY <2>2, <3>5, <3>6
    <3> QED BY <3>2, <3>9, <3>10
  <2> QED BY <2>3, <2>4
<1>3. \A w \in D : w \in G
  <2> HIDE DEF D, G, rank
  <2>1. \A w \in D : rank[w] \in Nat
    BY <1>1
  <2> QED BY <1>2, <2>1, RankInduction
<1> QED BY <1>3

\* The token u of a region is the one of the region that ends at c.
Cut(u, c) == [s |-> u.s, len |-> u.len, end |-> c, type |-> u.type, quoted |-> u.quoted]

\* A token that is not longer than a smaller region is the same there.
LEMMA TokenLocal ==
  ASSUME NEW s, NEW at \in Nat, NEW c \in Nat, NEW e \in Nat, at < c, c <= e,
         TokenStart(s, at, e), at + TokenAt(s, at, e).len <= c
  PROVE  TokenAt(s, at, c) = Cut(TokenAt(s, at, e), c)
<1> DEFINE tok(end, type, q, quoted) ==
             [s |-> at, len |-> q - at, end |-> end, type |-> type, quoted |-> quoted]
           u == TokenAt(s, at, e)
           r == RedirectEnd(s, at, e)
<1>0. at < e /\ at # e /\ at # c /\ ~isspace(At(s, at)) /\ At(s, at) # "#"
  BY DEF TokenStart
<1>1. ASSUME NEW type, NEW q \in Nat, NEW quoted, u = tok(e, type, q, quoted)
      PROVE  q <= c /\ Cut(u, c) = tok(c, type, q, quoted)
  <2>1. u.len = q - at /\ u.s = at /\ u.type = type /\ u.quoted = quoted
    BY <1>1
  <2>2. at + u.len <= c
    OBVIOUS
  <2> HIDE DEF u
  <2>3. at + (q - at) <= c
    BY <2>1, <2>2
  <2> QED BY <2>1, <2>3 DEF Cut
<1>2. r = NotRedirect \/ r \in at + 1 .. e
  BY <1>0, RedirectFacts
<1>3. IsDouble(s, at, c) => IsDouble(s, at, e)
  <2>1. at + 1 # c => at + 1 # e
    OBVIOUS
  <2> QED BY <2>1 DEF IsDouble
<1>4. r = NotRedirect \/ r <= c => RedirectEnd(s, at, c) = r
  BY RedirectLocal
<1>5. CASE r # NotRedirect
  <2>1. u = tok(e, "REDIRECT_OP", r, FALSE)
    BY <1>0, <1>5 DEF TokenAt
  <2>2. r \in Nat
    BY <1>2, <1>5
  <2>3. r <= c /\ Cut(u, c) = tok(c, "REDIRECT_OP", r, FALSE)
    <3> HIDE DEF u, tok, r
    <3> QED BY <1>1, <2>1, <2>2
  <2>4. RedirectEnd(s, at, c) = r
    BY <1>4, <2>3
  <2>5. TokenAt(s, at, c) = tok(c, "REDIRECT_OP", r, FALSE)
    BY <1>0, <1>5, <2>4 DEF TokenAt
  <2> QED BY <2>3, <2>5
<1>6. CASE r = NotRedirect /\ IsDouble(s, at, e)
  <2> DEFINE type == IF At(s, at) = "&" THEN "AND" ELSE "OR"
  <2>1. u = tok(e, type, at + 2, FALSE)
    BY <1>0, <1>6 DEF TokenAt
  <2>2. at + 2 \in Nat
    OBVIOUS
  <2>3. at + 2 <= c /\ Cut(u, c) = tok(c, type, at + 2, FALSE)
    <3> HIDE DEF u, tok, r, type
    <3> QED BY <1>1, <2>1, <2>2
  <2>4. RedirectEnd(s, at, c) = NotRedirect
    BY <1>4, <1>6
  <2>5. IsDouble(s, at, c)
    <3>1. at + 1 # c
      BY <2>3
    <3> QED BY <1>6, <3>1 DEF IsDouble
  <2>6. TokenAt(s, at, c) = tok(c, type, at + 2, FALSE)
    BY <1>0, <2>4, <2>5 DEF TokenAt
  <2> QED BY <2>3, <2>6
<1>7. CASE r = NotRedirect /\ ~IsDouble(s, at, e) /\ isshellspecial(At(s, at))
  <2> DEFINE type == OneCharType(At(s, at))
  <2>1. u = tok(e, type, at + 1, FALSE)
    BY <1>0, <1>7 DEF TokenAt
  <2>2. at + 1 \in Nat
    OBVIOUS
  <2>3. at + 1 <= c /\ Cut(u, c) = tok(c, type, at + 1, FALSE)
    <3> HIDE DEF u, tok, r, type
    <3> QED BY <1>1, <2>1, <2>2
  <2>4. RedirectEnd(s, at, c) = NotRedirect /\ ~IsDouble(s, at, c)
    BY <1>3, <1>4, <1>7
  <2>6. TokenAt(s, at, c) = tok(c, type, at + 1, FALSE)
    BY <1>0, <1>7, <2>4 DEF TokenAt
  <2> QED BY <2>3, <2>6
<1>8. CASE r = NotRedirect /\ ~IsDouble(s, at, e) /\ ~isshellspecial(At(s, at))
  <2> DEFINE w == WordEnd(s, at, e)
  <2>1. u = tok(e, "NORMAL", w.at, w.quoted)
    BY <1>0, <1>8 DEF TokenAt
  <2>2. w \in WordStates(at, e)
    BY <1>0, <1>8, WordFacts
  <2>3. w.at \in Nat
    BY <2>2 DEF WordStates
  <2>4. w.at <= c /\ Cut(u, c) = tok(c, "NORMAL", w.at, w.quoted)
    <3> HIDE DEF u, tok, r, w
    <3> QED BY <1>1, <2>1, <2>3
  <2>5. RedirectEnd(s, at, c) = NotRedirect /\ ~IsDouble(s, at, c)
    BY <1>3, <1>4, <1>8
  <2>6. w = Scan(s, at, e)[WordStart(at)] /\ WordEnd(s, at, c) = Scan(s, at, c)[WordStart(at)]
    BY ScanDef
  <2>7. WordStart(at) \in WordStates(at, c)
    BY DEF WordStart, WordStates, Marks
  <2>8. WordEnd(s, at, c) = w
    <3> HIDE DEF w
    <3> QED BY <2>4, <2>6, <2>7, WordLocal
  <2>9. TokenAt(s, at, c) = tok(c, "NORMAL", w.at, w.quoted)
    BY <1>0, <1>8, <2>5, <2>8 DEF TokenAt
  <2> QED BY <2>4, <2>9
<1> QED BY <1>5, <1>6, <1>7, <1>8

\* Only blanks are skipped before a token.
LEMMA SkipTo ==
  ASSUME NEW s, NEW p \in Nat, NEW end \in Nat, NEW at, TokenStart(s, at, end),
         p <= at, Blanks(s, p, at)
  PROVE  skip_shell_space(s, p, end) = at /\ TokenFrom(s, p, end) = TokenAt(s, at, end)
<1> DEFINE q == SkipWhile(s, p, end, isspace)
<1>0. at \in Nat /\ at <= end /\ (at # end => ~isspace(At(s, at)) /\ At(s, at) # "#") /\ p <= end
  BY DEF TokenStart
<1>1. q \in p .. end /\ Blanks(s, p, q) /\ (q = end \/ ~isspace(At(s, q)))
  BY <1>0, SkipSpace
<1>2. skip_shell_space(s, p, end) = IF q # end /\ At(s, q) = "#" THEN end ELSE q
  BY DEF skip_shell_space
<1> HIDE DEF q
<1>3. q = at
  <2>1. ~(q < at)
    <3> SUFFICES ASSUME q < at PROVE FALSE
      OBVIOUS
    <3>1. q # end /\ q \in p .. at - 1
      BY <1>0, <1>1
    <3> QED BY <1>1, <3>1 DEF Blanks
  <2>2. ~(at < q)
    <3> SUFFICES ASSUME at < q PROVE FALSE
      OBVIOUS
    <3>1. at # end /\ at \in p .. q - 1
      BY <1>0, <1>1
    <3> QED BY <1>0, <1>1, <3>1 DEF Blanks
  <2> QED BY <1>0, <1>1, <2>1, <2>2
<1>4. skip_shell_space(s, p, end) = at
  BY <1>0, <1>2, <1>3
<1> QED BY <1>4 DEF TokenFrom

\* Nothing is skipped where a token may begin.
LEMMA SkipStays ==
  ASSUME NEW s, NEW end \in Nat, NEW at, TokenStart(s, at, end)
  PROVE  skip_shell_space(s, at, end) = at /\ TokenFrom(s, at, end) = TokenAt(s, at, end)
<1>1. at \in Nat /\ at <= at
  BY DEF TokenStart
<1>2. Blanks(s, at, at)
  BY <1>1 DEF Blanks
<1> QED BY <1>1, <1>2, SkipTo

\* Blanks before p are taken off.
Trimmed(s, from, p, q) ==
  q \in from .. p /\ (q = from \/ ~isspace(At(s, q - 1))) /\ Blanks(s, q, p)

\* There is one place to trim to, and TrimTo() finds it.
LEMMA TrimFacts ==
  ASSUME NEW s, NEW from \in Nat, NEW p \in Nat, from <= p
  PROVE  Trimmed(s, from, p, TrimTo(s, from, p))
<1> DEFINE S == {n \in Nat : n <= p - from /\ (p - n = from \/ ~isspace(At(s, (p - n) - 1)))}
           P(q) == (q = from \/ ~isspace(At(s, q - 1))) /\ \A k \in q .. p - 1 : isspace(At(s, k))
<1>1. p - from \in S
  OBVIOUS
<1>2. PICK n \in S : \A m \in S : n <= m
  <2>1. S \in SUBSET Nat
    OBVIOUS
  <2> HIDE DEF S
  <2> QED BY <1>1, <2>1, LeastOne
<1>3. ASSUME NEW k \in (p - n) .. p - 1 PROVE isspace(At(s, k))
  <2> SUFFICES ASSUME ~isspace(At(s, k)) PROVE FALSE
    OBVIOUS
  <2>1. p - (k + 1) \in Nat /\ p - (k + 1) <= p - from /\ p - (p - (k + 1)) - 1 = k
        /\ ~(n <= p - (k + 1))
    BY <1>2
  <2>2. p - (k + 1) \in S
    BY <2>1
  <2> HIDE DEF S
  <2> QED BY <1>2, <2>1, <2>2
<1>4. p - n \in from .. p /\ P(p - n)
  BY <1>2, <1>3
<1>5. TrimTo(s, from, p) = CHOOSE q \in from .. p : P(q)
  BY DEF TrimTo
<1> HIDE DEF P
<1>6. TrimTo(s, from, p) \in from .. p /\ P(TrimTo(s, from, p))
  BY <1>4, <1>5, Zenon
<1> QED BY <1>6 DEF P, Trimmed, Blanks

\* There is one way to do so.
LEMMA TrimUnique ==
  ASSUME NEW s, NEW from \in Nat, NEW p \in Nat, NEW q, NEW r,
         Trimmed(s, from, p, q), Trimmed(s, from, p, r)
  PROVE  q = r
<1>1. /\ q \in from .. p /\ (q = from \/ ~isspace(At(s, q - 1))) /\ Blanks(s, q, p)
      /\ r \in from .. p /\ (r = from \/ ~isspace(At(s, r - 1))) /\ Blanks(s, r, p)
  BY DEF Trimmed
<1>2. ~(q < r)
  <2> SUFFICES ASSUME q < r PROVE FALSE
    OBVIOUS
  <2>1. r - 1 \in q .. p - 1 /\ r # from
    BY <1>1
  <2> QED BY <1>1, <2>1 DEF Blanks
<1>3. ~(r < q)
  <2> SUFFICES ASSUME r < q PROVE FALSE
    OBVIOUS
  <2>1. q - 1 \in r .. p - 1 /\ q # from
    BY <1>1
  <2> QED BY <1>1, <2>1 DEF Blanks
<1> QED BY <1>1, <1>2, <1>3

-----------------------------------------------------------------------------
(* Delimiters.                                                             *)

\* u is a token of the region that ends at e.
Real(s, e, u) == u \in TokensIn(0, e) /\ TokenStart(s, u.s, e) /\ u = TokenAt(s, u.s, e)

\* A token lies in its region and has the members operator++ gives it.
LEMMA RealFacts ==
  ASSUME NEW s, NEW e \in Nat, NEW u, Real(s, e, u)
  PROVE  /\ TokenRight(s, u.s, e, u) /\ u.s \in Nat /\ u.len \in Nat /\ u.s + u.len \in Nat
         /\ u.s + u.len <= e /\ u.s <= e
         /\ u.end = e /\ u.type \in TokenTypes /\ u.type # "OTHER" /\ u.quoted \in BOOLEAN
         /\ u.s # e => u.len > 0 /\ u.type # "EOL"
         /\ u.s = e => u.type = "EOL"
<1>1. u \in TokensIn(0, e) /\ TokenRight(s, u.s, e, u)
  BY TokenFacts DEF Real
<1>2. u.s \in 0 .. e /\ u.len \in 0 .. e /\ u.end = e /\ u.s + u.len <= e
  BY <1>1 DEF TokensIn
<1>3. u.type \in TokenTypes /\ u.quoted \in BOOLEAN
  BY <1>1, TokenFields
<1>4. /\ u.type # "OTHER" /\ (u.s # e => u.len > 0 /\ u.type # "EOL")
      /\ u.s = e => u.type = "EOL"
  BY <1>1 DEF TokenRight
<1> QED BY <1>1, <1>2, <1>3, <1>4

\* There is a token where one may begin.
LEMMA RealAt ==
  ASSUME NEW s, NEW e \in Nat, NEW at, TokenStart(s, at, e)
  PROVE  Real(s, e, TokenAt(s, at, e)) /\ TokenAt(s, at, e).s = at
<1> DEFINE u == TokenAt(s, at, e)
<1>1. TokenRight(s, at, e, u) /\ at \in Nat /\ 0 <= at
  BY TokenFacts DEF TokenStart
<1> HIDE DEF u
<1>2. u.s = at
  BY <1>1, TokenFields
<1>3. u \in TokensIn(0, e)
  BY <1>1, TokenInRegion
<1> QED BY <1>2, <1>3 DEF u, Real

\* The next token.
LEMMA RealAdvance ==
  ASSUME NEW s, NEW e \in Nat, NEW u \in TokensIn(0, e)
  PROVE  /\ Real(s, e, Advance(s, u))
         /\ u.s + u.len <= Advance(s, u).s
         /\ skip_shell_space(s, u.s + u.len, e) = Advance(s, u).s
         /\ u.s = e => Advance(s, u).s = e
<1> DEFINE v == Advance(s, u)
           q == skip_shell_space(s, u.s + u.len, e)
<1>1. /\ u.s \in 0 .. e /\ u.len \in Nat /\ u.s + u.len \in 0 .. e /\ u.end = e
      /\ TokenAfter(s, u.s + u.len, e, v) /\ v \in TokensIn(0, e)
  BY AdvanceFacts
<1>2. v = TokenAt(s, q, e)
  BY <1>1 DEF Advance, TokenFrom
<1>3. q \in u.s + u.len .. e /\ (q # e => ~isspace(At(s, q)) /\ At(s, q) # "#")
  BY <1>1, SkipFacts
<1> HIDE DEF v, q
<1>4. TokenStart(s, q, e)
  BY <1>1, <1>3 DEF TokenStart
<1>5. v.s = q
  BY <1>2, <1>4, RealAt
<1>6. Real(s, e, v)
  BY <1>1 DEF TokenAfter, Real
<1>7. u.s = e => q = e
  BY <1>1, <1>3
<1> QED BY <1>1, <1>3, <1>5, <1>6, <1>7 DEF v, q

\* The function Delimiter() defines.
IsFind(find, s, end, mask) ==
  find = [u \in TokensIn(0, end) |->
            IF u.type = "OTHER" \/ u.type \in mask THEN u ELSE find[Advance(s, u)]]
Find(s, end, mask) == CHOOSE find : IsFind(find, s, end, mask)

FindsFrom(s, end, mask, u) ==
  Find(s, end, mask)[u] = IF u.type = "OTHER" \/ u.type \in mask THEN u
                          ELSE Find(s, end, mask)[Advance(s, u)]

\* Delimiter() is a member of this function.
LEMMA DelimiterDef ==
  ASSUME NEW s, NEW end, NEW mask, NEW t, t.end = end
  PROVE  Delimiter(s, t, mask) = Find(s, end, mask)[t]
BY DEF Delimiter, Find, IsFind

\* The function Delimiter() defines is what its definition says.
LEMMA FindDef ==
  ASSUME NEW s, NEW end \in Nat, NEW mask, "EOL" \in mask
  PROVE  \A u \in TokensIn(0, end) : FindsFrom(s, end, mask, u)
<1> DEFINE D == TokensIn(0, end)
           Stop == {u \in D : u.type = "OTHER" \/ u.type \in mask}
           base == [u \in D |-> u]
           nxt == [u \in D |-> Advance(s, u)]
           More(u) == IF u.type \in mask THEN 0 ELSE 1
           rank == [u \in D |-> 2 * TokenRank(end, u) + More(u)]
<1>1. \A u \in D : rank[u] \in 0 .. 2 * end + 3
  <2> SUFFICES ASSUME NEW u \in D PROVE 2 * TokenRank(end, u) + More(u) \in 0 .. 2 * end + 3
    OBVIOUS
  <2>1. TokenRank(end, u) \in 0 .. end + 1
    BY TokenRankFacts
  <2>2. More(u) \in 0 .. 1
    OBVIOUS
  <2> HIDE DEF More
  <2> QED BY <2>1, <2>2
<1>2. \A u \in D : u \notin Stop => nxt[u] \in D /\ rank[nxt[u]] < rank[u]
  <2> SUFFICES ASSUME NEW u \in D, u \notin Stop PROVE nxt[u] \in D /\ rank[nxt[u]] < rank[u]
    OBVIOUS
  <2> DEFINE v == Advance(s, u)
  <2>1. v \in D /\ (u.s # end => TokenRank(end, v) < TokenRank(end, u))
    BY AdvanceFacts, TokenRankFacts
  <2>2. TokenRank(end, v) \in 0 .. end + 1 /\ TokenRank(end, u) \in 0 .. end + 1
    BY <2>1, TokenRankFacts
  <2>3. More(u) = 1 /\ More(v) \in 0 .. 1
    OBVIOUS
  <2>4. u.s = end => More(v) = 0 /\ TokenRank(end, v) = 0
    <3> SUFFICES ASSUME u.s = end PROVE More(v) = 0 /\ TokenRank(end, v) = 0
      OBVIOUS
    <3>1. Real(s, end, v) /\ v.s = end
      BY RealAdvance
    <3> HIDE DEF v
    <3>2. v.type = "EOL"
      BY <3>1, RealFacts
    <3> QED BY <3>1, <3>2 DEF TokenRank
  <2> HIDE DEF D, More, v
  <2>5. nxt[u] = v
    BY DEF v
  <2>6. rank[v] = 2 * TokenRank(end, v) + More(v) /\ rank[u] = 2 * TokenRank(end, u) + More(u)
    BY <2>1
  <2>7. rank[v] < rank[u]
    <3>1. CASE u.s = end
      BY <2>2, <2>3, <2>4, <2>6, <3>1
    <3>2. CASE u.s # end
      BY <2>1, <2>2, <2>3, <2>6, <3>2
    <3> QED BY <3>1, <3>2
  <2> HIDE DEF rank, nxt
  <2> QED BY <2>1, <2>5, <2>7
<1>3. \E f : Calls(f, D, Stop, base, D, base, nxt)
  <2>1. 2 * end + 3 \in Nat
    OBVIOUS
  <2> HIDE DEF D, Stop, base, nxt, rank
  <2> QED BY <1>1, <1>2, <2>1, Recursion
<1>4. PICK f : f = [u \in D |-> IF u \in Stop THEN base[u] ELSE f[nxt[u]]]
  <2> HIDE DEF D, Stop, base, nxt
  <2> QED BY <1>3 DEF Calls
<1>5. ASSUME NEW u \in D
      PROVE  f[u] = IF u.type = "OTHER" \/ u.type \in mask THEN u ELSE f[Advance(s, u)]
  <2>1. f[u] = IF u \in Stop THEN base[u] ELSE f[nxt[u]]
    <3> HIDE DEF D, Stop, base, nxt
    <3> QED BY <1>4
  <2>2. /\ u \in Stop <=> u.type = "OTHER" \/ u.type \in mask
        /\ base[u] = u /\ nxt[u] = Advance(s, u)
    <3> HIDE DEF D
    <3> QED OBVIOUS
  <2> HIDE DEF D, Stop, base, nxt
  <2> QED BY <2>1, <2>2
<1>6. f = [u \in D |-> f[u]]
  <2> HIDE DEF D, Stop, base, nxt
  <2> QED BY <1>4
<1>7. IsFind(f, s, end, mask)
  <2> HIDE DEF Stop, base, nxt, rank
  <2>1. f = [u \in D |-> IF u.type = "OTHER" \/ u.type \in mask THEN u ELSE f[Advance(s, u)]]
    <3> HIDE DEF D
    <3> QED BY <1>5, <1>6
  <2> QED BY <2>1 DEF IsFind
<1>8. IsFind(Find(s, end, mask), s, end, mask)
  BY <1>7, Zenon DEF Find
<1> QED BY <1>8 DEF IsFind, FindsFrom

\* The tokens from a token on are those of any region that holds it.
LEMMA TokenListFrom ==
  ASSUME NEW s, NEW a \in Nat, NEW e \in Nat
  PROVE  \A t \in TokensIn(a, e) : TokenList(s, a, e)[t] = TokenList(s, 0, e)[t]
<1> DEFINE D == TokensIn(a, e)
           F == TokenList(s, a, e)
           H == TokenList(s, 0, e)
           G == {t \in D : F[t] = H[t]}
           rank == [t \in D |-> TokenRank(e, t)]
<1>0. D \subseteq TokensIn(0, e)
  BY DEF TokensIn
<1>1. \A t \in D : rank[t] \in Nat
  <2> SUFFICES ASSUME NEW t \in D PROVE TokenRank(e, t) \in Nat
    OBVIOUS
  <2>1. TokenRank(e, t) \in 0 .. e + 1
    BY TokenRankFacts
  <2> QED BY <2>1
<1>2. ASSUME NEW t \in D, \A y \in D : rank[y] < rank[t] => y \in G PROVE t \in G
  <2> DEFINE v == Advance(s, t)
  <2>1. F[t] = (IF t.s = e THEN <<>> ELSE <<t>> \o F[v])
    BY TokensDef
  <2>2. H[t] = (IF t.s = e THEN <<>> ELSE <<t>> \o H[v])
    BY <1>0, TokensDef
  <2>3. v \in D /\ (t.s # e => TokenRank(e, v) < TokenRank(e, t))
    BY AdvanceFacts, TokenRankFacts
  <2> HIDE DEF D, F, H, v
  <2>4. t.s # e => rank[v] < rank[t]
    BY <2>3
  <2>5. t.s # e => F[v] = H[v]
    BY <1>2, <2>3, <2>4
  <2>6. F[t] = H[t]
    <3> HIDE DEF rank, G
    <3> QED BY <2>1, <2>2, <2>5
  <2> QED BY <2>6
<1>3. \A t \in D : t \in G
  <2> HIDE DEF D, G, rank
  <2> QED BY <1>1, <1>2, RankInduction
<1> HIDE DEF D, F, H
<1> QED BY <1>3 DEF D, F, H

-----------------------------------------------------------------------------
(* Regions: the tokens up to a delimiter.                                  *)

\* What f makes of a sequence with one more member in front.
MapsCons(f, u, M) == Mapped(f, <<u>> \o M) = <<f[u]>> \o Mapped(f, M)

\* A function applied to a sequence with one more member in front.
LEMMA MapCons ==
  ASSUME NEW D, NEW W, NEW f, Sends(f, D, W), NEW u \in D, NEW M \in Seq(D)
  PROVE  MapsCons(f, u, M)
<1> DEFINE one == <<u>>
<1>1. one \in Seq(D) /\ DOMAIN one = {1} /\ one[1] = u
  OBVIOUS
<1>2. Mapped(f, one) = <<f[u]>>
  <2>1. Mapped(f, one) = [i \in {1} |-> f[u]]
    BY <1>1 DEF Mapped
  <2>2. <<f[u]>> = [i \in {1} |-> f[u]]
    OBVIOUS
  <2> QED BY <2>1, <2>2
<1> HIDE DEF one
<1>3. Splits(f, one, M)
  BY <1>1, MapConcat
<1> QED BY <1>2, <1>3 DEF Splits, MapsCons, one

\* The tokens of a region, cut to one that ends at c.
CutTo(e, c) == [u \in TokensIn(0, e) |-> Cut(u, c)]
CutAll(e, c, L) == Mapped(CutTo(e, c), L)

\* Cutting tokens to a region is a function on the tokens.
LEMMA CutFacts ==
  ASSUME NEW e \in Nat, NEW c
  PROVE  /\ Sends(CutTo(e, c), TokensIn(0, e), {Cut(u, c) : u \in TokensIn(0, e)})
         /\ \A u \in TokensIn(0, e) : CutTo(e, c)[u] = Cut(u, c)
<1> DEFINE D == TokensIn(0, e)
<1> HIDE DEF D
<1>1. \A u \in D : CutTo(e, c)[u] = Cut(u, c)
  BY DEF CutTo, D
<1>2. Sends(CutTo(e, c), D, {Cut(u, c) : u \in D})
  BY <1>1 DEF Sends
<1> QED BY <1>1, <1>2 DEF D

\* No token ends in a blank.
NoCut(s, L) == \A i \in 1 .. Len(L) : ~isspace(At(s, L[i].s + L[i].len - 1))

\* Token d is the delimiter of token u; Pre are the tokens before it, which are those of
\* the region from u up to c.
Delimits(s, e, mask, u, d, c, Pre) ==
  /\ Real(s, e, d) /\ d.type \in mask /\ d = Find(s, e, mask)[u]
  /\ c = TrimTo(s, u.s, d.s)
  /\ c \in Nat /\ u.s <= c /\ c <= d.s /\ TokenFrom(s, c, e) = d
  /\ u.type \in mask => d = u /\ c = u.s
  /\ u.type \notin mask => u.s + u.len <= c
  /\ Pre \in Seq(TokensIn(0, e)) /\ \A i \in 1 .. Len(Pre) : Pre[i].type \notin mask
  /\ TokenList(s, 0, e)[u] = Pre \o TokenList(s, 0, e)[d]
  /\ TokenList(s, 0, c)[TokenAt(s, u.s, c)] = CutAll(e, c, Pre)

\* A token that is itself a delimiter.
LEMMA DelimitsNone ==
  ASSUME NEW s, NEW e \in Nat, NEW mask, "EOL" \in mask, NEW u, Real(s, e, u), u.type \in mask
  PROVE  Delimits(s, e, mask, u, u, u.s, <<>>)
<1> DEFINE D == TokensIn(0, e)
           none == <<>>
           c == u.s
           L == TokenList(s, 0, e)[u]
<1>1. u \in D /\ TokenStart(s, u.s, e) /\ u = TokenAt(s, u.s, e)
  BY DEF Real
<1>2. c \in Nat /\ c <= c /\ TokenRight(s, c, e, u)
  BY RealFacts
<1>3. u = Find(s, e, mask)[u]
  BY <1>1, FindDef DEF FindsFrom
<1>4. c = TrimTo(s, u.s, u.s)
  <2>1. Trimmed(s, c, c, TrimTo(s, c, c))
    BY <1>2, TrimFacts
  <2>2. TrimTo(s, c, c) \in c .. c
    BY <2>1 DEF Trimmed
  <2> QED BY <1>2, <2>2
<1>5. TokenFrom(s, c, e) = u
  BY <1>1, SkipStays
<1>6. none \in Seq(D) /\ Len(none) = 0 /\ DOMAIN none = {}
  OBVIOUS
<1>7. \A i \in 1 .. Len(none) : none[i].type \notin mask
  BY <1>6
<1>8. L = none \o L
  <2>1. Chained(s, 0, e, u, L)
    BY <1>1, <1>2, ChainFacts
  <2>2. L \in Seq(D)
    BY <2>1 DEF Chained
  <2> HIDE DEF L
  <2> QED BY <2>2, ConcatEmptySeq
<1>9. TokenList(s, 0, c)[TokenAt(s, c, c)] = <<>>
  <2>1. TokenStart(s, c, c)
    BY <1>2 DEF TokenStart
  <2> DEFINE t == TokenAt(s, c, c)
  <2>2. Real(s, c, t) /\ t.s = c
    BY <1>2, <2>1, RealAt
  <2>3. t \in TokensIn(0, c)
    BY <2>2 DEF Real
  <2> HIDE DEF c, t
  <2>4. TokenList(s, 0, c)[t] = IF t.s = c THEN <<>> ELSE <<t>> \o TokenList(s, 0, c)[Advance(s, t)]
    BY <1>2, <2>3, TokensDef
  <2>5. TokenList(s, 0, c)[t] = <<>>
    BY <2>2, <2>4
  <2> QED BY <2>5 DEF t
<1>10. CutAll(e, c, none) = <<>>
  <2>1. CutAll(e, c, none) = [i \in DOMAIN none |-> CutTo(e, c)[none[i]]]
    BY DEF CutAll, Mapped
  <2> QED BY <2>1, <1>6
<1> HIDE DEF none, L
<1>11. Delimits(s, e, mask, u, u, c, none)
  BY <1>2, <1>3, <1>4, <1>5, <1>6, <1>7, <1>8, <1>9, <1>10 DEF Delimits, L, none
<1> QED BY <1>11 DEF none

\* The first token of a region that ends at c, and those after it.
CutFrom(s, c, u) ==
  /\ Advance(s, u).s < c =>
       TokenList(s, 0, c)[TokenAt(s, u.s, c)] =
         <<Cut(u, c)>> \o TokenList(s, 0, c)[TokenAt(s, Advance(s, u).s, c)]
  /\ c <= Advance(s, u).s => TokenList(s, 0, c)[TokenAt(s, u.s, c)] = <<Cut(u, c)>> \o <<>>

\* The tokens of a shorter region are those of the longer one, cut to it.
LEMMA CutHead ==
  ASSUME NEW s, NEW e \in Nat, NEW u, Real(s, e, u), u.s # e, NEW c \in Nat, u.s + u.len <= c, c <= e
  PROVE  CutFrom(s, c, u)
<1> DEFINE v == Advance(s, u)
           t == TokenAt(s, u.s, c)
           F == TokenList(s, 0, c)
           n == u.s + u.len
<1>1. u \in TokensIn(0, e) /\ TokenStart(s, u.s, e) /\ u = TokenAt(s, u.s, e)
  BY DEF Real
<1>2. u.s \in Nat /\ u.len \in Nat /\ u.len > 0 /\ n \in Nat
  BY RealFacts
<1>3. v.s \in Nat /\ skip_shell_space(s, n, e) = v.s
  <2>1. Real(s, e, v) /\ skip_shell_space(s, n, e) = v.s
    BY <1>1, RealAdvance
  <2> HIDE DEF v
  <2> QED BY <2>1, RealFacts
<1>4. u.s < c
  BY <1>2
<1>5. u.s + TokenAt(s, u.s, e).len <= c
  BY <1>1
<1>6. t = Cut(u, c)
  <2>1. TokenAt(s, u.s, c) = Cut(TokenAt(s, u.s, e), c)
    BY <1>1, <1>2, <1>4, <1>5, TokenLocal
  <2> QED BY <1>1, <2>1
<1>7. t.s = u.s /\ t.len = u.len /\ t.end = c
  BY <1>6 DEF Cut
<1>8. TokenStart(s, u.s, c)
  BY <1>1, <1>4 DEF TokenStart
<1>9. t \in TokensIn(0, c)
  BY <1>8, RealAt DEF Real
<1>10. F[t] = IF t.s = c THEN <<>> ELSE <<t>> \o F[Advance(s, t)]
  BY <1>9, TokensDef
<1>11. Advance(s, t) = TokenAt(s, skip_shell_space(s, n, c), c)
  BY <1>7 DEF Advance, TokenFrom
<1>12. /\ v.s < c => skip_shell_space(s, n, c) = v.s
       /\ c <= v.s => skip_shell_space(s, n, c) = c
  <2> HIDE DEF n, v
  <2>1. n <= c
    BY DEF n
  <2> QED BY <1>2, <1>3, <2>1, SkipLocal
<1>13. F[TokenAt(s, c, c)] = <<>>
  <2> DEFINE w == TokenAt(s, c, c)
  <2>1. TokenStart(s, c, c)
    BY DEF TokenStart
  <2>2. Real(s, c, w) /\ w.s = c
    BY <2>1, RealAt
  <2>3. w \in TokensIn(0, c)
    BY <2>2 DEF Real
  <2> HIDE DEF w
  <2>4. F[w] = IF w.s = c THEN <<>> ELSE <<w>> \o F[Advance(s, w)]
    BY <2>3, TokensDef
  <2>5. F[w] = <<>>
    <3> HIDE DEF F
    <3> QED BY <2>2, <2>4
  <2> QED BY <2>5 DEF w
<1>14. t.s # c
  BY <1>2, <1>4, <1>7
<1> HIDE DEF F, t, v, n
<1>15. F[t] = <<Cut(u, c)>> \o F[Advance(s, t)]
  BY <1>6, <1>10, <1>14
<1>16. v.s < c => F[t] = <<Cut(u, c)>> \o F[TokenAt(s, v.s, c)]
  BY <1>11, <1>12, <1>15
<1>17. c <= v.s => F[t] = <<Cut(u, c)>> \o <<>>
  BY <1>11, <1>12, <1>13, <1>15
<1> QED BY <1>16, <1>17 DEF CutFrom, F, t, v

\* A token before a delimiter.
LEMMA DelimitsStep ==
  ASSUME NEW s, NEW e \in Nat, NEW mask, "EOL" \in mask, NEW u, Real(s, e, u), u.type \notin mask,
         ~isspace(At(s, u.s + u.len - 1)),
         NEW d, NEW k, NEW P, Delimits(s, e, mask, Advance(s, u), d, k, P)
  PROVE  \E c, Pre : Delimits(s, e, mask, u, d, c, Pre)
<1> DEFINE D == TokensIn(0, e)
           v == Advance(s, u)
           F == TokenList(s, 0, e)
           n == u.s + u.len
           c == TrimTo(s, u.s, d.s)
           L == <<u>> \o P
<1>0. u \in TokensIn(0, e)
  BY DEF Real
<1>1. /\ u \in D /\ u.s \in Nat /\ u.len \in Nat /\ n \in Nat /\ n <= e
      /\ u.s # e /\ u.len > 0 /\ u.type # "OTHER" /\ TokenStart(s, u.s, e)
  <2>1. /\ u.s \in Nat /\ u.len \in Nat /\ n \in Nat /\ n <= e /\ u.type # "OTHER"
        /\ (u.s # e => u.len > 0) /\ (u.s = e => u.type = "EOL")
    BY RealFacts
  <2>2. TokenStart(s, u.s, e)
    BY DEF Real
  <2> QED BY <1>0, <2>1, <2>2
<1>2. Real(s, e, v) /\ n <= v.s
  BY <1>1, RealAdvance
<1>3. /\ Real(s, e, d) /\ d.type \in mask /\ d = Find(s, e, mask)[v]
      /\ k = TrimTo(s, v.s, d.s) /\ k \in Nat /\ v.s <= k /\ k <= d.s /\ TokenFrom(s, k, e) = d
      /\ v.type \in mask => d = v /\ k = v.s
      /\ v.type \notin mask => v.s + v.len <= k
      /\ P \in Seq(D) /\ \A i \in 1 .. Len(P) : P[i].type \notin mask
      /\ F[v] = P \o F[d]
      /\ TokenList(s, 0, k)[TokenAt(s, v.s, k)] = CutAll(e, k, P)
  BY DEF Delimits
<1>4. d = Find(s, e, mask)[u]
  <2>1. Find(s, e, mask)[u] = IF u.type = "OTHER" \/ u.type \in mask THEN u
                              ELSE Find(s, e, mask)[v]
    <3>1. FindsFrom(s, e, mask, u)
      BY <1>0, FindDef
    <3> QED BY <3>1 DEF FindsFrom
  <2> HIDE DEF v
  <2> QED BY <1>1, <1>3, <2>1
<1>5. F[u] = <<u>> \o F[v]
  <2>1. F[u] = IF u.s = e THEN <<>> ELSE <<u>> \o F[v]
    BY <1>0, TokensDef
  <2> HIDE DEF F, v
  <2> QED BY <1>1, <2>1
<1>6. d \in D /\ d.s \in Nat /\ d.s <= e /\ F[d] \in Seq(D)
  <2>1. d \in D /\ d.s \in Nat /\ d.s <= e /\ TokenRight(s, d.s, e, d)
    BY <1>3, RealFacts DEF Real
  <2>2. Chained(s, 0, e, d, F[d])
    BY <2>1, ChainFacts
  <2> QED BY <2>1, <2>2 DEF Chained
<1>7. v.s \in Nat /\ v.s <= e /\ TokenStart(s, v.s, e) /\ v = TokenAt(s, v.s, e)
      /\ (v.type \notin mask => v.len \in Nat /\ v.len > 0)
  <2>1. v.s = e => v.type = "EOL"
    BY <1>2, RealFacts
  <2> QED BY <1>2, <2>1, RealFacts DEF Real
<1>8. Trimmed(s, u.s, d.s, c)
  <2>a. u.s <= n /\ n <= v.s /\ v.s <= k /\ k <= d.s
    BY <1>1, <1>2, <1>3
  <2>b. u.s \in Nat /\ n \in Nat /\ v.s \in Nat /\ k \in Nat /\ d.s \in Nat
    BY <1>1, <1>3, <1>6, <1>7
  <2>1. u.s <= d.s
    <3> HIDE DEF n, v
    <3> QED BY <2>a, <2>b
  <2> QED BY <1>1, <1>6, <2>1, TrimFacts
<1> HIDE DEF c, v, F, n
<1>9. c \in u.s .. d.s /\ c \in Nat /\ u.s <= c /\ c <= d.s /\ c <= e /\ Blanks(s, c, d.s)
  BY <1>1, <1>6, <1>8 DEF Trimmed
<1>10. n <= c
  <2> SUFFICES ASSUME ~(n <= c) PROVE FALSE
    OBVIOUS
  <2>1. n - 1 \in c .. d.s - 1
    BY <1>1, <1>2, <1>3, <1>6, <1>7, <1>9
  <2>2. isspace(At(s, n - 1))
    BY <1>9, <2>1 DEF Blanks
  <2>3. u.s + (u.len - 1) = n - 1
    BY <1>1 DEF n
  <2> QED BY <2>2, <2>3
<1>11. L \in Seq(D)
  BY <1>1, <1>3, ConsFacts
<1>12. ASSUME NEW i \in 1 .. Len(L) PROVE L[i].type \notin mask
  <2>1. Len(L) = 1 + Len(P) /\ Len(P) \in Nat /\ L[1] = u /\ \A j \in 1 .. Len(P) : L[j + 1] = P[j]
    BY <1>1, <1>3, ConsFacts
  <2> HIDE DEF L
  <2>2. CASE i = 1
    BY <2>1, <2>2
  <2>3. CASE i # 1
    <3>1. i - 1 \in 1 .. Len(P) /\ (i - 1) + 1 = i
      BY <2>1, <2>3
    <3>2. L[i] = P[i - 1]
      BY <2>1, <3>1
    <3> QED BY <1>3, <3>1, <3>2
  <2> QED BY <2>2, <2>3
<1>13. F[u] = L \o F[d]
  <2> DEFINE one == <<u>>
             Z == F[d]
  <2>1. one \in Seq(D) /\ Z \in Seq(D)
    BY <1>1, <1>6
  <2>2. F[u] = one \o (P \o Z)
    BY <1>3, <1>5
  <2> HIDE DEF one, Z, D
  <2>3. one \o (P \o Z) = (one \o P) \o Z
    <3>1. one \in Seq(D) /\ P \in Seq(D) /\ Z \in Seq(D)
      BY <1>3, <2>1
    <3>2. Groups(one, P, Z)
      BY <3>1, Grouping
    <3> QED BY <3>2 DEF Groups
  <2> QED BY <2>2, <2>3 DEF one, Z
<1>14. CutAll(e, c, L) = <<Cut(u, c)>> \o CutAll(e, c, P)
  <2>1. Sends(CutTo(e, c), D, {Cut(x, c) : x \in D}) /\ CutTo(e, c)[u] = Cut(u, c)
    BY <1>1, CutFacts
  <2>2. MapsCons(CutTo(e, c), u, P)
    <3> DEFINE W == {Cut(x, c) : x \in D}
    <3> HIDE DEF W, D
    <3>1. Sends(CutTo(e, c), D, W)
      BY <2>1 DEF W
    <3> QED BY <1>1, <1>3, <3>1, MapCons
  <2> QED BY <2>1, <2>2 DEF MapsCons, CutAll
<1>15. Real(s, e, u) /\ u.s + u.len <= c
  BY <1>10 DEF n
<1>16. /\ v.s < c => TokenList(s, 0, c)[TokenAt(s, u.s, c)] =
                       <<Cut(u, c)>> \o TokenList(s, 0, c)[TokenAt(s, v.s, c)]
       /\ c <= v.s => TokenList(s, 0, c)[TokenAt(s, u.s, c)] = <<Cut(u, c)>> \o <<>>
  <2>1. c \in Nat /\ c <= e /\ u.s # e
    BY <1>1, <1>9
  <2>2. CutFrom(s, c, u)
    BY <1>15, <2>1, CutHead
  <2> QED BY <2>2 DEF CutFrom, v
<1>17. TokenFrom(s, c, e) = d
  <2>1. TokenStart(s, d.s, e) /\ d = TokenAt(s, d.s, e)
    BY <1>3 DEF Real
  <2> QED BY <1>9, <2>1, SkipTo
<1>18. TokenList(s, 0, c)[TokenAt(s, u.s, c)] = CutAll(e, c, L)
  <2>1. CASE v.type \in mask
    <3>1. d = v /\ k = v.s
      BY <1>3, <2>1
    <3>2. c <= v.s
      BY <1>9, <3>1
    <3>3. TokenList(s, 0, c)[TokenAt(s, u.s, c)] = <<Cut(u, c)>> \o <<>>
      BY <1>16, <3>2
    <3>4. P = <<>>
      <4>1. F[v] = P \o F[v] /\ F[v] \in Seq(D)
        BY <1>3, <1>6, <3>1
      <4> DEFINE Z == F[v]
      <4> HIDE DEF Z
      <4>2. Z = P \o Z /\ Z \in Seq(D)
        BY <4>1 DEF Z
      <4>3. Len(P \o Z) = Len(P) + Len(Z) /\ Len(P) \in Nat /\ Len(Z) \in Nat
        BY <1>3, <4>2, ConcatProperties, LenProperties
      <4>4. Len(P) = 0
        BY <4>2, <4>3
      <4> QED BY <1>3, <4>4, EmptySeq
    <3>5. CutAll(e, c, P) = <<>>
      <4>1. CutAll(e, c, P) = [i \in DOMAIN P |-> CutTo(e, c)[P[i]]] /\ DOMAIN P = {}
        BY <3>4 DEF CutAll, Mapped
      <4> QED BY <4>1
    <3> QED BY <1>14, <3>3, <3>5
  <2>2. CASE v.type \notin mask
    <3>1. v.s + v.len <= k /\ v.len > 0 /\ v.len \in Nat
      BY <1>3, <1>7, <2>2
    <3>2. v.s < k /\ k # v.s
      BY <1>3, <1>7, <3>1
    <3>3. Trimmed(s, v.s, d.s, k)
      <4>1. v.s <= d.s
        BY <1>3, <1>6, <1>7
      <4> QED BY <1>3, <1>6, <1>7, <4>1, TrimFacts
    <3>4. ~isspace(At(s, k - 1)) /\ Blanks(s, k, d.s)
      BY <3>2, <3>3 DEF Trimmed
    <3>5. k \in u.s .. d.s
      <4>1. u.s <= v.s
        BY <1>1, <1>2, <1>7 DEF n
      <4> QED BY <1>1, <1>3, <1>6, <1>7, <4>1
    <3>6. Trimmed(s, u.s, d.s, k)
      BY <3>4, <3>5 DEF Trimmed
    <3>7. k = c
      BY <1>1, <1>6, <1>8, <3>6, TrimUnique
    <3>8. TokenList(s, 0, c)[TokenAt(s, u.s, c)] = <<Cut(u, c)>> \o CutAll(e, c, P)
      BY <1>3, <1>16, <3>2, <3>7
    <3> QED BY <1>14, <3>8
  <2> QED BY <2>1, <2>2
<1> HIDE DEF L, D
<1>19. Delimits(s, e, mask, u, d, c, L)
  BY <1>3, <1>4, <1>9, <1>11, <1>12, <1>13, <1>15, <1>17, <1>18 DEF Delimits, c, D, F
<1> QED BY <1>19

\* The tokens from a token on, if none ends in a blank.
LEMMA NoCutTail ==
  ASSUME NEW s, NEW D, NEW u \in D, NEW M \in Seq(D), NoCut(s, <<u>> \o M)
  PROVE  ~isspace(At(s, u.s + u.len - 1)) /\ NoCut(s, M)
<1> DEFINE L == <<u>> \o M
<1>1. Len(L) = 1 + Len(M) /\ Len(M) \in Nat /\ L[1] = u /\ \A i \in 1 .. Len(M) : L[i + 1] = M[i]
  BY ConsFacts
<1>2. \A i \in 1 .. Len(L) : ~isspace(At(s, L[i].s + L[i].len - 1))
  BY DEF NoCut
<1> HIDE DEF L
<1>3. 1 \in 1 .. Len(L) /\ \A i \in 1 .. Len(M) : i + 1 \in 1 .. Len(L)
  BY <1>1
<1>4. ASSUME NEW i \in 1 .. Len(M) PROVE ~isspace(At(s, M[i].s + M[i].len - 1))
  <2>1. L[i + 1] = M[i] /\ i + 1 \in 1 .. Len(L)
    BY <1>1, <1>3
  <2>2. ~isspace(At(s, L[i + 1].s + L[i + 1].len - 1))
    BY <1>2, <2>1
  <2> QED BY <2>1, <2>2
<1> QED BY <1>1, <1>2, <1>3, <1>4 DEF NoCut

\* Every token has a delimiter.
LEMMA DelimitsSome ==
  ASSUME NEW s, NEW e \in Nat, NEW mask, "EOL" \in mask
  PROVE  \A u \in TokensIn(0, e) : Real(s, e, u) /\ NoCut(s, TokenList(s, 0, e)[u]) =>
           \E d, c, Pre : Delimits(s, e, mask, u, d, c, Pre)
<1> DEFINE D == TokensIn(0, e)
           F == TokenList(s, 0, e)
           Has(u) == \E d, c, Pre : Delimits(s, e, mask, u, d, c, Pre)
           G == {u \in D : Real(s, e, u) /\ NoCut(s, F[u]) => Has(u)}
           rank == [u \in D |-> TokenRank(e, u)]
<1>1. \A u \in D : rank[u] \in Nat
  <2> SUFFICES ASSUME NEW u \in D PROVE TokenRank(e, u) \in Nat
    OBVIOUS
  <2>1. TokenRank(e, u) \in 0 .. e + 1
    BY TokenRankFacts
  <2> QED BY <2>1
<1>2. ASSUME NEW u \in D, \A y \in D : rank[y] < rank[u] => y \in G PROVE u \in G
  <2> SUFFICES ASSUME Real(s, e, u), NoCut(s, F[u]) PROVE Has(u)
    OBVIOUS
  <2>1. CASE u.type \in mask
    <3>1. Delimits(s, e, mask, u, u, u.s, <<>>)
      BY <2>1, DelimitsNone
    <3> QED BY <3>1
  <2>2. CASE u.type \notin mask
    <3> DEFINE v == Advance(s, u)
    <3>1. u.s # e
      BY <2>2, RealFacts
    <3>2. v \in D /\ TokenRank(e, v) < TokenRank(e, u)
      BY <3>1, AdvanceFacts, TokenRankFacts
    <3>3. Real(s, e, v)
      BY RealAdvance
    <3>4. F[v] \in Seq(D)
      <4>1. TokenRight(s, v.s, e, v)
        BY <3>3, RealFacts
      <4>2. Chained(s, 0, e, v, F[v])
        BY <3>2, <4>1, ChainFacts
      <4> QED BY <4>2 DEF Chained
    <3>5. F[u] = <<u>> \o F[v]
      <4>1. F[u] = IF u.s = e THEN <<>> ELSE <<u>> \o F[v]
        BY TokensDef
      <4> HIDE DEF F, v
      <4> QED BY <3>1, <4>1
    <3> HIDE DEF F, v, D
    <3>6. ~isspace(At(s, u.s + u.len - 1)) /\ NoCut(s, F[v])
      <4>1. NoCut(s, <<u>> \o F[v])
        BY <3>5
      <4> QED BY <3>4, <4>1, NoCutTail
    <3>7. rank[v] < rank[u]
      BY <3>2
    <3>8. v \in G
      <4> HIDE DEF G, rank
      <4> QED BY <1>2, <3>2, <3>7
    <3>9. PICK d, k, P : Delimits(s, e, mask, v, d, k, P)
      BY <3>3, <3>6, <3>8
    <3>10. Delimits(s, e, mask, Advance(s, u), d, k, P)
      BY <3>9 DEF v
    <3>11. \E c, Pre : Delimits(s, e, mask, u, d, c, Pre)
      BY <2>2, <3>6, <3>10, DelimitsStep
    <3> QED BY <3>11
  <2> QED BY <2>1, <2>2
<1>3. \A u \in D : u \in G
  <2> HIDE DEF D, G, rank
  <2> QED BY <1>1, <1>2, RankInduction
<1> HIDE DEF D, F
<1> QED BY <1>3 DEF D, F

\* str() reads the members of a token that do not change.
StrOf(s, first, len, quoted) ==
  LET build[w \in [pos : 0 .. len + 1, curquote : Quotes \cup {NUL}]] ==
        LET ch == At(s, first + w.pos)
            after == At(s, first + w.pos + 1)
            Go(n, curquote) == build[[pos |-> w.pos + n, curquote |-> curquote]]
        IN IF w.pos = len THEN <<>>
           ELSE IF w.pos > len THEN <<Overrun>>
           ELSE IF ch \in Quotes /\ w.curquote = NUL THEN Go(1, ch)
           ELSE IF ch = w.curquote THEN Go(1, NUL)
           ELSE IF ch = "\\" /\ after # NUL /\ w.curquote # "'"
           THEN <<after>> \o Go(2, w.curquote)
           ELSE <<ch>> \o Go(1, w.curquote)
  IN IF quoted THEN build[[pos |-> 0, curquote |-> NUL]] ELSE SubSeq(s, first + 1, first + len)

\* A token says the same in a shorter region.
LEMMA StrSame ==
  ASSUME NEW s, NEW u, NEW c
  PROVE  str(s, Cut(u, c)) = str(s, u)
<1> DEFINE t == Cut(u, c)
<1>1. t.s = u.s /\ t.len = u.len /\ t.quoted = u.quoted
  BY DEF Cut
<1> HIDE DEF t
<1>2. str(s, t) = StrOf(s, t.s, t.len, t.quoted)
  BY DEF str, StrOf
<1>3. str(s, u) = StrOf(s, u.s, u.len, u.quoted)
  BY DEF str, StrOf
<1>4. str(s, t) = str(s, u)
  BY <1>1, <1>2, <1>3
<1> QED BY <1>4 DEF t

\* What the loops see of tokens.
Sights(s) == TokenTypes \X Seq(WordChars(s))
See(s, u) == <<u.type, str(s, u)>>
Seen(s, L) == [i \in DOMAIN L |-> See(s, L[i])]
SeeIn(s, e) == [u \in TokensIn(0, e) |-> See(s, u)]

\* What is seen of tokens is a type and a string for each.
LEMMA SeeFacts ==
  ASSUME NEW s, Text(s), NEW e \in Nat, e <= Len(s)
  PROVE  /\ Sends(SeeIn(s, e), TokensIn(0, e), Sights(s))
         /\ \A u \in TokensIn(0, e) : SeeIn(s, e)[u] = See(s, u) /\ See(s, u) \in Sights(s)
         /\ \A L \in Seq(TokensIn(0, e)) : Seen(s, L) = Mapped(SeeIn(s, e), L) /\ Seen(s, L) \in Seq(Sights(s))
<1> DEFINE D == TokensIn(0, e)
           W == Sights(s)
<1>0. Len(s) \in Nat
  BY TextFacts
<1>1. ASSUME NEW u \in D PROVE See(s, u) \in W
  <2>1. u.s \in 0 .. e /\ u.len \in Nat /\ u.s + u.len \in 0 .. e
    BY AdvanceFacts
  <2>2. u.s \in Nat /\ u.s + u.len <= Len(s)
    BY <1>0, <2>1
  <2>3. str(s, u) \in Seq(WordChars(s))
    BY <2>1, <2>2, StrIn
  <2>4. u.type \in TokenTypes
    BY DEF TokensIn
  <2> QED BY <2>3, <2>4 DEF See, Sights
<1> HIDE DEF D, W
<1>2. \A u \in D : SeeIn(s, e)[u] = See(s, u) /\ See(s, u) \in W
  BY <1>1 DEF SeeIn, D
<1>3. Sends(SeeIn(s, e), D, W)
  BY <1>2 DEF Sends
<1>4. ASSUME NEW L \in Seq(D) PROVE Seen(s, L) = Mapped(SeeIn(s, e), L) /\ Seen(s, L) \in Seq(W)
  <2>1. \A i \in DOMAIN L : L[i] \in D
    BY LenProperties, ElementOfSeq
  <2>2. Seen(s, L) = Mapped(SeeIn(s, e), L)
    BY <1>2, <2>1 DEF Mapped, Seen
  <2>3. Mapped(SeeIn(s, e), L) \in Seq(W)
    BY <1>3, MapType
  <2> QED BY <2>2, <2>3
<1> QED BY <1>2, <1>3, <1>4 DEF D, W

\* The parts of a sequence none of whose tokens ends in a blank.
LEMMA NoCutParts ==
  ASSUME NEW s, NEW D, NEW A \in Seq(D), NEW B \in Seq(D), NoCut(s, A \o B)
  PROVE  NoCut(s, A) /\ NoCut(s, B)
<1> DEFINE L == A \o B
<1>1. /\ Len(L) = Len(A) + Len(B) /\ Len(A) \in Nat /\ Len(B) \in Nat
      /\ \A i \in 1 .. Len(A) + Len(B) : L[i] = IF i <= Len(A) THEN A[i] ELSE B[i - Len(A)]
  BY ConcatProperties, LenProperties
<1>2. \A i \in 1 .. Len(L) : ~isspace(At(s, L[i].s + L[i].len - 1))
  BY DEF NoCut
<1> HIDE DEF L
<1>3. ASSUME NEW i \in 1 .. Len(A) PROVE ~isspace(At(s, A[i].s + A[i].len - 1))
  <2>1. i \in 1 .. Len(L) /\ i \in 1 .. Len(A) + Len(B) /\ i <= Len(A)
    BY <1>1
  <2>2. L[i] = A[i]
    BY <1>1, <2>1
  <2>3. ~isspace(At(s, L[i].s + L[i].len - 1))
    BY <1>2, <2>1
  <2> QED BY <2>2, <2>3
<1>4. ASSUME NEW i \in 1 .. Len(B) PROVE ~isspace(At(s, B[i].s + B[i].len - 1))
  <2> DEFINE j == Len(A) + i
  <2>1. j \in 1 .. Len(L) /\ j \in 1 .. Len(A) + Len(B) /\ ~(j <= Len(A)) /\ j - Len(A) = i
    BY <1>1
  <2> HIDE DEF j
  <2>2. L[j] = B[i]
    BY <1>1, <2>1
  <2>3. ~isspace(At(s, L[j].s + L[j].len - 1))
    BY <1>2, <2>1
  <2> QED BY <2>2, <2>3
<1> QED BY <1>3, <1>4 DEF NoCut

\* Tokens are seen as they were when they are cut.
LEMMA CutSeen ==
  ASSUME NEW s, NEW e \in Nat, NEW c, NEW P \in Seq(TokensIn(0, e)), NoCut(s, P)
  PROVE  /\ Seen(s, CutAll(e, c, P)) = Seen(s, P) /\ NoCut(s, CutAll(e, c, P))
         /\ \A mask : (\A i \in 1 .. Len(P) : P[i].type \notin mask)
                      => \A t \in ToSet(CutAll(e, c, P)) : t.type \notin mask
<1> DEFINE D == TokensIn(0, e)
           T == CutAll(e, c, P)
<1>1. /\ T \in Seq({Cut(u, c) : u \in D}) /\ Len(T) = Len(P) /\ Len(P) \in Nat
      /\ \A i \in 1 .. Len(P) : P[i] \in D /\ T[i] = CutTo(e, c)[P[i]]
  <2> DEFINE W == {Cut(u, c) : u \in D}
  <2> HIDE DEF W, D
  <2>1. Sends(CutTo(e, c), D, W)
    BY CutFacts DEF W, D
  <2> QED BY <2>1, MapType DEF CutAll, W, D
<1>2. DOMAIN T = 1 .. Len(P) /\ DOMAIN P = 1 .. Len(P)
  BY <1>1, LenProperties
<1> HIDE DEF T
<1>3. ASSUME NEW i \in 1 .. Len(P)
      PROVE  T[i].s = P[i].s /\ T[i].len = P[i].len /\ T[i].type = P[i].type /\ str(s, T[i]) = str(s, P[i])
  <2>1. T[i] = Cut(P[i], c)
    BY <1>1, CutFacts
  <2>2. str(s, Cut(P[i], c)) = str(s, P[i])
    BY StrSame
  <2>3. T[i].s = P[i].s /\ T[i].len = P[i].len /\ T[i].type = P[i].type
    BY <2>1 DEF Cut
  <2> QED BY <2>1, <2>2, <2>3
<1>4. Seen(s, T) = Seen(s, P)
  <2>1. \A i \in 1 .. Len(P) : See(s, T[i]) = See(s, P[i])
    BY <1>3 DEF See
  <2> QED BY <1>2, <2>1 DEF Seen
<1>5. NoCut(s, T)
  <2>1. \A i \in 1 .. Len(P) : ~isspace(At(s, P[i].s + P[i].len - 1))
    BY DEF NoCut
  <2>2. \A i \in 1 .. Len(P) : ~isspace(At(s, T[i].s + T[i].len - 1))
    BY <1>3, <2>1
  <2> QED BY <1>1, <2>2 DEF NoCut
<1>6. ASSUME NEW mask, \A i \in 1 .. Len(P) : P[i].type \notin mask, NEW t \in ToSet(T)
      PROVE  t.type \notin mask
  <2>1. PICK i \in 1 .. Len(P) : t = T[i]
    BY <1>2 DEF ToSet
  <2> QED BY <1>3, <1>6, <2>1
<1> QED BY <1>4, <1>5, <1>6 DEF T

\* A token none of the tokens after which ends in a blank.
Usable(s, e, u) == Real(s, e, u) /\ NoCut(s, TokenList(s, 0, e)[u])

\* The tokens of a region up to a delimiter.
LEMMA RegionTokens ==
  ASSUME NEW s, NEW e \in Nat, NEW mask, NEW u, Usable(s, e, u),
         NEW d, NEW c, NEW P, Delimits(s, e, mask, u, d, c, P)
  PROVE  Tokens(s, u.s, c) = CutAll(e, c, P) /\ TokenStart(s, u.s, c)
<1> DEFINE t == TokenAt(s, u.s, c)
<1>1. u.s \in Nat /\ u.s <= e /\ TokenStart(s, u.s, e)
  BY RealFacts DEF Usable, Real
<1>2. /\ c \in Nat /\ u.s <= c /\ c <= d.s /\ Real(s, e, d)
      /\ TokenList(s, 0, c)[t] = CutAll(e, c, P)
  BY DEF Delimits
<1>3. d.s \in Nat /\ d.s <= e
  BY <1>2, RealFacts
<1>4. u.s # c => u.s # e
  BY <1>1, <1>2, <1>3
<1>5. TokenStart(s, u.s, c)
  BY <1>1, <1>2, <1>4 DEF TokenStart
<1>6. Tokenizer(s, u.s, c) = t
  BY <1>2, <1>5, SkipStays DEF Tokenizer
<1>7. t \in TokensIn(u.s, c)
  BY <1>1, <1>2, <1>6, TokensFacts
<1>8. Tokens(s, u.s, c) = TokenList(s, u.s, c)[t]
  BY <1>1, <1>2, <1>6, TokensDef
<1>9. TokenList(s, u.s, c)[t] = TokenList(s, 0, c)[t]
  BY <1>1, <1>2, <1>7, TokenListFrom
<1> QED BY <1>2, <1>5, <1>8, <1>9

\* A part of a line that a parser can be given.
Good(s, p) == /\ p.stop \in Nat /\ p.stop <= Len(s) /\ TokenStart(s, p.s, p.stop)
              /\ NoCut(s, Tokens(s, p.s, p.stop))

\* The region of token u.
RegionOf(s, e, mask, u) == [s |-> u.s, stop |-> TrimTo(s, u.s, Find(s, e, mask)[u].s), end |-> e]

\* What is seen of a delimiter and of the tokens after it.
LEMMA SeenAfter ==
  ASSUME NEW s, Text(s), NEW e \in Nat, e <= Len(s), NEW d, Usable(s, e, d)
  PROVE  LET op == IF d.type = "EOL" THEN <<>> ELSE <<See(s, d)>>
             v == Advance(s, d)
         IN /\ op \in Seq(Sights(s)) /\ Seen(s, TokenList(s, 0, e)[v]) \in Seq(Sights(s))
            /\ Seen(s, TokenList(s, 0, e)[d]) = op \o Seen(s, TokenList(s, 0, e)[v])
            /\ Usable(s, e, v)
            /\ d.s + d.len <= v.s
<1> DEFINE D == TokensIn(0, e)
           W == Sights(s)
           F == TokenList(s, 0, e)
           v == Advance(s, d)
           op == IF d.type = "EOL" THEN <<>> ELSE <<See(s, d)>>
<1>1. d \in D /\ NoCut(s, F[d]) /\ Real(s, e, d)
  BY DEF Usable, Real
<1>2. d.s = e <=> d.type = "EOL"
  BY <1>1, RealFacts
<1>3. v \in D /\ Real(s, e, v) /\ d.s + d.len <= v.s /\ (d.s = e => v.s = e)
  BY <1>1, RealAdvance DEF Real
<1>4. F[v] \in Seq(D) /\ F[d] \in Seq(D)
  <2>1. TokenRight(s, v.s, e, v) /\ TokenRight(s, d.s, e, d)
    BY <1>1, <1>3, RealFacts
  <2>2. Chained(s, 0, e, v, F[v]) /\ Chained(s, 0, e, d, F[d])
    BY <1>1, <1>3, <2>1, ChainFacts
  <2> QED BY <2>2 DEF Chained
<1>5. F[d] = IF d.s = e THEN <<>> ELSE <<d>> \o F[v]
  BY <1>1, TokensDef
<1>6. v.s = e => F[v] = <<>>
  <2>1. F[v] = IF v.s = e THEN <<>> ELSE <<v>> \o F[Advance(s, v)]
    BY <1>3, TokensDef
  <2> HIDE DEF F, v
  <2> QED BY <2>1
<1> HIDE DEF F, v, D, W
<1>7. /\ Sends(SeeIn(s, e), D, W)
      /\ SeeIn(s, e)[d] = See(s, d) /\ See(s, d) \in W
      /\ \A L \in Seq(D) : Seen(s, L) = Mapped(SeeIn(s, e), L) /\ Seen(s, L) \in Seq(W)
  BY <1>1, SeeFacts DEF D, W
<1>8. Seen(s, F[v]) \in Seq(W)
  BY <1>4, <1>7
<1>9. CASE d.s = e
  <2>1. op = <<>> /\ F[d] = <<>> /\ F[v] = <<>>
    BY <1>2, <1>3, <1>5, <1>6, <1>9
  <2>2. op \in Seq(W)
    BY <2>1, EmptySeq
  <2>3. Seen(s, F[d]) = op \o Seen(s, F[v])
    <3>1. Seen(s, F[d]) = Seen(s, F[v])
      BY <2>1
    <3>2. <<>> \o Seen(s, F[v]) = Seen(s, F[v])
      BY <1>8, ConcatEmptySeq
    <3> QED BY <2>1, <3>1, <3>2
  <2>4. NoCut(s, F[v])
    BY <1>1, <2>1
  <2> QED BY <1>3, <1>8, <2>2, <2>3, <2>4 DEF Usable, F, v, W
<1>10. CASE d.s # e
  <2>1. op = <<See(s, d)>> /\ F[d] = <<d>> \o F[v]
    BY <1>2, <1>5, <1>10
  <2>2. op \in Seq(W)
    BY <1>7, <2>1
  <2>3. Seen(s, F[d]) = op \o Seen(s, F[v])
    <3>1. MapsCons(SeeIn(s, e), d, F[v])
      BY <1>1, <1>4, <1>7, MapCons
    <3>2. Mapped(SeeIn(s, e), F[d]) = <<See(s, d)>> \o Mapped(SeeIn(s, e), F[v])
      BY <1>7, <2>1, <3>1 DEF MapsCons
    <3>3. Seen(s, F[d]) = Mapped(SeeIn(s, e), F[d]) /\ Seen(s, F[v]) = Mapped(SeeIn(s, e), F[v])
      BY <1>4, <1>7
    <3> QED BY <2>1, <3>2, <3>3
  <2>4. NoCut(s, F[v])
    <3>1. NoCut(s, <<d>> \o F[v])
      BY <1>1, <2>1
    <3> QED BY <1>1, <1>4, <3>1, NoCutTail
  <2> QED BY <1>3, <1>8, <2>2, <2>3, <2>4 DEF Usable, F, v, W
<1> QED BY <1>9, <1>10

\* What is right about the region of token u, which is not at the end; v is the token after
\* its delimiter.
RegionRight(s, e, mask, u, v) ==
  LET it == RegionOf(s, e, mask, u)
      F == TokenList(s, 0, e)
  IN /\ it.stop \in Nat /\ Good(s, it)
     /\ next_op(s, it) \in mask
     /\ \A t \in ToSet(Tokens(s, it.s, it.stop)) : t.type \notin mask
     /\ SeenIn(s, it) \in Seq(Sights(s)) /\ OpAfter(s, it) \in Seq(Sights(s))
     /\ Seen(s, F[v]) \in Seq(Sights(s))
     /\ Seen(s, F[u]) = (SeenIn(s, it) \o OpAfter(s, it)) \o Seen(s, F[v])
     /\ Usable(s, e, v) /\ u.s < v.s
     /\ next_delimited(s, it, mask) = RegionOf(s, e, mask, v)

\* After a region comes the region of a later token; the two show all between.
LEMMA RegionFacts ==
  ASSUME NEW s, Text(s), NEW e \in Nat, e <= Len(s), NEW mask, "EOL" \in mask,
         NEW u, Usable(s, e, u), u.s # e
  PROVE  \E v : RegionRight(s, e, mask, u, v)
<1> DEFINE D == TokensIn(0, e)
           W == Sights(s)
           F == TokenList(s, 0, e)
           it == RegionOf(s, e, mask, u)
<1>1. u \in D /\ Real(s, e, u) /\ NoCut(s, F[u])
  BY DEF Usable, Real
<1>2. PICK d, c, P : Delimits(s, e, mask, u, d, c, P)
  BY <1>1, DelimitsSome
<1>3. /\ Real(s, e, d) /\ d.type \in mask /\ d = Find(s, e, mask)[u]
      /\ c = TrimTo(s, u.s, d.s)
      /\ c \in Nat /\ u.s <= c /\ c <= d.s /\ TokenFrom(s, c, e) = d
      /\ u.type \in mask => d = u /\ c = u.s
      /\ u.type \notin mask => u.s + u.len <= c
      /\ P \in Seq(D) /\ \A i \in 1 .. Len(P) : P[i].type \notin mask
      /\ F[u] = P \o F[d]
  BY <1>2 DEF Delimits
<1> DEFINE v == Advance(s, d)
           op == IF d.type = "EOL" THEN <<>> ELSE <<See(s, d)>>
<1>4. it = [s |-> u.s, stop |-> c, end |-> e]
  BY <1>3 DEF RegionOf
<1>5. it.s = u.s /\ it.stop = c /\ it.end = e
  BY <1>4
<1>6. d \in D /\ F[d] \in Seq(D) /\ d.s \in Nat /\ d.len \in Nat /\ d.end = e /\ d.s <= e
      /\ (d.s # e => d.len > 0)
  <2>1. d \in D /\ TokenRight(s, d.s, e, d) /\ d.s \in Nat /\ d.len \in Nat /\ d.end = e /\ d.s <= e
        /\ (d.s # e => d.len > 0)
    <3>1. Real(s, e, d)
      BY <1>3
    <3>2. d \in D
      BY <3>1 DEF Real
    <3> HIDE DEF D
    <3> QED BY <3>1, <3>2, RealFacts
  <2>2. Chained(s, 0, e, d, F[d])
    BY <2>1, ChainFacts
  <2> QED BY <2>1, <2>2 DEF Chained
<1>7. NoCut(s, P) /\ NoCut(s, F[d])
  <2> HIDE DEF D, F
  <2>1. NoCut(s, P \o F[d]) /\ P \in Seq(D) /\ F[d] \in Seq(D)
    BY <1>1, <1>3, <1>6
  <2> QED BY <2>1, NoCutParts
<1>8. Usable(s, e, d)
  BY <1>3, <1>7 DEF Usable
<1>9. /\ op \in Seq(W) /\ Seen(s, F[v]) \in Seq(W)
      /\ Seen(s, F[d]) = op \o Seen(s, F[v])
      /\ Usable(s, e, v) /\ d.s + d.len <= v.s
  BY <1>8, SeenAfter
<1>10. Tokens(s, u.s, c) = CutAll(e, c, P) /\ TokenStart(s, u.s, c)
  BY <1>2, RegionTokens
<1>11. /\ Seen(s, CutAll(e, c, P)) = Seen(s, P) /\ NoCut(s, CutAll(e, c, P))
       /\ \A t \in ToSet(CutAll(e, c, P)) : t.type \notin mask
  <2>1. P \in Seq(TokensIn(0, e)) /\ NoCut(s, P) /\ \A i \in 1 .. Len(P) : P[i].type \notin mask
    BY <1>3, <1>7
  <2>2. /\ Seen(s, CutAll(e, c, P)) = Seen(s, P) /\ NoCut(s, CutAll(e, c, P))
        /\ \A m : (\A i \in 1 .. Len(P) : P[i].type \notin m)
                  => \A t \in ToSet(CutAll(e, c, P)) : t.type \notin m
    BY <2>1, CutSeen
  <2> QED BY <2>1, <2>2
<1>12. Seen(s, P) \in Seq(W) /\ Seen(s, F[u]) = Seen(s, P) \o Seen(s, F[d])
  <2> HIDE DEF D, W, F
  <2>1. /\ Sends(SeeIn(s, e), D, W)
        /\ \A L \in Seq(D) : Seen(s, L) = Mapped(SeeIn(s, e), L) /\ Seen(s, L) \in Seq(W)
    BY SeeFacts DEF D, W
  <2>2. Splits(SeeIn(s, e), P, F[d])
    BY <1>3, <1>6, <2>1, MapConcat
  <2>3. P \o F[d] \in Seq(D) /\ P \in Seq(D) /\ F[d] \in Seq(D)
    BY <1>3, <1>6, ConcatProperties
  <2>4. /\ Seen(s, P) = Mapped(SeeIn(s, e), P) /\ Seen(s, F[d]) = Mapped(SeeIn(s, e), F[d])
        /\ Seen(s, P \o F[d]) = Mapped(SeeIn(s, e), P \o F[d]) /\ Seen(s, P) \in Seq(W)
    BY <2>1, <2>3
  <2>5. Mapped(SeeIn(s, e), P \o F[d]) = Mapped(SeeIn(s, e), P) \o Mapped(SeeIn(s, e), F[d])
    BY <2>2 DEF Splits
  <2> QED BY <1>3, <2>4, <2>5
<1>13. SeenIn(s, it) = Seen(s, P)
  <2>1. SeenIn(s, it) = Seen(s, Tokens(s, it.s, it.stop))
    BY DEF SeenIn, Seen, See
  <2> HIDE DEF it
  <2> QED BY <1>5, <1>10, <1>11, <2>1
<1>14. Tokenizer(s, it.stop, it.end) = d
  <2> HIDE DEF it
  <2> QED BY <1>3, <1>5 DEF Tokenizer
<1> HIDE DEF it
<1>15. OpAfter(s, it) = op
  BY <1>14 DEF OpAfter, See
<1>16. next_op(s, it) \in mask
  BY <1>3, <1>14 DEF next_op
<1>17. \A t \in ToSet(Tokens(s, it.s, it.stop)) : t.type \notin mask
  BY <1>5, <1>10, <1>11
<1>18. Good(s, it)
  <2>0. Len(s) \in Nat
    BY TextFacts
  <2>1. it.stop \in Nat /\ it.stop <= Len(s)
    BY <1>3, <1>5, <1>6, <2>0
  <2> QED BY <1>5, <1>10, <1>11, <2>1 DEF Good
<1>19. u.s < v.s
  <2>1. v.s \in Nat /\ u.s \in Nat /\ u.len \in Nat /\ u.len > 0
    <3>1. Real(s, e, v)
      BY <1>9 DEF Usable
    <3>2. v.s \in Nat
      <4> HIDE DEF v
      <4> QED BY <3>1, RealFacts
    <3> QED BY <1>1, <3>2, RealFacts
  <2> HIDE DEF v
  <2>2. CASE u.type \in mask
    <3>1. d = u
      BY <1>3, <2>2
    <3> QED BY <1>6, <1>9, <2>1, <3>1
  <2>3. CASE u.type \notin mask
    <3>1. u.s + u.len <= c
      BY <1>3, <2>3
    <3>2. u.s + u.len <= d.s
      BY <1>3, <1>6, <2>1, <3>1
    <3> QED BY <1>6, <1>9, <2>1, <3>2
  <2> QED BY <2>2, <2>3
<1>20. Seen(s, F[u]) = (SeenIn(s, it) \o OpAfter(s, it)) \o Seen(s, F[v])
  <2> DEFINE A == Seen(s, P)
             Z == Seen(s, F[v])
  <2>1. A \in Seq(W) /\ Z \in Seq(W) /\ op \in Seq(W) /\ Seen(s, F[u]) = A \o (op \o Z)
    BY <1>9, <1>12
  <2>2. SeenIn(s, it) = A /\ OpAfter(s, it) = op
    BY <1>13, <1>15
  <2> HIDE DEF A, Z, op, W
  <2>3. A \o (op \o Z) = (A \o op) \o Z
    <3>1. A \in Seq(W) /\ op \in Seq(W) /\ Z \in Seq(W)
      BY <2>1
    <3>2. Groups(A, op, Z)
      BY <3>1, Grouping
    <3> QED BY <3>2 DEF Groups
  <2> QED BY <2>1, <2>2, <2>3 DEF Z
<1>21. next_delimited(s, it, mask) = RegionOf(s, e, mask, v)
  <2>1. AfterDelimiter(s, d, mask) = v
    BY <1>3 DEF AfterDelimiter
  <2>2. v.end = e
    <3>1. Real(s, e, v)
      BY <1>9 DEF Usable
    <3> HIDE DEF v
    <3> QED BY <3>1, RealFacts
  <2> HIDE DEF v
  <2>3. Delimiter(s, v, mask) = Find(s, e, mask)[v]
    BY <2>2, DelimiterDef
  <2>4. next_delimited(s, it, mask)
          = [s |-> v.s, stop |-> TrimTo(s, v.s, Delimiter(s, v, mask).s), end |-> it.end]
    BY <1>14, <2>1 DEF next_delimited
  <2> QED BY <1>5, <2>3, <2>4 DEF RegionOf
<1>22. SeenIn(s, it) \in Seq(W) /\ OpAfter(s, it) \in Seq(W)
  BY <1>9, <1>12, <1>13, <1>15
<1>23. RegionRight(s, e, mask, u, v)
  <2> HIDE DEF v, op
  <2> QED BY <1>3, <1>5, <1>9, <1>16, <1>17, <1>18, <1>19, <1>20, <1>21, <1>22 DEF RegionRight, it
<1> QED BY <1>23

-----------------------------------------------------------------------------
(* The loops of the parsers.                                               *)

\* A delimiter is not before the token it is looked for from.
LEMMA FindIn ==
  ASSUME NEW s, NEW e \in Nat, NEW mask, "EOL" \in mask
  PROVE  \A u \in TokensIn(0, e) : Real(s, e, u) =>
           Real(s, e, Find(s, e, mask)[u]) /\ u.s <= Find(s, e, mask)[u].s
<1> DEFINE D == TokensIn(0, e)
           H == Find(s, e, mask)
           G == {u \in D : Real(s, e, u) => Real(s, e, H[u]) /\ u.s <= H[u].s}
           rank == [u \in D |-> TokenRank(e, u)]
<1>1. \A u \in D : rank[u] \in Nat
  <2> SUFFICES ASSUME NEW u \in D PROVE TokenRank(e, u) \in Nat
    OBVIOUS
  <2>1. TokenRank(e, u) \in 0 .. e + 1
    BY TokenRankFacts
  <2> QED BY <2>1
<1>2. ASSUME NEW u \in D, \A y \in D : rank[y] < rank[u] => y \in G PROVE u \in G
  <2> SUFFICES ASSUME Real(s, e, u) PROVE Real(s, e, H[u]) /\ u.s <= H[u].s
    OBVIOUS
  <2> DEFINE v == Advance(s, u)
  <2>1. H[u] = IF u.type = "OTHER" \/ u.type \in mask THEN u ELSE H[v]
    <3>1. FindsFrom(s, e, mask, u)
      BY FindDef
    <3> QED BY <3>1 DEF FindsFrom
  <2>2. u.s \in Nat /\ u.len \in Nat /\ (u.s = e => u.type = "EOL")
    BY RealFacts
  <2>3. CASE u.type = "OTHER" \/ u.type \in mask
    <3>1. H[u] = u /\ u.s <= u.s
      BY <2>1, <2>2, <2>3
    <3> QED BY <3>1
  <2>4. CASE ~(u.type = "OTHER" \/ u.type \in mask)
    <3>1. u.s # e
      BY <2>2, <2>4
    <3>2. v \in D /\ TokenRank(e, v) < TokenRank(e, u)
      BY <3>1, AdvanceFacts, TokenRankFacts
    <3>3. Real(s, e, v) /\ u.s + u.len <= v.s
      BY RealAdvance
    <3>4. H[u] = H[v]
      <4> HIDE DEF H, v
      <4> QED BY <2>1, <2>4
    <3> HIDE DEF v, D, H
    <3>5. rank[v] < rank[u]
      BY <3>2
    <3>6. v \in G
      <4> HIDE DEF G, rank
      <4> QED BY <1>2, <3>2, <3>5
    <3>7. Real(s, e, H[v]) /\ v.s <= H[v].s
      BY <3>3, <3>6
    <3>8. v.s \in Nat /\ H[v].s \in Nat
      BY <3>3, <3>7, RealFacts
    <3>9. u.s <= H[v].s
      BY <2>2, <3>3, <3>7, <3>8
    <3> QED BY <3>4, <3>7, <3>9
  <2> QED BY <2>3, <2>4
<1>3. \A u \in D : u \in G
  <2> HIDE DEF D, G, rank
  <2> QED BY <1>1, <1>2, RankInduction
<1> HIDE DEF D, H
<1> QED BY <1>3 DEF D, H

\* The regions of a part of the line that ends at e.
RegionSet(s, e) == {it \in [s : 0 .. Len(s), stop : 0 .. Len(s), end : {e}] : it.stop <= it.end}

\* The region of a token is one of them.
LEMMA RegionIn ==
  ASSUME NEW s, NEW e \in Nat, Len(s) \in Nat, e <= Len(s), NEW mask, "EOL" \in mask,
         NEW u, Real(s, e, u)
  PROVE  RegionOf(s, e, mask, u) \in RegionSet(s, e)
<1> DEFINE d == Find(s, e, mask)[u]
           c == TrimTo(s, u.s, d.s)
<1>1. Real(s, e, d) /\ u.s <= d.s
  BY FindIn DEF Real
<1> HIDE DEF d
<1>2. d.s \in Nat /\ d.s <= e /\ u.s \in Nat /\ u.s <= e
  BY <1>1, RealFacts
<1>3. Trimmed(s, u.s, d.s, c)
  BY <1>1, <1>2, TrimFacts
<1> HIDE DEF c
<1>4. c \in u.s .. d.s
  BY <1>3 DEF Trimmed
<1>5. c \in 0 .. Len(s) /\ u.s \in 0 .. Len(s) /\ c <= e
  BY <1>1, <1>2, <1>4
<1>6. RegionOf(s, e, mask, u) = [s |-> u.s, stop |-> c, end |-> e]
  BY DEF RegionOf, c, d
<1> QED BY <1>5, <1>6 DEF RegionSet

\* operator++ of a parser goes from region to region.
LEMMA NextIn ==
  ASSUME NEW s, NEW e \in Nat, Len(s) \in Nat, e <= Len(s), NEW mask, "EOL" \in mask,
         NEW it \in RegionSet(s, e)
  PROVE  next_delimited(s, it, mask) \in RegionSet(s, e)
<1> DEFINE t == Tokenizer(s, it.stop, it.end)
           v == AfterDelimiter(s, t, mask)
<1>1. it.stop \in Nat /\ it.end = e /\ it.stop <= e
  BY DEF RegionSet
<1>2. Real(s, e, t)
  <2>1. TokenAfter(s, it.stop, e, t) /\ t \in TokensIn(it.stop, e)
    BY <1>1, TokensFacts
  <2> HIDE DEF t
  <2>2. t \in TokensIn(0, e)
    BY <1>1, <2>1 DEF TokensIn
  <2> QED BY <2>1, <2>2 DEF TokenAfter, Real
<1> HIDE DEF t
<1>3. Real(s, e, v)
  <2>1. Real(s, e, Advance(s, t))
    BY <1>2, RealAdvance DEF Real
  <2>2. v = t \/ v = Advance(s, t)
    BY DEF AfterDelimiter
  <2> QED BY <1>2, <2>1, <2>2
<1>4. next_delimited(s, it, mask)
        = [s |-> v.s, stop |-> TrimTo(s, v.s, Delimiter(s, v, mask).s), end |-> it.end]
  BY DEF next_delimited, t
<1> HIDE DEF v
<1>5. v.end = e
  BY <1>3, RealFacts
<1>6. Delimiter(s, v, mask) = Find(s, e, mask)[v]
  BY <1>5, DelimiterDef
<1>7. next_delimited(s, it, mask) = RegionOf(s, e, mask, v)
  BY <1>1, <1>4, <1>6 DEF RegionOf
<1> QED BY <1>3, <1>7, RegionIn

\* The function Regions() defines.
IsRegions(from, s, p, mask) ==
  from = [x \in [it : {it \in [s : 0 .. Len(s), stop : 0 .. Len(s), end : {p.stop}] :
                         it.stop <= it.end},
                 n : 0 .. Len(s) + 1] |->
            IF SameRegion(x.it, EndOf(s, p)) THEN <<>>
            ELSE IF x.n > Len(s) THEN <<Stuck>>
            ELSE <<x.it>> \o from[[it |-> next_delimited(s, x.it, mask), n |-> x.n + 1]]]
RegionList(s, p, mask) == CHOOSE from : IsRegions(from, s, p, mask)
Rounds(s, e) == [it : RegionSet(s, e), n : 0 .. Len(s) + 1]
RegionsFrom(s, p, mask, x) ==
  RegionList(s, p, mask)[x] =
    IF SameRegion(x.it, EndOf(s, p)) THEN <<>>
    ELSE IF x.n > Len(s) THEN <<Stuck>>
    ELSE <<x.it>> \o RegionList(s, p, mask)[[it |-> next_delimited(s, x.it, mask), n |-> x.n + 1]]

\* The function Regions() defines is what its definition says.
LEMMA RegionsDef ==
  ASSUME NEW s, Len(s) \in Nat, NEW p, p.stop \in Nat, p.stop <= Len(s), NEW mask, "EOL" \in mask
  PROVE  /\ \A x \in Rounds(s, p.stop) : RegionsFrom(s, p, mask, x)
         /\ Regions(s, p, mask) = RegionList(s, p, mask)[[it |-> first_delimited(s, p, mask), n |-> 0]]
<1> DEFINE D == Rounds(s, p.stop)
           Done(x) == SameRegion(x.it, EndOf(s, p))
           Stop == {x \in D : Done(x) \/ x.n > Len(s)}
           base == [x \in D |-> IF Done(x) THEN <<>> ELSE <<Stuck>>]
           pre == [x \in D |-> <<x.it>>]
           nxt == [x \in D |-> [it |-> next_delimited(s, x.it, mask), n |-> x.n + 1]]
           rank == [x \in D |-> Len(s) + 1 - x.n]
<1> HIDE DEF Done
<1>1. \A x \in D : /\ rank[x] \in 0 .. Len(s) + 1 /\ x.n \in Nat /\ rank[x] = Len(s) + 1 - x.n
                   /\ x.it \in RegionSet(s, p.stop) /\ x.n <= Len(s) + 1
  BY DEF Rounds
<1>2. ASSUME NEW x \in D, x \notin Stop PROVE nxt[x] \in D /\ rank[nxt[x]] < rank[x]
  <2> DEFINE it == next_delimited(s, x.it, mask)
             v == [it |-> it, n |-> x.n + 1]
  <2>1. it \in RegionSet(s, p.stop)
    BY <1>1, NextIn
  <2>2. x.n + 1 \in 0 .. Len(s) + 1
    BY <1>1, <1>2
  <2> HIDE DEF it
  <2>3. v \in D /\ v.n = x.n + 1
    BY <2>1, <2>2 DEF Rounds
  <2>4. nxt[x] = v
    BY DEF it
  <2> HIDE DEF D, rank, nxt, v
  <2>5. rank[v] < rank[x]
    BY <1>1, <2>3
  <2> QED BY <2>3, <2>4, <2>5
<1>3. \E f : Calls(f, D, Stop, base, {}, pre, nxt)
  <2>1. Len(s) + 1 \in Nat /\ \A x \in D : rank[x] \in 0 .. Len(s) + 1
    BY <1>1
  <2> HIDE DEF D, Stop, base, pre, nxt, rank
  <2> QED BY <1>2, <2>1, Recursion
<1>4. PICK f : f = [x \in D |-> IF x \in Stop THEN base[x] ELSE pre[x] \o f[nxt[x]]]
  <2> HIDE DEF D, Stop, base, pre, nxt
  <2> QED BY <1>3 DEF Calls
<1>5. ASSUME NEW x \in D
      PROVE  f[x] = IF Done(x) THEN <<>>
                    ELSE IF x.n > Len(s) THEN <<Stuck>>
                    ELSE <<x.it>> \o f[[it |-> next_delimited(s, x.it, mask), n |-> x.n + 1]]
  <2>1. f[x] = IF x \in Stop THEN base[x] ELSE pre[x] \o f[nxt[x]]
    <3> HIDE DEF D, Stop, base, pre, nxt
    <3> QED BY <1>4
  <2>2. /\ x \in Stop <=> Done(x) \/ x.n > Len(s)
        /\ base[x] = IF Done(x) THEN <<>> ELSE <<Stuck>>
        /\ pre[x] = <<x.it>>
        /\ nxt[x] = [it |-> next_delimited(s, x.it, mask), n |-> x.n + 1]
    <3> HIDE DEF D
    <3> QED OBVIOUS
  <2> HIDE DEF D, Stop, base, pre, nxt
  <2> QED BY <2>1, <2>2
<1>6. IsRegions(f, s, p, mask)
  <2>1. f = [x \in D |-> f[x]]
    <3> HIDE DEF D, Stop, base, pre, nxt
    <3> QED BY <1>4
  <2> HIDE DEF Stop, base, pre, nxt, rank
  <2>2. f = [x \in D |-> IF Done(x) THEN <<>>
                         ELSE IF x.n > Len(s) THEN <<Stuck>>
                         ELSE <<x.it>> \o f[[it |-> next_delimited(s, x.it, mask), n |-> x.n + 1]]]
    <3> HIDE DEF D
    <3> QED BY <1>5, <2>1
  <2> QED BY <2>2 DEF IsRegions, Rounds, RegionSet, Done
<1>7. IsRegions(RegionList(s, p, mask), s, p, mask)
  BY <1>6, Zenon DEF RegionList
<1>8. \A x \in D : RegionsFrom(s, p, mask, x)
  BY <1>7 DEF IsRegions, RegionsFrom, Rounds, RegionSet
<1>9. Regions(s, p, mask) = RegionList(s, p, mask)[[it |-> first_delimited(s, p, mask), n |-> 0]]
  BY DEF Regions, RegionList, IsRegions
<1> QED BY <1>8, <1>9

\* The regions a loop visits, and what is seen of them.
Its(s, e, mask) == {RegionOf(s, e, mask, u) : u \in {x \in TokensIn(0, e) : Usable(s, e, x) /\ x.s # e}}
Shows(s, e, mask) == [it \in Its(s, e, mask) |-> SeenIn(s, it) \o OpAfter(s, it)]

\* The regions of tokens are parts of the line, and hold no delimiter of the mask.
LEMMA ItsFacts ==
  ASSUME NEW s, Text(s), NEW e \in Nat, e <= Len(s), NEW mask, "EOL" \in mask
  PROVE  /\ \A it \in Its(s, e, mask) :
              /\ Good(s, it) /\ it # Stuck /\ next_op(s, it) \in mask
              /\ \A t \in ToSet(Tokens(s, it.s, it.stop)) : t.type \notin mask
              /\ Shows(s, e, mask)[it] = SeenIn(s, it) \o OpAfter(s, it)
         /\ Sends(Shows(s, e, mask), Its(s, e, mask), Seq(Sights(s)))
<1>1. ASSUME NEW it \in Its(s, e, mask)
      PROVE  /\ Good(s, it) /\ it # Stuck /\ next_op(s, it) \in mask
             /\ \A t \in ToSet(Tokens(s, it.s, it.stop)) : t.type \notin mask
             /\ Shows(s, e, mask)[it] = SeenIn(s, it) \o OpAfter(s, it)
             /\ SeenIn(s, it) \o OpAfter(s, it) \in Seq(Sights(s))
  <2>1. PICK u \in {x \in TokensIn(0, e) : Usable(s, e, x) /\ x.s # e} : it = RegionOf(s, e, mask, u)
    BY DEF Its
  <2>2. Usable(s, e, u) /\ u.s # e
    BY <2>1
  <2>3. PICK v : RegionRight(s, e, mask, u, v)
    BY <2>2, RegionFacts
  <2>4. /\ it.stop \in Nat /\ Good(s, it) /\ next_op(s, it) \in mask
        /\ \A t \in ToSet(Tokens(s, it.s, it.stop)) : t.type \notin mask
        /\ SeenIn(s, it) \in Seq(Sights(s)) /\ OpAfter(s, it) \in Seq(Sights(s))
    BY <2>1, <2>3 DEF RegionRight
  <2>5. it # Stuck
    <3>1. Stuck.stop \notin Nat
      BY DEF Stuck
    <3> QED BY <2>4, <3>1
  <2>6. Shows(s, e, mask)[it] = SeenIn(s, it) \o OpAfter(s, it)
    BY DEF Shows
  <2>7. SeenIn(s, it) \o OpAfter(s, it) \in Seq(Sights(s))
    BY <2>4, ConcatProperties
  <2> QED BY <2>4, <2>5, <2>6, <2>7
<1>2. Sends(Shows(s, e, mask), Its(s, e, mask), Seq(Sights(s)))
  <2>1. \A it \in Its(s, e, mask) : Shows(s, e, mask)[it] \in Seq(Sights(s))
    BY <1>1
  <2> QED BY <2>1 DEF Sends
<1> QED BY <1>1, <1>2

\* The region of a token at the end is that of the end, and nothing else is.
LEMMA EndRegion ==
  ASSUME NEW s, NEW p, p.stop \in Nat, NEW mask, "EOL" \in mask, NEW u, Real(s, p.stop, u)
  PROVE  SameRegion(RegionOf(s, p.stop, mask, u), EndOf(s, p)) <=> u.s = p.stop
<1> DEFINE e == p.stop
           it == RegionOf(s, e, mask, u)
           q == EndOf(s, p)
<1>1. q.s = e /\ q.stop = e
  <2>1. TokenStart(s, e, e)
    BY DEF TokenStart
  <2>2. skip_shell_space(s, e, e) = e
    BY <2>1, SkipStays
  <2>3. q = [s |-> skip_shell_space(s, e, e), stop |-> e, end |-> p.end]
    BY DEF EndOf, Parser
  <2> HIDE DEF q
  <2> QED BY <2>2, <2>3
<1>2. it.s = u.s
  BY DEF RegionOf
<1>3. ASSUME u.s = e PROVE it.stop = e
  <2>1. u \in TokensIn(0, e) /\ u.type = "EOL"
    <3>1. u \in TokensIn(0, e) /\ Real(s, e, u)
      BY DEF Real
    <3>2. u.s = e => u.type = "EOL"
      <4> HIDE DEF e
      <4>1. e \in Nat
        BY DEF e
      <4> QED BY <3>1, <4>1, RealFacts
    <3> QED BY <1>3, <3>1, <3>2
  <2>2. Find(s, e, mask)[u] = u
    <3>1. FindsFrom(s, e, mask, u)
      BY <2>1, FindDef
    <3> QED BY <2>1, <3>1 DEF FindsFrom
  <2>3. it.stop = TrimTo(s, e, e)
    BY <1>3, <2>2 DEF RegionOf
  <2>4. Trimmed(s, e, e, TrimTo(s, e, e))
    BY TrimFacts
  <2>5. TrimTo(s, e, e) \in e .. e
    BY <2>4 DEF Trimmed
  <2> HIDE DEF it
  <2> QED BY <2>3, <2>5
<1> HIDE DEF it, q
<1>4. SameRegion(it, q) <=> u.s = e
  BY <1>1, <1>2, <1>3 DEF SameRegion
<1> QED BY <1>4 DEF it, q, e

\* From the region of a token on, a loop sees the tokens from this token on.
Loops(s, p, mask, u, k) ==
  /\ RegionList(s, p, mask)[[it |-> RegionOf(s, p.stop, mask, u), n |-> k]] \in Seq(Its(s, p.stop, mask))
  /\ FlattenSeq(Mapped(Shows(s, p.stop, mask),
                       RegionList(s, p, mask)[[it |-> RegionOf(s, p.stop, mask, u), n |-> k]]))
       = Seen(s, TokenList(s, 0, p.stop)[u])

\* A loop ends at the end of its part.
LEMMA LoopEnds ==
  ASSUME NEW s, Text(s), NEW p, p.stop \in Nat, p.stop <= Len(s), NEW mask, "EOL" \in mask,
         NEW u, Usable(s, p.stop, u), u.s = p.stop, NEW k \in Nat, k <= u.s
  PROVE  Loops(s, p, mask, u, k)
<1> DEFINE e == p.stop
           it == RegionOf(s, e, mask, u)
           x == [it |-> it, n |-> k]
           F == TokenList(s, 0, e)
           L == RegionList(s, p, mask)[x]
<1>0. Len(s) \in Nat /\ Real(s, e, u)
  BY TextFacts DEF Usable
<1>1. it \in RegionSet(s, e)
  BY <1>0, RegionIn
<1>2. k \in 0 .. Len(s) + 1
  BY <1>0
<1>3. x \in Rounds(s, e) /\ x.it = it /\ x.n = k
  <2> HIDE DEF it
  <2> QED BY <1>1, <1>2 DEF Rounds
<1>4. RegionsFrom(s, p, mask, x)
  <2> HIDE DEF x
  <2> QED BY <1>0, <1>3, RegionsDef
<1>5. SameRegion(it, EndOf(s, p))
  BY <1>0, EndRegion
<1>6. L = <<>>
  <2> HIDE DEF x, it
  <2> QED BY <1>3, <1>4, <1>5 DEF RegionsFrom
<1>7. F[u] = <<>>
  <2>1. F[u] = IF u.s = e THEN <<>> ELSE <<u>> \o F[Advance(s, u)]
    <3>1. u \in TokensIn(0, e) /\ e \in Nat
      BY <1>0 DEF Real
    <3> HIDE DEF e
    <3> QED BY <3>1, TokensDef
  <2> HIDE DEF F
  <2> QED BY <2>1
<1> HIDE DEF L, F
<1>8. Mapped(Shows(s, e, mask), L) = <<>>
  <2>1. DOMAIN L = {}
    BY <1>6
  <2> QED BY <2>1 DEF Mapped
<1>9. Seen(s, F[u]) = <<>>
  <2>1. DOMAIN F[u] = {}
    BY <1>7
  <2> QED BY <2>1 DEF Seen
<1>10. L \in Seq(Its(s, e, mask))
  BY <1>6, EmptySeq
<1>11. FlattenSeq(Mapped(Shows(s, e, mask), L)) = Seen(s, F[u])
  BY <1>8, <1>9, FlattenNone
<1> QED BY <1>10, <1>11 DEF Loops, L, F

\* One round more shows the region it visits.
LEMMA LoopMore ==
  ASSUME NEW s, Text(s), NEW p, p.stop \in Nat, p.stop <= Len(s), NEW mask, "EOL" \in mask,
         NEW u, Usable(s, p.stop, u), u.s # p.stop, NEW k \in Nat, k <= u.s,
         NEW v, RegionRight(s, p.stop, mask, u, v), Loops(s, p, mask, v, k + 1)
  PROVE  Loops(s, p, mask, u, k)
<1> DEFINE e == p.stop
           it == RegionOf(s, e, mask, u)
           x == [it |-> it, n |-> k]
           F == TokenList(s, 0, e)
           L == RegionList(s, p, mask)[x]
           M == RegionList(s, p, mask)[[it |-> RegionOf(s, e, mask, v), n |-> k + 1]]
           I == Its(s, e, mask)
           W == Sights(s)
           g == Shows(s, e, mask)
<1>0. Len(s) \in Nat /\ Real(s, e, u)
  BY TextFacts DEF Usable
<1>1. u \in TokensIn(0, e) /\ u.s \in Nat /\ u.s <= e
  BY <1>0, RealFacts DEF Real
<1>2. k \in 0 .. Len(s) + 1 /\ ~(k > Len(s))
  BY <1>0, <1>1
<1>3. it \in RegionSet(s, e) /\ it \in I
  BY <1>0, <1>1, RegionIn DEF Its
<1>4. x \in Rounds(s, e) /\ x.it = it /\ x.n = k
  <2> HIDE DEF it
  <2> QED BY <1>2, <1>3 DEF Rounds
<1>5. RegionsFrom(s, p, mask, x)
  <2> HIDE DEF x
  <2> QED BY <1>0, <1>4, RegionsDef
<1>6. ~SameRegion(it, EndOf(s, p))
  BY <1>0, EndRegion
<1>7. next_delimited(s, it, mask) = RegionOf(s, e, mask, v)
  BY DEF RegionRight
<1>8. L = <<it>> \o M
  <2> HIDE DEF x, it
  <2> QED BY <1>2, <1>4, <1>5, <1>6, <1>7 DEF RegionsFrom
<1>9. M \in Seq(I) /\ FlattenSeq(Mapped(g, M)) = Seen(s, F[v])
  BY DEF Loops
<1>10. Seen(s, F[u]) = (SeenIn(s, it) \o OpAfter(s, it)) \o Seen(s, F[v])
  BY DEF RegionRight
<1>11. Sends(g, I, Seq(W)) /\ g[it] = SeenIn(s, it) \o OpAfter(s, it)
  BY <1>3, ItsFacts
<1> HIDE DEF L, M, I, W, g, F, it
<1>12. L \in Seq(I)
  BY <1>3, <1>8, <1>9, ConsFacts
<1>13. MapsCons(g, it, M)
  BY <1>3, <1>9, <1>11, MapCons
<1>14. Mapped(g, L) = <<g[it]>> \o Mapped(g, M)
  BY <1>8, <1>13 DEF MapsCons
<1>15. Mapped(g, M) \in Seq(Seq(W)) /\ g[it] \in Seq(W)
  BY <1>3, <1>9, <1>11, MapType DEF Sends
<1>16. FlattenSeq(<<g[it]>> \o Mapped(g, M)) = g[it] \o FlattenSeq(Mapped(g, M))
  BY <1>15, FlattenCons
<1>17. FlattenSeq(Mapped(g, L)) = Seen(s, F[u])
  BY <1>9, <1>10, <1>11, <1>14, <1>16
<1> QED BY <1>12, <1>17 DEF Loops, L, I, g, F, it

\* A loop shows all tokens from any token on.
LEMMA LoopAll ==
  ASSUME NEW s, Text(s), NEW p, p.stop \in Nat, p.stop <= Len(s), NEW mask, "EOL" \in mask
  PROVE  \A u \in TokensIn(0, p.stop) : Usable(s, p.stop, u) =>
           \A k \in Nat : k <= u.s => Loops(s, p, mask, u, k)
<1> DEFINE e == p.stop
           D == TokensIn(0, e)
           G == {u \in D : Usable(s, e, u) => \A k \in Nat : k <= u.s => Loops(s, p, mask, u, k)}
           rank == [u \in D |-> e - u.s]
<1>1. \A u \in D : u.s \in Nat /\ u.s <= e /\ rank[u] \in Nat /\ rank[u] = e - u.s
  BY DEF TokensIn
<1>2. ASSUME NEW u \in D, \A y \in D : rank[y] < rank[u] => y \in G PROVE u \in G
  <2> SUFFICES ASSUME Usable(s, e, u), NEW k \in Nat, k <= u.s PROVE Loops(s, p, mask, u, k)
    OBVIOUS
  <2>1. CASE u.s = e
    BY <2>1, LoopEnds
  <2>2. CASE u.s # e
    <3>1. PICK v : RegionRight(s, e, mask, u, v)
      <4>1. e \in Nat /\ e <= Len(s)
        OBVIOUS
      <4> HIDE DEF e
      <4> QED BY <2>2, <4>1, RegionFacts
    <3>2. Usable(s, e, v) /\ u.s < v.s
      BY <3>1 DEF RegionRight
    <3>3. v \in D
      BY <3>2 DEF Usable, Real
    <3> HIDE DEF D
    <3>4. rank[v] < rank[u] /\ k + 1 \in Nat /\ k + 1 <= v.s
      <4>1. v.s \in Nat /\ v.s <= e /\ rank[v] = e - v.s
        BY <1>1, <3>3
      <4>2. u.s \in Nat /\ u.s <= e /\ rank[u] = e - u.s
        BY <1>1
      <4> HIDE DEF rank
      <4> QED BY <3>2, <4>1, <4>2
    <3>5. v \in G
      <4> HIDE DEF rank, G
      <4> QED BY <1>2, <3>3, <3>4
    <3>6. Loops(s, p, mask, v, k + 1)
      BY <3>2, <3>4, <3>5
    <3> QED BY <2>2, <3>1, <3>6, LoopMore
  <2> QED BY <2>1, <2>2
<1>3. \A u \in D : u \in G
  <2>1. \A u \in D : rank[u] \in Nat
    BY <1>1
  <2> HIDE DEF D, G, rank
  <2> QED BY <1>2, <2>1, RankInduction
<1> QED BY <1>3

\* A loop over part of a line visits regions, and together they show the part.
LEMMA RegionsRight ==
  ASSUME NEW s, Text(s), NEW p, Good(s, p), NEW mask, "EOL" \in mask
  PROVE  /\ Regions(s, p, mask) \in Seq(Its(s, p.stop, mask))
         /\ FlattenSeq(Mapped(Shows(s, p.stop, mask), Regions(s, p, mask))) = SeenIn(s, p)
<1> DEFINE e == p.stop
           u == TokenAt(s, p.s, e)
           F == TokenList(s, 0, e)
           d == Find(s, e, mask)[u]
           c == TrimTo(s, p.s, d.s)
<1>0. e \in Nat /\ e <= Len(s) /\ TokenStart(s, p.s, e) /\ NoCut(s, Tokens(s, p.s, e)) /\ Len(s) \in Nat
  BY TextFacts DEF Good
<1> HIDE DEF e
<1>1. Real(s, e, u) /\ u.s = p.s
  BY <1>0, RealAt
<1>2. Tokenizer(s, p.s, e) = u
  BY <1>0, SkipStays DEF Tokenizer
<1>3. p.s \in Nat /\ p.s <= e
  BY <1>0 DEF TokenStart
<1>4. Tokens(s, p.s, e) = F[u]
  <2>1. Tokens(s, p.s, e) = TokenList(s, p.s, e)[u]
    BY <1>0, <1>2, <1>3, TokensDef
  <2>2. u \in TokensIn(p.s, e)
    BY <1>0, <1>2, <1>3, TokensFacts
  <2>3. TokenList(s, p.s, e)[u] = F[u]
    BY <1>0, <1>3, <2>2, TokenListFrom
  <2> QED BY <2>1, <2>3
<1>5. Usable(s, e, u)
  BY <1>0, <1>1, <1>4 DEF Usable
<1>6. u.end = e /\ u \in TokensIn(0, e)
  <2> HIDE DEF u
  <2>1. u \in TokensIn(0, e)
    BY <1>1 DEF Real
  <2>2. u.end = e
    BY <2>1 DEF TokensIn
  <2> QED BY <2>1, <2>2
<1>7. Delimiter(s, u, mask) = d
  <2> HIDE DEF u
  <2> QED BY <1>6, DelimiterDef
<1>8. Real(s, e, d) /\ u.s <= d.s
  <2> HIDE DEF u
  <2> QED BY <1>0, <1>1, <1>6, FindIn
<1> HIDE DEF u, F, d
<1>9. d.s \in Nat /\ d.s <= e
  BY <1>0, <1>8, RealFacts
<1>10. c \in Nat /\ p.s <= c /\ c <= e
  <2>1. Trimmed(s, p.s, d.s, c)
    BY <1>1, <1>3, <1>8, <1>9, TrimFacts
  <2> HIDE DEF c
  <2>2. c \in p.s .. d.s
    BY <2>1 DEF Trimmed
  <2> QED BY <1>0, <1>3, <1>9, <2>2
<1>11. skip_shell_space(s, p.s, c) = p.s
  <2> HIDE DEF c
  <2>1. p.s # c => p.s # e
    BY <1>0, <1>3, <1>10
  <2>2. TokenStart(s, p.s, c)
    BY <1>0, <1>10, <2>1 DEF TokenStart
  <2> QED BY <1>10, <2>2, SkipStays
<1>12. first_delimited(s, p, mask) = RegionOf(s, e, mask, u)
  <2>1. first_delimited(s, p, mask) = Parser(s, p.s, c, e)
    BY <1>2, <1>7 DEF first_delimited, e
  <2>2. Parser(s, p.s, c, e) = [s |-> skip_shell_space(s, p.s, c), stop |-> c, end |-> e]
    BY DEF Parser
  <2>3. RegionOf(s, e, mask, u) = [s |-> p.s, stop |-> c, end |-> e]
    BY <1>1 DEF RegionOf, d
  <2> HIDE DEF c
  <2> QED BY <1>11, <2>1, <2>2, <2>3
<1>13. Loops(s, p, mask, u, 0)
  <2>1. 0 \in Nat /\ 0 <= u.s
    BY <1>1, <1>3
  <2> QED BY <1>0, <1>5, <1>6, <2>1, LoopAll DEF e
<1>14. Regions(s, p, mask) = RegionList(s, p, mask)[[it |-> RegionOf(s, e, mask, u), n |-> 0]]
  <2>1. Regions(s, p, mask) = RegionList(s, p, mask)[[it |-> first_delimited(s, p, mask), n |-> 0]]
    BY <1>0, RegionsDef DEF e
  <2> QED BY <1>12, <2>1
<1>15. SeenIn(s, p) = Seen(s, F[u])
  <2>1. SeenIn(s, p) = Seen(s, Tokens(s, p.s, e))
    BY DEF SeenIn, Seen, See, e
  <2> QED BY <1>4, <2>1
<1> QED BY <1>13, <1>14, <1>15 DEF Loops, F, e

\* The masks.
LEMMA MaskFacts == \A mask \in Masks : "EOL" \in mask
BY DEF Masks, TYPEMASK_CONDITIONAL, TYPEMASK_PIPELINE, TYPEMASK_COMMAND

\* The regions of a part are parts, and show what is to be seen of them.
LEMMA RegionsGood ==
  ASSUME NEW s, Text(s), NEW p, Good(s, p), NEW mask, "EOL" \in mask
  PROVE  /\ \A i \in DOMAIN Regions(s, p, mask) : Good(s, Regions(s, p, mask)[i])
         /\ FlattenSeq([i \in DOMAIN Regions(s, p, mask) |->
                          SeenIn(s, Regions(s, p, mask)[i]) \o OpAfter(s, Regions(s, p, mask)[i])])
              = SeenIn(s, p)
         /\ \A r \in ToSet(Regions(s, p, mask)) :
              /\ r # Stuck /\ next_op(s, r) \in mask
              /\ \A t \in ToSet(Tokens(s, r.s, r.stop)) : t.type \notin mask
<1> DEFINE R == Regions(s, p, mask)
           I == Its(s, p.stop, mask)
           g == Shows(s, p.stop, mask)
<1>1. R \in Seq(I) /\ FlattenSeq(Mapped(g, R)) = SeenIn(s, p)
  BY RegionsRight
<1>2. \A it \in I :
        /\ Good(s, it) /\ it # Stuck /\ next_op(s, it) \in mask
        /\ \A t \in ToSet(Tokens(s, it.s, it.stop)) : t.type \notin mask
        /\ g[it] = SeenIn(s, it) \o OpAfter(s, it)
  <2> DEFINE e == p.stop
  <2>1. e \in Nat /\ e <= Len(s)
    BY DEF Good
  <2> HIDE DEF e
  <2>2. \A it \in Its(s, e, mask) :
          /\ Good(s, it) /\ it # Stuck /\ next_op(s, it) \in mask
          /\ \A t \in ToSet(Tokens(s, it.s, it.stop)) : t.type \notin mask
          /\ Shows(s, e, mask)[it] = SeenIn(s, it) \o OpAfter(s, it)
    BY <2>1, ItsFacts
  <2> QED BY <2>2 DEF e
<1> HIDE DEF R, I, g
<1>3. \A i \in DOMAIN R : R[i] \in I
  BY <1>1, LenProperties, ElementOfSeq
<1>4. \A i \in DOMAIN R : Good(s, R[i])
  BY <1>2, <1>3
<1>5. Mapped(g, R) = [i \in DOMAIN R |-> SeenIn(s, R[i]) \o OpAfter(s, R[i])]
  <2>1. \A i \in DOMAIN R : g[R[i]] = SeenIn(s, R[i]) \o OpAfter(s, R[i])
    BY <1>2, <1>3
  <2> QED BY <2>1 DEF Mapped
<1>6. \A r \in ToSet(R) :
        /\ r # Stuck /\ next_op(s, r) \in mask
        /\ \A t \in ToSet(Tokens(s, r.s, r.stop)) : t.type \notin mask
  BY <1>2, <1>3 DEF ToSet
<1> QED BY <1>1, <1>4, <1>5, <1>6 DEF R

\* What the loop over the commands of a part of a line sees, and the loop over its
\* pipelines.
PipelineShows(s, p) ==
  LET R == Regions(s, p, TYPEMASK_COMMAND)
  IN FlattenSeq([i \in DOMAIN R |-> SeenIn(s, R[i]) \o OpAfter(s, R[i])])
ConditionalShows(s, p) ==
  LET R == Regions(s, p, TYPEMASK_PIPELINE)
  IN FlattenSeq([i \in DOMAIN R |-> PipelineShows(s, R[i]) \o OpAfter(s, R[i])])

\* The nested loops, one inside the other.
LEMMA LoopsNest ==
  ASSUME NEW s
  PROVE  SeenByLoops(s) =
           FlattenSeq([i \in DOMAIN Regions(s, CommandLine(s), TYPEMASK_CONDITIONAL) |->
             ConditionalShows(s, Regions(s, CommandLine(s), TYPEMASK_CONDITIONAL)[i])
               \o OpAfter(s, Regions(s, CommandLine(s), TYPEMASK_CONDITIONAL)[i])])
BY DEF SeenByLoops, Visit, ConditionalShows, PipelineShows

\* Each loop shows all of the part it is given.
LEMMA PipelineAll ==
  ASSUME NEW s, Text(s), NEW p, Good(s, p)
  PROVE  PipelineShows(s, p) = SeenIn(s, p)
<1>1. "EOL" \in TYPEMASK_COMMAND
  BY MaskFacts DEF Masks
<1> QED BY <1>1, RegionsGood DEF PipelineShows

\* So does the loop over pipelines, with the loop over commands in it,
LEMMA ConditionalAll ==
  ASSUME NEW s, Text(s), NEW p, Good(s, p)
  PROVE  ConditionalShows(s, p) = SeenIn(s, p)
<1> DEFINE R == Regions(s, p, TYPEMASK_PIPELINE)
<1>1. "EOL" \in TYPEMASK_PIPELINE
  BY MaskFacts DEF Masks
<1>2. /\ \A i \in DOMAIN R : Good(s, R[i])
      /\ FlattenSeq([i \in DOMAIN R |-> SeenIn(s, R[i]) \o OpAfter(s, R[i])]) = SeenIn(s, p)
  BY <1>1, RegionsGood
<1>3. ConditionalShows(s, p) =
        FlattenSeq([i \in DOMAIN R |-> PipelineShows(s, R[i]) \o OpAfter(s, R[i])])
  BY DEF ConditionalShows
<1> HIDE DEF R
<1>4. \A i \in DOMAIN R : PipelineShows(s, R[i]) = SeenIn(s, R[i])
  BY <1>2, PipelineAll
<1>5. [i \in DOMAIN R |-> PipelineShows(s, R[i]) \o OpAfter(s, R[i])]
        = [i \in DOMAIN R |-> SeenIn(s, R[i]) \o OpAfter(s, R[i])]
  BY <1>4
<1> QED BY <1>2, <1>3, <1>5

\* and the loop over conditionals, with both in it.
LEMMA LoopsAll ==
  ASSUME NEW s, Text(s), Good(s, CommandLine(s))
  PROVE  SeenByLoops(s) = SeenIn(s, CommandLine(s))
<1> DEFINE p == CommandLine(s)
           R == Regions(s, p, TYPEMASK_CONDITIONAL)
<1>0. Good(s, p)
  OBVIOUS
<1>1. "EOL" \in TYPEMASK_CONDITIONAL
  BY MaskFacts DEF Masks
<1>3. SeenByLoops(s) =
        FlattenSeq([i \in DOMAIN R |-> ConditionalShows(s, R[i]) \o OpAfter(s, R[i])])
  BY LoopsNest
<1> HIDE DEF p
<1>2. /\ \A i \in DOMAIN R : Good(s, R[i])
      /\ FlattenSeq([i \in DOMAIN R |-> SeenIn(s, R[i]) \o OpAfter(s, R[i])]) = SeenIn(s, p)
  BY <1>0, <1>1, RegionsGood
<1> HIDE DEF R
<1>4. \A i \in DOMAIN R : ConditionalShows(s, R[i]) = SeenIn(s, R[i])
  BY <1>2, ConditionalAll
<1>5. [i \in DOMAIN R |-> ConditionalShows(s, R[i]) \o OpAfter(s, R[i])]
        = [i \in DOMAIN R |-> SeenIn(s, R[i]) \o OpAfter(s, R[i])]
  BY <1>4
<1> QED BY <1>2, <1>3, <1>5 DEF p

\* A line of text can be given to a parser unless a token of it ends in a blank.
LEMMA LineGood ==
  ASSUME NEW s, Text(s), ~CutsWord(s)
  PROVE  Good(s, CommandLine(s))
<1> DEFINE p == CommandLine(s)
           e == Len(s)
           a == skip_shell_space(s, 0, e)
           L == Tokens(s, 0, e)
           u == TokenAt(s, a, e)
<1>0. e \in Nat /\ s \in Seq(STRING)
  BY TextFacts
<1>p. p.s = a /\ p.stop = e
  BY DEF CommandLine, Parser
<1> HIDE DEF p, e
<1>1. a \in 0 .. e /\ (a # e => ~isspace(At(s, a)) /\ At(s, a) # "#")
  BY <1>0, SkipFacts
<1>2. Tokenizer(s, 0, e) = u
  BY DEF Tokenizer, TokenFrom
<1> HIDE DEF a
<1>3. a \in Nat /\ a <= e
  BY <1>0, <1>1
<1>4. TokenStart(s, a, e)
  BY <1>1, <1>3 DEF TokenStart
<1>5. Tokenizer(s, a, e) = u
  BY <1>0, <1>4, SkipStays DEF Tokenizer
<1> HIDE DEF u
<1>6. Tokens(s, a, e) = L
  <2>1. Tokens(s, a, e) = TokenList(s, a, e)[u]
    BY <1>0, <1>3, <1>5, TokensDef
  <2>2. u \in TokensIn(a, e)
    BY <1>0, <1>3, <1>5, TokensFacts
  <2>3. TokenList(s, a, e)[u] = TokenList(s, 0, e)[u]
    BY <1>0, <1>3, <2>2, TokenListFrom
  <2>4. L = TokenList(s, 0, e)[u]
    BY <1>0, <1>2, TokensDef
  <2> QED BY <2>1, <2>3, <2>4
<1>7. \A t \in ToSet(L) : ~isspace(At(s, t.s + t.len - 1))
  BY DEF CutsWord, e
<1>8. \A i \in 1 .. Len(L) : L[i] \in ToSet(L)
  <2>0. 0 \in Nat /\ 0 <= e
    BY <1>0
  <2>a. Chained(s, 0, e, Tokenizer(s, 0, e), L)
    BY <1>0, <2>0, TokensFacts
  <2>1. L \in Seq(TokensIn(0, e))
    BY <2>a DEF Chained
  <2> HIDE DEF L
  <2>2. DOMAIN L = 1 .. Len(L)
    BY <2>1, LenProperties
  <2> QED BY <2>2 DEF ToSet
<1> HIDE DEF L
<1>9. NoCut(s, L)
  BY <1>7, <1>8 DEF NoCut
<1>10. e <= Len(s)
  BY <1>0 DEF e
<1> QED BY <1>0, <1>p, <1>4, <1>6, <1>9, <1>10 DEF Good, p

\* What ParsersSeeAll says of a line.
ParsedRight(line) ==
  ~CutsWord(line) =>
    /\ \A mask \in Masks :
         \A r \in ToSet(Regions(line, CommandLine(line), mask)) :
           /\ r # Stuck
           /\ next_op(line, r) \in mask
           /\ \A t \in ToSet(Tokens(line, r.s, r.stop)) : t.type \notin mask
    /\ SeenByLoops(line) = SeenIn(line, CommandLine(line))

\* The parsers are right about every line of text.
LEMMA ParserFacts ==
  ASSUME NEW line, Text(line)
  PROVE  ParsedRight(line)
<1> SUFFICES ASSUME ~CutsWord(line)
             PROVE  /\ \A mask \in Masks :
                         \A r \in ToSet(Regions(line, CommandLine(line), mask)) :
                           /\ r # Stuck
                           /\ next_op(line, r) \in mask
                           /\ \A t \in ToSet(Tokens(line, r.s, r.stop)) : t.type \notin mask
                    /\ SeenByLoops(line) = SeenIn(line, CommandLine(line))
  BY DEF ParsedRight
<1>1. Good(line, CommandLine(line))
  BY LineGood
<1>2. ASSUME NEW mask \in Masks
      PROVE  \A r \in ToSet(Regions(line, CommandLine(line), mask)) :
               /\ r # Stuck
               /\ next_op(line, r) \in mask
               /\ \A t \in ToSet(Tokens(line, r.s, r.stop)) : t.type \notin mask
  <2>1. "EOL" \in mask
    BY MaskFacts
  <2> QED BY <1>1, <2>1, RegionsGood
<1> QED BY <1>1, <1>2, LoopsAll

-----------------------------------------------------------------------------
(* fgets().                                                                *)

\* How many characters fgets() takes of r when it has room for n.
Taken(r, n, k) ==
  /\ k = Len(r) \/ k = n - 1 \/ (k > 0 /\ r[k] = "n")
  /\ \A j \in 1 .. k - 1 : r[j] # "n" /\ j < n - 1

\* There is such a number.
LEMMA TakenSome ==
  ASSUME NEW r \in Seq(STRING), NEW n \in Nat, n > 1
  PROVE  \E k \in 0 .. Len(r) : Taken(r, n, k)
<1>0. Len(r) \in Nat
  BY LenProperties
<1> DEFINE stop == {k \in Nat : k \in 1 .. Len(r) /\ (r[k] = "n" \/ k = n - 1)}
<1>1. CASE stop = {}
  <2>1. \A j \in 1 .. Len(r) : r[j] # "n" /\ j # n - 1
    BY <1>0, <1>1
  <2>2. n - 1 > Len(r)
    BY <1>0, <2>1
  <2>3. Len(r) \in 0 .. Len(r) /\ \A j \in 1 .. Len(r) - 1 : j \in 1 .. Len(r) /\ j < n - 1
    BY <1>0, <2>2
  <2>4. Taken(r, n, Len(r))
    BY <2>1, <2>3 DEF Taken
  <2> QED BY <2>3, <2>4
<1>2. CASE stop # {}
  <2>1. PICK k \in stop : \A y \in stop : k <= y
    BY <1>2, LeastOne
  <2>2. k \in 1 .. Len(r) /\ (r[k] = "n" \/ k = n - 1)
    BY <2>1
  <2>3. ASSUME NEW j \in 1 .. k - 1
        PROVE  r[j] # "n" /\ j < n - 1
    <3>1. j \in Nat /\ j \in 1 .. Len(r) /\ ~(k <= j)
      BY <1>0, <2>2, <2>3
    <3>2. r[j] # "n" /\ j # n - 1
      BY <2>1, <3>1
    <3>3. k <= n - 1
      <4>1. CASE n - 1 <= Len(r)
        <5>1. n - 1 \in Nat /\ n - 1 \in 1 .. Len(r)
          BY <1>0, <4>1
        <5> QED BY <2>1, <5>1
      <4>2. CASE ~(n - 1 <= Len(r))
        BY <1>0, <2>2, <4>2
      <4> QED BY <4>1, <4>2
    <3> QED BY <2>2, <3>1, <3>2, <3>3
  <2>4. k \in 0 .. Len(r) /\ k > 0
    BY <1>0, <2>2
  <2>5. Taken(r, n, k)
    BY <2>2, <2>3, <2>4 DEF Taken
  <2> QED BY <2>4, <2>5
<1> QED BY <1>1, <1>2

\* fgets() takes no more than there is room for and no character behind a newline;
\* with what it leaves, this is all there was.  If it stops before the room is used up
\* and not at a newline, it leaves nothing.
LEMMA FgetsFacts ==
  ASSUME NEW n \in Nat, n > 1, rest \in Seq(STRING), NEW got, got = Fgets(n),
         NEW left, left = SubSeq(rest, Len(got) + 1, Len(rest))
  PROVE  /\ got \in Seq(STRING) /\ left \in Seq(STRING) /\ got \o left = rest
         /\ Len(got) <= n - 1
         /\ \A j \in 1 .. Len(got) - 1 : got[j] # "n"
         /\ Len(got) < n - 1 /\ (got = <<>> \/ Last(got) # "n") => left = <<>>
<1>0. Len(rest) \in Nat /\ \A i \in 1 .. Len(rest) : rest[i] \in STRING
  BY LenProperties, ElementOfSeq
<1>1. PICK k \in 0 .. Len(rest) : Taken(rest, n, k) /\ got = SubSeq(rest, 1, k)
  <2> DEFINE c == CHOOSE k \in 0 .. Len(rest) : Taken(rest, n, k)
  <2>1. c \in 0 .. Len(rest) /\ Taken(rest, n, c)
    BY TakenSome
  <2>2. Fgets(n) = SubSeq(rest, 1, c)
    BY DEF Fgets, Taken
  <2> HIDE DEF c
  <2> QED BY <2>1, <2>2
<1>2. /\ got \in Seq(STRING) /\ Len(got) = k
      /\ \A i \in 1 .. k : got[i] = rest[i]
  <2>1. 1 \in Int /\ k \in Int /\ \A i \in 1 .. k : rest[i] \in STRING
    BY <1>0, <1>1
  <2>2. /\ got \in Seq(STRING)
        /\ Len(got) = IF 1 <= k THEN k - 1 + 1 ELSE 0
        /\ \A i \in 1 .. k - 1 + 1 : got[i] = rest[1 + i - 1]
    BY <1>1, <2>1, SubSeqProperties
  <2>3. (IF 1 <= k THEN k - 1 + 1 ELSE 0) = k
    BY <1>0, <1>1
  <2>4. \A i \in 1 .. k : i \in 1 .. k - 1 + 1 /\ 1 + i - 1 = i
    BY <1>0, <1>1
  <2> QED BY <2>2, <2>3, <2>4
<1>3. left = SubSeq(rest, k + 1, Len(rest))
  BY <1>2
<1>4. left \in Seq(STRING)
  <2>1. k + 1 \in Int /\ Len(rest) \in Int /\ \A i \in k + 1 .. Len(rest) : rest[i] \in STRING
    BY <1>0, <1>1
  <2> QED BY <1>3, <2>1, SubSeqProperties
<1>5. got \o left = rest
  <2>1. /\ 1 \in 1 .. Len(rest) + 1 /\ k \in 1 - 1 .. Len(rest) /\ Len(rest) \in k .. Len(rest)
    BY <1>0, <1>1
  <2>2. SubSeq(rest, 1, k) \o SubSeq(rest, k + 1, Len(rest)) = SubSeq(rest, 1, Len(rest))
    BY <2>1, ConcatAdjacentSubSeq
  <2>3. SubSeq(rest, 1, Len(rest)) = rest
    BY SubSeqFull
  <2> QED BY <1>1, <1>3, <2>2, <2>3
<1>6. k <= n - 1
  <2>1. CASE k <= 1
    BY <2>1
  <2>2. CASE ~(k <= 1)
    <3>1. k - 1 \in 1 .. k - 1
      BY <1>1, <2>2
    <3>2. k - 1 < n - 1
      BY <1>1, <3>1 DEF Taken
    <3> QED BY <1>0, <1>1, <3>2
  <2> QED BY <2>1, <2>2
<1>7. ASSUME NEW j \in 1 .. Len(got) - 1 PROVE got[j] # "n"
  <2>1. j \in 1 .. k - 1 /\ j \in 1 .. k
    BY <1>0, <1>1, <1>2
  <2> QED BY <1>1, <1>2, <2>1 DEF Taken
<1>8. ASSUME Len(got) < n - 1, got = <<>> \/ Last(got) # "n" PROVE left = <<>>
  <2>1. k < n - 1
    BY <1>2, <1>8
  <2>2. k = Len(rest)
    <3>1. ASSUME k > 0, rest[k] = "n" PROVE FALSE
      <4>1. k \in 1 .. k
        BY <1>0, <1>1, <3>1
      <4>2. got[k] = "n" /\ Len(got) = k
        BY <1>2, <3>1, <4>1
      <4>3. got # <<>>
        <5>1. k # 0
          BY <3>1
        <5> QED BY <4>2, <5>1
      <4> QED BY <1>8, <4>2, <4>3 DEF Last
    <3>2. k # n - 1
      BY <1>0, <1>1, <2>1
    <3> QED BY <1>1, <3>1, <3>2 DEF Taken
  <2>3. Len(rest) \in Int /\ k + 1 \in Int /\ Len(rest) < k + 1
    BY <1>0, <2>2
  <2> QED BY <1>3, <2>3, SubSeqEmpty
<1>9. Len(got) <= n - 1
  BY <1>2, <1>6
<1> QED BY <1>2, <1>4, <1>5, <1>7, <1>8, <1>9

-----------------------------------------------------------------------------
(* The inductive invariant.                                                *)

\* What the loop has in hand while it goes on: the buffer has room for a character,
\* and holds no complete line.
BufferInv ==
  /\ pc \in {"start", "top", "read"} => Len(buf) < BUFSIZ - 1
  /\ \A j \in 1 .. Len(buf) : buf[j] # "n"

\* All the input that is given is in the lines that were run, in the buffer, or not
\* yet read, and the end of the file is seen only when it is all read.
InputInv ==
  /\ ran \in Seq(Seq(STRING))
  /\ FlattenSeq(ran) \o buf \o rest = given
  /\ eintr = 0 /\ pc # "failed" => given = script
  /\ eof => rest = <<>>
  /\ pc = "done" => rest = <<>>

\* The prompts printed: those of the lines that were run, and that of the line in hand
\* unless it is still to come.
PromptInv ==
  /\ prompts = IF quiet THEN 0 ELSE Len(ran) + (IF needprompt THEN 0 ELSE 1)
  /\ pc = "read" => quiet \/ ~needprompt

LoopInv == TypeOK /\ BufferInv /\ InputInv /\ PromptInv

\* The invariant says what is claimed of the loop.
LEMMA LoopInvImplies == LoopInv => LoopRight
<1> SUFFICES ASSUME LoopInv PROVE LoopRight
  OBVIOUS
<1>1. NothingLost
  BY DEF LoopInv, BufferInv, InputInv, NothingLost, Contains
<1>2. PromptPerLine
  <2> SUFFICES ASSUME pc = "read" PROVE prompts = IF quiet THEN 0 ELSE Len(ran) + 1
    BY DEF PromptPerLine
  <2>1. CASE quiet
    BY <2>1 DEF LoopInv, PromptInv
  <2>2. CASE ~quiet
    <3>1. ~needprompt
      BY <2>2 DEF LoopInv, PromptInv
    <3> QED BY <2>2, <3>1 DEF LoopInv, PromptInv
  <2> QED BY <2>1, <2>2
<1> QED BY <1>1, <1>2 DEF LoopRight, LoopInv

\* It holds when the shell starts.
LEMMA LoopInit == Init => LoopInv
<1> SUFFICES ASSUME Init PROVE LoopInv
  OBVIOUS
<1> USE ShellAssumption
<1>0. /\ given \in Seq(STRING) /\ given = script /\ rest = given
      /\ buf = <<>> /\ ran = <<>> /\ Len(buf) = 0 /\ Len(ran) = 0
  BY EmptySeq DEF Init
<1>1. TypeOK
  <2>1. buf \in Seq(STRING) /\ Len(buf) < BUFSIZ
    BY <1>0, EmptySeq
  <2>2. 0 \in 0 .. MAX_EINTR
    OBVIOUS
  <2> QED BY <1>0, <2>1, <2>2 DEF Init, TypeOK
<1>2. BufferInv
  BY <1>0 DEF BufferInv
<1>3. InputInv
  <2>1. <<>> \o <<>> \o rest = rest /\ ran \in Seq(Seq(STRING))
    BY <1>0, ConcatEmptySeq, EmptySeq
  <2> QED BY <1>0, <2>1, FlattenNone DEF Init, InputInv
<1>4. PromptInv
  BY <1>0 DEF Init, PromptInv
<1> QED BY <1>1, <1>2, <1>3, <1>4 DEF LoopInv

\* Characters may be put together in any order.
LEMMA RegroupText ==
  ASSUME NEW s \in Seq(STRING), NEW t \in Seq(STRING), NEW u \in Seq(STRING)
  PROVE  (s \o t) \o u = s \o (t \o u)
BY ConcatAssociative

\* What Read does with the characters fgets() gave, got, and those it left.
ReadStep(got, b) ==
  /\ pc = "read"
  /\ rest' = SubSeq(rest, Len(got) + 1, Len(rest))
  /\ eof' = (Len(got) < Room - 1 /\ (got = <<>> \/ Last(got) # "n"))
  /\ IF Complete(b)
     THEN /\ ran' = Append(ran, b)
          /\ buf' = <<>> /\ needprompt' = TRUE
          /\ pc' \in {"aborted", "top"}
     ELSE /\ buf' = b /\ pc' = "top"
          /\ UNCHANGED <<ran, needprompt>>
  /\ UNCHANGED <<script, given, quiet, prompts, eintr>>

\* The characters come to the end of the buffer, and what is not a complete line has
\* no newline and leaves room for more.
LEMMA BufferFacts ==
  ASSUME LoopInv, NEW got, NEW b, got = Fgets(Room), b = buf \o got, pc = "read"
  PROVE  /\ Room \in Nat /\ Room > 1
         /\ got \in Seq(STRING) /\ b \in Seq(STRING) /\ Len(b) <= BUFSIZ - 1
         /\ ~Complete(b) => Len(b) < BUFSIZ - 1 /\ \A j \in 1 .. Len(b) : b[j] # "n"
<1> USE ShellAssumption
<1>0. /\ rest \in Seq(STRING) /\ buf \in Seq(STRING) /\ Len(buf) \in Nat
      /\ Len(buf) < BUFSIZ - 1 /\ \A j \in 1 .. Len(buf) : buf[j] # "n"
  BY LenProperties DEF LoopInv, TypeOK, BufferInv
<1>1. Room \in Nat /\ Room > 1 /\ Room = BUFSIZ - Len(buf)
  BY <1>0 DEF Room
<1>2. /\ got \in Seq(STRING) /\ Len(got) <= Room - 1
      /\ \A j \in 1 .. Len(got) - 1 : got[j] # "n"
  BY <1>0, <1>1, FgetsFacts
<1>3. Len(got) \in Nat
  BY <1>2, LenProperties
<1>4. /\ b \in Seq(STRING) /\ Len(b) = Len(buf) + Len(got)
      /\ \A i \in 1 .. Len(buf) + Len(got) : b[i] = IF i <= Len(buf) THEN buf[i] ELSE got[i - Len(buf)]
  BY <1>0, <1>2, ConcatProperties
<1>5. Len(b) <= BUFSIZ - 1
  BY <1>0, <1>1, <1>2, <1>3, <1>4
<1>6. ASSUME ~Complete(b)
      PROVE  Len(b) < BUFSIZ - 1 /\ \A j \in 1 .. Len(b) : b[j] # "n"
  <2>1. Len(b) # BUFSIZ - 1 /\ (b = <<>> \/ Last(b) # "n")
    BY <1>6 DEF Complete
  <2>2. Len(b) \in Nat /\ Len(b) < BUFSIZ - 1
    <3>1. Len(b) \in Nat
      BY <1>4, LenProperties
    <3> QED BY <1>5, <2>1, <3>1
  <2>3. ASSUME NEW j \in 1 .. Len(b) PROVE b[j] # "n"
    <3>1. CASE j <= Len(buf)
      <4>1. j \in 1 .. Len(buf) /\ j \in 1 .. Len(buf) + Len(got)
        BY <1>0, <1>3, <1>4, <3>1
      <4> QED BY <1>0, <1>4, <3>1, <4>1
    <3>2. CASE ~(j <= Len(buf)) /\ j # Len(b)
      <4>1. j \in 1 .. Len(buf) + Len(got) /\ j - Len(buf) \in 1 .. Len(got) - 1
        BY <1>0, <1>3, <1>4, <3>2
      <4> QED BY <1>2, <1>4, <3>2, <4>1
    <3>3. CASE j = Len(b)
      <4>1. b # <<>>
        BY <2>2, <2>3, <3>3
      <4> QED BY <2>1, <3>3, <4>1 DEF Last
    <3> QED BY <3>1, <3>2, <3>3
  <2> QED BY <2>2, <2>3
<1> QED BY <1>1, <1>2, <1>4, <1>5, <1>6

\* Read keeps the invariant.
LEMMA ReadInv ==
  ASSUME LoopInv, NEW got, NEW b, got = Fgets(Room), b = buf \o got, ReadStep(got, b)
  PROVE  LoopInv'
<1> USE ShellAssumption
<1>0. pc = "read"
  BY DEF ReadStep
<1>1. /\ Room \in Nat /\ Room > 1
      /\ got \in Seq(STRING) /\ b \in Seq(STRING) /\ Len(b) <= BUFSIZ - 1
      /\ ~Complete(b) => Len(b) < BUFSIZ - 1 /\ \A j \in 1 .. Len(b) : b[j] # "n"
  BY <1>0, BufferFacts
<1>2. /\ rest \in Seq(STRING) /\ buf \in Seq(STRING)
      /\ ran \in Seq(Seq(STRING)) /\ given \in Seq(STRING)
      /\ FlattenSeq(ran) \o buf \o rest = given
  BY DEF LoopInv, TypeOK, InputInv
<1>e. eintr = 0 => given = script
  BY <1>0 DEF LoopInv, InputInv
<1>3. /\ rest' \in Seq(STRING) /\ got \o rest' = rest
      /\ eof' => rest' = <<>>
  <2>1. rest' = SubSeq(rest, Len(got) + 1, Len(rest))
    BY DEF ReadStep
  <2>2. eof' => Len(got) < Room - 1 /\ (got = <<>> \/ Last(got) # "n")
    BY DEF ReadStep
  <2>3. /\ rest' \in Seq(STRING) /\ got \o rest' = rest
        /\ Len(got) < Room - 1 /\ (got = <<>> \/ Last(got) # "n") => rest' = <<>>
    <3>1. Room \in Nat /\ Room > 1 /\ rest \in Seq(STRING)
      BY <1>1, <1>2
    <3> QED BY <2>1, <3>1, FgetsFacts, Zenon
  <2> QED BY <2>2, <2>3
<1>4. pc' \in {"aborted", "top"} /\ eof' \in BOOLEAN /\ UNCHANGED <<script, given, quiet, prompts, eintr>>
  BY DEF ReadStep
<1>5. FlattenSeq(ran) \o (b \o rest') = given
  <2> DEFINE f == FlattenSeq(ran)
  <2>1. f \in Seq(STRING)
    BY <1>2, FlattenType
  <2> HIDE DEF f
  <2>2. b \o rest' = buf \o (got \o rest')
    <3>1. buf \in Seq(STRING) /\ got \in Seq(STRING) /\ rest' \in Seq(STRING)
      BY <1>1, <1>2, <1>3
    <3>2. (buf \o got) \o rest' = buf \o (got \o rest')
      BY <3>1, RegroupText, Zenon
    <3> QED BY <3>2
  <2>3. f \o buf \o rest = f \o (buf \o rest)
    BY <1>2, <2>1, RegroupText
  <2> QED BY <1>2, <1>3, <2>2, <2>3 DEF f
<1>6. CASE Complete(b)
  <2>1. ran' = Append(ran, b) /\ buf' = <<>> /\ needprompt' = TRUE
    BY <1>6 DEF ReadStep
  <2>2. buf' \in Seq(STRING) /\ Len(buf') = 0
    BY <2>1, EmptySeq
  <2>3. TypeOK'
    <3>1. Len(buf') < BUFSIZ
      BY <2>2
    <3> QED BY <1>3, <1>4, <2>1, <2>2, <3>1 DEF LoopInv, TypeOK, Ended
  <2>4. BufferInv'
    BY <2>2 DEF BufferInv
  <2>5. InputInv'
    <3>1. ran' \in Seq(Seq(STRING))
      BY <1>1, <1>2, <2>1, AppendProperties
    <3>2. FlattenSeq(ran') = FlattenSeq(ran) \o b
      BY <1>1, <1>2, <2>1, FlattenAppend
    <3>3. FlattenSeq(ran) \in Seq(STRING) /\ FlattenSeq(ran') \in Seq(STRING)
      BY <1>2, <3>1, FlattenType
    <3>4. FlattenSeq(ran') \o buf' = FlattenSeq(ran')
      BY <2>1, <3>3, ConcatEmptySeq
    <3>5. (FlattenSeq(ran) \o b) \o rest' = FlattenSeq(ran) \o (b \o rest')
      <4>1. b \in Seq(STRING) /\ rest' \in Seq(STRING) /\ FlattenSeq(ran) \in Seq(STRING)
        BY <1>1, <1>3, <3>3
      <4> QED BY <4>1, RegroupText, Zenon
    <3>6. FlattenSeq(ran') \o buf' \o rest' = given'
      BY <1>4, <1>5, <3>2, <3>4, <3>5
    <3> QED BY <1>3, <1>4, <1>e, <3>1, <3>6 DEF InputInv
  <2>6. PromptInv'
    <3>1. quiet \/ ~needprompt
      BY <1>0 DEF LoopInv, PromptInv
    <3>2. Len(ran') = Len(ran) + 1 /\ Len(ran) \in Nat
      BY <1>1, <1>2, <2>1, AppendProperties, LenProperties
    <3>3. prompts = IF quiet THEN 0 ELSE Len(ran) + 1
      BY <3>1 DEF LoopInv, PromptInv
    <3>4. prompts' = IF quiet' THEN 0 ELSE Len(ran')
      BY <1>4, <3>2, <3>3
    <3>5. Len(ran') + 0 = Len(ran')
      BY <3>2
    <3> QED BY <1>4, <2>1, <3>4, <3>5 DEF PromptInv
  <2> QED BY <2>3, <2>4, <2>5, <2>6 DEF LoopInv
<1>7. CASE ~Complete(b)
  <2>1. ran' = ran /\ buf' = b /\ needprompt' = needprompt /\ pc' = "top"
    BY <1>7 DEF ReadStep
  <2>2. Len(b) \in Nat
    BY <1>1, LenProperties
  <2>3. TypeOK'
    <3>1. Len(b) < BUFSIZ
      BY <1>1, <2>2
    <3> QED BY <1>1, <1>3, <1>4, <2>1, <3>1 DEF LoopInv, TypeOK
  <2>4. BufferInv'
    BY <1>1, <1>7, <2>1 DEF BufferInv
  <2>5. InputInv'
    <3>1. FlattenSeq(ran) \in Seq(STRING)
      BY <1>2, FlattenType
    <3>2. (FlattenSeq(ran) \o b) \o rest' = FlattenSeq(ran) \o (b \o rest')
      <4>1. b \in Seq(STRING) /\ rest' \in Seq(STRING)
        BY <1>1, <1>3
      <4> QED BY <3>1, <4>1, RegroupText, Zenon
    <3>3. FlattenSeq(ran') \o buf' \o rest' = given'
      BY <1>4, <1>5, <2>1, <3>2
    <3> QED BY <1>2, <1>3, <1>4, <1>e, <2>1, <3>3 DEF InputInv
  <2>6. PromptInv'
    BY <1>4, <2>1 DEF LoopInv, PromptInv
  <2> QED BY <2>3, <2>4, <2>5, <2>6 DEF LoopInv
<1> QED BY <1>6, <1>7

\* What is behind a prefix can be taken off again.
LEMMA PrefixOfText ==
  ASSUME NEW s \in Seq(STRING), NEW t \in Seq(STRING)
  PROVE  SubSeq(s \o t, 1, Len(s \o t) - Len(t)) = s
<1> DEFINE st == s \o t
           n == Len(s)
<1>1. /\ n \in Nat /\ Len(t) \in Nat /\ st \in Seq(STRING) /\ Len(st) = n + Len(t)
      /\ \A i \in 1 .. n + Len(t) : st[i] = IF i <= n THEN s[i] ELSE t[i - n]
  BY ConcatProperties, LenProperties
<1>2. \A i \in 1 .. n + Len(t) : st[i] \in STRING
  BY <1>1, ElementOfSeq
<1> HIDE DEF st, n
<1>3. Len(st) - Len(t) = n /\ \A i \in 1 .. n : i \in 1 .. n + Len(t) /\ i <= n
  BY <1>1
<1> DEFINE p == SubSeq(st, 1, n)
<1>4. \A i \in 1 .. n : st[i] \in STRING
  BY <1>2, <1>3
<1>5. /\ p \in Seq(STRING) /\ Len(p) = (IF 1 <= n THEN n - 1 + 1 ELSE 0)
      /\ \A i \in 1 .. n - 1 + 1 : p[i] = st[1 + i - 1]
  BY <1>1, <1>4, SubSeqProperties
<1> HIDE DEF p
<1>6. Len(p) = n
  BY <1>1, <1>5
<1>7. ASSUME NEW i \in 1 .. n PROVE p[i] = s[i]
  <2>1. i \in 1 .. n - 1 + 1 /\ 1 + i - 1 = i
    BY <1>1
  <2> QED BY <1>1, <1>3, <1>5, <2>1
<1>8. p = s
  <2>1. Len(p) = Len(s) /\ \A i \in 1 .. Len(p) : p[i] = s[i]
    BY <1>6, <1>7 DEF n
  <2> QED BY <1>5, <2>1, SeqEqual
<1> QED BY <1>3, <1>8 DEF st, p

\* A read that fails loses what it has taken, and nothing else.
LEMMA FailedRead ==
  ASSUME LoopInv, FgetsFails
  PROVE  /\ rest' \in Seq(STRING) /\ given' \in Seq(STRING)
         /\ FlattenSeq(ran) \o buf \o rest' = given'
         /\ rest = <<>> => rest' = <<>>
         /\ \E got \in Seq(STRING) : got \o rest' = rest
<1> DEFINE a == FlattenSeq(ran) \o buf
<1>1. rest \in Seq(STRING) /\ a \o rest = given
  BY DEF LoopInv, TypeOK, InputInv
<1>2. a \in Seq(STRING)
  <2>1. FlattenSeq(ran) \in Seq(STRING) /\ buf \in Seq(STRING)
    BY FlattenType DEF LoopInv, InputInv, TypeOK
  <2> QED BY <2>1, ConcatProperties
<1> HIDE DEF a
<1>3. PICK k \in 0 .. Len(rest) :
        /\ rest' = SubSeq(rest, k + 1, Len(rest))
        /\ given' = SubSeq(given, 1, Len(given) - Len(rest)) \o rest'
  BY DEF FgetsFails
<1>4. given' = a \o rest'
  BY <1>1, <1>2, <1>3, PrefixOfText
<1>5. Len(rest) \in Nat /\ \A i \in 1 .. Len(rest) : rest[i] \in STRING
  BY <1>1, LenProperties, ElementOfSeq
<1>6. rest' \in Seq(STRING)
  <2>1. k + 1 \in Int /\ Len(rest) \in Int /\ \A i \in k + 1 .. Len(rest) : rest[i] \in STRING
    BY <1>5
  <2> QED BY <1>3, <2>1, SubSeqProperties
<1>7. given' \in Seq(STRING)
  BY <1>2, <1>4, <1>6, ConcatProperties
<1>8. ASSUME rest = <<>> PROVE rest' = <<>>
  <2>1. Len(rest) = 0
    BY <1>8
  <2>2. k + 1 \in Int /\ Len(rest) \in Int /\ Len(rest) < k + 1
    BY <2>1
  <2> QED BY <1>3, <2>2, SubSeqEmpty
<1>9. \E got \in Seq(STRING) : got \o rest' = rest
  <2> DEFINE g == SubSeq(rest, 1, k)
  <2>1. /\ 1 \in 1 .. Len(rest) + 1 /\ k \in 1 - 1 .. Len(rest) /\ Len(rest) \in k .. Len(rest)
    BY <1>5
  <2>2. g \o SubSeq(rest, k + 1, Len(rest)) = SubSeq(rest, 1, Len(rest))
    BY <1>1, <2>1, ConcatAdjacentSubSeq
  <2>3. SubSeq(rest, 1, Len(rest)) = rest
    BY <1>1, SubSeqFull
  <2>4. g \in Seq(STRING)
    <3>1. 1 \in Int /\ k \in Int /\ \A i \in 1 .. k : rest[i] \in STRING
      BY <1>5
    <3> QED BY <3>1, SubSeqProperties
  <2> HIDE DEF g
  <2>5. g \o rest' = rest
    BY <1>3, <2>2, <2>3
  <2> QED BY <2>4, <2>5
<1>10. FlattenSeq(ran) \o buf \o rest' = given'
  BY <1>4 DEF a
<1> QED BY <1>6, <1>7, <1>8, <1>9, <1>10

\* Every step of the shell keeps the invariant.
LEMMA LoopNext == LoopInv /\ [Next]_vars => LoopInv'
<1> SUFFICES ASSUME LoopInv, [Next]_vars PROVE LoopInv'
  OBVIOUS
<1> USE ShellAssumption
<1>t. /\ Len(ran) \in Nat /\ prompts \in Nat /\ eintr \in Nat
  BY LenProperties DEF LoopInv, TypeOK, InputInv
<1>1. CASE Start
  BY <1>1 DEF Start, LoopInv, TypeOK, BufferInv, InputInv, PromptInv, Ended
<1>2. CASE Top
  <2>0. UNCHANGED <<script, given, rest, buf, eof, quiet, ran, eintr>>
    BY <1>2 DEF Top
  <2>1. pc' \in {"done", "read"} /\ (pc' = "done" => eof) /\ pc = "top"
    BY <1>2 DEF Top
  <2>2. PromptInv' /\ prompts' \in Nat /\ needprompt' \in BOOLEAN
    <3>1. CASE eof
      BY <1>2, <2>0, <3>1 DEF Top, LoopInv, PromptInv, TypeOK
    <3>2. CASE ~eof
      <4>1. Prompt
        BY <1>2, <3>2 DEF Top
      <4>2. CASE needprompt /\ ~quiet
        <5>1. prompts' = prompts + 1 /\ needprompt' = FALSE
          BY <4>1, <4>2 DEF Prompt
        <5>2. prompts = Len(ran)
          BY <1>t, <4>2 DEF LoopInv, PromptInv
        <5>3. ~quiet' /\ ~needprompt' /\ prompts' = Len(ran') + 1 /\ prompts' \in Nat
          BY <1>t, <2>0, <4>2, <5>1, <5>2
        <5>4. PromptInv'
          BY <5>3 DEF PromptInv
        <5> QED BY <5>1, <5>3, <5>4
      <4>3. CASE ~(needprompt /\ ~quiet)
        BY <2>0, <4>1, <4>3 DEF Prompt, LoopInv, PromptInv, TypeOK
      <4> QED BY <4>2, <4>3
    <3> QED BY <3>1, <3>2
  <2>3. TypeOK'
    BY <2>0, <2>1, <2>2 DEF LoopInv, TypeOK, Ended
  <2>4. BufferInv'
    BY <2>0, <2>1 DEF LoopInv, BufferInv
  <2>5. InputInv'
    BY <2>0, <2>1 DEF LoopInv, InputInv
  <2> QED BY <2>2, <2>3, <2>4, <2>5 DEF LoopInv
<1>3. CASE Read
  <2>1. ReadStep(Fgets(Room), buf \o Fgets(Room))
    BY <1>3 DEF Read, ReadStep, Emptied
  <2> QED BY <2>1, ReadInv
<1>4. CASE ReadEnd
  BY <1>4 DEF ReadEnd, LoopInv, TypeOK, BufferInv, InputInv, PromptInv, Ended
<1>5. CASE ReadInterrupted \/ ReadFails
  <2>1. /\ rest' \in Seq(STRING) /\ given' \in Seq(STRING)
        /\ FlattenSeq(ran) \o buf \o rest' = given'
        /\ rest = <<>> => rest' = <<>>
    BY <1>5, FailedRead DEF ReadInterrupted, ReadFails
  <2>2. /\ UNCHANGED <<buf, eof, quiet, needprompt, prompts, ran>>
        /\ pc = "read" /\ pc' \in {"top", "failed"}
    BY <1>5 DEF ReadInterrupted, ReadFails
  <2>3. eintr' \in 0 .. MAX_EINTR /\ (pc' = "failed" \/ eintr' # 0)
    BY <1>5, <1>t DEF ReadInterrupted, ReadFails, LoopInv, TypeOK
  <2>4. TypeOK'
    BY <2>1, <2>2, <2>3 DEF LoopInv, TypeOK, Ended
  <2>5. BufferInv'
    BY <2>2 DEF LoopInv, BufferInv
  <2>6. InputInv'
    BY <2>1, <2>2, <2>3 DEF LoopInv, InputInv
  <2>7. PromptInv'
    BY <2>2 DEF LoopInv, PromptInv
  <2> QED BY <2>4, <2>5, <2>6, <2>7 DEF LoopInv
<1>6. CASE Over \/ UNCHANGED vars
  <2>1. UNCHANGED vars
    BY <1>6 DEF Over
  <2> QED BY <2>1 DEF vars, LoopInv, TypeOK, BufferInv, InputInv, PromptInv
<1> QED BY <1>1, <1>2, <1>3, <1>4, <1>5, <1>6 DEF Next

\* The shell reads every character once, but for those that a read had taken of a line
\* when it was interrupted, and prompts once per line: whatever the script, the size of
\* main()'s buffer and the interruptions.
THEOREM ShellLoopRight == Spec => []LoopRight
<1>1. Spec => []LoopInv
  BY LoopInit, LoopNext, PTL DEF Spec
<1> QED BY <1>1, LoopInvImplies, PTL

-----------------------------------------------------------------------------
(* The lines that are run.                                                 *)

\* Input is text, wherever it is.
TextInv ==
  /\ Text(buf) /\ Text(rest)
  /\ \A i \in 1 .. Len(ran) : Text(ran[i])

\* The shell has not gone on after a line without a token.
RunInv == pc \in {"start", "top", "read"} /\ ran # <<>> => ~NoArgs(Last(ran))

LinesInv == LoopInv /\ TextInv /\ RunInv

\* Parts of a text are text, and two texts make one.
LEMMA TextParts ==
  ASSUME NEW s \in Seq(STRING), NEW t \in Seq(STRING)
  PROVE  Text(s \o t) <=> Text(s) /\ Text(t)
<1> DEFINE st == s \o t
           n == Len(s)
           m == Len(t)
<1>1. /\ n \in Nat /\ m \in Nat /\ st \in Seq(STRING) /\ Len(st) = n + m
      /\ \A i \in 1 .. n + m : st[i] = IF i <= n THEN s[i] ELSE t[i - n]
  BY ConcatProperties, LenProperties
<1> HIDE DEF st, n, m
<1>2. ASSUME Text(st) PROVE Text(s) /\ Text(t)
  <2>1. ASSUME NEW i \in 1 .. n PROVE s[i] # NUL
    <3>1. i \in 1 .. n + m /\ i <= n
      BY <1>1
    <3> QED BY <1>1, <1>2, <3>1 DEF Text
  <2>2. ASSUME NEW i \in 1 .. m PROVE t[i] # NUL
    <3>1. n + i \in 1 .. n + m /\ ~(n + i <= n) /\ (n + i) - n = i
      BY <1>1
    <3> QED BY <1>1, <1>2, <3>1 DEF Text
  <2> QED BY <2>1, <2>2 DEF Text, n, m
<1>3. ASSUME Text(s), Text(t) PROVE Text(st)
  <2>1. ASSUME NEW i \in 1 .. n + m PROVE st[i] # NUL
    <3>1. CASE i <= n
      <4>1. i \in 1 .. n
        BY <1>1, <3>1
      <4> QED BY <1>1, <1>3, <3>1, <4>1 DEF Text, n
    <3>2. CASE ~(i <= n)
      <4>1. i - n \in 1 .. m
        BY <1>1, <3>2
      <4> QED BY <1>1, <1>3, <3>2, <4>1 DEF Text, m
    <3> QED BY <3>1, <3>2
  <2> QED BY <1>1, <2>1 DEF Text
<1> QED BY <1>2, <1>3 DEF st

\* The invariant holds when the shell starts.
LEMMA LinesInit == Init => LinesInv
<1> SUFFICES ASSUME Init PROVE LinesInv
  OBVIOUS
<1>1. script \in Scripts /\ rest = script /\ buf = <<>> /\ ran = <<>>
  BY DEF Init
<1>2. Len(buf) = 0 /\ Len(ran) = 0 /\ buf \in Seq(STRING)
  BY <1>1, EmptySeq
<1>3. TextInv
  <2>1. Text(rest)
    BY <1>1, ShellAssumption DEF Text
  <2>2. Text(buf)
    BY <1>2 DEF Text
  <2> QED BY <1>2, <2>1, <2>2 DEF TextInv
<1>4. RunInv
  BY <1>1 DEF RunInv
<1> QED BY <1>3, <1>4, LoopInit DEF LinesInv

\* A line that is run is text, and has a token if the shell goes on.
LEMMA ReadLines ==
  ASSUME LinesInv, Read
  PROVE  TextInv' /\ RunInv'
<1> DEFINE got == Fgets(Room)
           b == buf \o got
<1>0. /\ rest' = SubSeq(rest, Len(got) + 1, Len(rest)) /\ pc = "read"
      /\ IF Complete(b) THEN /\ ran' = Append(ran, b) /\ buf' = <<>>
                             /\ pc' = IF NoArgs(b) THEN "aborted" ELSE "top"
                        ELSE buf' = b /\ ran' = ran
  BY DEF Read, Emptied
<1>1. Room \in Nat /\ Room > 1 /\ got \in Seq(STRING) /\ b \in Seq(STRING)
  BY <1>0, BufferFacts DEF LinesInv
<1>2. rest \in Seq(STRING) /\ buf \in Seq(STRING) /\ ran \in Seq(Seq(STRING)) /\ Len(ran) \in Nat
  BY LenProperties DEF LinesInv, LoopInv, TypeOK, InputInv
<1>3. rest' \in Seq(STRING) /\ got \o rest' = rest
  BY <1>0, <1>1, <1>2, FgetsFacts
<1>t. Text(buf) /\ Text(rest) /\ \A i \in 1 .. Len(ran) : Text(ran[i])
  BY DEF LinesInv, TextInv
<1>r. ran # <<>> => ~NoArgs(Last(ran))
  BY <1>0 DEF LinesInv, RunInv
<1> HIDE DEF got
<1>4. Text(got) /\ Text(rest')
  BY <1>1, <1>3, <1>t, TextParts
<1>5. Text(b)
  BY <1>1, <1>2, <1>4, <1>t, TextParts
<1> HIDE DEF b
<1>6. CASE Complete(b)
  <2>1. ran' = Append(ran, b) /\ buf' = <<>> /\ pc' = IF NoArgs(b) THEN "aborted" ELSE "top"
    BY <1>0, <1>6
  <2>2. /\ Len(ran') = Len(ran) + 1 /\ ran'[Len(ran) + 1] = b
        /\ \A i \in 1 .. Len(ran) : ran'[i] = ran[i]
    BY <1>1, <1>2, <2>1, AppendProperties
  <2>3. Text(buf')
    <3>1. buf' \in Seq(STRING) /\ Len(buf') = 0
      BY <2>1, EmptySeq
    <3> QED BY <3>1 DEF Text
  <2>4. ASSUME NEW i \in 1 .. Len(ran') PROVE Text(ran'[i])
    <3>1. i \in 1 .. Len(ran) \/ i = Len(ran) + 1
      BY <1>2, <2>2
    <3> QED BY <1>5, <1>t, <2>2, <3>1
  <2>5. Last(ran') = b
    BY <2>2 DEF Last
  <2>6. RunInv'
    BY <2>1, <2>5 DEF RunInv
  <2> QED BY <1>4, <2>3, <2>4, <2>6 DEF TextInv
<1>7. CASE ~Complete(b)
  <2>1. buf' = b /\ ran' = ran
    BY <1>0, <1>7
  <2>2. TextInv'
    BY <1>4, <1>5, <1>t, <2>1 DEF TextInv
  <2>3. RunInv'
    BY <1>r, <2>1 DEF RunInv
  <2> QED BY <2>2, <2>3
<1> QED BY <1>6, <1>7

\* Every step of the shell keeps the invariant.
LEMMA LinesNext == LinesInv /\ [Next]_vars => LinesInv'
<1> SUFFICES ASSUME LinesInv, [Next]_vars PROVE LinesInv'
  OBVIOUS
<1>0. LoopInv'
  BY LoopNext DEF LinesInv
<1>1. CASE Read
  BY <1>0, <1>1, ReadLines DEF LinesInv
<1>2. CASE Start \/ Top \/ ReadEnd \/ ReadInterrupted \/ ReadFails \/ Over \/ UNCHANGED vars
  <2>1. UNCHANGED <<buf, ran>>
    BY <1>2 DEF Start, Top, ReadEnd, ReadInterrupted, ReadFails, Over, vars
  <2>2. pc' \in {"start", "top", "read"} => pc \in {"start", "top", "read"}
    BY <1>2 DEF Start, Top, ReadEnd, ReadInterrupted, ReadFails, Over, vars
  <2>3. Text(rest')
    <3>1. Text(rest)
      BY DEF LinesInv, TextInv
    <3>2. CASE ReadInterrupted \/ ReadFails
      <4>1. rest' \in Seq(STRING) /\ \E got \in Seq(STRING) : got \o rest' = rest
        BY <3>2, FailedRead DEF LinesInv, ReadInterrupted, ReadFails
      <4>2. PICK got \in Seq(STRING) : got \o rest' = rest
        BY <4>1
      <4>3. Text(got \o rest')
        BY <3>1, <4>2
      <4> QED BY <4>1, <4>2, <4>3, TextParts
    <3>3. CASE Start \/ Top \/ ReadEnd \/ Over \/ UNCHANGED vars
      <4>1. rest' = rest
        BY <3>3 DEF Start, Top, ReadEnd, Over, vars
      <4> QED BY <3>1, <4>1
    <3> QED BY <1>2, <3>2, <3>3
  <2>4. TextInv'
    BY <2>1, <2>3 DEF LinesInv, TextInv
  <2>5. RunInv'
    BY <2>1, <2>2 DEF LinesInv, RunInv
  <2> QED BY <1>0, <2>4, <2>5 DEF LinesInv
<1> QED BY <1>1, <1>2 DEF Next

\* The invariant says what is claimed of the lines.
LEMMA LinesInvImplies == LinesInv => LinesParsed
<1> SUFFICES ASSUME LinesInv PROVE LinesParsed
  OBVIOUS
<1>1. ASSUME NEW line \in Lines PROVE Text(line) /\ ~NoArgs(line)
  <2>1. pc = "top" /\ ran # <<>> /\ line = Last(ran)
    BY <1>1 DEF Lines
  <2>2. ran \in Seq(Seq(STRING)) /\ Len(ran) \in Nat /\ Len(ran) # 0
    BY <2>1, LenProperties, EmptySeq DEF LinesInv, LoopInv, InputInv
  <2>3. Len(ran) \in 1 .. Len(ran)
    BY <2>2
  <2>4. Text(Last(ran))
    BY <2>3 DEF LinesInv, TextInv, Last
  <2>5. ~NoArgs(Last(ran))
    BY <2>1 DEF LinesInv, RunInv
  <2> QED BY <2>1, <2>4, <2>5
<1>2. TokensCover
  <2>1. \A line \in Lines : Cover(line, Tokens(line, 0, Len(line)))
    BY <1>1, CoverFacts DEF Text
  <2> QED BY <2>1 DEF TokensCover
<1>3. ParsersSeeAll
  <2>1. \A line \in Lines : ParsedRight(line)
    BY <1>1, ParserFacts
  <2> QED BY <2>1 DEF ParsersSeeAll, ParsedRight
<1>4. ArgsRight
  <2>1. ASSUME NEW line \in Lines PROVE Args(line) # <<>>
    BY <1>1, ArgsSome DEF Text
  <2>2. ASSUME NEW line \in Lines, \A i \in DOMAIN line : ~isshellspecial(line[i])
        PROVE  Args(line) = WordsOf(line)
    <3>1. Plainly(line)
      BY <1>1, <2>2 DEF Plainly
    <3> QED BY <3>1, ArgsWords
  <2> QED BY <2>1, <2>2 DEF ArgsRight
<1> QED BY <1>2, <1>3, <1>4 DEF LinesParsed

\* Every line the shell runs is cut into tokens that cover it, visited token by token
\* by the loops of the parsers, and unquoted into the words a reader sees: whatever the
\* script, and wherever main()'s buffer cuts its lines.
THEOREM ShellLinesParsed == Spec => []LinesParsed
<1>1. Spec => []LinesInv
  BY LinesInit, LinesNext, PTL DEF Spec
<1> QED BY <1>1, LinesInvImplies, PTL
=============================================================================
